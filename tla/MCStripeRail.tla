---------------------------- MODULE MCStripeRail ----------------------------
(* Two captures of one and three cents behind an award of two: every plan  *)
(* has two slices, and what is left of the second capture lets a refund or *)
(* a second attempt take as much again.                                    *)
EXTENDS StripeRail, TLC

MCCaptured == <<1, 3>>

AnyReader == Permutations(Readers)

(* The faults that are explored together: both readers hold a reading at   *)
(* once only while nothing was lost, killed or refunded, and an answer is  *)
(* not lost in the same behaviour as a worker.                             *)
BoundedFaults ==
    /\ spent.losses + spent.crashes <= 1
    /\ spent.losses + spent.crashes + spent.refunds > 0 =>
           Cardinality({r \in Readers : seen[r] # {}}) <= 1
=============================================================================
