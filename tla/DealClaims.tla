------------------------------ MODULE DealClaims ------------------------------
(***************************************************************************)
(* Statements the repository's documents and docstrings make about a       *)
(* funded Deal which its code does not keep.  Each is checked alone and    *)
(* found violated; the quoted places are in the README.                    *)
(***************************************************************************)
EXTENDS DealSystem

(* A party cannot open a second dispute once one has been decided          *)
(* (_assert_already_resolved).  Closing the decided one lifts the refusal. *)
NoSecondPartyDispute ==
    \A d, e \in DisputeIds :
        d < e /\ dispute[d].decided => ~dispute[e].byParty

(* Clearing a finance hold restores progression: a delivered Deal without  *)
(* a hold leaves its protection window, or a hold is opened again.  The    *)
(* jobs that met the hold have discharged themselves.                      *)
ClearedHoldRestoresProgress ==
    status = "protection_window" /\ ~hold ~> status # "protection_window" \/ hold

(* A reservation that never executed is undone by a release: cents stay    *)
(* reserved only for an instruction that is prepared or exposed.  A        *)
(* settlement cancels the prepared instruction and releases nothing.       *)
OnlyLiveInstructionsReserve ==
    reserved > 0 => instr \in Exposed \union {"prepared"}

(* An award decided inside the protection window waits for its deadline:   *)
(* once that has passed, and no hold is ever opened, it leaves             *)
(* not_eligible.  A partial award never does.                              *)
EarlyAwardIsReleased ==
    [](~hold) =>
        (payout.status = "not_eligible" /\ payout.amount > 0 /\ status \in {"completed", "partially_refunded"}
            ~> payout.status # "not_eligible")

(* A settlement is an eligibility basis of its own: an award that is       *)
(* eligible, unblocked and unheld can be prepared.  The rail's gate asks   *)
(* for a delivery and for an order without refunds.                        *)
EligibleAwardCanBePrepared ==
    Versioned /\ payout.status = "eligible" /\ ~ActiveDispute /\ ~hold /\ profileOK
        /\ ~payout.blocked /\ (Delivered => now >= ReleaseGateAt) => RailGate
=============================================================================
