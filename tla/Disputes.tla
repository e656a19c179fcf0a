------------------------------- MODULE Disputes -------------------------------
(***************************************************************************)
(* apps/disputes: opening a dispute freezes the payout and takes the Deal  *)
(* out of its flow; resolving it settles the money and retires the codes;  *)
(* closing it files it away and moves nothing.                             *)
(***************************************************************************)
EXTENDS Handover, PayoutRelease

WindowOpen ==
    \/ status \in InCarriage
    \/ Delivered /\ now < ProtectionEndsAt

AlreadyResolved == \E d \in DisputeIds : dispute[d].status = "resolved"

MayOpen(party) == party => (~AlreadyResolved /\ WindowOpen)

(* Dispute rows are created in order of their id.                          *)
IsNext(d) == /\ dispute[d].status = "absent"
             /\ \A e \in DisputeIds : e < d => dispute[e].status # "absent"

SetDispute(d, s, decided) ==
    dispute' = [dispute EXCEPT ![d] = [status |-> s, byParty |-> dispute[d].byParty,
                                       decided |-> decided]]

(* open_dispute.  A second call while one is active returns that row.      *)
OpenDispute(d, party) ==
    /\ ~ActiveDispute
    /\ IsNext(d)
    /\ MayOpen(party)
    /\ ApplyDisputed
    /\ dispute' = [dispute EXCEPT ![d] = [status |-> "open", byParty |-> party, decided |-> FALSE]]
    /\ payout' = Frozen(payout)
    /\ UNCHANGED <<now, recipient, pickupAt, released, deliveredAt, noShow>>
    /\ UNCHANGED <<instr, reserved, refunded, dispatched, hold, profileOK, expiryJob, checkJob>>
    /\ UNCHANGED handoverVars

SetDisputeStatus(d, s) ==
    /\ dispute[d].status \in ActiveStatus
    /\ s \in ActiveStatus
    /\ SetDispute(d, s, FALSE)
    /\ UNCHANGED <<now, status, recipient, pickupAt, released, deliveredAt, noShow>>
    /\ UNCHANGED <<handoverVars, payoutVars>>

(* close_dispute: from resolved or from any active state.                  *)
CloseDispute(d) ==
    /\ dispute[d].status \in ActiveStatus \union {"resolved"}
    /\ SetDispute(d, "closed", dispute[d].decided)
    /\ UNCHANGED <<now, status, recipient, pickupAt, released, deliveredAt, noShow>>
    /\ UNCHANGED <<handoverVars, payoutVars>>

(* _plan_resolution: all to the sender, nothing to the sender, or a split  *)
(* that returns some but not all, with or without a stated payout.         *)
PlanOf(refund, stated) ==
    PlanSettlement(Collected, Committed, refund, stated, FeeMode, Reward, Fee)

Resolutions ==
    {PlanOf(Collected, 0), PlanOf(0, Unstated)}
    \union {PlanOf(refund, stated) :
                refund \in (1..Captured) \ {Collected}, stated \in {Unstated} \union 0..Captured}

BugRefundedWhenAny(plan) ==
    IF plan.refund = 0 THEN "completed"
    ELSE IF plan.payout = 0 THEN "refunded"
    ELSE "partially_refunded"

ResolutionStatus(plan) ==
    IF plan.refund = 0 THEN "completed"
    ELSE IF plan.refund = Collected THEN "refunded"
    ELSE "partially_refunded"

(* resolve_dispute: one economic decision per dispute.                     *)
Resolve(d, plan) ==
    /\ dispute[d].status \in ActiveStatus
    /\ ApplySettlement(plan)
    /\ SetDispute(d, "resolved", TRUE)
    /\ RetireLiveCodes
    /\ ApplyDisputeResolved(ResolutionStatus(plan))
    /\ UNCHANGED <<now, recipient, pickupAt, released, deliveredAt, noShow, releaseJob>>

DisputesNext ==
    \E d \in DisputeIds :
        \/ \E party \in BOOLEAN : OpenDispute(d, party)
        \/ \E s \in ActiveStatus : SetDisputeStatus(d, s)
        \/ CloseDispute(d)
        \/ \E plan \in Resolutions : Resolve(d, plan)
=============================================================================
