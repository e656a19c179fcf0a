----------------------------- MODULE Cancellation -----------------------------
(***************************************************************************)
(* deals/cancellation.py: a party cancels a funded Deal before pickup, or  *)
(* an administrator records a no-show.  Both settle the money, retire the  *)
(* codes and close the Deal in one transaction.  The capacity they give    *)
(* back belongs to the matching side and is not part of this model; nor is *)
(* the status `cancelled', which needs a funded Deal that collected        *)
(* nothing.                                                                *)
(***************************************************************************)
EXTENDS Handover, PayoutRelease

CONSTANTS
    Cutoff,  \* agreed_pickup_at - sender_free_cutoff_seconds
    LateBps, \* sender_late_compensation_bps
    LateCap  \* sender_late_compensation_cap_eur_cents

ASSUME CancellationAssumption ==
    /\ Cutoff \in Nat
    /\ LateBps \in 0..10000
    /\ LateCap \in Nat

Parties == {"sender", "traveler"}

MayCancel == pickupAt = NotYet /\ status \in PrePickup

Compensation(role) ==
    IF role = "sender" /\ now >= Cutoff
    THEN LateCompensation(Reward, LateBps, LateCap, Collected)
    ELSE 0

CancellationPlan(owed) ==
    PlanSettlement(Collected, Committed, Collected - owed, owed, FeeMode, Reward, Fee)

(* cancel_funded_deal.                                                     *)
Cancel(role) ==
    LET plan == CancellationPlan(Compensation(role))
    IN  /\ MayCancel
        /\ ApplySettlement(plan)
        /\ RetireLiveCodes
        /\ status' = IF plan.payout = 0 /\ plan.refund = Collected
                     THEN "refunded" ELSE "partially_refunded"
        /\ UNCHANGED <<now, recipient, pickupAt, released, deliveredAt, noShow, dispute>>
        /\ UNCHANGED releaseJob

(* record_no_show: once.  The refund follows the party unless overridden.  *)
RecordNoShow(refund) ==
    /\ ~noShow
    /\ MayCancel
    /\ noShow' = TRUE
    /\ IF refund
       THEN /\ ApplySettlement(CancellationPlan(0))
            /\ RetireLiveCodes
            /\ status' = "refunded"
       ELSE UNCHANGED <<status, code, payoutVars>>
    /\ UNCHANGED <<now, recipient, pickupAt, released, deliveredAt, dispute, releaseJob>>

CancellationNext ==
    \/ \E role \in Parties : Cancel(role)
    \/ \E refund \in BOOLEAN : RecordNoShow(refund)
=============================================================================
