------------------------------ MODULE DealSystem ------------------------------
(***************************************************************************)
(* One funded Deal and everything that acts on it: the two parties, the    *)
(* recipient's code, the administrators, the operator of the manual rail,  *)
(* the durable jobs and the clock.  lock_deal_lifecycle serialises them,   *)
(* so the system is the interleaving of the components' operations.        *)
(***************************************************************************)
EXTENDS Disputes, Cancellation

systemVars == <<lifecycleVars, handoverVars, payoutVars>>

SystemInit == LifecycleInit /\ HandoverInit /\ PayoutInit

ClockTicks == Tick /\ UNCHANGED <<handoverVars, payoutVars>>

(* submit_code on delivery confirms the Deal and, in the same transaction, *)
(* schedules the end of the protection window.                             *)
DeliverAndArm ==
    /\ ConfirmDelivery
    /\ expiryJob' = "armed"
    /\ UNCHANGED <<payout, instr, reserved, refunded, dispatched, hold, profileOK, checkJob>>

HandoverStep == HandoverNext /\ UNCHANGED payoutVars
PayoutStep   == PayoutNext /\ UNCHANGED handoverVars

SystemNext ==
    \/ ClockTicks
    \/ HandoverStep
    \/ DeliverAndArm
    \/ PayoutStep
    \/ DisputesNext
    \/ CancellationNext

SystemSpec == SystemInit /\ [][SystemNext]_systemVars

(* The worker loop keeps claiming due rows, and time passes.  Nobody else  *)
(* - no party, no administrator, no operator - is obliged to do anything.  *)
WorkerRunsRelease == releaseJob = "armed" /\ RunReleaseJob /\ UNCHANGED payoutVars
WorkerRunsExpiry  == expiryJob = "armed" /\ RunExpiryJob /\ UNCHANGED handoverVars
WorkerRunsCheck   == (RunCheckJob \/ RetireCheckJob) /\ UNCHANGED handoverVars

FairSystemSpec ==
    /\ SystemSpec
    /\ WF_systemVars(ClockTicks)
    /\ WF_systemVars(WorkerRunsRelease)
    /\ WF_systemVars(WorkerRunsExpiry)
    /\ WF_systemVars(WorkerRunsCheck)
-----------------------------------------------------------------------------
SystemTypeOK == LifecycleTypeOK /\ HandoverTypeOK /\ PayoutTypeOK

(* No delivery code can be used before the safety buffer has run: not by   *)
(* the job, a late reveal, nor a rotation.                                 *)
CodeOnlyAfterBuffer ==
    code["delivery"].state \in {"active", "used", "locked"} =>
        pickupAt # NotYet /\ now >= AvailableAt

(* A code is consumed exactly when the Deal records the handover it opens, *)
(* and no rotation, dispute or cancellation separates the two.             *)
HandoverMatchesCodes ==
    /\ code["pickup"].state = "used" <=> pickupAt # NotYet
    /\ code["delivery"].state = "used" <=> Delivered
    /\ Delivered => released

(* No code that could still open a handover outlives the Deal.             *)
NoLiveCodeOnEndedDeal ==
    status \in Closed \union {"completed"} => \A k \in Kinds : ~Live(k)

(* While a dispute is active the Deal is disputed and its payout is frozen *)
(* unless it had already ended; and a frozen payout's Deal is disputed.    *)
DisputeHoldsMoney ==
    /\ ActiveDispute => status = "disputed" /\ payout.status \in {"frozen", "paid", "cancelled"}
    /\ payout.status = "frozen" => status = "disputed"

(* Money leaves for the traveler only after a confirmed delivery, its      *)
(* protection window and its arrival floor; on the legacy rail, also when  *)
(* a settlement has awarded it.                                            *)
PaidOnlyWhenEarned ==
    Committed > 0 =>
        \/ Delivered /\ now >= ReleaseGateAt
        \/ ~Versioned /\ (status = "partially_refunded" \/ \E d \in DisputeIds : dispute[d].decided)

(* The status tells the truth about the sender's money.                    *)
StatusMatchesRefund ==
    /\ refunded = 0 <=> status \notin Closed
    /\ refunded = Captured <=> status = "refunded"
    /\ status = "refunded" => Committed = 0

(* What every way of ending a Deal must leave behind, be it a resolution,  *)
(* a cancellation, a no-show or a completed window: no code that still     *)
(* opens a handover, and the refund its status speaks of.                  *)
EndedDealIsClosed == NoLiveCodeOnEndedDeal /\ StatusMatchesRefund

(* One capture never backs two promises: live refunds, unreleased          *)
(* reservations and an exposed instruction fit inside it together.         *)
CaptureCoversPromises ==
    /\ refunded + reserved <= Captured
    /\ instr \in Exposed \union {"prepared"} => payout.amount <= reserved
    /\ refunded + Committed <= Captured

(* The traveler is instructed at most once, whatever was prepared,         *)
(* released, frozen, re-evaluated or settled in between.                   *)
PaidAtMostOnce ==
    /\ dispatched <= 1
    /\ payout.status = "paid" => dispatched = 1
    /\ instr \in Exposed => dispatched = 1

(* A refunded Deal never moves again and its payout never becomes          *)
(* releasable: no late job, dispute or operator revives it.                *)
RefundIsFinal ==
    [][/\ status \in Closed => status' = status /\ refunded' = refunded
       /\ (refunded > 0 /\ payout.status = "cancelled") => payout'.status = "cancelled"
      ]_systemVars

(* The money of the Deal is an escrow.                                     *)
EscrowOfDeal == INSTANCE Escrow WITH toSender <- refunded, toTraveler <- Committed
ImplementsEscrow == EscrowOfDeal!EscrowSpec

(* The buffer ends by itself: a picked up parcel does not wait in transit  *)
(* for anyone to ask for its code.                                         *)
BufferEnds == status = "in_transit" ~> status # "in_transit"

(* The protection window ends by itself, as long as no finance hold is     *)
(* ever opened.                                                            *)
ProtectionEnds ==
    [](~hold) => (status = "protection_window" ~> status # "protection_window")
=============================================================================
