---------------------------- MODULE PayoutRelease ----------------------------
(***************************************************************************)
(* The traveler's payout of one Deal: the release gate of                  *)
(* finance/payout_release.py and the two durable jobs that call it, the    *)
(* share a settlement writes, finance holds, the review of the manual      *)
(* profile, and the two manual rails (legacy, and the versioned DZD one of *)
(* finance/payout_manual.py).                                              *)
(*                                                                         *)
(* The Deal is funded by one capture of Reward + Fee.  A refund is counted *)
(* when it is raised; one the provider refuses goes back to pending and    *)
(* still counts.                                                           *)
(***************************************************************************)
EXTENDS DealLifecycle, Settlement

CONSTANTS
    Versioned,  \* Payout.snapshot_version > 0
    Reward,     \* the traveler's total, payout.funded_amount_eur_cents
    Fee,        \* the platform's total
    FeeMode,    \* partial_split_fee_mode frozen at funding
    FirstCheck  \* run_at of the payout_release_check job

ASSUME PayoutAssumption ==
    /\ Versioned \in BOOLEAN
    /\ Reward \in Nat \ {0}
    /\ Fee \in Nat
    /\ FeeMode \in FeeModes
    /\ FirstCheck \in Nat

VARIABLES
    payout,      \* the Payout row
    instr,       \* its latest PayoutAttempt
    reserved,    \* Sum of PayoutFundingAllocation rows not released
    refunded,    \* Sum of live PaymentRefund rows
    dispatched,  \* history: instructions an operator committed or completed
    hold,        \* an uncleared FinanceHold
    profileOK,   \* approved_profile answers yes
    expiryJob,   \* the row protection_expiry:<deal>
    checkJob     \* the row payout_release_check:<payout>

payoutVars == <<payout, instr, reserved, refunded, dispatched, hold, profileOK,
                expiryJob, checkJob>>

Captured == Reward + Fee

PayoutStatus == {"not_eligible", "eligible", "blocked", "scheduled", "processing",
                 "sent", "paid", "frozen", "cancelled"}
PayoutRow == [status: PayoutStatus, amount: 0..Captured, eligible: BOOLEAN, blocked: BOOLEAN]
Row(s, a, e, b) == [status |-> s, amount |-> a, eligible |-> e, blocked |-> b]

Instruction == {"none", "prepared", "committed", "sent", "succeeded", "cancelled"}
Exposed     == {"committed", "sent", "succeeded"}
Uncommitted == Instruction \ Exposed
GateJob     == {"none", "armed", "done"}

PayoutTypeOK ==
    /\ payout \in PayoutRow
    /\ instr \in Instruction
    /\ reserved \in 0..Captured
    /\ refunded \in 0..Captured
    /\ dispatched \in Nat
    /\ hold \in BOOLEAN
    /\ profileOK \in BOOLEAN
    /\ expiryJob \in GateJob
    /\ checkJob \in GateJob

(* ensure_payout_for_deal, or create_snapshot: only the versioned manual   *)
(* rail looks at the profile.                                              *)
PayoutInit ==
    /\ profileOK \in (IF Versioned THEN BOOLEAN ELSE {TRUE})
    /\ payout = Row("not_eligible", Reward, FALSE, ~profileOK)
    /\ instr = "none"
    /\ reserved = 0
    /\ refunded = 0
    /\ dispatched = 0
    /\ hold = FALSE
    /\ expiryJob = "none"
    /\ checkJob = "armed"
-----------------------------------------------------------------------------
(* What settlement reads: the cash still here and the traveler's money it  *)
(* can no longer reassign.                                                 *)
Collected == Captured - refunded

Committed ==
    IF payout.status = "paid" \/ instr \in Exposed THEN payout.amount ELSE 0

(* freeze_payout.                                                          *)
Frozen(p) ==
    IF p.status \in {"paid", "cancelled", "frozen"} THEN p
    ELSE Row("frozen", p.amount, p.eligible, p.blocked)

(* evaluate_payout_release: its early returns, in order.                   *)
BugDisputeAfterFloor ==
    CASE status = "refunded"           -> "deal_closed"
      [] ~Delivered                    -> "delivery_not_confirmed"
      [] now < ProtectionEndsAt        -> "protection_open"
      [] refunded > 0                  -> "financial_state"
      [] now < ReleaseGateAt           -> "floor_open"
      [] OTHER                         -> "decided"

ReleaseAnswer ==
    IF status = "refunded" THEN "deal_closed"
    ELSE IF ~Delivered THEN "delivery_not_confirmed"
    ELSE IF ActiveDispute THEN "frozen_by_dispute"
    ELSE IF now < ProtectionEndsAt THEN "protection_open"
    ELSE IF refunded > 0 THEN "financial_state"
    ELSE IF now < ReleaseGateAt THEN "floor_open"
    ELSE IF hold THEN "finance_hold_active"
    ELSE "decided"

(* The decision itself: refresh the block, then eligible or blocked unless *)
(* an instruction or an end is already under way.                          *)
Decided(p) ==
    LET blocked == Versioned /\ ~profileOK
    IN  IF p.status \in {"scheduled", "processing", "sent", "paid", "cancelled"}
        THEN Row(p.status, p.amount, p.eligible, blocked)
        ELSE Row(IF blocked THEN "blocked" ELSE "eligible", p.amount, TRUE, blocked)

EvaluateRelease ==
    /\ payout' = CASE ReleaseAnswer = "frozen_by_dispute" -> Frozen(payout)
                   [] ReleaseAnswer = "decided"           -> Decided(payout)
                   [] OTHER                               -> payout
    /\ IF ReleaseAnswer \in {"floor_open", "decided"} THEN CloseOut
       ELSE UNCHANGED status
    /\ UNCHANGED <<now, recipient, pickupAt, released, deliveredAt, noShow, dispute>>
    /\ UNCHANGED <<instr, reserved, refunded, dispatched, hold, profileOK>>

(* The protection_expiry job, never claimed before its run_at.  An answer  *)
(* that is early defers it, any other discharges it.  A handler whose lease*)
(* was requeued may run again after its row was settled, and then records  *)
(* its own outcome over it.                                                *)
RunExpiryJob ==
    /\ expiryJob # "none"
    /\ now >= ProtectionEndsAt
    /\ EvaluateRelease
    /\ expiryJob' = IF ReleaseAnswer \in {"protection_open", "floor_open"}
                    THEN "armed" ELSE "done"
    /\ UNCHANGED checkJob

(* The payout_release_check job, the safety net armed at funding.          *)
RunCheckJob ==
    /\ checkJob = "armed"
    /\ now >= FirstCheck
    /\ payout.status \in {"not_eligible", "frozen"}
    /\ EvaluateRelease
    /\ checkJob' = IF ReleaseAnswer \in {"delivery_not_confirmed", "protection_open", "floor_open"}
                   THEN "armed" ELSE "done"
    /\ UNCHANGED expiryJob

RetireCheckJob ==
    /\ checkJob = "armed"
    /\ now >= FirstCheck
    /\ payout.status \notin {"not_eligible", "frozen"}
    /\ checkJob' = "done"
    /\ UNCHANGED <<lifecycleVars, payout, instr, reserved, refunded, dispatched, hold,
                   profileOK, expiryJob>>

(* review_profile, and the console's re-evaluation after an approval: a    *)
(* second transaction, so anything may happen between the two.             *)
ReviewProfile(approved) ==
    /\ Versioned
    /\ profileOK' = approved
    /\ UNCHANGED <<lifecycleVars, payout, instr, reserved, refunded, dispatched, hold,
                   expiryJob, checkJob>>

ReviewedRelease ==
    /\ Versioned
    /\ EvaluateRelease
    /\ UNCHANGED <<expiryJob, checkJob>>

(* open_hold and clear_hold: a hold is a row beside the payout; opening    *)
(* one moves nothing.                                                      *)
SetHold(open) ==
    /\ Versioned
    /\ hold' = open
    /\ UNCHANGED <<lifecycleVars, payout, instr, reserved, refunded, dispatched, profileOK,
                   expiryJob, checkJob>>
-----------------------------------------------------------------------------
(* apply_settlement, inside the caller's transaction: the refunds, then    *)
(* the traveler's share.  A prepared instruction is cancelled with its     *)
(* reservation still standing.                                             *)
BugIgnoreReservation(plan) ==
    /\ plan.refused = ""
    /\ Versioned => instr \in Uncommitted /\ payout.status \notin {"paid", "cancelled"}
                    /\ plan.payout <= Reward
    /\ plan.refund > 0 => refunded + plan.refund <= Captured

MaySettle(plan) ==
    /\ plan.refused = ""
    /\ Versioned => /\ instr \in Uncommitted
                    /\ payout.status \notin {"paid", "cancelled"}
                    /\ plan.payout <= Reward
    /\ plan.refund > 0 => refunded + reserved + plan.refund <= Captured

Awarded(p, amount) ==
    IF p.status = "paid" THEN p
    ELSE IF amount = 0
         THEN Row("cancelled", IF Versioned THEN 0 ELSE p.amount, p.eligible, p.blocked)
    ELSE IF Versioned /\ Delivered /\ now < ProtectionEndsAt
         THEN Row("not_eligible", amount, p.eligible, p.blocked)
    ELSE Row(IF p.blocked THEN "blocked" ELSE "eligible", amount, TRUE, p.blocked)

ApplySettlement(plan) ==
    /\ MaySettle(plan)
    /\ refunded' = refunded + plan.refund
    /\ payout' = Awarded(payout, plan.payout)
    /\ instr' = IF instr = "prepared" THEN "cancelled" ELSE instr
    /\ UNCHANGED <<reserved, dispatched, hold, profileOK, expiryJob, checkJob>>
-----------------------------------------------------------------------------
(* The versioned manual rail.  _gate is asked again at every forward step; *)
(* a refund closes the order, and _lock_payout_aggregate finds no live one.*)
BugGateSkipsFloor ==
    /\ Versioned
    /\ ~payout.blocked /\ payout.amount > 0 /\ payout.eligible
    /\ payout.status \in {"eligible", "scheduled", "processing", "sent"}
    /\ Delivered /\ now >= ProtectionEndsAt
    /\ ~ActiveDispute /\ ~hold /\ refunded = 0 /\ profileOK

RailGate ==
    /\ Versioned
    /\ ~payout.blocked /\ payout.amount > 0 /\ payout.eligible
    /\ payout.status \in {"eligible", "scheduled", "processing", "sent"}
    /\ Delivered /\ now >= ReleaseGateAt
    /\ ~ActiveDispute /\ ~hold
    /\ refunded = 0
    /\ profileOK

BesidesRail == <<lifecycleVars, refunded, hold, profileOK, expiryJob, checkJob>>
WithStatus(s) == Row(s, payout.amount, payout.eligible, payout.blocked)

BugPrepareAgain ==
    /\ RailGate
    /\ payout.status = "eligible"
    /\ Captured - refunded - reserved >= 0
    /\ instr' = "prepared"
    /\ reserved' = payout.amount
    /\ payout' = WithStatus("scheduled")
    /\ UNCHANGED <<dispatched, BesidesRail>>

Prepare ==
    /\ RailGate
    /\ payout.status = "eligible"
    /\ instr \in {"none", "cancelled"}
    /\ Captured - refunded - reserved >= payout.amount
    /\ instr' = "prepared"
    /\ reserved' = reserved + payout.amount
    /\ payout' = WithStatus("scheduled")
    /\ UNCHANGED <<dispatched, BesidesRail>>

Begin ==
    /\ RailGate
    /\ instr = "prepared" /\ payout.status = "scheduled"
    /\ instr' = "committed"
    /\ payout' = WithStatus("processing")
    /\ dispatched' = dispatched + 1
    /\ UNCHANGED <<reserved, BesidesRail>>

(* release asks no gate: it undoes a preparation, whatever stopped it.     *)
BugReleaseCommitted ==
    /\ Versioned
    /\ refunded = 0
    /\ instr \in {"prepared", "committed"}
    /\ instr' = "cancelled"
    /\ reserved' = reserved - payout.amount
    /\ payout' = IF payout.status = "scheduled" THEN WithStatus("eligible") ELSE payout
    /\ UNCHANGED <<dispatched, BesidesRail>>

ReleasePreparation ==
    /\ Versioned
    /\ refunded = 0
    /\ instr = "prepared"
    /\ instr' = "cancelled"
    /\ reserved' = reserved - payout.amount
    /\ payout' = IF payout.status = "scheduled" THEN WithStatus("eligible") ELSE payout
    /\ UNCHANGED <<dispatched, BesidesRail>>

Confirm(settled) ==
    /\ RailGate
    /\ instr \in {"committed", "sent"}
    /\ instr' = IF settled THEN "succeeded" ELSE "sent"
    /\ payout' = WithStatus(IF settled THEN "paid" ELSE "sent")
    /\ UNCHANGED <<reserved, dispatched, BesidesRail>>

(* complete_manual_payout: the legacy rail, under the payout row alone.    *)
CompleteManualPayout ==
    /\ ~Versioned
    /\ payout.status \in {"eligible", "scheduled", "processing"}
    /\ payout' = WithStatus("paid")
    /\ dispatched' = dispatched + 1
    /\ UNCHANGED <<instr, reserved, BesidesRail>>

PayoutNext ==
    \/ RunExpiryJob
    \/ RunCheckJob
    \/ RetireCheckJob
    \/ \E b \in BOOLEAN : ReviewProfile(b) \/ SetHold(b) \/ Confirm(b)
    \/ ReviewedRelease
    \/ Prepare
    \/ Begin
    \/ ReleasePreparation
    \/ CompleteManualPayout
=============================================================================
