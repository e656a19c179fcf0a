------------------------------ MODULE DealProofs ------------------------------
(***************************************************************************)
(* The codes of a Deal follow its lifecycle, whatever the buffer, the      *)
(* limits and the number of disputes, and whatever the payout does; its    *)
(* money is an escrow, an active dispute holds the traveler's payout, and  *)
(* a refund is final.                                                      *)
(***************************************************************************)
EXTENDS DealSystem, SettlementProofs

(* Beside the three invariants: a parcel in carriage was picked up, a code *)
(* is released only after that, and a live code has a lockout left.        *)
CarriageFollowsPickup == status \in InCarriage => pickupAt # NotYet
ReleaseFollowsPickup  == released => pickupAt # NotYet
LockoutsLeft          == \A k \in Kinds : Live(k) => code[k].lockouts < MaxLockouts

CodesIInv ==
    /\ LifecycleTypeOK
    /\ HandoverTypeOK
    /\ CarriageFollowsPickup
    /\ ReleaseFollowsPickup
    /\ LockoutsLeft
    /\ HandoverMatchesCodes
    /\ CodeOnlyAfterBuffer
-----------------------------------------------------------------------------
(* The rows the operations write.                                          *)
LEMMA FreshRow ==
    ASSUME NEW s \in CodeState, NEW m \in BOOLEAN
    PROVE  /\ Fresh(s, m) \in Code
           /\ Fresh(s, m).state = s
           /\ Fresh(s, m).lockouts = 0
  <1>1. 0 \in 0..MaxFailed /\ 0 \in 0..MaxLockouts /\ 0 \in 0..(MaxTime + Lockout)
    BY LifecycleAssumption, HandoverAssumption, SMT
  <1> QED BY <1>1, Zenon DEF Fresh, Code

LEMMA UsedRow ==
    ASSUME NEW row \in Code
    PROVE  /\ Used(row) \in Code
           /\ Used(row).state = "used"
  <1>1. 0 \in 0..MaxFailed /\ 0 \in 0..(MaxTime + Lockout)
    BY LifecycleAssumption, HandoverAssumption, SMT
  <1>2. "used" \in CodeState
    BY Zenon DEF CodeState
  <1> QED BY <1>1, <1>2, Zenon DEF Used, Code

LEMMA CancelledRow ==
    ASSUME NEW row \in Code
    PROVE  /\ [row EXCEPT !.state = "cancelled"] \in Code
           /\ [row EXCEPT !.state = "cancelled"].state = "cancelled"
  <1>1. "cancelled" \in CodeState
    BY Zenon DEF CodeState
  <1> QED BY <1>1, Zenon DEF Code

LEMMA ActiveRow ==
    ASSUME NEW row \in Code, NEW m \in BOOLEAN
    PROVE  /\ [row EXCEPT !.state = "active", !.mailed = m] \in Code
           /\ [row EXCEPT !.state = "active", !.mailed = m].state = "active"
           /\ [row EXCEPT !.state = "active", !.mailed = m].lockouts = row.lockouts
  <1>1. "active" \in CodeState
    BY Zenon DEF CodeState, LiveState
  <1> QED BY <1>1, Zenon DEF Code

LEMMA FailedRow ==
    ASSUME NEW row \in Code, row.state = "active", row.lockouts < MaxLockouts,
           now \in 0..MaxTime
    PROVE  /\ AfterFailure(row) \in Code
           /\ \/ AfterFailure(row).state = "active" /\ AfterFailure(row).lockouts < MaxLockouts
              \/ AfterFailure(row).state = "locked"
  <1>1. row.failed \in 0..MaxFailed /\ row.lockouts \in 0..MaxLockouts
    BY Zenon DEF Code
  <1>2. PICK failed, lockouts, until :
            failed = row.failed + 1 /\ lockouts = row.lockouts + 1 /\ until = now + Lockout
    OBVIOUS
  <1>3. /\ lockouts \in 0..MaxLockouts
        /\ 0 \in 0..MaxFailed
        /\ until \in 0..(MaxTime + Lockout)
    BY <1>1, <1>2, LifecycleAssumption, HandoverAssumption, SMT
  <1>4. "locked" \in CodeState
    BY Zenon DEF CodeState
  <1>5. CASE failed < MaxFailed
    <2>1. failed \in 0..MaxFailed
      BY <1>1, <1>2, <1>5, HandoverAssumption, SMT
    <2>2. AfterFailure(row) = [row EXCEPT !.failed = failed]
      BY <1>2, <1>5, Zenon DEF AfterFailure
    <2> QED BY <2>1, <2>2, Zenon DEF Code
  <1>6. CASE ~(failed < MaxFailed) /\ lockouts >= MaxLockouts
    <2>1. AfterFailure(row)
            = [row EXCEPT !.failed = 0, !.lockouts = lockouts, !.state = "locked"]
      BY <1>2, <1>6, Zenon DEF AfterFailure
    <2> QED BY <1>3, <1>4, <2>1, Zenon DEF Code
  <1>7. CASE ~(failed < MaxFailed) /\ ~(lockouts >= MaxLockouts)
    <2>1. AfterFailure(row)
            = [row EXCEPT !.failed = 0, !.lockouts = lockouts, !.lockedUntil = until]
      BY <1>2, <1>7, Zenon DEF AfterFailure
    <2>2. lockouts < MaxLockouts
      BY <1>3, <1>7, HandoverAssumption, SMT
    <2> QED BY <1>3, <2>1, <2>2, Zenon DEF Code
  <1> QED BY <1>5, <1>6, <1>7
-----------------------------------------------------------------------------
(* What the code rows look like after the two ways of writing them.        *)
LEMMA SetCodeRow ==
    ASSUME code \in [Kinds -> Code], NEW k \in Kinds, NEW row \in Code, SetCode(k, row)
    PROVE  /\ code' \in [Kinds -> Code]
           /\ code'[k] = row
           /\ \A other \in Kinds \ {k} : code'[other] = code[other]
  BY Zenon DEF SetCode

LEMMA RetiredRows ==
    ASSUME code \in [Kinds -> Code], RetireLiveCodes
    PROVE  /\ code' \in [Kinds -> Code]
           /\ \A k \in Kinds : code'[k] = code[k] \/ (Live(k) /\ code'[k].state = "cancelled")
  <1>1. \A k \in Kinds : code'[k] = IF Live(k) THEN [code[k] EXCEPT !.state = "cancelled"]
                                    ELSE code[k]
    BY Zenon DEF RetireLiveCodes
  <1>2. \A k \in Kinds : code[k] \in Code
    BY Zenon
  <1>3. \A k \in Kinds : code'[k] \in Code
    BY <1>1, <1>2, CancelledRow, Zenon
  <1>4. code' \in [Kinds -> Code]
    BY <1>3, Zenon DEF RetireLiveCodes
  <1>5. \A k \in Kinds : code'[k] = code[k] \/ (Live(k) /\ code'[k].state = "cancelled")
    BY <1>1, <1>2, CancelledRow, Zenon
  <1> QED BY <1>4, <1>5, Zenon

(* Most operations leave the handover as it stands: they do not bring the  *)
(* Deal into carriage, and may at most retire its live codes.              *)
Quiet ==
    /\ UNCHANGED <<now, pickupAt, released, deliveredAt>>
    /\ status' \in DealStatus
    /\ status' \in InCarriage => status \in InCarriage
    /\ recipient' \in BOOLEAN /\ noShow' \in BOOLEAN
    /\ dispute' \in [DisputeIds -> Dispute]
    /\ UNCHANGED code \/ RetireLiveCodes
    /\ releaseJob' \in JobState

LEMMA QuietKeepsCodes == CodesIInv /\ Quiet => CodesIInv'
  <1> SUFFICES ASSUME CodesIInv, Quiet PROVE CodesIInv'
    OBVIOUS
  <1>1. /\ code' \in [Kinds -> Code]
        /\ \A k \in Kinds : code'[k] = code[k] \/ (Live(k) /\ code'[k].state = "cancelled")
    BY RetiredRows, Zenon DEF CodesIInv, HandoverTypeOK, Quiet
  <1>2. LifecycleTypeOK'
    BY Zenon DEF CodesIInv, LifecycleTypeOK, Quiet
  <1>3. HandoverTypeOK'
    BY <1>1, Zenon DEF HandoverTypeOK, Quiet
  <1>4. CarriageFollowsPickup' /\ ReleaseFollowsPickup'
    BY Zenon DEF CodesIInv, CarriageFollowsPickup, ReleaseFollowsPickup, Quiet
  <1>5. LockoutsLeft'
    BY <1>1, Zenon DEF CodesIInv, LockoutsLeft, Live, LiveState
  <1>6. "pickup" \in Kinds /\ "delivery" \in Kinds
    BY Zenon DEF Kinds
  <1>7. HandoverMatchesCodes'
    <2>1. \A k \in Kinds : code'[k].state = "used" <=> code[k].state = "used"
      BY <1>1, Zenon DEF Live, LiveState
    <2> QED BY <1>6, <2>1, Zenon DEF CodesIInv, HandoverMatchesCodes, Quiet, Delivered
  <1>8. CodeOnlyAfterBuffer'
    <2>1. \A k \in Kinds : code'[k].state \in {"active", "used", "locked"}
                               => code[k].state \in {"active", "used", "locked"}
      BY <1>1, Zenon DEF Live, LiveState
    <2> QED BY <1>6, <2>1, Zenon DEF CodesIInv, CodeOnlyAfterBuffer, Quiet, AvailableAt
  <1> QED BY <1>2, <1>3, <1>4, <1>5, <1>7, <1>8, Zenon DEF CodesIInv
-----------------------------------------------------------------------------
(* The quiet operations, component by component.                           *)
LEMMA PayoutLeavesTheDeal ==
    ASSUME PayoutStep
    PROVE  /\ UNCHANGED <<now, recipient, pickupAt, released, deliveredAt, noShow, dispute>>
           /\ UNCHANGED status \/ CloseOut
  <1> USE DEF PayoutStep
  <1>1. CASE RunExpiryJob
    BY <1>1, Zenon DEF RunExpiryJob, EvaluateRelease
  <1>2. CASE RunCheckJob
    BY <1>2, Zenon DEF RunCheckJob, EvaluateRelease
  <1>3. CASE RetireCheckJob
    BY <1>3, Zenon DEF RetireCheckJob, lifecycleVars
  <1>4. CASE \E b \in BOOLEAN : ReviewProfile(b) \/ SetHold(b) \/ Confirm(b)
    BY <1>4, Zenon DEF ReviewProfile, SetHold, Confirm, BesidesRail, lifecycleVars
  <1>5. CASE ReviewedRelease
    BY <1>5, Zenon DEF ReviewedRelease, EvaluateRelease
  <1>6. CASE Prepare \/ Begin \/ ReleasePreparation \/ CompleteManualPayout
    BY <1>6, Zenon DEF Prepare, Begin, ReleasePreparation, CompleteManualPayout,
                       BesidesRail, lifecycleVars
  <1> QED BY <1>1, <1>2, <1>3, <1>4, <1>5, <1>6, Zenon DEF PayoutNext

LEMMA PayoutIsQuiet == CodesIInv /\ PayoutStep => Quiet
  <1> SUFFICES ASSUME CodesIInv, PayoutStep PROVE Quiet
    OBVIOUS
  <1>1. /\ UNCHANGED <<now, recipient, pickupAt, released, deliveredAt, noShow, dispute>>
        /\ UNCHANGED status \/ CloseOut
    BY PayoutLeavesTheDeal
  <1>2. status' \in DealStatus /\ (status' \in InCarriage => status \in InCarriage)
    BY <1>1, Zenon DEF CloseOut, CodesIInv, LifecycleTypeOK, DealStatus, InCarriage
  <1> QED BY <1>1, <1>2, Zenon DEF Quiet, handoverVars, PayoutStep, CodesIInv, LifecycleTypeOK, HandoverTypeOK

LEMMA DisputeRow ==
    ASSUME NEW s \in DisputeStatus, NEW b \in BOOLEAN, NEW c \in BOOLEAN
    PROVE  [status |-> s, byParty |-> b, decided |-> c] \in Dispute
  BY Zenon DEF Dispute

LEMMA DisputesAreQuiet == CodesIInv /\ DisputesNext => Quiet
  <1> SUFFICES ASSUME CodesIInv, DisputesNext PROVE Quiet
    OBVIOUS
  <1>1. PICK d \in DisputeIds :
            \/ \E party \in BOOLEAN : OpenDispute(d, party)
            \/ \E s \in ActiveStatus : SetDisputeStatus(d, s)
            \/ CloseDispute(d)
            \/ \E award \in Resolutions : Resolve(d, award)
    BY Zenon DEF DisputesNext
  <1>2. dispute[d] \in Dispute /\ dispute[d].byParty \in BOOLEAN /\ dispute[d].decided \in BOOLEAN
    BY Zenon DEF CodesIInv, LifecycleTypeOK, Dispute
  <1>3. \A row \in Dispute : [dispute EXCEPT ![d] = row] \in [DisputeIds -> Dispute]
    BY Zenon DEF CodesIInv, LifecycleTypeOK
  <1>4. \A s \in DisputeStatus, decided \in BOOLEAN :
            SetDispute(d, s, decided) => dispute' \in [DisputeIds -> Dispute]
    BY <1>2, <1>3, DisputeRow, Zenon DEF SetDispute
  <1> USE DEF CodesIInv, LifecycleTypeOK, HandoverTypeOK
  <1>5. ASSUME NEW party \in BOOLEAN, OpenDispute(d, party)
        PROVE  Quiet
    <2>1. dispute' \in [DisputeIds -> Dispute]
      BY <1>3, <1>5, DisputeRow, Zenon DEF OpenDispute, DisputeStatus
    <2> QED BY <1>5, <2>1, Zenon DEF OpenDispute, ApplyDisputed, Quiet, handoverVars,
                                     DealStatus, InCarriage
  <1>6. ASSUME NEW s \in ActiveStatus, SetDisputeStatus(d, s)
        PROVE  Quiet
    <2>1. s \in DisputeStatus
      BY Zenon DEF ActiveStatus, DisputeStatus
    <2> QED BY <1>4, <1>6, <2>1, Zenon DEF SetDisputeStatus, Quiet, handoverVars
  <1>7. ASSUME CloseDispute(d)
        PROVE  Quiet
    BY <1>2, <1>4, <1>7, Zenon DEF CloseDispute, Quiet, handoverVars, DisputeStatus
  <1>8. ASSUME NEW award \in Resolutions, Resolve(d, award)
        PROVE  Quiet
    <2>1. status' \in DealStatus /\ status' \notin InCarriage
      BY <1>8, Zenon DEF Resolve, ApplyDisputeResolved, ResolutionStatus, DealStatus,
                         Closed, InCarriage
    <2> QED BY <1>4, <1>8, <2>1, Zenon DEF Resolve, Quiet, DisputeStatus
  <1> QED BY <1>1, <1>5, <1>6, <1>7, <1>8, Zenon

LEMMA CancellationIsQuiet == CodesIInv /\ CancellationNext => Quiet
  <1> SUFFICES ASSUME CodesIInv, CancellationNext PROVE Quiet
    OBVIOUS
  <1> USE DEF CodesIInv, LifecycleTypeOK, HandoverTypeOK
  <1>1. ASSUME NEW role \in Parties, Cancel(role)
        PROVE  Quiet
    BY <1>1, Zenon DEF Cancel, Quiet, DealStatus, Closed, InCarriage
  <1>2. ASSUME NEW refund \in BOOLEAN, RecordNoShow(refund)
        PROVE  Quiet
    <2>1. CASE refund
      BY <1>2, <2>1, Zenon DEF RecordNoShow, Quiet, DealStatus, Closed, InCarriage
    <2>2. CASE ~refund
      BY <1>2, <2>2, Zenon DEF RecordNoShow, Quiet
    <2> QED BY <2>1, <2>2
  <1> QED BY <1>1, <1>2, Zenon DEF CancellationNext

LEMMA PreparationsAreQuiet == CodesIInv /\ (SetRecipient \/ ReleaseJobHasNothingToDo) => Quiet
  <1> SUFFICES ASSUME CodesIInv, SetRecipient \/ ReleaseJobHasNothingToDo PROVE Quiet
    OBVIOUS
  <1> USE DEF CodesIInv, LifecycleTypeOK, HandoverTypeOK
  <1>1. CASE SetRecipient
    BY <1>1, Zenon DEF SetRecipient, ApplyPickupReady, Quiet, handoverVars, DealStatus,
                       PrePickup, InCarriage
  <1>2. CASE ReleaseJobHasNothingToDo
    BY <1>2, Zenon DEF ReleaseJobHasNothingToDo, Quiet, lifecycleVars, JobState
  <1> QED BY <1>1, <1>2
-----------------------------------------------------------------------------
(* The operations that move a code or the clock.                           *)
LEMMA TickKeepsCodes == CodesIInv /\ ClockTicks => CodesIInv'
  <1> SUFFICES ASSUME CodesIInv, ClockTicks PROVE CodesIInv'
    OBVIOUS
  <1>1. now \in 0..MaxTime /\ now < MaxTime /\ now' = now + 1
    BY Zenon DEF CodesIInv, LifecycleTypeOK, ClockTicks, Tick
  <1>2. now' \in 0..MaxTime
    BY <1>1, LifecycleAssumption, SMT
  <1>3. LifecycleTypeOK'
    BY <1>2, Zenon DEF CodesIInv, LifecycleTypeOK, ClockTicks, Tick
  <1>4. ASSUME pickupAt # NotYet, now >= AvailableAt
        PROVE  now' >= AvailableAt
    BY <1>1, <1>4, LifecycleAssumption, SMT DEF CodesIInv, LifecycleTypeOK, AvailableAt, NotYet
  <1>5. CodeOnlyAfterBuffer'
    <2>1. pickupAt' = pickupAt /\ AvailableAt' = AvailableAt
      BY Zenon DEF ClockTicks, Tick, AvailableAt
    <2> QED BY <1>4, <2>1, Zenon DEF CodesIInv, CodeOnlyAfterBuffer, ClockTicks, handoverVars
  <1> QED BY <1>3, <1>5, Zenon DEF CodesIInv, ClockTicks, Tick, handoverVars, HandoverTypeOK,
              CarriageFollowsPickup, ReleaseFollowsPickup, LockoutsLeft, Live,
              HandoverMatchesCodes, Delivered

LEMMA PromotedRow ==
    ASSUME CodesIInv
    PROVE  /\ Promoted \in Code
           /\ Promoted.state = "active"
           /\ Promoted.lockouts < MaxLockouts
  <1>1. recipient \in BOOLEAN /\ "delivery" \in Kinds /\ code["delivery"] \in Code
    BY Zenon DEF CodesIInv, LifecycleTypeOK, HandoverTypeOK, Kinds
  <1>2. CASE Live("delivery")
    BY <1>1, <1>2, ActiveRow, Zenon DEF CodesIInv, LockoutsLeft, Promoted
  <1>3. CASE ~Live("delivery")
    <2>1. "active" \in CodeState /\ 0 < MaxLockouts
      BY HandoverAssumption, SMT DEF CodeState, LiveState
    <2> QED BY <1>1, <1>3, <2>1, FreshRow, Zenon DEF Promoted
  <1> QED BY <1>2, <1>3

LEMMA PromoteKeepsCodes == CodesIInv /\ Promote /\ releaseJob' \in JobState => CodesIInv'
  <1> SUFFICES ASSUME CodesIInv, Promote, releaseJob' \in JobState PROVE CodesIInv'
    OBVIOUS
  <1> USE DEF Promote, ApplyDeliveryCodeReleased
  <1>1. /\ code' \in [Kinds -> Code]
        /\ code'["delivery"] = Promoted
        /\ code'["pickup"] = code["pickup"]
    <2>1. "delivery" \in Kinds /\ "pickup" \in Kinds \ {"delivery"}
      BY Zenon DEF Kinds
    <2> QED BY <2>1, PromotedRow, SetCodeRow, Zenon DEF CodesIInv, HandoverTypeOK
  <1>2. LifecycleTypeOK' /\ HandoverTypeOK'
    BY <1>1, Zenon DEF CodesIInv, LifecycleTypeOK, HandoverTypeOK, DealStatus, InCarriage
  <1>3. CarriageFollowsPickup' /\ ReleaseFollowsPickup'
    BY Zenon DEF CodesIInv, CarriageFollowsPickup, ReleaseFollowsPickup
  <1>4. LockoutsLeft'
    BY <1>1, PromotedRow, Zenon DEF CodesIInv, LockoutsLeft, Live, Kinds
  <1>5. HandoverMatchesCodes'
    BY <1>1, PromotedRow, Zenon DEF CodesIInv, HandoverMatchesCodes, Delivered
  <1>6. CodeOnlyAfterBuffer'
    BY Zenon DEF CodeOnlyAfterBuffer, AvailableAt
  <1> QED BY <1>2, <1>3, <1>4, <1>5, <1>6, Zenon DEF CodesIInv

LEMMA RotateKeepsCodes ==
    ASSUME CodesIInv, NEW k \in Kinds, Rotate(k)
    PROVE  CodesIInv'
  <1> DEFINE mailed == k = "delivery" /\ recipient
  <1>1. mailed \in BOOLEAN /\ "active" \in CodeState /\ 0 < MaxLockouts
    BY HandoverAssumption, SMT DEF CodesIInv, LifecycleTypeOK, CodeState, LiveState
  <1>2. PICK row \in Code : row = Fresh("active", mailed) /\ row.state = "active"
                            /\ row.lockouts = 0
    BY <1>1, FreshRow, Zenon
  <1>3. /\ code' \in [Kinds -> Code]
        /\ code'[k] = row
        /\ \A other \in Kinds \ {k} : code'[other] = code[other]
    BY <1>2, SetCodeRow, Zenon DEF Rotate, CodesIInv, HandoverTypeOK
  <1>4. UNCHANGED <<lifecycleVars, releaseJob>>
    BY Zenon DEF Rotate
  <1>5. k \in {"pickup", "delivery"}
    BY Zenon DEF Kinds
  <1>6. LifecycleTypeOK' /\ HandoverTypeOK'
    BY <1>3, <1>4, Zenon DEF CodesIInv, LifecycleTypeOK, HandoverTypeOK, lifecycleVars
  <1>7. CarriageFollowsPickup' /\ ReleaseFollowsPickup'
    BY <1>4, Zenon DEF CodesIInv, CarriageFollowsPickup, ReleaseFollowsPickup, lifecycleVars
  <1>8. LockoutsLeft'
    BY <1>1, <1>2, <1>3, Zenon DEF CodesIInv, LockoutsLeft, Live
  <1>9. HandoverMatchesCodes'
    <2>1. UNCHANGED <<pickupAt, released, Delivered>>
      BY <1>4, Zenon DEF Delivered, lifecycleVars
    <2>2. row.state # "used"
      BY <1>2, Zenon
    <2>3. CASE k = "pickup"
      <3>1. pickupAt = NotYet /\ code'["delivery"] = code["delivery"] /\ code'["pickup"] = row
        BY <1>3, <2>3, Zenon DEF Rotate, MayRotate, Kinds
      <3> QED BY <2>1, <2>2, <3>1, Zenon DEF CodesIInv, HandoverMatchesCodes
    <2>4. CASE k = "delivery"
      <3>1. ~Delivered /\ code'["pickup"] = code["pickup"] /\ code'["delivery"] = row
        BY <1>3, <2>4, Zenon DEF Rotate, MayRotate, Kinds
      <3> QED BY <2>1, <2>2, <3>1, Zenon DEF CodesIInv, HandoverMatchesCodes
    <2> QED BY <1>5, <2>3, <2>4
  <1>10. CodeOnlyAfterBuffer'
    BY <1>2, <1>3, <1>4, <1>5, Zenon DEF CodesIInv, CodeOnlyAfterBuffer, AvailableAt,
         CarriageFollowsPickup, lifecycleVars, Rotate, MayRotate, Kinds
  <1> QED BY <1>6, <1>7, <1>8, <1>9, <1>10, Zenon DEF CodesIInv

LEMMA SubmitWrongKeepsCodes ==
    ASSUME CodesIInv, NEW k \in Kinds, SubmitWrong(k)
    PROVE  CodesIInv'
  <1>1. code[k] \in Code /\ code[k].state = "active" /\ code[k].lockouts < MaxLockouts
    BY Zenon DEF SubmitWrong, Comparable, CodesIInv, HandoverTypeOK, LockoutsLeft, Live, LiveState
  <1>2. now \in 0..MaxTime
    BY Zenon DEF CodesIInv, LifecycleTypeOK
  <1>3. PICK row \in Code : /\ row = AfterFailure(code[k])
                            /\ row.state \in {"active", "locked"}
                            /\ row.state = "active" => row.lockouts < MaxLockouts
    BY <1>1, <1>2, FailedRow, Zenon
  <1>4. /\ code' \in [Kinds -> Code]
        /\ code'[k] = row
        /\ \A other \in Kinds \ {k} : code'[other] = code[other]
    BY <1>3, SetCodeRow, Zenon DEF SubmitWrong, CodesIInv, HandoverTypeOK
  <1>5. UNCHANGED <<lifecycleVars, releaseJob>>
    BY Zenon DEF SubmitWrong
  <1>6. LifecycleTypeOK' /\ HandoverTypeOK'
    BY <1>4, <1>5, Zenon DEF CodesIInv, LifecycleTypeOK, HandoverTypeOK, lifecycleVars
  <1>7. CarriageFollowsPickup' /\ ReleaseFollowsPickup'
    BY <1>5, Zenon DEF CodesIInv, CarriageFollowsPickup, ReleaseFollowsPickup, lifecycleVars
  <1>8. LockoutsLeft'
    BY <1>3, <1>4, Zenon DEF CodesIInv, LockoutsLeft, Live, LiveState
  <1>9. HandoverMatchesCodes'
    BY <1>1, <1>3, <1>4, <1>5, Zenon DEF CodesIInv, HandoverMatchesCodes, Delivered,
         lifecycleVars, Kinds
  <1>10. CodeOnlyAfterBuffer'
    BY <1>1, <1>3, <1>4, <1>5, Zenon DEF CodesIInv, CodeOnlyAfterBuffer, AvailableAt,
         lifecycleVars, Kinds
  <1> QED BY <1>6, <1>7, <1>8, <1>9, <1>10, Zenon DEF CodesIInv

LEMMA PickupKeepsCodes == CodesIInv /\ ConfirmPickup => CodesIInv'
  <1> SUFFICES ASSUME CodesIInv, ConfirmPickup PROVE CodesIInv'
    OBVIOUS
  <1> USE DEF ConfirmPickup, ApplyPickupConfirmed
  <1>1. code["pickup"] \in Code /\ code["delivery"] \in Code
    BY Zenon DEF CodesIInv, HandoverTypeOK, Kinds
  <1>2. Used(code["pickup"]) \in Code /\ Used(code["pickup"]).state = "used"
    BY <1>1, UsedRow, Zenon
  <1>3. now \in 0..MaxTime /\ now # NotYet
    BY LifecycleAssumption, SMT DEF CodesIInv, LifecycleTypeOK, NotYet
  <1>4. PICK row \in Code :
            /\ code'["delivery"] = row
            /\ row = code["delivery"] \/ (row.state = "buffered" /\ row.lockouts = 0)
            /\ row.state \in LiveState
    <2>1. code'["delivery"] = IF Live("delivery") THEN code["delivery"]
                              ELSE Fresh("buffered", FALSE)
      BY Zenon
    <2>2. "buffered" \in CodeState /\ "buffered" \in LiveState /\ FALSE \in BOOLEAN
      BY Zenon DEF CodeState, LiveState
    <2>3. /\ Fresh("buffered", FALSE) \in Code
          /\ Fresh("buffered", FALSE).state = "buffered"
          /\ Fresh("buffered", FALSE).lockouts = 0
      BY <2>2, FreshRow, Zenon
    <2> QED BY <1>1, <2>1, <2>2, <2>3, Zenon DEF Live
  <1>5. code'["pickup"] = Used(code["pickup"])
    BY Zenon
  <1>6. code' \in [Kinds -> Code]
    <2>1. code' = [k \in Kinds |-> code'[k]]
      BY Zenon DEF Kinds
    <2>2. \A k \in Kinds : code'[k] \in Code
      BY <1>2, <1>4, <1>5, Zenon DEF Kinds
    <2> QED BY <2>1, <2>2, Zenon
  <1>7. ~released /\ ~Delivered /\ code["delivery"].state \notin {"active", "used", "locked"}
    BY Zenon DEF CodesIInv, ReleaseFollowsPickup, HandoverMatchesCodes, CodeOnlyAfterBuffer
  <1>8. LifecycleTypeOK' /\ HandoverTypeOK'
    BY <1>3, <1>6, Zenon DEF CodesIInv, LifecycleTypeOK, HandoverTypeOK, JobState,
         DealStatus, InCarriage
  <1>9. CarriageFollowsPickup' /\ ReleaseFollowsPickup'
    BY <1>3, Zenon DEF CarriageFollowsPickup, ReleaseFollowsPickup, NotYet
  <1>10. LockoutsLeft'
    <2>1. 0 < MaxLockouts
      BY HandoverAssumption, SMT
    <2>2. code'["delivery"].lockouts < MaxLockouts
      BY <1>4, <2>1, Zenon DEF CodesIInv, LockoutsLeft, Live, Kinds
    <2> QED BY <1>2, <1>5, <2>2, Zenon DEF LockoutsLeft, Live, LiveState, Kinds
  <1>11. HandoverMatchesCodes'
    BY <1>2, <1>3, <1>4, <1>5, <1>7, Zenon DEF HandoverMatchesCodes, Delivered, NotYet, LiveState
  <1>12. CodeOnlyAfterBuffer'
    BY <1>4, <1>7, Zenon DEF CodeOnlyAfterBuffer, LiveState
  <1> QED BY <1>8, <1>9, <1>10, <1>11, <1>12, Zenon DEF CodesIInv

LEMMA DeliveryKeepsCodes == CodesIInv /\ ConfirmDelivery => CodesIInv'
  <1> SUFFICES ASSUME CodesIInv, ConfirmDelivery PROVE CodesIInv'
    OBVIOUS
  <1> USE DEF ConfirmDelivery, ApplyDeliveryConfirmed
  <1>1. PICK row \in Code : row = Used(code["delivery"]) /\ row.state = "used"
    BY UsedRow, Zenon DEF CodesIInv, HandoverTypeOK, Kinds
  <1>2. /\ code' \in [Kinds -> Code]
        /\ code'["delivery"] = row
        /\ code'["pickup"] = code["pickup"]
    <2>1. "delivery" \in Kinds /\ "pickup" \in Kinds \ {"delivery"}
      BY Zenon DEF Kinds
    <2> QED BY <1>1, <2>1, SetCodeRow, Zenon DEF CodesIInv, HandoverTypeOK
  <1>3. now \in 0..MaxTime /\ now # NotYet
    BY LifecycleAssumption, SMT DEF CodesIInv, LifecycleTypeOK, NotYet
  <1>4. released /\ code["delivery"].state = "active"
    BY Zenon DEF Comparable, DealAccepts
  <1>5. LifecycleTypeOK' /\ HandoverTypeOK'
    BY <1>2, <1>3, Zenon DEF CodesIInv, LifecycleTypeOK, HandoverTypeOK, DealStatus
  <1>6. CarriageFollowsPickup' /\ ReleaseFollowsPickup'
    BY Zenon DEF CodesIInv, CarriageFollowsPickup, ReleaseFollowsPickup, InCarriage
  <1>7. LockoutsLeft'
    BY <1>1, <1>2, Zenon DEF CodesIInv, LockoutsLeft, Live, LiveState, Kinds
  <1>8. HandoverMatchesCodes'
    BY <1>1, <1>2, <1>3, <1>4, Zenon DEF CodesIInv, HandoverMatchesCodes, Delivered, NotYet
  <1>9. CodeOnlyAfterBuffer'
    BY <1>4, Zenon DEF CodesIInv, CodeOnlyAfterBuffer, AvailableAt
  <1> QED BY <1>5, <1>6, <1>7, <1>8, <1>9, Zenon DEF CodesIInv
-----------------------------------------------------------------------------
LEMMA CodesInit == SystemInit => CodesIInv
  <1> SUFFICES ASSUME SystemInit PROVE CodesIInv
    OBVIOUS
  <1> USE DEF SystemInit, LifecycleInit, HandoverInit
  <1>1. "active" \in CodeState /\ "absent" \in CodeState /\ FALSE \in BOOLEAN
    BY Zenon DEF CodeState, LiveState
  <1>2. /\ code["pickup"] \in Code /\ code["pickup"].state = "active"
        /\ code["pickup"].lockouts = 0
        /\ code["delivery"] \in Code /\ code["delivery"].state = "absent"
    <2>1. code["pickup"] = Fresh("active", FALSE) /\ code["delivery"] = Fresh("absent", FALSE)
      BY Zenon DEF Kinds
    <2> QED BY <1>1, <2>1, FreshRow, Zenon
  <1>3. 0 \in 0..MaxTime /\ 0 < MaxLockouts
    BY LifecycleAssumption, HandoverAssumption, SMT
  <1>4. HandoverTypeOK
    BY <1>2, Zenon DEF HandoverTypeOK, Kinds, JobState
  <1>5. LifecycleTypeOK
    <2>1. NoDispute \in Dispute
      BY DisputeRow, Zenon DEF NoDispute, DisputeStatus
    <2>2. dispute \in [DisputeIds -> Dispute]
      BY <2>1, Zenon
    <2> QED BY <1>3, <2>2, Zenon DEF LifecycleTypeOK, DealStatus, PrePickup
  <1>6. CarriageFollowsPickup /\ ReleaseFollowsPickup
    BY Zenon DEF CarriageFollowsPickup, ReleaseFollowsPickup, InCarriage
  <1>7. LockoutsLeft
    BY <1>2, <1>3, Zenon DEF LockoutsLeft, Live, LiveState, Kinds
  <1>8. HandoverMatchesCodes /\ CodeOnlyAfterBuffer
    BY <1>2, Zenon DEF HandoverMatchesCodes, CodeOnlyAfterBuffer, Delivered
  <1> QED BY <1>4, <1>5, <1>6, <1>7, <1>8, Zenon DEF CodesIInv

LEMMA CodesNext == CodesIInv /\ [SystemNext]_systemVars => CodesIInv'
  <1> SUFFICES ASSUME CodesIInv, [SystemNext]_systemVars PROVE CodesIInv'
    OBVIOUS
  <1>1. CASE ClockTicks
    BY <1>1, TickKeepsCodes
  <1>2. CASE HandoverStep
    <2>1. CASE SetRecipient
      BY <2>1, PreparationsAreQuiet, QuietKeepsCodes
    <2>2. CASE RunReleaseJob
      <3>1. CASE ReleaseJobActs
        BY <3>1, PromoteKeepsCodes, Zenon DEF ReleaseJobActs, JobState
      <3> QED BY <2>2, <3>1, PreparationsAreQuiet, QuietKeepsCodes DEF RunReleaseJob
    <2>3. CASE RevealReleases
      BY <2>3, PromoteKeepsCodes, Zenon DEF RevealReleases, CodesIInv, HandoverTypeOK
    <2>4. CASE \E k \in Kinds : Rotate(k) \/ SubmitWrong(k)
      BY <2>4, RotateKeepsCodes, SubmitWrongKeepsCodes, Zenon
    <2>5. CASE ConfirmPickup
      BY <2>5, PickupKeepsCodes
    <2> QED BY <1>2, <2>1, <2>2, <2>3, <2>4, <2>5, Zenon DEF HandoverStep, HandoverNext
  <1>3. CASE DeliverAndArm
    BY <1>3, DeliveryKeepsCodes, Zenon DEF DeliverAndArm
  <1>4. CASE PayoutStep
    BY <1>4, PayoutIsQuiet, QuietKeepsCodes
  <1>5. CASE DisputesNext
    BY <1>5, DisputesAreQuiet, QuietKeepsCodes
  <1>6. CASE CancellationNext
    BY <1>6, CancellationIsQuiet, QuietKeepsCodes
  <1>7. CASE UNCHANGED systemVars
    <2>1. Quiet
      BY <1>7, Zenon DEF systemVars, lifecycleVars, handoverVars, Quiet, CodesIInv,
           LifecycleTypeOK, HandoverTypeOK
    <2> QED BY <2>1, QuietKeepsCodes
  <1> QED BY <1>1, <1>2, <1>3, <1>4, <1>5, <1>6, <1>7, Zenon DEF SystemNext

LEMMA CodesInvariant == SystemSpec => []CodesIInv
  BY CodesInit, CodesNext, PTL DEF SystemSpec

(* No delivery code can be used before the buffer has run, however long it *)
(* is and whoever rotates, reveals, disputes or cancels meanwhile.         *)
THEOREM CodesWaitForTheBuffer == SystemSpec => []CodeOnlyAfterBuffer
  <1>1. CodesIInv => CodeOnlyAfterBuffer
    BY DEF CodesIInv
  <1> QED BY <1>1, CodesInvariant, PTL

(* A code is consumed exactly when its handover is recorded.               *)
THEOREM CodesMatchTheDeal == SystemSpec => []HandoverMatchesCodes
  <1>1. CodesIInv => HandoverMatchesCodes
    BY DEF CodesIInv
  <1> QED BY <1>1, CodesInvariant, PTL
-----------------------------------------------------------------------------
(***************************************************************************)
(* The money of a Deal: one capture never backs two promises, and the      *)
(* traveler is instructed at most once, for every amount, fee mode, window *)
(* and number of disputes, on either rail.                                 *)
(***************************************************************************)

(* The payout has gone when it was paid or its instruction left the bank's *)
(* desk; it went exactly once, and what is not cancelled still fits.       *)
Gone                   == payout.status = "paid" \/ instr \in Exposed
GoneOnce               == (Gone => dispatched = 1) /\ (~Gone => dispatched = 0)
LegacyHasNoInstruction == ~Versioned => instr = "none" /\ reserved = 0
PaidIsExposed          == Versioned /\ payout.status = "paid" => instr \in Exposed
ExposedIsNotCancelled  == instr \in Exposed => payout.status # "cancelled"
OpenFitsTheCapture     == payout.status # "cancelled" => refunded + payout.amount <= Captured
LegacyAmountPositive   == ~Versioned => payout.amount # 0
InstructionIsReserved  == instr \in Exposed \union {"prepared"} => payout.amount <= reserved

PayoutIInv ==
    /\ PayoutTypeOK
    /\ GoneOnce
    /\ LegacyHasNoInstruction
    /\ PaidIsExposed
    /\ ExposedIsNotCancelled
    /\ OpenFitsTheCapture
    /\ InstructionIsReserved
    /\ LegacyAmountPositive
    /\ refunded + reserved <= Captured

LEMMA CapturedIsNat == Captured \in Nat
  BY PayoutAssumption, SMT DEF Captured

LEMMA PayoutFields ==
    ASSUME PayoutIInv
    PROVE  /\ payout \in PayoutRow
           /\ payout.status \in PayoutStatus /\ payout.amount \in 0..Captured
           /\ payout.eligible \in BOOLEAN /\ payout.blocked \in BOOLEAN
           /\ payout.amount \in Nat /\ reserved \in Nat /\ refunded \in Nat
  <1>1. /\ payout \in PayoutRow
        /\ payout.status \in PayoutStatus /\ payout.amount \in 0..Captured
        /\ payout.eligible \in BOOLEAN /\ payout.blocked \in BOOLEAN
        /\ reserved \in 0..Captured /\ refunded \in 0..Captured
    BY Zenon DEF PayoutIInv, PayoutTypeOK, PayoutRow
  <1>2. \A n \in 0..Captured : n \in Nat
    BY CapturedIsNat, SMT
  <1> QED BY <1>1, <1>2, Zenon

(* What the invariant gives the two properties.                            *)
LEMMA PayoutIInvIsEnough == PayoutIInv => CaptureCoversPromises /\ PaidAtMostOnce
  <1> SUFFICES ASSUME PayoutIInv PROVE CaptureCoversPromises /\ PaidAtMostOnce
    OBVIOUS
  <1>1. refunded + Committed <= Captured
    <2>1. CASE Gone
      <3>1. payout.status # "cancelled"
        BY <2>1, Zenon DEF PayoutIInv, ExposedIsNotCancelled, Gone
      <3>2. Committed = payout.amount
        BY <2>1, Zenon DEF Committed, Gone
      <3> QED BY <3>1, <3>2, Zenon DEF PayoutIInv, OpenFitsTheCapture
    <2>2. CASE ~Gone
      <3>1. Committed = 0
        BY <2>2, Zenon DEF Committed, Gone
      <3>2. refunded + 0 <= Captured
        BY PayoutFields, SMT DEF PayoutIInv, PayoutTypeOK
      <3> QED BY <3>1, <3>2, Zenon
    <2> QED BY <2>1, <2>2
  <1>2. CaptureCoversPromises
    BY <1>1, Zenon DEF PayoutIInv, InstructionIsReserved, CaptureCoversPromises
  <1>3. dispatched \in {0, 1}
    BY Zenon DEF PayoutIInv, GoneOnce
  <1>4. dispatched <= 1
    BY <1>3, SMT
  <1>5. PaidAtMostOnce
    BY <1>4, Zenon DEF PayoutIInv, GoneOnce, Gone, PaidAtMostOnce
  <1> QED BY <1>2, <1>5
-----------------------------------------------------------------------------
(* The gate and a freeze only ever move a payout that has not ended, and   *)
(* never its amount.                                                       *)
GateMove(p, q) ==
    /\ q \in PayoutRow
    /\ q.amount = p.amount
    /\ q.status # p.status => /\ p.status \notin {"paid", "cancelled"}
                              /\ q.status \notin {"paid", "cancelled"}

LEMMA RowOf ==
    ASSUME NEW s \in PayoutStatus, NEW a \in 0..Captured, NEW e \in BOOLEAN, NEW b \in BOOLEAN
    PROVE  /\ Row(s, a, e, b) \in PayoutRow
           /\ Row(s, a, e, b).status = s
           /\ Row(s, a, e, b).amount = a
  BY Zenon DEF Row, PayoutRow

LEMMA RowIsAGateMove ==
    ASSUME NEW p \in PayoutRow, NEW s \in PayoutStatus, NEW e \in BOOLEAN, NEW b \in BOOLEAN,
           s # p.status => /\ p.status \notin {"paid", "cancelled"}
                           /\ s \notin {"paid", "cancelled"}
    PROVE  GateMove(p, Row(s, p.amount, e, b))
  <1>1. p.amount \in 0..Captured
    BY Zenon DEF PayoutRow
  <1>2. /\ Row(s, p.amount, e, b) \in PayoutRow
        /\ Row(s, p.amount, e, b).status = s
        /\ Row(s, p.amount, e, b).amount = p.amount
    BY <1>1, RowOf
  <1> QED BY <1>2, Zenon DEF GateMove

LEMMA FreezeIsAGateMove ==
    ASSUME NEW p \in PayoutRow
    PROVE  GateMove(p, Frozen(p))
  <1>1. p.amount \in 0..Captured /\ p.eligible \in BOOLEAN /\ p.blocked \in BOOLEAN
    BY Zenon DEF PayoutRow
  <1>2. "frozen" \in PayoutStatus
    BY Zenon DEF PayoutStatus
  <1>3. CASE p.status \in {"paid", "cancelled", "frozen"}
    BY <1>3, Zenon DEF GateMove, Frozen
  <1>4. CASE p.status \notin {"paid", "cancelled", "frozen"}
    <2>1. Frozen(p) = Row("frozen", p.amount, p.eligible, p.blocked)
      BY <1>4, Zenon DEF Frozen
    <2>2. GateMove(p, Row("frozen", p.amount, p.eligible, p.blocked))
      BY <1>1, <1>2, <1>4, RowIsAGateMove
    <2> QED BY <2>1, <2>2, Zenon
  <1> QED BY <1>3, <1>4

LEMMA DecisionIsAGateMove ==
    ASSUME NEW p \in PayoutRow, profileOK \in BOOLEAN
    PROVE  GateMove(p, Decided(p))
  <1>1. /\ p.status \in PayoutStatus /\ p.amount \in 0..Captured /\ p.eligible \in BOOLEAN
        /\ TRUE \in BOOLEAN
    BY Zenon DEF PayoutRow
  <1>2. PICK blocked \in BOOLEAN : blocked = (Versioned /\ ~profileOK)
    BY Zenon
  <1>3. "blocked" \in PayoutStatus /\ "eligible" \in PayoutStatus
    BY Zenon DEF PayoutStatus
  <1>4. CASE p.status \in {"scheduled", "processing", "sent", "paid", "cancelled"}
    <2>1. Decided(p) = Row(p.status, p.amount, p.eligible, blocked)
      BY <1>2, <1>4, Zenon DEF Decided
    <2>2. GateMove(p, Row(p.status, p.amount, p.eligible, blocked))
      BY <1>1, RowIsAGateMove
    <2> QED BY <2>1, <2>2, Zenon
  <1>5. CASE p.status \notin {"scheduled", "processing", "sent", "paid", "cancelled"}
    <2>1. PICK s \in {"blocked", "eligible"} : Decided(p) = Row(s, p.amount, TRUE, blocked)
      BY <1>2, <1>5, Zenon DEF Decided
    <2>2. GateMove(p, Row(s, p.amount, TRUE, blocked))
      <3>1. s \in PayoutStatus /\ s \notin {"paid", "cancelled"}
        BY <1>3, Zenon
      <3> QED BY <1>1, <1>5, <3>1, RowIsAGateMove
    <2> QED BY <2>1, <2>2, Zenon
  <1> QED BY <1>4, <1>5

LEMMA StayingIsAGateMove ==
    ASSUME NEW p \in PayoutRow PROVE GateMove(p, p)
  BY Zenon DEF GateMove

LEMMA EvaluationIsAGateMove ==
    ASSUME payout \in PayoutRow, profileOK \in BOOLEAN, EvaluateRelease
    PROVE  GateMove(payout, payout')
  <1>1. \/ payout' = Frozen(payout) \/ payout' = Decided(payout) \/ payout' = payout
    BY Zenon DEF EvaluateRelease
  <1> QED BY <1>1, FreezeIsAGateMove, DecisionIsAGateMove, StayingIsAGateMove, Zenon

(* A step that moves the payout by the gate alone, and the flags freely.   *)
Gated ==
    /\ GateMove(payout, payout')
    /\ UNCHANGED <<instr, reserved, refunded, dispatched>>
    /\ hold' \in BOOLEAN /\ profileOK' \in BOOLEAN
    /\ expiryJob' \in GateJob /\ checkJob' \in GateJob

LEMMA IdleIsGated == PayoutIInv /\ UNCHANGED payoutVars => Gated
  BY PayoutFields, StayingIsAGateMove, Zenon DEF Gated, payoutVars, PayoutIInv, PayoutTypeOK

LEMMA GatedKeepsPayout == PayoutIInv /\ Gated => PayoutIInv'
  <1> SUFFICES ASSUME PayoutIInv, Gated PROVE PayoutIInv'
    OBVIOUS
  <1>1. /\ payout'.amount = payout.amount
        /\ payout'.status = "paid" <=> payout.status = "paid"
        /\ payout'.status = "cancelled" <=> payout.status = "cancelled"
        /\ UNCHANGED <<instr, reserved, refunded, dispatched>>
    BY Zenon DEF Gated, GateMove
  <1>2. PayoutTypeOK'
    BY Zenon DEF PayoutIInv, PayoutTypeOK, Gated, GateMove
  <1>3. GoneOnce' /\ LegacyHasNoInstruction' /\ PaidIsExposed' /\ ExposedIsNotCancelled'
        /\ LegacyAmountPositive'
    BY <1>1, Zenon DEF PayoutIInv, GoneOnce, Gone, LegacyHasNoInstruction, PaidIsExposed,
                       ExposedIsNotCancelled, LegacyAmountPositive
  <1>4. OpenFitsTheCapture' /\ InstructionIsReserved' /\ (refunded + reserved <= Captured)'
    BY <1>1, Zenon DEF PayoutIInv, OpenFitsTheCapture, InstructionIsReserved, Captured
  <1> QED BY <1>2, <1>3, <1>4, Zenon DEF PayoutIInv
-----------------------------------------------------------------------------
(* A settlement writes the share it was given, unless the traveler already *)
(* has the money.                                                          *)
LEMMA AwardedRow ==
    ASSUME NEW p \in PayoutRow, NEW amount \in 0..Captured
    PROVE  /\ Awarded(p, amount) \in PayoutRow
           /\ p.status = "paid" => Awarded(p, amount) = p
           /\ p.status # "paid" => Awarded(p, amount).status # "paid"
           /\ p.status # "paid" /\ Awarded(p, amount).status # "cancelled"
                  => Awarded(p, amount).amount = amount
           /\ ~Versioned /\ p.amount # 0 => Awarded(p, amount).amount # 0
  <1>1. /\ p.amount \in 0..Captured /\ p.eligible \in BOOLEAN /\ p.blocked \in BOOLEAN
        /\ TRUE \in BOOLEAN
    BY Zenon DEF PayoutRow
  <1>2. /\ "cancelled" \in PayoutStatus /\ "not_eligible" \in PayoutStatus
        /\ "blocked" \in PayoutStatus /\ "eligible" \in PayoutStatus
    BY Zenon DEF PayoutStatus
  <1>3. 0 \in 0..Captured
    BY CapturedIsNat, SMT
  <1>4. CASE p.status = "paid"
    BY <1>4, Zenon DEF Awarded
  <1>5. CASE p.status # "paid" /\ amount = 0
    <2>1. PICK a \in 0..Captured :
              /\ Awarded(p, amount) = Row("cancelled", a, p.eligible, p.blocked)
              /\ ~Versioned => a = p.amount
      BY <1>1, <1>3, <1>5, Zenon DEF Awarded
    <2>2. /\ Row("cancelled", a, p.eligible, p.blocked) \in PayoutRow
          /\ Row("cancelled", a, p.eligible, p.blocked).status = "cancelled"
          /\ Row("cancelled", a, p.eligible, p.blocked).amount = a
      BY <1>1, <1>2, RowOf
    <2> QED BY <1>5, <2>1, <2>2, Zenon
  <1>6. CASE p.status # "paid" /\ amount # 0
    <2>1. PICK st \in {"not_eligible", "blocked", "eligible"}, e \in BOOLEAN :
              Awarded(p, amount) = Row(st, amount, e, p.blocked)
      BY <1>1, <1>6, Zenon DEF Awarded
    <2>2. st \in PayoutStatus
      BY <1>2, <2>1, Zenon
    <2>3. /\ Row(st, amount, e, p.blocked) \in PayoutRow
          /\ Row(st, amount, e, p.blocked).status = st
          /\ Row(st, amount, e, p.blocked).amount = amount
      BY <1>1, <2>2, RowOf
    <2> QED BY <1>6, <2>1, <2>3, Zenon
  <1> QED BY <1>4, <1>5, <1>6

(* The award a step settles: a plan made for the money as it stands.       *)
Settles(award) ==
    /\ SoundAward(award, Collected, Committed)
    /\ ApplySettlement(award)

LEMMA SettlementKeepsPayout ==
    ASSUME PayoutIInv, NEW award, Settles(award)
    PROVE  PayoutIInv'
  <1> USE DEF Settles
  <1>1. /\ payout \in PayoutRow
        /\ payout.amount \in 0..Captured /\ reserved \in Nat /\ refunded \in Nat
    BY PayoutFields
  <1>2. PICK r \in Nat, a \in Nat, f \in Nat :
            /\ award.refund = r /\ award.payout = a
            /\ r + a + f = Collected
            /\ a >= Committed
    BY Zenon DEF ApplySettlement, MaySettle, SoundAward
  <1>3. /\ r + a + f = Captured - refunded
        /\ refunded' = refunded + r
        /\ r > 0 => refunded + reserved + r <= Captured
        /\ refunded + reserved <= Captured
        /\ UNCHANGED <<reserved, dispatched, hold, profileOK, expiryJob, checkJob>>
    BY <1>2, Zenon DEF ApplySettlement, MaySettle, Collected, PayoutIInv
  <1>4. /\ a \in 0..Captured
        /\ refunded' \in 0..Captured
        /\ refunded' + reserved <= Captured
        /\ \A amount \in Nat : amount <= a => refunded' + amount <= Captured
    BY <1>1, <1>3, CapturedIsNat, SMT
  <1>5. /\ payout' \in PayoutRow
        /\ payout.status = "paid" => payout' = payout
        /\ payout.status # "paid" => payout'.status # "paid"
        /\ payout.status # "paid" /\ payout'.status # "cancelled" => payout'.amount = a
        /\ ~Versioned /\ payout.amount # 0 => payout'.amount # 0
    BY <1>1, <1>2, <1>4, AwardedRow, Zenon DEF ApplySettlement
  <1>6. instr \notin Exposed /\ instr' \notin Exposed \union {"prepared"} /\ instr' \in Instruction
    <2>1. instr \in Uncommitted
      BY Zenon DEF ApplySettlement, MaySettle, PayoutIInv, LegacyHasNoInstruction, Uncommitted,
                   Instruction, Exposed, PayoutTypeOK
    <2> QED BY <2>1, Zenon DEF ApplySettlement, Uncommitted, Instruction, Exposed
  <1>7. PayoutTypeOK'
    <2>1. Captured' = Captured
      BY Zenon DEF Captured
    <2> QED BY <1>3, <1>4, <1>5, <1>6, <2>1, Zenon DEF PayoutIInv, PayoutTypeOK
  <1>8. GoneOnce'
    BY <1>3, <1>5, <1>6, Zenon DEF PayoutIInv, GoneOnce, Gone
  <1>9. LegacyHasNoInstruction'
    BY <1>3, Zenon DEF PayoutIInv, LegacyHasNoInstruction, ApplySettlement
  <1>10. PaidIsExposed'
    <2>1. Versioned => payout.status # "paid"
      BY Zenon DEF ApplySettlement, MaySettle
    <2> QED BY <1>5, <2>1, Zenon DEF PaidIsExposed
  <1>11. ExposedIsNotCancelled' /\ InstructionIsReserved' /\ LegacyAmountPositive'
    BY <1>5, <1>6, Zenon DEF PayoutIInv, ExposedIsNotCancelled, InstructionIsReserved,
         LegacyAmountPositive
  <1>12. OpenFitsTheCapture'
    <2>1. CASE payout.status = "paid"
      <3>1. payout'.amount = payout.amount /\ payout.amount <= a
        BY <1>2, <1>5, <2>1, Zenon DEF Committed
      <3>2. payout.amount \in Nat
        BY PayoutFields
      <3> QED BY <1>4, <3>1, <3>2, Zenon DEF OpenFitsTheCapture, Captured
    <2>2. CASE payout.status # "paid"
      <3>1. a <= a
        BY SMT
      <3> QED BY <1>2, <1>4, <1>5, <2>2, <3>1, Zenon DEF OpenFitsTheCapture, Captured
    <2> QED BY <2>1, <2>2
  <1>13. (refunded + reserved <= Captured)'
    BY <1>3, <1>4, Zenon DEF Captured
  <1> QED BY <1>7, <1>8, <1>9, <1>10, <1>11, <1>12, <1>13, Zenon DEF PayoutIInv

(* Both callers hand it a plan made for the money as it stands.            *)
LEMMA EveryPlanOfIsSound ==
    ASSUME PayoutIInv, NEW refund \in Int, NEW stated \in Int
    PROVE  SoundAward(PlanSettlement(Collected, Committed, refund, stated, FeeMode, Reward, Fee),
                      Collected, Committed)
  <1>1. Collected \in Nat
    BY CapturedIsNat, SMT DEF PayoutIInv, PayoutTypeOK, Collected
  <1>2. Committed \in Nat
    BY PayoutFields, SMT DEF Committed
  <1>3. Reward \in Nat /\ Fee \in Nat /\ FeeMode \in FeeModes
    BY PayoutAssumption, SMT
  <1> QED BY <1>1, <1>2, <1>3, EveryPlanIsSound

LEMMA ResolutionSettles ==
    ASSUME PayoutIInv, NEW d, NEW award \in Resolutions, Resolve(d, award)
    PROVE  Settles(award)
  <1>1. PICK refund \in Int, stated \in Int : award = PlanOf(refund, stated)
    <2>1. 0 \in Int /\ Unstated \in Int /\ Collected \in Int
          /\ (\A n \in 1..Captured : n \in Int) /\ (\A n \in 0..Captured : n \in Int)
      BY CapturedIsNat, PayoutFields, SMT DEF Unstated, Collected
    <2>2. CASE award \in {PlanOf(Collected, 0), PlanOf(0, Unstated)}
      BY <2>1, <2>2, Zenon
    <2>3. CASE \E refund \in (1..Captured) \ {Collected}, stated \in {Unstated} \union 0..Captured :
                   award = PlanOf(refund, stated)
      <3>1. PICK refund \in (1..Captured) \ {Collected}, stated \in {Unstated} \union 0..Captured :
                   award = PlanOf(refund, stated)
        BY <2>3
      <3>2. refund \in Int /\ stated \in Int
        BY <2>1, <3>1, Zenon
      <3> QED BY <3>1, <3>2, Zenon
    <2> QED BY <2>2, <2>3, SMT DEF Resolutions
  <1>2. SoundAward(award, Collected, Committed)
    BY <1>1, EveryPlanOfIsSound, Zenon DEF PlanOf
  <1> QED BY <1>2, Zenon DEF Resolve, Settles

LEMMA DisputesFreezeOrSettle ==
    PayoutIInv /\ DisputesNext => Gated \/ \E award : Settles(award)
  <1> SUFFICES ASSUME PayoutIInv, DisputesNext PROVE Gated \/ \E award : Settles(award)
    OBVIOUS
  <1>1. PICK d \in DisputeIds :
            \/ \E party \in BOOLEAN : OpenDispute(d, party)
            \/ \E s \in ActiveStatus : SetDisputeStatus(d, s)
            \/ CloseDispute(d)
            \/ \E award \in Resolutions : Resolve(d, award)
    BY Zenon DEF DisputesNext
  <1>2. ASSUME NEW party \in BOOLEAN, OpenDispute(d, party)
        PROVE  Gated
    <2>1. GateMove(payout, payout')
      BY <1>2, PayoutFields, FreezeIsAGateMove, Zenon DEF OpenDispute
    <2> QED BY <1>2, <2>1, Zenon DEF OpenDispute, Gated, PayoutIInv, PayoutTypeOK
  <1>3. ASSUME (\E s \in ActiveStatus : SetDisputeStatus(d, s)) \/ CloseDispute(d)
        PROVE  Gated
    <2>1. UNCHANGED payoutVars
      BY <1>3, Zenon DEF SetDisputeStatus, CloseDispute
    <2> QED BY <2>1, IdleIsGated
  <1>4. ASSUME NEW award \in Resolutions, Resolve(d, award)
        PROVE  Settles(award)
    BY <1>4, ResolutionSettles
  <1> QED BY <1>1, <1>2, <1>3, <1>4, Zenon

LEMMA CancellationsSettle ==
    PayoutIInv /\ CancellationNext => Gated \/ \E award : Settles(award)
  <1> SUFFICES ASSUME PayoutIInv, CancellationNext PROVE Gated \/ \E award : Settles(award)
    OBVIOUS
  <1>1. Collected \in Nat
    BY CapturedIsNat, SMT DEF PayoutIInv, PayoutTypeOK, Collected
  <1>2. ASSUME NEW owed \in Int, ApplySettlement(CancellationPlan(owed))
        PROVE  Settles(CancellationPlan(owed))
    <2>1. Collected - owed \in Int
      BY <1>1, SMT
    <2>2. SoundAward(CancellationPlan(owed), Collected, Committed)
      BY <2>1, EveryPlanOfIsSound DEF CancellationPlan
    <2> QED BY <1>2, <2>2 DEF Settles
  <1>3. ASSUME NEW role \in Parties, Cancel(role)
        PROVE  \E award : Settles(award)
    <2>1. Compensation(role) \in Int
      <3>1. Reward \in Nat /\ LateBps \in Nat /\ LateCap \in Nat /\ 0 \in Int
        BY PayoutAssumption, CancellationAssumption, SMT
      <3>2. LateCompensation(Reward, LateBps, LateCap, Collected) \in Int
        BY <1>1, <3>1, CompensationIsAnAmount
      <3> QED BY <3>1, <3>2, Zenon DEF Compensation
    <2>2. ApplySettlement(CancellationPlan(Compensation(role)))
      BY <1>3, Zenon DEF Cancel
    <2> QED BY <1>2, <2>1, <2>2
  <1>4. ASSUME NEW refund \in BOOLEAN, RecordNoShow(refund)
        PROVE  Gated \/ \E award : Settles(award)
    <2>1. CASE refund
      <3>1. 0 \in Int /\ ApplySettlement(CancellationPlan(0))
        BY <1>4, <2>1, SMT DEF RecordNoShow
      <3> QED BY <1>2, <3>1
    <2>2. CASE ~refund
      <3>1. UNCHANGED payoutVars
        BY <1>4, <2>2, Zenon DEF RecordNoShow
      <3> QED BY <3>1, IdleIsGated
    <2> QED BY <2>1, <2>2
  <1> QED BY <1>3, <1>4, Zenon DEF CancellationNext
-----------------------------------------------------------------------------
(* The rails.  Each step keeps the amount and moves the status and the     *)
(* instruction together.                                                   *)
LEMMA WithStatusRow ==
    ASSUME PayoutIInv, NEW s \in PayoutStatus
    PROVE  /\ WithStatus(s) \in PayoutRow
           /\ WithStatus(s).status = s
           /\ WithStatus(s).amount = payout.amount
  <1>1. payout.amount \in 0..Captured /\ payout.eligible \in BOOLEAN /\ payout.blocked \in BOOLEAN
    BY PayoutFields
  <1>2. LET row == Row(s, payout.amount, payout.eligible, payout.blocked)
        IN  row \in PayoutRow /\ row.status = s /\ row.amount = payout.amount
    BY <1>1, RowOf
  <1> QED BY <1>2, Zenon DEF WithStatus

LEMMA PrepareKeepsPayout == PayoutIInv /\ Prepare => PayoutIInv'
  <1> SUFFICES ASSUME PayoutIInv, Prepare PROVE PayoutIInv'
    OBVIOUS
  <1>1. /\ Versioned /\ payout.status = "eligible" /\ instr \in {"none", "cancelled"}
        /\ Captured - refunded - reserved >= payout.amount
        /\ instr' = "prepared" /\ reserved' = reserved + payout.amount
        /\ payout' = WithStatus("scheduled")
        /\ UNCHANGED <<dispatched, refunded, hold, profileOK, expiryJob, checkJob>>
    BY Zenon DEF Prepare, RailGate, BesidesRail
  <1>2. /\ payout' \in PayoutRow /\ payout'.status = "scheduled"
        /\ payout'.amount = payout.amount
    BY <1>1, WithStatusRow, Zenon DEF PayoutStatus
  <1>3. PICK a \in Nat : a = payout.amount
    BY PayoutFields
  <1>4. /\ reserved' = reserved + a /\ Captured - refunded - reserved >= a
        /\ reserved \in Nat /\ refunded \in Nat
    BY <1>1, <1>3, PayoutFields, Zenon
  <1>5. /\ reserved' \in 0..Captured /\ refunded + reserved' <= Captured
        /\ a <= reserved'
    BY <1>4, CapturedIsNat, SMT
  <1>6. PayoutTypeOK'
    <2>1. Captured' = Captured
      BY Zenon DEF Captured
    <2> QED BY <1>1, <1>2, <1>5, <2>1, Zenon DEF PayoutIInv, PayoutTypeOK, Instruction
  <1>7. ~Gone /\ ~Gone'
    BY <1>1, <1>2, Zenon DEF Gone, Exposed
  <1>8. GoneOnce' /\ LegacyHasNoInstruction' /\ PaidIsExposed' /\ ExposedIsNotCancelled'
        /\ LegacyAmountPositive'
    BY <1>1, <1>2, <1>7, Zenon DEF PayoutIInv, GoneOnce, LegacyHasNoInstruction, PaidIsExposed,
         ExposedIsNotCancelled, LegacyAmountPositive
  <1>9. OpenFitsTheCapture' /\ InstructionIsReserved' /\ (refunded + reserved <= Captured)'
    BY <1>1, <1>2, <1>3, <1>5, Zenon DEF PayoutIInv, OpenFitsTheCapture, InstructionIsReserved,
         Captured
  <1> QED BY <1>6, <1>8, <1>9, Zenon DEF PayoutIInv

LEMMA ReleaseKeepsPayout == PayoutIInv /\ ReleasePreparation => PayoutIInv'
  <1> SUFFICES ASSUME PayoutIInv, ReleasePreparation PROVE PayoutIInv'
    OBVIOUS
  <1>1. /\ Versioned /\ instr = "prepared" /\ instr' = "cancelled"
        /\ reserved' = reserved - payout.amount
        /\ payout' = IF payout.status = "scheduled" THEN WithStatus("eligible") ELSE payout
        /\ UNCHANGED <<dispatched, refunded, hold, profileOK, expiryJob, checkJob>>
    BY Zenon DEF ReleasePreparation, BesidesRail
  <1>2. GateMove(payout, payout')
    <2>1. CASE payout.status = "scheduled"
      BY <1>1, <2>1, WithStatusRow, Zenon DEF PayoutStatus, GateMove
    <2>2. CASE payout.status # "scheduled"
      BY <1>1, <2>2, PayoutFields, StayingIsAGateMove, Zenon
    <2> QED BY <2>1, <2>2
  <1>3. PICK a \in Nat : a = payout.amount
    BY PayoutFields
  <1>4. /\ reserved' = reserved - a /\ a <= reserved /\ refunded + reserved <= Captured
        /\ reserved \in Nat /\ refunded \in Nat
    BY <1>1, <1>3, PayoutFields, Zenon DEF PayoutIInv, InstructionIsReserved
  <1>5. reserved' \in 0..Captured /\ refunded + reserved' <= Captured
    BY <1>4, CapturedIsNat, SMT
  <1>6. PayoutTypeOK'
    <2>1. Captured' = Captured
      BY Zenon DEF Captured
    <2> QED BY <1>1, <1>2, <1>5, <2>1, Zenon DEF PayoutIInv, PayoutTypeOK, GateMove, Instruction
  <1>7. /\ payout'.amount = payout.amount
        /\ payout'.status = "paid" <=> payout.status = "paid"
        /\ payout'.status = "cancelled" <=> payout.status = "cancelled"
    BY <1>2, Zenon DEF GateMove
  <1>8. instr \notin Exposed /\ instr' \notin Exposed /\ instr' # "prepared"
    BY <1>1, Zenon DEF Exposed
  <1>9. GoneOnce' /\ LegacyHasNoInstruction' /\ PaidIsExposed' /\ ExposedIsNotCancelled'
        /\ LegacyAmountPositive'
    BY <1>1, <1>7, <1>8, Zenon DEF PayoutIInv, GoneOnce, Gone, LegacyHasNoInstruction,
         PaidIsExposed, ExposedIsNotCancelled,
         LegacyAmountPositive
  <1>10. OpenFitsTheCapture' /\ InstructionIsReserved' /\ (refunded + reserved <= Captured)'
    BY <1>1, <1>5, <1>7, <1>8, Zenon DEF PayoutIInv, OpenFitsTheCapture, InstructionIsReserved,
         Captured
  <1> QED BY <1>6, <1>9, <1>10, Zenon DEF PayoutIInv

LEMMA BeginKeepsPayout == PayoutIInv /\ Begin => PayoutIInv'
  <1> SUFFICES ASSUME PayoutIInv, Begin PROVE PayoutIInv'
    OBVIOUS
  <1>1. /\ Versioned /\ instr = "prepared" /\ payout.status = "scheduled" /\ instr' = "committed"
        /\ dispatched' = dispatched + 1
        /\ payout' = WithStatus("processing")
        /\ UNCHANGED <<reserved, refunded, hold, profileOK, expiryJob, checkJob>>
    BY Zenon DEF Begin, RailGate, BesidesRail
  <1>2. /\ payout' \in PayoutRow /\ payout'.status = "processing"
        /\ payout'.amount = payout.amount
    BY <1>1, WithStatusRow, Zenon DEF PayoutStatus
  <1>3. ~Gone /\ Gone'
    BY <1>1, Zenon DEF Gone, Exposed
  <1>4. dispatched = 0
    BY <1>3, Zenon DEF PayoutIInv, GoneOnce
  <1>5. dispatched' = 1 /\ dispatched' \in Nat
    BY <1>1, <1>4, SMT
  <1>6. PayoutTypeOK'
    BY <1>1, <1>2, <1>5, Zenon DEF PayoutIInv, PayoutTypeOK, Instruction, Captured
  <1>7. GoneOnce' /\ LegacyHasNoInstruction' /\ PaidIsExposed' /\ ExposedIsNotCancelled'
        /\ LegacyAmountPositive'
    BY <1>1, <1>2, <1>3, <1>5, Zenon DEF GoneOnce, LegacyHasNoInstruction, PaidIsExposed,
         ExposedIsNotCancelled, LegacyAmountPositive
  <1>8. OpenFitsTheCapture' /\ InstructionIsReserved' /\ (refunded + reserved <= Captured)'
    BY <1>1, <1>2, Zenon DEF PayoutIInv, OpenFitsTheCapture, InstructionIsReserved, Captured
  <1> QED BY <1>6, <1>7, <1>8, Zenon DEF PayoutIInv

LEMMA ConfirmKeepsPayout ==
    ASSUME PayoutIInv, NEW settled \in BOOLEAN, Confirm(settled)
    PROVE  PayoutIInv'
  <1>1. /\ Versioned /\ payout.status \in {"eligible", "scheduled", "processing", "sent"}
        /\ instr \in {"committed", "sent"}
        /\ instr' \in {"sent", "succeeded"}
        /\ UNCHANGED <<reserved, dispatched, refunded, hold, profileOK, expiryJob, checkJob>>
    BY Zenon DEF Confirm, RailGate, BesidesRail
  <1>2. PICK s \in {"paid", "sent"} : payout' = WithStatus(s)
    BY Zenon DEF Confirm
  <1>3. payout' \in PayoutRow /\ payout'.status = s /\ payout'.amount = payout.amount
    BY <1>2, WithStatusRow, Zenon DEF PayoutStatus
  <1>4. Gone /\ Gone' /\ instr' \in Exposed /\ instr \in Exposed
    BY <1>1, Zenon DEF Gone, Exposed
  <1>5. PayoutTypeOK'
    BY <1>1, <1>3, Zenon DEF PayoutIInv, PayoutTypeOK, Instruction, Captured
  <1>6. GoneOnce' /\ LegacyHasNoInstruction' /\ PaidIsExposed' /\ ExposedIsNotCancelled'
        /\ LegacyAmountPositive'
    BY <1>1, <1>2, <1>3, <1>4, Zenon DEF PayoutIInv, GoneOnce, LegacyHasNoInstruction,
         PaidIsExposed, ExposedIsNotCancelled,
         LegacyAmountPositive
  <1>7. OpenFitsTheCapture' /\ InstructionIsReserved' /\ (refunded + reserved <= Captured)'
    BY <1>1, <1>3, <1>4, Zenon DEF PayoutIInv, OpenFitsTheCapture, InstructionIsReserved, Captured,
         ExposedIsNotCancelled
  <1> QED BY <1>5, <1>6, <1>7, Zenon DEF PayoutIInv

LEMMA LegacyPaymentKeepsPayout == PayoutIInv /\ CompleteManualPayout => PayoutIInv'
  <1> SUFFICES ASSUME PayoutIInv, CompleteManualPayout PROVE PayoutIInv'
    OBVIOUS
  <1>1. /\ ~Versioned /\ payout.status \in {"eligible", "scheduled", "processing"}
        /\ payout' = WithStatus("paid")
        /\ dispatched' = dispatched + 1
        /\ UNCHANGED <<instr, reserved, refunded, hold, profileOK, expiryJob, checkJob>>
    BY Zenon DEF CompleteManualPayout, BesidesRail
  <1>2. payout' \in PayoutRow /\ payout'.status = "paid" /\ payout'.amount = payout.amount
    BY <1>1, WithStatusRow, Zenon DEF PayoutStatus
  <1>3. instr = "none"
    BY <1>1, Zenon DEF PayoutIInv, LegacyHasNoInstruction
  <1>4. ~Gone /\ Gone'
    BY <1>1, <1>2, <1>3, Zenon DEF Gone, Exposed
  <1>5. dispatched = 0
    BY <1>4, Zenon DEF PayoutIInv, GoneOnce
  <1>6. dispatched' = 1 /\ dispatched' \in Nat
    BY <1>1, <1>5, SMT
  <1>7. PayoutTypeOK'
    BY <1>1, <1>2, <1>6, Zenon DEF PayoutIInv, PayoutTypeOK, Captured
  <1>8. GoneOnce' /\ LegacyHasNoInstruction' /\ PaidIsExposed' /\ ExposedIsNotCancelled'
        /\ LegacyAmountPositive'
    BY <1>1, <1>2, <1>3, <1>4, <1>6, Zenon DEF PayoutIInv, GoneOnce, LegacyHasNoInstruction,
         PaidIsExposed, ExposedIsNotCancelled, LegacyAmountPositive, Exposed
  <1>9. OpenFitsTheCapture' /\ InstructionIsReserved' /\ (refunded + reserved <= Captured)'
    BY <1>1, <1>2, Zenon DEF PayoutIInv, OpenFitsTheCapture, InstructionIsReserved, Captured
  <1> QED BY <1>7, <1>8, <1>9, Zenon DEF PayoutIInv

(* The jobs, the review and the holds move the payout by the gate alone.   *)
LEMMA GateStepsAreGated ==
    ASSUME PayoutIInv,
           RunExpiryJob \/ RunCheckJob \/ RetireCheckJob \/ ReviewedRelease
             \/ \E b \in BOOLEAN : ReviewProfile(b) \/ SetHold(b)
    PROVE  Gated
  <1> USE PayoutFields DEF PayoutIInv, PayoutTypeOK
  <1>1. CASE RunExpiryJob \/ RunCheckJob \/ ReviewedRelease
    <2>1. EvaluateRelease /\ expiryJob' \in GateJob /\ checkJob' \in GateJob
      BY <1>1, Zenon DEF RunExpiryJob, RunCheckJob, ReviewedRelease, GateJob
    <2>2. GateMove(payout, payout')
      BY <2>1, EvaluationIsAGateMove, Zenon
    <2> QED BY <2>1, <2>2, Zenon DEF Gated, EvaluateRelease
  <1>2. CASE RetireCheckJob \/ \E b \in BOOLEAN : ReviewProfile(b) \/ SetHold(b)
    <2>1. /\ UNCHANGED <<payout, instr, reserved, refunded, dispatched>>
          /\ hold' \in BOOLEAN /\ profileOK' \in BOOLEAN
          /\ expiryJob' \in GateJob /\ checkJob' \in GateJob
      BY <1>2, Zenon DEF RetireCheckJob, ReviewProfile, SetHold, GateJob
    <2> QED BY <2>1, StayingIsAGateMove, Zenon DEF Gated
  <1> QED BY <1>1, <1>2

(* Whatever the Deal does, its money sees one of three kinds of step.      *)
RailStep ==
    \/ Prepare \/ Begin \/ ReleasePreparation \/ CompleteManualPayout
    \/ \E settled \in BOOLEAN : Confirm(settled)

LEMMA StepKinds ==
    PayoutIInv /\ [SystemNext]_systemVars => Gated \/ (\E award : Settles(award)) \/ RailStep
  <1> DEFINE Kind == Gated \/ (\E award : Settles(award)) \/ RailStep
  <1> SUFFICES ASSUME PayoutIInv, [SystemNext]_systemVars PROVE Kind
    OBVIOUS
  <1>1. CASE ClockTicks \/ HandoverStep \/ UNCHANGED systemVars
    <2>1. UNCHANGED payoutVars
      BY <1>1, Zenon DEF ClockTicks, HandoverStep, systemVars, payoutVars
    <2> QED BY <2>1, IdleIsGated
  <1>2. CASE DeliverAndArm
    BY <1>2, PayoutFields, StayingIsAGateMove, Zenon DEF DeliverAndArm, Gated, GateJob,
       PayoutIInv, PayoutTypeOK
  <1>3. CASE PayoutStep
    <2>1. CASE RailStep
      BY <2>1
    <2>2. CASE RunExpiryJob \/ RunCheckJob \/ RetireCheckJob \/ ReviewedRelease
                 \/ \E b \in BOOLEAN : ReviewProfile(b) \/ SetHold(b)
      BY <2>2, GateStepsAreGated
    <2> QED BY <1>3, <2>1, <2>2, Zenon DEF PayoutStep, PayoutNext, RailStep
  <1> QED BY <1>1, <1>2, <1>3, DisputesFreezeOrSettle, CancellationsSettle, Zenon DEF SystemNext
-----------------------------------------------------------------------------
LEMMA PayoutInitIInv == SystemInit => PayoutIInv
  <1> SUFFICES ASSUME SystemInit PROVE PayoutIInv
    OBVIOUS
  <1> USE DEF SystemInit, PayoutInit
  <1>1. /\ Reward \in 0..Captured /\ 0 \in 0..Captured /\ 0 + 0 <= Captured
        /\ 0 + Reward <= Captured /\ 0 \in Nat
    BY PayoutAssumption, SMT DEF Captured
  <1>2. profileOK \in BOOLEAN /\ FALSE \in BOOLEAN /\ "not_eligible" \in PayoutStatus
    BY Zenon DEF PayoutStatus
  <1>3. PICK b \in BOOLEAN : payout = Row("not_eligible", Reward, FALSE, b)
    BY <1>2, Zenon
  <1>4. payout \in PayoutRow /\ payout.status = "not_eligible" /\ payout.amount = Reward
    <2>1. LET row == Row("not_eligible", Reward, FALSE, b)
          IN  row \in PayoutRow /\ row.status = "not_eligible" /\ row.amount = Reward
      <3> HIDE DEF SystemInit, PayoutInit
      <3>1. Reward \in 0..Captured /\ "not_eligible" \in PayoutStatus /\ FALSE \in BOOLEAN
        BY <1>1, <1>2
      <3> QED BY <3>1, RowOf
    <2> QED BY <1>3, <2>1, Zenon
  <1>5. PayoutTypeOK
    BY <1>1, <1>2, <1>4, Zenon DEF PayoutTypeOK, Instruction, GateJob
  <1>6. /\ GoneOnce /\ LegacyHasNoInstruction /\ PaidIsExposed /\ ExposedIsNotCancelled
        /\ LegacyAmountPositive
    BY <1>4, PayoutAssumption, Zenon DEF GoneOnce, Gone, LegacyHasNoInstruction, PaidIsExposed,
         ExposedIsNotCancelled, LegacyAmountPositive, Exposed
  <1>7. OpenFitsTheCapture /\ InstructionIsReserved /\ refunded + reserved <= Captured
    BY <1>1, <1>4, Zenon DEF OpenFitsTheCapture, InstructionIsReserved, Exposed
  <1> QED BY <1>5, <1>6, <1>7, Zenon DEF PayoutIInv

LEMMA PayoutNextIInv == PayoutIInv /\ [SystemNext]_systemVars => PayoutIInv'
  <1> SUFFICES ASSUME PayoutIInv, [SystemNext]_systemVars PROVE PayoutIInv'
    OBVIOUS
  <1>1. CASE Gated
    BY <1>1, GatedKeepsPayout
  <1>2. CASE \E award : Settles(award)
    BY <1>2, SettlementKeepsPayout
  <1>3. CASE RailStep
    BY <1>3, PrepareKeepsPayout, BeginKeepsPayout, ReleaseKeepsPayout, LegacyPaymentKeepsPayout,
       ConfirmKeepsPayout, Zenon DEF RailStep
  <1> QED BY <1>1, <1>2, <1>3, StepKinds

LEMMA PayoutInvariant == SystemSpec => []PayoutIInv
  BY PayoutInitIInv, PayoutNextIInv, PTL DEF SystemSpec

(* The types of every variable of the Deal.                                *)
THEOREM SystemTypeCorrect == SystemSpec => []SystemTypeOK
  <1>1. CodesIInv /\ PayoutIInv => SystemTypeOK
    BY Zenon DEF CodesIInv, PayoutIInv, SystemTypeOK
  <1> QED BY <1>1, CodesInvariant, PayoutInvariant, PTL

(* Live refunds, reservations and the exposed instruction fit the capture  *)
(* together, whatever the amounts and the settlements.                     *)
THEOREM OneCaptureCoversAll == SystemSpec => []CaptureCoversPromises
  <1>1. PayoutIInv => CaptureCoversPromises
    BY PayoutIInvIsEnough
  <1> QED BY <1>1, PayoutInvariant, PTL

(* The traveler is instructed at most once, on either rail.                *)
THEOREM TravelerPaidOnce == SystemSpec => []PaidAtMostOnce
  <1>1. PayoutIInv => PaidAtMostOnce
    BY PayoutIInvIsEnough
  <1> QED BY <1>1, PayoutInvariant, PTL
-----------------------------------------------------------------------------
(* The Deal as a whole: its escrow, its disputes and its refund.           *)
LEMMA CommittedIs ==
    PayoutIInv => /\ Gone  => Committed = payout.amount
                  /\ ~Gone => Committed = 0
  BY Zenon DEF Committed, Gone

LEMMA CommittedIsNext ==
    /\ Gone'  => Committed' = payout'.amount
    /\ ~Gone' => Committed' = 0
  BY Zenon DEF Committed, Gone

(* What is still in escrow bounds both ways out of it.                     *)
LEMMA Given ==
    ASSUME NEW r \in Nat, r # 0, r <= Captured - refunded - Committed,
           refunded' = refunded + r, UNCHANGED Committed
    PROVE  EscrowOfDeal!GiveBack
  <1>1. r \in 1..(Captured - refunded - Committed)
    BY CapturedIsNat, SMT
  <1> QED BY <1>1, Zenon DEF EscrowOfDeal!GiveBack

LEMMA PaidFirst ==
    ASSUME PayoutIInv, ~Gone, Gone', UNCHANGED refunded,
           payout.amount # 0, payout'.amount = payout.amount, payout.status # "cancelled"
    PROVE  EscrowOfDeal!PayTraveler
  <1>1. Committed = 0 /\ Committed' = payout.amount
    BY CommittedIs, CommittedIsNext, Zenon
  <1>2. PICK a \in Nat : a = payout.amount
    BY PayoutFields
  <1>3. refunded \in Nat /\ a # 0 /\ refunded + a <= Captured
    BY <1>2, PayoutFields, Zenon DEF PayoutIInv, OpenFitsTheCapture
  <1>4. a \in 1..(Captured - refunded)
    BY <1>3, CapturedIsNat, SMT
  <1> QED BY <1>1, <1>2, <1>4, Zenon DEF EscrowOfDeal!PayTraveler

EscrowStep == EscrowOfDeal!GiveBack \/ EscrowOfDeal!PayTraveler
Still      == UNCHANGED <<refunded, Committed>>

LEMMA GatedIsStill == PayoutIInv /\ Gated => Still
  <1> SUFFICES ASSUME PayoutIInv, Gated PROVE Still
    OBVIOUS
  <1>1. /\ payout'.amount = payout.amount
        /\ Gone' <=> Gone
        /\ UNCHANGED refunded
    BY Zenon DEF Gated, GateMove, Gone
  <1> QED BY <1>1, CommittedIs, CommittedIsNext, Zenon DEF Still

LEMMA SettlementGivesBack ==
    ASSUME PayoutIInv, NEW award, Settles(award)
    PROVE  EscrowStep \/ Still
  <1>1. PICK r \in Nat, a \in Nat, f \in Nat :
            r + a + f = Collected /\ a >= Committed /\ refunded' = refunded + r
    BY Zenon DEF Settles, ApplySettlement, MaySettle, SoundAward
  <1>2. UNCHANGED Committed
    <2>1. Versioned => payout.status # "paid" /\ instr \notin Exposed
      BY Zenon DEF Settles, ApplySettlement, MaySettle, Uncommitted, Exposed
    <2>2. ~Versioned => instr = "none" /\ instr' = "none"
      BY Zenon DEF PayoutIInv, LegacyHasNoInstruction, Settles, ApplySettlement
    <2>3. PICK amount \in 0..Captured : payout' = Awarded(payout, amount)
      <3>1. PICK p \in Nat : p = award.payout /\ p <= Captured
        <4>1. PICK rr \in Nat, aa \in Nat, ff \in Nat : aa = award.payout /\ rr + aa + ff = Collected
          BY Zenon DEF Settles, ApplySettlement, MaySettle, SoundAward
        <4>2. Collected = Captured - refunded /\ refunded \in Nat
          BY PayoutFields DEF Collected
        <4>3. aa <= Captured
          BY <4>1, <4>2, CapturedIsNat, SMT
        <4> QED BY <4>1, <4>3
      <3>2. p \in 0..Captured
        BY <3>1, CapturedIsNat, SMT
      <3> QED BY <3>1, <3>2, Zenon DEF Settles, ApplySettlement
    <2>4. /\ payout.status = "paid" => payout' = payout
          /\ payout.status # "paid" => payout'.status # "paid"
      BY <2>3, PayoutFields, AwardedRow, Zenon
    <2>5. instr \notin Exposed => instr' \notin Exposed
      BY Zenon DEF Settles, ApplySettlement, Exposed
    <2>6. instr \notin Exposed
      BY <2>1, <2>2, Zenon DEF Exposed
    <2>7. CASE payout.status = "paid"
      BY <2>4, <2>7, CommittedIs, CommittedIsNext, Zenon DEF Gone
    <2>8. CASE payout.status # "paid"
      BY <2>4, <2>5, <2>6, <2>8, CommittedIs, CommittedIsNext, Zenon DEF Gone
    <2> QED BY <2>7, <2>8
  <1>3. CASE r = 0
    <2>1. refunded' = refunded
      BY <1>1, <1>3, PayoutFields, SMT
    <2> QED BY <1>2, <2>1, Zenon DEF Still
  <1>4. CASE r # 0
    <2>1. PICK c \in Nat : c = Committed
      BY PayoutFields, CommittedIs, Zenon
    <2>2. refunded \in Nat /\ r + a + f = Captured - refunded /\ a >= c
      BY <1>1, <2>1, PayoutFields, Zenon DEF Collected
    <2>3. r <= Captured - refunded - c
      BY <2>2, CapturedIsNat, SMT
    <2> QED BY <1>1, <1>2, <1>4, <2>1, <2>3, Given DEF EscrowStep
  <1> QED BY <1>3, <1>4

LEMMA RailPaysOnce ==
    ASSUME PayoutIInv, RailStep
    PROVE  EscrowStep \/ Still
  <1>1. \A s \in PayoutStatus : /\ WithStatus(s).status = s
                                /\ WithStatus(s).amount = payout.amount
    BY WithStatusRow, Zenon
  <1>2. {"scheduled", "processing", "sent", "paid", "eligible"} \subseteq PayoutStatus
    BY Zenon DEF PayoutStatus
  <1>3. CASE Prepare
    <2>1. UNCHANGED refunded /\ payout'.status = "scheduled" /\ instr' = "prepared"
          /\ payout.status = "eligible" /\ instr \in {"none", "cancelled"}
      BY <1>1, <1>2, <1>3, Zenon DEF Prepare, BesidesRail
    <2>2. ~Gone /\ ~Gone'
      BY <2>1, Zenon DEF Gone, Exposed
    <2> QED BY <2>1, <2>2, CommittedIs, CommittedIsNext, Zenon DEF Still
  <1>4. CASE ReleasePreparation
    <2>1. /\ UNCHANGED refunded /\ instr = "prepared" /\ instr' = "cancelled"
          /\ payout'.status = "eligible" \/ payout' = payout
      BY <1>1, <1>2, <1>4, Zenon DEF ReleasePreparation, BesidesRail
    <2>2. payout.status # "paid"
      BY <1>4, <2>1, Zenon DEF ReleasePreparation, PayoutIInv, PaidIsExposed, Exposed
    <2>3. ~Gone /\ ~Gone'
      BY <2>1, <2>2, Zenon DEF Gone, Exposed
    <2> QED BY <2>1, <2>3, CommittedIs, CommittedIsNext, Zenon DEF Still
  <1>5. CASE Begin
    <2>1. /\ UNCHANGED refunded /\ instr = "prepared" /\ instr' = "committed"
          /\ payout.status = "scheduled" /\ payout'.amount = payout.amount
          /\ payout.amount > 0
      BY <1>1, <1>2, <1>5, Zenon DEF Begin, RailGate, BesidesRail
    <2>2. ~Gone /\ Gone'
      BY <2>1, Zenon DEF Gone, Exposed
    <2>3. payout.amount # 0
      BY <2>1, PayoutFields, SMT
    <2> QED BY <2>1, <2>2, <2>3, PaidFirst, Zenon DEF EscrowStep
  <1>6. CASE CompleteManualPayout
    <2>1. /\ UNCHANGED <<refunded, instr>> /\ ~Versioned
          /\ payout.status \in {"eligible", "scheduled", "processing"}
          /\ payout'.status = "paid" /\ payout'.amount = payout.amount
      BY <1>1, <1>2, <1>6, Zenon DEF CompleteManualPayout, BesidesRail
    <2>2. instr = "none" /\ payout.amount # 0
      BY <2>1, Zenon DEF PayoutIInv, LegacyHasNoInstruction, LegacyAmountPositive
    <2>3. ~Gone /\ Gone'
      BY <2>1, <2>2, Zenon DEF Gone, Exposed
    <2> QED BY <2>1, <2>2, <2>3, PaidFirst, Zenon DEF EscrowStep
  <1>7. ASSUME NEW settled \in BOOLEAN, Confirm(settled)
        PROVE  Still
    <2>1. /\ UNCHANGED refunded /\ instr \in {"committed", "sent"} /\ instr' \in {"sent", "succeeded"}
          /\ payout'.amount = payout.amount
      BY <1>1, <1>2, <1>7, Zenon DEF Confirm, BesidesRail
    <2>2. Gone /\ Gone'
      BY <2>1, Zenon DEF Gone, Exposed
    <2> QED BY <2>1, <2>2, CommittedIs, CommittedIsNext, Zenon DEF Still
  <1> QED BY <1>3, <1>4, <1>5, <1>6, <1>7, Zenon DEF RailStep

LEMMA EscrowInitially == SystemInit => EscrowOfDeal!EscrowInit
  <1> SUFFICES ASSUME SystemInit PROVE EscrowOfDeal!EscrowInit
    OBVIOUS
  <1>1. payout.status = "not_eligible" /\ instr = "none" /\ refunded = 0
    BY Zenon DEF SystemInit, PayoutInit, Row
  <1>2. ~Gone
    BY <1>1, Zenon DEF Gone, Exposed
  <1> QED BY <1>1, <1>2, PayoutInitIInv, CommittedIs, Zenon DEF EscrowOfDeal!EscrowInit

LEMMA EveryStepIsAnEscrowStep ==
    PayoutIInv /\ [SystemNext]_systemVars
        => [EscrowOfDeal!GiveBack \/ EscrowOfDeal!PayTraveler]_<<refunded, Committed>>
  <1> SUFFICES ASSUME PayoutIInv, [SystemNext]_systemVars PROVE EscrowStep \/ Still
    BY DEF EscrowStep, Still
  <1> QED BY StepKinds, GatedIsStill, SettlementGivesBack, RailPaysOnce

(* The money of a Deal is an escrow: nothing is given back twice, nothing  *)
(* returned is taken back, and the traveler is paid at most once from what *)
(* was not returned, for every amount and every number of disputes.        *)
THEOREM DealImplementsEscrow == SystemSpec => ImplementsEscrow
  <1>1. EscrowOfDeal!escrowVars = <<refunded, Committed>>
    BY DEF EscrowOfDeal!escrowVars
  <1> QED BY EscrowInitially, EveryStepIsAnEscrowStep, PayoutInvariant, PTL
          DEF SystemSpec, ImplementsEscrow, EscrowOfDeal!EscrowSpec, EscrowOfDeal!escrowVars
-----------------------------------------------------------------------------
(* Beside DisputeHoldsMoney: one dispute is active at a time, and a refund *)
(* closes the Deal in the same step.                                       *)
OneActiveDispute ==
    \A d, e \in DisputeIds :
        dispute[d].status \in ActiveStatus /\ dispute[e].status \in ActiveStatus => d = e
RefundCloses == refunded # 0 => status \in Closed

DisputeIInv == OneActiveDispute /\ RefundCloses /\ DisputeHoldsMoney

IInv == CodesIInv /\ PayoutIInv /\ DisputeIInv

Ended == {"paid", "cancelled"}

LEMMA FrozenStatus ==
    ASSUME NEW p \in PayoutRow
    PROVE  /\ Frozen(p).status \in Ended \union {"frozen"}
           /\ p.status \in Ended => Frozen(p).status = p.status
  BY Zenon DEF Frozen, Row, Ended

LEMMA DecidedStatus ==
    ASSUME NEW p \in PayoutRow
    PROVE  /\ Decided(p).status # "frozen"
           /\ p.status = "cancelled" => Decided(p).status = "cancelled"
  <1>1. CASE p.status \in {"scheduled", "processing", "sent", "paid", "cancelled"}
    BY <1>1, Zenon DEF Decided, Row
  <1>2. CASE p.status \notin {"scheduled", "processing", "sent", "paid", "cancelled"}
    <2>1. Decided(p).status \in {"blocked", "eligible"}
      BY <1>2, Zenon DEF Decided, Row
    <2> QED BY <1>2, <2>1, Zenon
  <1> QED BY <1>1, <1>2

LEMMA AwardedStatus ==
    ASSUME NEW p \in PayoutRow, NEW amount
    PROVE  Awarded(p, amount).status # "frozen"
  <1>1. Awarded(p, amount).status \in {"paid", "cancelled", "not_eligible", "blocked", "eligible"}
    BY Zenon DEF Awarded, Row
  <1> QED BY <1>1, Zenon
-----------------------------------------------------------------------------
(* Nothing but a dispute takes a Deal out of `disputed', and nothing takes *)
(* it out of a closed status.                                              *)
StatusAdvances == status' # status => status \notin Closed \union {"disputed"}

Elsewhere ==
    /\ StatusAdvances
    /\ UNCHANGED <<dispute, refunded, payout>>

LEMMA HandoverIsElsewhere ==
    ASSUME IInv, ClockTicks \/ HandoverStep \/ DeliverAndArm \/ UNCHANGED systemVars
    PROVE  Elsewhere
  <1>1. CASE ClockTicks
    BY <1>1, Zenon DEF ClockTicks, Tick, payoutVars, Elsewhere, StatusAdvances
  <1>2. CASE DeliverAndArm
    BY <1>2, Zenon DEF DeliverAndArm, ConfirmDelivery, ApplyDeliveryConfirmed, Elsewhere,
       StatusAdvances, Closed
  <1>3. CASE UNCHANGED systemVars
    BY <1>3, Zenon DEF systemVars, lifecycleVars, payoutVars, Elsewhere, StatusAdvances
  <1>4. CASE HandoverStep
    <2>1. UNCHANGED <<refunded, payout>>
      BY <1>4, Zenon DEF HandoverStep, payoutVars
    <2>2. ASSUME Promote PROVE UNCHANGED dispute /\ StatusAdvances
      BY <2>2, Zenon DEF Promote, ApplyDeliveryCodeReleased, StatusAdvances, InCarriage, Closed
    <2>3. UNCHANGED dispute /\ StatusAdvances
      <3>1. CASE SetRecipient
        BY <3>1, Zenon DEF SetRecipient, ApplyPickupReady, StatusAdvances, Closed
      <3>2. CASE RunReleaseJob \/ RevealReleases
        <4>1. CASE ReleaseJobHasNothingToDo
          BY <4>1, Zenon DEF ReleaseJobHasNothingToDo, lifecycleVars, StatusAdvances
        <4>2. CASE ReleaseJobActs \/ RevealReleases
          BY <2>2, <4>2, Zenon DEF ReleaseJobActs, RevealReleases
        <4> QED BY <3>2, <4>1, <4>2, Zenon DEF RunReleaseJob
      <3>3. CASE \E k \in Kinds : Rotate(k) \/ SubmitWrong(k)
        BY <3>3, Zenon DEF Rotate, SubmitWrong, lifecycleVars, StatusAdvances
      <3>4. CASE ConfirmPickup
        BY <3>4, Zenon DEF ConfirmPickup, ApplyPickupConfirmed, StatusAdvances, PrePickup, Closed
      <3> QED BY <1>4, <3>1, <3>2, <3>3, <3>4, Zenon DEF HandoverStep, HandoverNext
    <2> QED BY <2>1, <2>3, Zenon DEF Elsewhere
  <1> QED BY <1>1, <1>2, <1>3, <1>4

(* The gate and the rails leave what a dispute holds.                      *)
Held ==
    /\ StatusAdvances
    /\ UNCHANGED <<dispute, refunded>>
    /\ ActiveDispute => payout'.status \in Ended \union {"frozen"}
    /\ payout'.status = "frozen" => payout.status = "frozen" \/ ActiveDispute
    /\ payout.status = "cancelled" => payout'.status = "cancelled"

LEMMA EvaluationHolds ==
    ASSUME IInv, EvaluateRelease
    PROVE  Held
  <1>1. payout \in PayoutRow
    BY PayoutFields DEF IInv
  <1>2. UNCHANGED <<dispute, refunded>> /\ StatusAdvances
    BY Zenon DEF EvaluateRelease, CloseOut, StatusAdvances, Closed
  <1>3. ActiveDispute => payout.status \in Ended \union {"frozen"}
    BY Zenon DEF IInv, DisputeIInv, DisputeHoldsMoney, Ended
  <1>4. CASE payout' = payout
    BY <1>2, <1>3, <1>4, Zenon DEF Held
  <1>5. CASE payout' = Frozen(payout) /\ ActiveDispute
    BY <1>1, <1>2, <1>5, FrozenStatus, Zenon DEF Held, Ended
  <1>6. CASE payout' = Decided(payout) /\ ~ActiveDispute
    BY <1>1, <1>2, <1>6, DecidedStatus, Zenon DEF Held
  <1>7. /\ ReleaseAnswer = "frozen_by_dispute" => ActiveDispute
        /\ ReleaseAnswer = "decided" => ~ActiveDispute
    BY Zenon DEF ReleaseAnswer
  <1> QED BY <1>4, <1>5, <1>6, <1>7, Zenon DEF EvaluateRelease

LEMMA RailHolds ==
    ASSUME IInv, RailStep
    PROVE  Held
  <1>1. \A s \in PayoutStatus : WithStatus(s).status = s
    BY WithStatusRow, Zenon DEF IInv
  <1>2. {"scheduled", "processing", "sent", "paid", "eligible"} \subseteq PayoutStatus
    BY Zenon DEF PayoutStatus
  <1>3. ActiveDispute => payout.status \in Ended \union {"frozen"}
    BY Zenon DEF IInv, DisputeIInv, DisputeHoldsMoney, Ended
  <1>4. UNCHANGED <<status, dispute, refunded>>
    BY Zenon DEF RailStep, Prepare, Begin, ReleasePreparation, Confirm, CompleteManualPayout,
       BesidesRail, lifecycleVars
  <1>5. CASE payout' = payout
    BY <1>3, <1>4, <1>5, Zenon DEF Held, StatusAdvances
  <1>6. CASE /\ payout.status \in {"eligible", "scheduled", "processing", "sent"}
             /\ payout'.status \in {"scheduled", "processing", "sent", "paid", "eligible"}
    BY <1>3, <1>4, <1>6, Zenon DEF Held, StatusAdvances, Ended
  <1>7. \/ payout' = payout
        \/ /\ payout.status \in {"eligible", "scheduled", "processing", "sent"}
           /\ payout'.status \in {"scheduled", "processing", "sent", "paid", "eligible"}
    <2>1. CASE Prepare
      BY <1>1, <1>2, <2>1, Zenon DEF Prepare
    <2>2. CASE Begin
      BY <1>1, <1>2, <2>2, Zenon DEF Begin
    <2>3. CASE ReleasePreparation
      BY <1>1, <1>2, <2>3, Zenon DEF ReleasePreparation
    <2>4. CASE CompleteManualPayout
      BY <1>1, <1>2, <2>4, Zenon DEF CompleteManualPayout
    <2>5. CASE \E settled \in BOOLEAN : Confirm(settled)
      BY <1>1, <1>2, <2>5, Zenon DEF Confirm, RailGate
    <2> QED BY <2>1, <2>2, <2>3, <2>4, <2>5, Zenon DEF RailStep
  <1> QED BY <1>5, <1>6, <1>7

LEMMA PayoutStepHolds ==
    ASSUME IInv, PayoutStep
    PROVE  Held
  <1>1. CASE RailStep
    BY <1>1, RailHolds
  <1>2. CASE RunExpiryJob \/ RunCheckJob \/ ReviewedRelease
    BY <1>2, EvaluationHolds, Zenon DEF RunExpiryJob, RunCheckJob, ReviewedRelease
  <1>3. CASE RetireCheckJob \/ \E b \in BOOLEAN : ReviewProfile(b) \/ SetHold(b)
    <2>1. UNCHANGED <<status, dispute, refunded, payout>>
      BY <1>3, Zenon DEF RetireCheckJob, ReviewProfile, SetHold, lifecycleVars
    <2> QED BY <2>1, Zenon DEF Held, StatusAdvances, IInv, DisputeIInv, DisputeHoldsMoney, Ended
  <1> QED BY <1>1, <1>2, <1>3, Zenon DEF PayoutStep, PayoutNext, RailStep
-----------------------------------------------------------------------------
LEMMA ElsewhereKeepsDisputes == IInv /\ Elsewhere => DisputeIInv'
  <1> SUFFICES ASSUME IInv, Elsewhere PROVE DisputeIInv'
    OBVIOUS
  <1> USE DEF IInv, DisputeIInv, Elsewhere, StatusAdvances
  <1>1. OneActiveDispute' /\ RefundCloses'
    BY Zenon DEF OneActiveDispute, RefundCloses, Closed
  <1>2. DisputeHoldsMoney'
    BY Zenon DEF DisputeHoldsMoney, ActiveDispute
  <1> QED BY <1>1, <1>2

LEMMA HeldKeepsDisputes == IInv /\ Held => DisputeIInv'
  <1> SUFFICES ASSUME IInv, Held PROVE DisputeIInv'
    OBVIOUS
  <1> USE DEF IInv, DisputeIInv, Held, StatusAdvances
  <1>1. OneActiveDispute' /\ RefundCloses'
    BY Zenon DEF OneActiveDispute, RefundCloses, Closed
  <1>2. DisputeHoldsMoney'
    BY Zenon DEF DisputeHoldsMoney, ActiveDispute, Ended
  <1> QED BY <1>1, <1>2

(* A settlement leaves the payout unfrozen, and refunds what its plan says.*)
LEMMA SettledPayout ==
    ASSUME IInv, NEW award, ApplySettlement(award)
    PROVE  payout'.status # "frozen" /\ refunded' = refunded + award.refund
  BY PayoutFields, AwardedStatus, Zenon DEF IInv, ApplySettlement

LEMMA DisputesKeepDisputes == IInv /\ DisputesNext => DisputeIInv'
  <1> SUFFICES ASSUME IInv, DisputesNext PROVE DisputeIInv'
    OBVIOUS
  <1>1. PICK d \in DisputeIds :
            \/ \E party \in BOOLEAN : OpenDispute(d, party)
            \/ \E s \in ActiveStatus : SetDisputeStatus(d, s)
            \/ CloseDispute(d)
            \/ \E award \in Resolutions : Resolve(d, award)
    BY Zenon DEF DisputesNext
  <1>2. /\ dispute \in [DisputeIds -> Dispute]
        /\ payout \in PayoutRow
        /\ OneActiveDispute /\ RefundCloses /\ DisputeHoldsMoney
    BY PayoutFields, Zenon DEF IInv, CodesIInv, LifecycleTypeOK, DisputeIInv
  <1>3. ASSUME NEW party \in BOOLEAN, OpenDispute(d, party)
        PROVE  DisputeIInv'
    <2>1. /\ ~ActiveDispute /\ status \notin Closed /\ status' = "disputed"
          /\ payout' = Frozen(payout) /\ refunded' = refunded
      BY <1>3, Zenon DEF OpenDispute, ApplyDisputed
    <2>2. /\ \A e \in DisputeIds : e # d => dispute'[e] = dispute[e]
      BY <1>2, <1>3, Zenon DEF OpenDispute
    <2>3. OneActiveDispute'
      BY <2>1, <2>2, Zenon DEF ActiveDispute, OneActiveDispute
    <2>4. RefundCloses'
      BY <1>2, <2>1, Zenon DEF RefundCloses
    <2>5. DisputeHoldsMoney'
      BY <1>2, <2>1, FrozenStatus, Zenon DEF DisputeHoldsMoney, Ended
    <2> QED BY <2>3, <2>4, <2>5 DEF DisputeIInv
  <1>4. ASSUME (\E s \in ActiveStatus : SetDisputeStatus(d, s)) \/ CloseDispute(d)
        PROVE  DisputeIInv'
    <2>1. /\ UNCHANGED <<status, payout, refunded>>
          /\ \A e \in DisputeIds : dispute'[e].status \in ActiveStatus
                                       => dispute[e].status \in ActiveStatus
      <3>1. CASE \E s \in ActiveStatus : SetDisputeStatus(d, s)
        <4>1. dispute[d].status \in ActiveStatus /\ \A e \in DisputeIds : e # d => dispute'[e] = dispute[e]
          BY <1>2, <3>1, Zenon DEF SetDisputeStatus, SetDispute
        <4> QED BY <3>1, <4>1, Zenon DEF SetDisputeStatus, payoutVars
      <3>2. CASE CloseDispute(d)
        <4>1. dispute'[d].status = "closed" /\ \A e \in DisputeIds : e # d => dispute'[e] = dispute[e]
          BY <1>2, <3>2, Zenon DEF CloseDispute, SetDispute
        <4> QED BY <3>2, <4>1, Zenon DEF CloseDispute, payoutVars, ActiveStatus
      <3> QED BY <1>4, <3>1, <3>2
    <2>2. OneActiveDispute'
      BY <1>2, <2>1, Zenon DEF OneActiveDispute
    <2>3. RefundCloses' /\ DisputeHoldsMoney'
      BY <1>2, <2>1, Zenon DEF RefundCloses, DisputeHoldsMoney, ActiveDispute
    <2> QED BY <2>2, <2>3 DEF DisputeIInv
  <1>5. ASSUME NEW award \in Resolutions, Resolve(d, award)
        PROVE  DisputeIInv'
    <2>1. dispute[d].status \in ActiveStatus /\ status = "disputed"
      BY <1>2, <1>5, Zenon DEF Resolve, DisputeHoldsMoney, ActiveDispute
    <2>2. refunded = 0
      BY <1>2, <2>1, Zenon DEF RefundCloses, Closed
    <2>3. ~ActiveDispute'
      <3>1. dispute'[d].status = "resolved" /\ \A e \in DisputeIds : e # d => dispute'[e] = dispute[e]
        BY <1>2, <1>5, Zenon DEF Resolve, SetDispute
      <3>2. \A e \in DisputeIds : e # d => dispute[e].status \notin ActiveStatus
        BY <1>2, <2>1, Zenon DEF OneActiveDispute
      <3> QED BY <3>1, <3>2, Zenon DEF ActiveDispute, ActiveStatus
    <2>4. OneActiveDispute'
      BY <2>3, Zenon DEF ActiveDispute, OneActiveDispute
    <2>5. payout'.status # "frozen" /\ refunded' = refunded + award.refund
      BY <1>5, SettledPayout DEF Resolve
    <2>6. RefundCloses'
      <3>1. CASE award.refund = 0
        <4>1. refunded' = 0
          BY <2>2, <2>5, <3>1, SMT
        <4> QED BY <4>1, Zenon DEF RefundCloses
      <3>2. CASE award.refund # 0
        BY <1>5, <3>2, Zenon DEF Resolve, ApplyDisputeResolved, ResolutionStatus, RefundCloses, Closed
      <3> QED BY <3>1, <3>2
    <2>7. DisputeHoldsMoney'
      BY <2>3, <2>5, Zenon DEF DisputeHoldsMoney
    <2> QED BY <2>4, <2>6, <2>7 DEF DisputeIInv
  <1> QED BY <1>1, <1>3, <1>4, <1>5, Zenon

(* A Deal that can still be cancelled has no active dispute.               *)
LEMMA CancellationKeepsDisputes == IInv /\ CancellationNext => DisputeIInv'
  <1> SUFFICES ASSUME IInv, CancellationNext PROVE DisputeIInv'
    OBVIOUS
  <1>1. OneActiveDispute /\ RefundCloses /\ DisputeHoldsMoney
    BY Zenon DEF IInv, DisputeIInv
  <1>2. status \in PrePickup
    BY Zenon DEF CancellationNext, Cancel, RecordNoShow, MayCancel
  <1>3. ~ActiveDispute
    BY <1>1, <1>2, Zenon DEF DisputeHoldsMoney, PrePickup
  <1>4. CASE \E award : ApplySettlement(award) /\ status' \in Closed /\ UNCHANGED dispute
    <2>1. payout'.status # "frozen"
      BY <1>4, SettledPayout
    <2> QED BY <1>1, <1>3, <1>4, <2>1, Zenon DEF DisputeIInv, OneActiveDispute, RefundCloses,
            DisputeHoldsMoney, ActiveDispute
  <1>5. CASE UNCHANGED <<status, payout, refunded, dispute>>
    BY <1>1, <1>5, Zenon DEF DisputeIInv, OneActiveDispute, RefundCloses, DisputeHoldsMoney,
       ActiveDispute
  <1>6. ASSUME NEW role \in Parties, Cancel(role)
        PROVE  \E award : ApplySettlement(award) /\ status' \in Closed /\ UNCHANGED dispute
    BY <1>6, Zenon DEF Cancel, Closed
  <1>7. ASSUME NEW refund \in BOOLEAN, RecordNoShow(refund)
        PROVE  \/ \E award : ApplySettlement(award) /\ status' \in Closed /\ UNCHANGED dispute
               \/ UNCHANGED <<status, payout, refunded, dispute>>
    BY <1>7, Zenon DEF RecordNoShow, Closed, payoutVars
  <1> QED BY <1>4, <1>5, <1>6, <1>7, Zenon DEF CancellationNext
-----------------------------------------------------------------------------
LEMMA SystemInitIInv == SystemInit => IInv
  <1> SUFFICES ASSUME SystemInit PROVE IInv
    OBVIOUS
  <1>1. dispute = [d \in DisputeIds |-> NoDispute] /\ refunded = 0 /\ payout.status = "not_eligible"
    BY Zenon DEF SystemInit, LifecycleInit, PayoutInit, Row
  <1>2. \A d \in DisputeIds : dispute[d].status \notin ActiveStatus
    BY <1>1, Zenon DEF NoDispute, ActiveStatus
  <1>3. DisputeIInv
    BY <1>1, <1>2, Zenon DEF DisputeIInv, OneActiveDispute, RefundCloses, DisputeHoldsMoney,
       ActiveDispute
  <1> QED BY <1>3, CodesInit, PayoutInitIInv DEF IInv

LEMMA SystemNextIInv == IInv /\ [SystemNext]_systemVars => IInv'
  <1> SUFFICES ASSUME IInv, [SystemNext]_systemVars PROVE IInv'
    OBVIOUS
  <1>1. CodesIInv' /\ PayoutIInv'
    BY CodesNext, PayoutNextIInv DEF IInv
  <1>2. DisputeIInv'
    BY HandoverIsElsewhere, PayoutStepHolds, ElsewhereKeepsDisputes, HeldKeepsDisputes,
       DisputesKeepDisputes, CancellationKeepsDisputes, Zenon DEF SystemNext
  <1> QED BY <1>1, <1>2 DEF IInv

LEMMA SystemInvariant == SystemSpec => []IInv
  BY SystemInitIInv, SystemNextIInv, PTL DEF SystemSpec

(* While a dispute is active the Deal is disputed and its payout, unless   *)
(* already ended, is frozen, however many disputes follow each other.      *)
THEOREM DisputesHoldTheMoney == SystemSpec => []DisputeHoldsMoney
  <1>1. IInv => DisputeHoldsMoney
    BY DEF IInv, DisputeIInv
  <1> QED BY <1>1, SystemInvariant, PTL

(* A refunded Deal does not move again, and a payout cancelled with a      *)
(* refund stays cancelled.                                                 *)
LEMMA RefundStep ==
    IInv /\ [SystemNext]_systemVars
        => [/\ status \in Closed => status' = status /\ refunded' = refunded
            /\ (refunded > 0 /\ payout.status = "cancelled") => payout'.status = "cancelled"
           ]_systemVars
  <1> DEFINE Final == /\ status \in Closed => status' = status /\ refunded' = refunded
                      /\ (refunded > 0 /\ payout.status = "cancelled")
                             => payout'.status = "cancelled"
  <1> SUFFICES ASSUME IInv, [SystemNext]_systemVars PROVE Final
    OBVIOUS
  <1>1. refunded > 0 => status \in Closed
    <2>1. refunded > 0 => refunded # 0
      BY PayoutFields, SMT DEF IInv
    <2> QED BY <2>1, Zenon DEF IInv, DisputeIInv, RefundCloses
  <1>2. CASE Elsewhere
    BY <1>2, Zenon DEF Elsewhere, StatusAdvances
  <1>3. CASE Held
    BY <1>3, Zenon DEF Held, StatusAdvances
  <1>4. CASE DisputesNext
    <2>1. PICK d \in DisputeIds :
              \/ \E party \in BOOLEAN : OpenDispute(d, party)
              \/ \E s \in ActiveStatus : SetDisputeStatus(d, s)
              \/ CloseDispute(d)
              \/ \E award \in Resolutions : Resolve(d, award)
      BY <1>4, Zenon DEF DisputesNext
    <2>2. CASE \E party \in BOOLEAN : OpenDispute(d, party)
      BY <1>1, <2>2, Zenon DEF OpenDispute, ApplyDisputed
    <2>3. CASE (\E s \in ActiveStatus : SetDisputeStatus(d, s)) \/ CloseDispute(d)
      BY <2>3, Zenon DEF SetDisputeStatus, CloseDispute, payoutVars
    <2>4. CASE \E award \in Resolutions : Resolve(d, award)
      <3>1. status = "disputed"
        BY <2>4, Zenon DEF Resolve, IInv, DisputeIInv, DisputeHoldsMoney, ActiveDispute
      <3> QED BY <1>1, <3>1, Zenon DEF Closed
    <2> QED BY <2>1, <2>2, <2>3, <2>4
  <1>5. CASE CancellationNext
    <2>1. status \in PrePickup
      BY <1>5, Zenon DEF CancellationNext, Cancel, RecordNoShow, MayCancel
    <2> QED BY <1>1, <2>1, Zenon DEF PrePickup, Closed
  <1> QED BY <1>2, <1>3, <1>4, <1>5, HandoverIsElsewhere, PayoutStepHolds, Zenon DEF SystemNext

THEOREM RefundsAreFinal == SystemSpec => RefundIsFinal
  BY RefundStep, SystemInvariant, PTL DEF SystemSpec, RefundIsFinal
-----------------------------------------------------------------------------
(***************************************************************************)
(* Money leaves for the traveler only when it was earned.  The invariant:  *)
(* an instruction that left, and on the legacy rail a payout an operator   *)
(* may complete, finds the Deal delivered and past its gate, or judged by  *)
(* a settlement; and neither is ever undone.                               *)
(***************************************************************************)

Over   == Delivered /\ now >= ReleaseGateAt
Judged == status = "partially_refunded" \/ \E d \in DisputeIds : dispute[d].decided
Earned == Over \/ (~Versioned /\ Judged)

Due == payout.status \in {"eligible", "scheduled", "processing"}

GoneIsEarned  == Gone => Earned
DueIsEarned   == ~Versioned /\ Due => Earned
DecidedIsOver == \A d \in DisputeIds :
                    dispute[d].decided => dispute[d].status \in {"resolved", "closed"}

EarnedIInv == GoneIsEarned /\ DueIsEarned /\ DecidedIsOver
-----------------------------------------------------------------------------
(* The clock does not run back and a delivery is recorded once.            *)
LEMMA DeliveryStands ==
    ASSUME IInv, [SystemNext]_systemVars
    PROVE  /\ now' \in Nat /\ now' >= now
           /\ Delivered => deliveredAt' = deliveredAt
  <1>1. now \in Nat
    BY LifecycleAssumption, SMT DEF IInv, CodesIInv, LifecycleTypeOK
  <1>2. CASE Quiet \/ UNCHANGED <<now, deliveredAt>>
    <2>1. UNCHANGED <<now, deliveredAt>>
      BY <1>2, Zenon DEF Quiet
    <2> QED BY <1>1, <2>1, SMT
  <1>3. CASE ClockTicks
    <2>1. now' = now + 1 /\ deliveredAt' = deliveredAt
      BY <1>3, Zenon DEF ClockTicks, Tick
    <2> QED BY <1>1, <2>1, SMT
  <1>4. CASE DeliverAndArm
    <2>1. ~Delivered /\ now' = now
      BY <1>4, Zenon DEF DeliverAndArm, ConfirmDelivery, ApplyDeliveryConfirmed
    <2> QED BY <1>1, <2>1, SMT
  <1>5. HandoverStep => UNCHANGED <<now, deliveredAt>>
    BY Zenon DEF HandoverStep, HandoverNext, SetRecipient, RunReleaseJob, ReleaseJobActs,
       ReleaseJobHasNothingToDo, RevealReleases, Promote, Rotate, SubmitWrong, ConfirmPickup,
       ApplyDeliveryCodeReleased, lifecycleVars
  <1>6. UNCHANGED systemVars => UNCHANGED <<now, deliveredAt>>
    BY Zenon DEF systemVars, lifecycleVars
  <1> QED BY <1>2, <1>3, <1>4, <1>5, <1>6, PayoutIsQuiet, DisputesAreQuiet, CancellationIsQuiet,
             Zenon DEF SystemNext, IInv

(* Once past its gate, a Deal stays past it.                               *)
LEMMA OverStays ==
    ASSUME IInv, [SystemNext]_systemVars, Over
    PROVE  Over'
  <1>1. deliveredAt' = deliveredAt /\ deliveredAt # NotYet /\ now' \in Nat /\ now' >= now
    BY DeliveryStands, Zenon DEF Over, Delivered
  <1>2. ReleaseGateAt' = ReleaseGateAt /\ Delivered'
    BY <1>1, Zenon DEF ReleaseGateAt, ProtectionEndsAt, Delivered
  <1>3. PICK gate \in Int : gate = ReleaseGateAt
    BY LifecycleAssumption, SMT DEF IInv, CodesIInv, LifecycleTypeOK, ReleaseGateAt,
       ProtectionEndsAt, NotYet
  <1>4. now \in Nat /\ now >= gate
    BY <1>3, LifecycleAssumption, SMT DEF IInv, CodesIInv, LifecycleTypeOK, Over
  <1>5. now' >= gate
    BY <1>1, <1>4, SMT
  <1> QED BY <1>2, <1>3, <1>5, Zenon DEF Over

(* A decision is filed away with its dispute and never taken back.         *)
LEMMA DecisionsStand ==
    ASSUME IInv, DecidedIsOver, [SystemNext]_systemVars
    PROVE  /\ DecidedIsOver'
           /\ \A d \in DisputeIds : dispute[d].decided => dispute'[d].decided
  <1>1. CASE UNCHANGED dispute
    BY <1>1, Zenon DEF DecidedIsOver
  <1>2. CASE DisputesNext
    <2>1. PICK d \in DisputeIds :
              \/ \E party \in BOOLEAN : OpenDispute(d, party)
              \/ \E s \in ActiveStatus : SetDisputeStatus(d, s)
              \/ CloseDispute(d)
              \/ \E award \in Resolutions : Resolve(d, award)
      BY <1>2, Zenon DEF DisputesNext
    <2>2. dispute \in [DisputeIds -> Dispute]
      BY Zenon DEF IInv, CodesIInv, LifecycleTypeOK
    <2>3. ~ dispute[d].decided \/ dispute[d].status \notin ActiveStatus \union {"absent"}
      BY Zenon DEF DecidedIsOver, ActiveStatus
    <2>4. PICK row : dispute' = [dispute EXCEPT ![d] = row]
      BY <2>1, Zenon DEF OpenDispute, SetDisputeStatus, CloseDispute, Resolve, SetDispute
    <2>5. \A e \in DisputeIds : e # d => dispute'[e] = dispute[e]
      BY <2>2, <2>4, Zenon
    <2> DEFINE Filed == dispute'[d].status \in {"resolved", "closed"}
    <2>6. ASSUME dispute'[d].decided => Filed, dispute[d].decided => dispute'[d].decided
          PROVE  /\ DecidedIsOver'
                 /\ \A e \in DisputeIds : dispute[e].decided => dispute'[e].decided
      <3>1. ASSUME NEW e \in DisputeIds
            PROVE  /\ dispute'[e].decided => dispute'[e].status \in {"resolved", "closed"}
                   /\ dispute[e].decided => dispute'[e].decided
        <4>1. CASE e = d
          BY <2>6, <4>1
        <4>2. CASE e # d
          BY <2>5, <4>2, Zenon DEF DecidedIsOver
        <4> QED BY <4>1, <4>2
      <3> QED BY <3>1, Zenon DEF DecidedIsOver
    <2>7. CASE \E party \in BOOLEAN : OpenDispute(d, party)
      <3>1. dispute[d].status = "absent" /\ ~ dispute'[d].decided
        <4>1. PICK party \in BOOLEAN :
                  /\ dispute[d].status = "absent"
                  /\ dispute'[d] = [status |-> "open", byParty |-> party, decided |-> FALSE]
          BY <2>2, <2>7, Zenon DEF OpenDispute, IsNext
        <4> QED BY <4>1
      <3>2. ~ dispute[d].decided
        BY <2>3, <3>1, Zenon
      <3> QED BY <2>6, <3>1, <3>2, Zenon
    <2>8. CASE \E s \in ActiveStatus : SetDisputeStatus(d, s)
      <3>1. dispute[d].status \in ActiveStatus /\ ~ dispute'[d].decided
        <4>1. PICK s \in ActiveStatus :
                  /\ dispute[d].status \in ActiveStatus
                  /\ dispute'[d] = [status |-> s, byParty |-> dispute[d].byParty, decided |-> FALSE]
          BY <2>2, <2>8, Zenon DEF SetDisputeStatus, SetDispute
        <4> QED BY <4>1
      <3>2. ~ dispute[d].decided
        BY <2>3, <3>1, Zenon
      <3> QED BY <2>6, <3>1, <3>2, Zenon
    <2>9. CASE CloseDispute(d)
      <3>1. dispute'[d].status = "closed" /\ dispute'[d].decided = dispute[d].decided
        BY <2>2, <2>9, Zenon DEF CloseDispute, SetDispute
      <3> QED BY <2>6, <3>1, Zenon
    <2>10. CASE \E award \in Resolutions : Resolve(d, award)
      <3>1. dispute'[d].status = "resolved" /\ dispute'[d].decided
        <4>1. dispute'[d] = [status |-> "resolved", byParty |-> dispute[d].byParty, decided |-> TRUE]
          BY <2>2, <2>10, Zenon DEF Resolve, SetDispute
        <4> QED BY <4>1
      <3> QED BY <2>6, <3>1, Zenon
    <2> QED BY <2>1, <2>7, <2>8, <2>9, <2>10
  <1>3. CancellationNext => UNCHANGED dispute
    BY Zenon DEF CancellationNext, Cancel, RecordNoShow
  <1> QED BY <1>1, <1>2, <1>3, HandoverIsElsewhere, PayoutStepHolds,
             Zenon DEF SystemNext, Elsewhere, Held

(* What was earned stays earned, whatever happens to the Deal.             *)
LEMMA EarnedStays ==
    ASSUME IInv, DecidedIsOver, [SystemNext]_systemVars, Earned
    PROVE  Earned'
  <1>1. CASE Over
    BY <1>1, OverStays, Zenon DEF Earned
  <1>2. CASE ~Versioned /\ \E d \in DisputeIds : dispute[d].decided
    BY <1>2, DecisionsStand, Zenon DEF Earned, Judged
  <1>3. CASE ~Versioned /\ status = "partially_refunded"
    <2>1. CASE Elsewhere \/ Held
      BY <1>3, <2>1, Zenon DEF Elsewhere, Held, StatusAdvances, Closed, Earned, Judged
    <2>2. CASE UNCHANGED status
      BY <1>3, <2>2, Zenon DEF Earned, Judged
    <2>3. DisputesNext => UNCHANGED status
      <3> SUFFICES ASSUME DisputesNext PROVE UNCHANGED status
        OBVIOUS
      <3>1. \A d \in DisputeIds : dispute[d].status \in ActiveStatus => status = "disputed"
        BY Zenon DEF IInv, DisputeIInv, DisputeHoldsMoney, ActiveDispute
      <3> QED BY <1>3, <3>1, Zenon DEF DisputesNext, OpenDispute, ApplyDisputed, Closed,
                 SetDisputeStatus, CloseDispute, Resolve
    <2>4. ~CancellationNext
      BY <1>3, Zenon DEF CancellationNext, Cancel, RecordNoShow, MayCancel, PrePickup
    <2> QED BY <2>1, <2>2, <2>3, <2>4, HandoverIsElsewhere, PayoutStepHolds, Zenon DEF SystemNext
  <1> QED BY <1>1, <1>2, <1>3, Zenon DEF Earned, Judged
-----------------------------------------------------------------------------
(* No step makes a payout due, or lets it go, before it is earned.         *)
NothingNewlyOwed == /\ Gone' => Gone \/ Earned'
                    /\ ~Versioned /\ Due' => Due \/ Earned'

LEMMA EvaluationOwesNothingNew ==
    ASSUME IInv, [SystemNext]_systemVars, EvaluateRelease
    PROVE  NothingNewlyOwed
  <1>1. payout \in PayoutRow /\ UNCHANGED instr
    BY PayoutFields, Zenon DEF IInv, EvaluateRelease
  <1>2. CASE payout' = payout
    BY <1>1, <1>2, Zenon DEF NothingNewlyOwed, Gone, Due
  <1>3. CASE payout' = Frozen(payout)
    <2>1. payout'.status = payout.status \/ payout'.status = "frozen"
      BY <1>3, Zenon DEF Frozen, Row
    <2> QED BY <1>1, <2>1, Zenon DEF NothingNewlyOwed, Gone, Due
  <1>4. CASE ReleaseAnswer = "decided" /\ payout' = Decided(payout)
    <2>1. Over
      <3>1. Delivered /\ ~(now < ReleaseGateAt)
        BY <1>4, Zenon DEF ReleaseAnswer
      <3>2. now \in Int /\ ReleaseGateAt \in Int
        BY LifecycleAssumption, SMT DEF IInv, CodesIInv, LifecycleTypeOK, ReleaseGateAt,
           ProtectionEndsAt, NotYet
      <3>3. now >= ReleaseGateAt
        BY <3>1, <3>2, SMT
      <3> QED BY <3>1, <3>3 DEF Over
    <2>2. Earned'
      BY <2>1, OverStays, Zenon DEF Earned
    <2> QED BY <2>2, Zenon DEF NothingNewlyOwed
  <1> QED BY <1>2, <1>3, <1>4, Zenon DEF EvaluateRelease

LEMMA RailOwesNothingNew ==
    ASSUME IInv, EarnedIInv, [SystemNext]_systemVars, RailStep
    PROVE  NothingNewlyOwed
  <1>1. \A s \in PayoutStatus : WithStatus(s).status = s
    BY WithStatusRow, Zenon DEF IInv
  <1>2. {"scheduled", "processing", "sent", "paid", "eligible"} \subseteq PayoutStatus
    BY Zenon DEF PayoutStatus
  <1>3. CASE Prepare
    <2>1. Versioned /\ payout'.status = "scheduled" /\ instr' = "prepared"
      BY <1>1, <1>2, <1>3, Zenon DEF Prepare, RailGate
    <2> QED BY <2>1, Zenon DEF NothingNewlyOwed, Gone, Exposed
  <1>4. CASE ReleasePreparation
    <2>1. /\ Versioned /\ instr' = "cancelled"
          /\ payout'.status = "eligible" \/ payout' = payout
      BY <1>1, <1>2, <1>4, Zenon DEF ReleasePreparation
    <2> QED BY <2>1, Zenon DEF NothingNewlyOwed, Gone, Exposed
  <1>5. CASE Begin
    <2>1. Versioned /\ Over
      BY <1>5, Zenon DEF Begin, RailGate, Over
    <2> QED BY <2>1, OverStays, Zenon DEF NothingNewlyOwed, Earned
  <1>6. CASE \E settled \in BOOLEAN : Confirm(settled)
    <2>1. Versioned /\ instr \in Exposed
      BY <1>6, Zenon DEF Confirm, RailGate, Exposed
    <2> QED BY <2>1, Zenon DEF NothingNewlyOwed, Gone
  <1>7. CASE CompleteManualPayout
    <2>1. ~Versioned /\ Due
      BY <1>7, Zenon DEF CompleteManualPayout, Due
    <2>2. Earned'
      BY <2>1, EarnedStays, Zenon DEF EarnedIInv, DueIsEarned
    <2> QED BY <2>2, Zenon DEF NothingNewlyOwed
  <1> QED BY <1>3, <1>4, <1>5, <1>6, <1>7 DEF RailStep

(* A settlement on the versioned rail finds nothing gone; on the legacy    *)
(* rail it leaves a paid payout alone and makes an empty one cancelled.    *)
LEMMA SettlementMoves ==
    ASSUME IInv, NEW award, ApplySettlement(award)
    PROVE  /\ Gone' => Gone
           /\ award.payout = 0 => ~Due'
  <1>1. CASE payout.status = "paid"
    <2>1. payout' = payout
      BY <1>1, Zenon DEF ApplySettlement, Awarded
    <2> QED BY <1>1, <2>1, Zenon DEF Gone, Due
  <1>2. CASE payout.status # "paid"
    <2>1. payout'.status \in {"cancelled", "not_eligible", "blocked", "eligible"}
      BY <1>2, Zenon DEF ApplySettlement, Awarded, Row
    <2>2. award.payout = 0 => payout'.status = "cancelled"
      BY <1>2, Zenon DEF ApplySettlement, Awarded, Row
    <2>3. instr' \in Exposed => instr \in Exposed
      BY Zenon DEF ApplySettlement, Exposed
    <2> QED BY <2>1, <2>2, <2>3, Zenon DEF Gone, Due
  <1> QED BY <1>1, <1>2

LEMMA DisputesOweNothingNew ==
    ASSUME IInv, EarnedIInv, [SystemNext]_systemVars, DisputesNext
    PROVE  NothingNewlyOwed
  <1>1. PICK d \in DisputeIds :
            \/ \E party \in BOOLEAN : OpenDispute(d, party)
            \/ \E s \in ActiveStatus : SetDisputeStatus(d, s)
            \/ CloseDispute(d)
            \/ \E award \in Resolutions : Resolve(d, award)
    BY Zenon DEF DisputesNext
  <1>2. CASE \E party \in BOOLEAN : OpenDispute(d, party)
    <2>1. UNCHANGED instr /\ payout' = Frozen(payout)
      BY <1>2, Zenon DEF OpenDispute
    <2>2. payout'.status = payout.status \/ payout'.status = "frozen"
      BY <2>1, Zenon DEF Frozen, Row
    <2> QED BY <2>1, <2>2, Zenon DEF NothingNewlyOwed, Gone, Due
  <1>3. CASE (\E s \in ActiveStatus : SetDisputeStatus(d, s)) \/ CloseDispute(d)
    <2>1. UNCHANGED <<payout, instr>>
      BY <1>3, Zenon DEF SetDisputeStatus, CloseDispute, payoutVars
    <2> QED BY <2>1, Zenon DEF NothingNewlyOwed, Gone, Due
  <1>4. CASE \E award \in Resolutions : Resolve(d, award)
    <2>1. PICK award : Resolve(d, award)
      BY <1>4
    <2>2. Gone' => Gone
      BY <2>1, SettlementMoves, Zenon DEF Resolve
    <2>3. dispute \in [DisputeIds -> Dispute]
      BY Zenon DEF IInv, CodesIInv, LifecycleTypeOK
    <2>4. dispute'[d].decided
      BY <2>1, <2>3, Zenon DEF Resolve, SetDispute
    <2>5. ~Versioned => Earned'
      BY <2>4, Zenon DEF Earned, Judged
    <2> QED BY <2>2, <2>5, Zenon DEF NothingNewlyOwed
  <1> QED BY <1>1, <1>2, <1>3, <1>4

LEMMA CancellationOwesNothingNew ==
    ASSUME IInv, EarnedIInv, [SystemNext]_systemVars, CancellationNext
    PROVE  NothingNewlyOwed
  <1>1. CASE \E role \in Parties : Cancel(role)
    <2>1. PICK award : /\ ApplySettlement(award)
                      /\ status' = IF award.payout = 0 /\ award.refund = Collected
                                   THEN "refunded" ELSE "partially_refunded"
      BY <1>1, Zenon DEF Cancel
    <2>2. (Gone' => Gone) /\ (award.payout = 0 => ~Due')
      BY <2>1, SettlementMoves, Zenon
    <2>3. CASE award.payout = 0
      BY <2>2, <2>3, Zenon DEF NothingNewlyOwed
    <2>4. CASE award.payout # 0
      <3>1. status' = "partially_refunded"
        BY <2>1, <2>4, Zenon
      <3>2. ~Versioned => Earned'
        BY <3>1, Zenon DEF Earned, Judged
      <3> QED BY <2>2, <3>2, Zenon DEF NothingNewlyOwed
    <2> QED BY <2>3, <2>4
  <1>2. ASSUME NEW refund \in BOOLEAN, RecordNoShow(refund)
        PROVE  NothingNewlyOwed
    <2>1. CASE ~refund
      <3>1. UNCHANGED <<payout, instr>>
        BY <1>2, <2>1, Zenon DEF RecordNoShow, payoutVars
      <3> QED BY <3>1, Zenon DEF NothingNewlyOwed, Gone, Due
    <2>2. CASE refund
      <3>1. ApplySettlement(CancellationPlan(0))
        BY <1>2, <2>2, Zenon DEF RecordNoShow
      <3>2. (Gone' => Gone) /\ (CancellationPlan(0).payout = 0 => ~Due')
        BY <3>1, SettlementMoves, Zenon
      <3>3. CASE Gone
        BY <3>3, EarnedStays, Zenon DEF EarnedIInv, GoneIsEarned, NothingNewlyOwed
      <3>4. CASE ~Gone
        <4>1. Committed = 0
          BY <3>4, CommittedIs, Zenon DEF IInv
        <4>2. CancellationPlan(0).refused = ""
          BY <3>1, Zenon DEF ApplySettlement, MaySettle
        <4>3. 0 <= 0 /\ 0 # Unstated
          BY SMT DEF Unstated
        <4>4. CancellationPlan(0) = CoverPaidOut(Collected - 0, Collected - (Collected - 0), 0, 0)
          BY <4>1, <4>2, <4>3, Zenon DEF CancellationPlan, PlanSettlement, Refuse
        <4>5. \A a, b : CoverPaidOut(a, b, 0, 0) = Plan(a, 0, b - 0)
          BY <4>3, SMT DEF CoverPaidOut
        <4>6. \A a, b : Plan(a, 0, b).payout = 0
          BY Zenon DEF Plan
        <4>7. CancellationPlan(0).payout = 0
          BY <4>4, <4>5, <4>6, Zenon
        <4> QED BY <3>2, <4>7, Zenon DEF NothingNewlyOwed
      <3> QED BY <3>3, <3>4
    <2> QED BY <2>1, <2>2
  <1> QED BY <1>1, <1>2, Zenon DEF CancellationNext

LEMMA EverythingOwesNothingNew ==
    ASSUME IInv, EarnedIInv, [SystemNext]_systemVars
    PROVE  NothingNewlyOwed
  <1>1. CASE UNCHANGED <<payout, instr>>
    BY <1>1, Zenon DEF NothingNewlyOwed, Gone, Due
  <1>2. ClockTicks \/ HandoverStep \/ DeliverAndArm \/ UNCHANGED systemVars
            => UNCHANGED <<payout, instr>>
    BY Zenon DEF ClockTicks, HandoverStep, DeliverAndArm, systemVars, payoutVars
  <1>3. CASE PayoutStep
    <2>1. CASE RetireCheckJob \/ \E b \in BOOLEAN : ReviewProfile(b) \/ SetHold(b)
      <3>1. UNCHANGED <<payout, instr>>
        BY <2>1, Zenon DEF RetireCheckJob, ReviewProfile, SetHold
      <3> QED BY <1>1, <3>1
    <2>2. CASE RunExpiryJob \/ RunCheckJob \/ ReviewedRelease
      BY <2>2, EvaluationOwesNothingNew, Zenon DEF RunExpiryJob, RunCheckJob, ReviewedRelease
    <2> QED BY <1>3, <2>1, <2>2, RailOwesNothingNew, Zenon DEF PayoutStep, PayoutNext, RailStep
  <1> QED BY <1>1, <1>2, <1>3, DisputesOweNothingNew, CancellationOwesNothingNew,
             Zenon DEF SystemNext
-----------------------------------------------------------------------------
LEMMA EarnedInit == SystemInit => EarnedIInv
  <1> SUFFICES ASSUME SystemInit PROVE EarnedIInv
    OBVIOUS
  <1>1. /\ dispute = [d \in DisputeIds |-> NoDispute]
        /\ payout.status = "not_eligible" /\ instr = "none"
    BY Zenon DEF SystemInit, LifecycleInit, PayoutInit, Row
  <1>2. \A d \in DisputeIds : ~dispute[d].decided
    BY <1>1, Zenon DEF NoDispute
  <1> QED BY <1>1, <1>2, Zenon DEF EarnedIInv, GoneIsEarned, DueIsEarned, DecidedIsOver, Gone,
             Due, Exposed

LEMMA EarnedNext == IInv /\ EarnedIInv /\ [SystemNext]_systemVars => EarnedIInv'
  <1> SUFFICES ASSUME IInv, EarnedIInv, [SystemNext]_systemVars PROVE EarnedIInv'
    OBVIOUS
  <1>1. NothingNewlyOwed
    BY EverythingOwesNothingNew
  <1>2. Earned => Earned'
    BY EarnedStays, Zenon DEF EarnedIInv
  <1>3. DecidedIsOver'
    BY DecisionsStand, Zenon DEF EarnedIInv
  <1>4. GoneIsEarned' /\ DueIsEarned'
    BY <1>1, <1>2, Zenon DEF NothingNewlyOwed, EarnedIInv, GoneIsEarned, DueIsEarned
  <1> QED BY <1>3, <1>4 DEF EarnedIInv

(* Money leaves for the traveler only after a confirmed delivery, its      *)
(* protection window and its arrival floor, or on the legacy rail after a  *)
(* settlement awarded it: on either rail, for every amount, window and     *)
(* number of disputes.                                                     *)
THEOREM PaidIsAlwaysEarned == SystemSpec => []PaidOnlyWhenEarned
  <1>1. IInv /\ EarnedIInv => PaidOnlyWhenEarned
    <2> SUFFICES ASSUME IInv, EarnedIInv, Committed > 0 PROVE Earned
      BY Zenon DEF PaidOnlyWhenEarned, Earned, Over, Judged
    <2>1. Committed # 0
      BY SMT
    <2> QED BY <2>1, CommittedIs, Zenon DEF IInv, EarnedIInv, GoneIsEarned
  <1>2. SystemSpec => []EarnedIInv
    BY EarnedInit, EarnedNext, SystemInvariant, PTL DEF SystemSpec
  <1> QED BY <1>1, <1>2, SystemInvariant, PTL
-----------------------------------------------------------------------------
(***************************************************************************)
(* However a Deal ends - completed, resolved, cancelled or a no-show - it  *)
(* ends whole: no code that opens a handover is left, and its status tells *)
(* what became of the sender's money.  A resolution or a cancellation      *)
(* retires the codes itself; a completed window has used both, because it  *)
(* opened with the delivery.                                               *)
(*                                                                         *)
(* The one thing the code does not check is the policy frozen at funding:  *)
(* build_quote caps a late sender's compensation at the collected cash and *)
(* not below it, so a policy that gives all of it away would close a Deal  *)
(* as partially refunded with nothing refunded.                            *)
(***************************************************************************)
CompensationIsPartial == LateCompensation(Reward, LateBps, LateCap, Captured) < Captured

Finished == Closed \union {"completed"}

WindowFollowsDelivery == status = "protection_window" => Delivered
ClosedIsRefunded      == status \in Closed => refunded # 0
FullRefundIsAll       == refunded = Captured <=> status = "refunded"

EndedIInv ==
    /\ NoLiveCodeOnEndedDeal
    /\ WindowFollowsDelivery
    /\ ClosedIsRefunded
    /\ FullRefundIsAll

LEMMA EndedIInvIsEnough == IInv /\ EndedIInv => EndedDealIsClosed
  <1> SUFFICES ASSUME IInv, EndedIInv PROVE EndedDealIsClosed
    OBVIOUS
  <1>1. refunded = 0 <=> status \notin Closed
    BY Zenon DEF IInv, DisputeIInv, RefundCloses, EndedIInv, ClosedIsRefunded
  <1>2. ASSUME refunded = Captured PROVE Committed = 0
    <2>1. PICK c \in Nat : c = Committed
      BY PayoutFields, SMT DEF IInv, Committed
    <2>2. Captured + c <= Captured
      BY <1>2, <2>1, PayoutIInvIsEnough, Zenon DEF IInv, CaptureCoversPromises
    <2>3. c = 0
      BY <2>1, <2>2, CapturedIsNat, SMT
    <2> QED BY <2>1, <2>3, Zenon
  <1> QED BY <1>1, <1>2, Zenon DEF EndedDealIsClosed, StatusMatchesRefund, EndedIInv,
                                  FullRefundIsAll

(* With a platform fee no policy gives the whole capture away.             *)
LEMMA FeeKeepsCompensationPartial == Fee > 0 => CompensationIsPartial
  <1> SUFFICES ASSUME Fee > 0 PROVE CompensationIsPartial
    OBVIOUS
  <1>1. Reward \in Nat /\ Fee \in Nat /\ LateBps \in 0..10000 /\ LateCap \in Nat
    BY PayoutAssumption, CancellationAssumption, SMT
  <1>2. PICK ceil \in Int : ceil = CeilBps(Reward, LateBps) /\ ceil <= Reward
    <2>1. LateBps \in Nat /\ LateBps <= 10000
      BY <1>1, SMT
    <2>2. CeilBps(Reward, LateBps) \in 0..Reward
      BY <1>1, <2>1, CeilBpsIsWithin
    <2> QED BY <1>1, <2>2, SMT
  <1>3. SmallerOf(SmallerOf(ceil, LateCap), Captured) < Captured
    BY <1>1, <1>2, SMT DEF SmallerOf, Captured
  <1> QED BY <1>2, <1>3, Zenon DEF CompensationIsPartial, LateCompensation
-----------------------------------------------------------------------------
(* The steps that do not decide the Deal's money: the only end they know   *)
(* is that of a protection window, and they touch no code of an ended Deal.*)
Ongoing ==
    /\ UNCHANGED refunded
    /\ status \in Closed => status' = status
    /\ status' \in Finished =>
          /\ UNCHANGED code
          /\ status' = status \/ (status = "protection_window" /\ status' = "completed")
    /\ status' = "protection_window" => status = "protection_window" \/ Delivered'
    /\ Delivered => Delivered'

LEMMA OngoingKeepsTheEnd == IInv /\ EndedIInv /\ Ongoing => EndedIInv'
  <1> SUFFICES ASSUME IInv, EndedIInv, Ongoing PROVE EndedIInv'
    OBVIOUS
  <1> USE DEF EndedIInv
  <1>1. NoLiveCodeOnEndedDeal'
    <2> SUFFICES ASSUME status' \in Finished, NEW k \in Kinds PROVE ~Live(k)'
      BY Zenon DEF NoLiveCodeOnEndedDeal, Finished
    <2>1. code' = code
      BY Zenon DEF Ongoing
    <2>2. ~Live(k)
      <3>1. CASE status' = status
        BY <3>1, Zenon DEF NoLiveCodeOnEndedDeal, Finished
      <3>2. CASE status = "protection_window"
        <4>1. Delivered /\ HandoverMatchesCodes /\ ReleaseFollowsPickup
          BY <3>2, Zenon DEF WindowFollowsDelivery, IInv, CodesIInv
        <4>2. code["pickup"].state = "used" /\ code["delivery"].state = "used"
          BY <4>1, Zenon DEF HandoverMatchesCodes, ReleaseFollowsPickup
        <4> QED BY <4>2, Zenon DEF Live, LiveState, Kinds
      <3> QED BY <3>1, <3>2, Zenon DEF Ongoing
    <2> QED BY <2>1, <2>2, Zenon DEF Live
  <1>2. WindowFollowsDelivery'
    BY Zenon DEF WindowFollowsDelivery, Ongoing
  <1>3. status' \in Closed => status' = status
    BY Zenon DEF Ongoing, Finished, Closed
  <1>4. ClosedIsRefunded'
    BY <1>3, Zenon DEF ClosedIsRefunded, Ongoing
  <1>5. FullRefundIsAll'
    <2>1. "refunded" \in Closed
      BY Zenon DEF Closed
    <2> QED BY <1>3, <2>1, Zenon DEF FullRefundIsAll, Ongoing, Captured
  <1> QED BY <1>1, <1>2, <1>4, <1>5

LEMMA HandoverIsOngoing ==
    ASSUME IInv, ClockTicks \/ HandoverStep \/ DeliverAndArm \/ UNCHANGED systemVars
    PROVE  Ongoing
  <1>1. CASE ClockTicks \/ UNCHANGED systemVars
    BY <1>1, Zenon DEF ClockTicks, Tick, systemVars, lifecycleVars, handoverVars, payoutVars,
       Ongoing, Delivered
  <1>2. CASE DeliverAndArm
    <2>1. /\ status = "delivery_ready" /\ status' = "protection_window" /\ refunded' = refunded
          /\ deliveredAt' = now
      BY <1>2, Zenon DEF DeliverAndArm, ConfirmDelivery, ApplyDeliveryConfirmed
    <2>2. Delivered'
      <3>1. now # NotYet
        BY LifecycleAssumption, SMT DEF IInv, CodesIInv, LifecycleTypeOK, NotYet
      <3> QED BY <2>1, <3>1, Zenon DEF Delivered, NotYet
    <2> QED BY <2>1, <2>2, Zenon DEF Ongoing, Finished, Closed
  <1>3. CASE HandoverStep
    <2>1. UNCHANGED refunded
      BY <1>3, Zenon DEF HandoverStep, payoutVars
    <2>2. ASSUME UNCHANGED <<deliveredAt, status>>, status \in Finished => UNCHANGED code
          PROVE  Ongoing
      BY <2>1, <2>2, Zenon DEF Ongoing, Delivered
    <2>3. ASSUME UNCHANGED deliveredAt, status \in PrePickup \union InCarriage,
                 status' \in PrePickup \union InCarriage
          PROVE  Ongoing
      BY <2>1, <2>3, Zenon DEF Ongoing, Finished, Closed, PrePickup, InCarriage, Delivered
    <2>4. ASSUME Promote PROVE Ongoing
      BY <2>3, <2>4, Zenon DEF Promote, ApplyDeliveryCodeReleased, InCarriage
    <2>5. CASE SetRecipient
      BY <2>3, <2>5, Zenon DEF SetRecipient, ApplyPickupReady, PrePickup
    <2>6. CASE RunReleaseJob \/ RevealReleases
      <3>1. CASE ReleaseJobHasNothingToDo
        BY <2>2, <3>1, Zenon DEF ReleaseJobHasNothingToDo, lifecycleVars
      <3> QED BY <2>4, <2>6, <3>1, Zenon DEF RunReleaseJob, ReleaseJobActs, RevealReleases
    <2>7. ASSUME NEW k \in Kinds, Rotate(k) \/ SubmitWrong(k) PROVE Ongoing
      <3>1. status \in PrePickup \union InCarriage
        BY <2>7, Zenon DEF Rotate, MayRotate, SubmitWrong, Comparable, DealAccepts, PrePickup,
           InCarriage
      <3>2. UNCHANGED <<deliveredAt, status>>
        BY <2>7, Zenon DEF Rotate, SubmitWrong, lifecycleVars
      <3> QED BY <2>3, <3>1, <3>2, Zenon
    <2>8. CASE ConfirmPickup
      BY <2>3, <2>8, Zenon DEF ConfirmPickup, ApplyPickupConfirmed, InCarriage
    <2> QED BY <1>3, <2>5, <2>6, <2>7, <2>8, Zenon DEF HandoverStep, HandoverNext
  <1> QED BY <1>1, <1>2, <1>3

LEMMA PayoutIsOngoing ==
    ASSUME IInv, PayoutStep
    PROVE  Ongoing
  <1>1. UNCHANGED deliveredAt /\ (UNCHANGED status \/ CloseOut)
    BY PayoutLeavesTheDeal
  <1>2. UNCHANGED <<refunded, code>>
    BY PayoutStepHolds, Zenon DEF Held, PayoutStep, handoverVars
  <1> QED BY <1>1, <1>2, Zenon DEF CloseOut, Ongoing, Closed, Finished, Delivered

(* A step that decides the money of a Deal nobody was refunded for.        *)
Ends(r) ==
    /\ r \in Nat
    /\ refunded' = r
    /\ RetireLiveCodes
    /\ status' = IF r = 0 THEN "completed"
                 ELSE IF r = Captured THEN "refunded"
                 ELSE "partially_refunded"

LEMMA EndIsWhole ==
    ASSUME IInv, NEW r, Ends(r)
    PROVE  EndedIInv'
  <1>1. status' \in Finished
    BY Zenon DEF Ends, Finished, Closed
  <1>2. NoLiveCodeOnEndedDeal'
    <2>1. \A k \in Kinds : (code'[k] = code[k] /\ ~Live(k)) \/ code'[k].state = "cancelled"
      <3>1. \A k \in Kinds : [code[k] EXCEPT !.state = "cancelled"].state = "cancelled"
        <4>1. \A k \in Kinds : code[k] \in Code
          BY Zenon DEF IInv, CodesIInv, HandoverTypeOK
        <4> QED BY <4>1, CancelledRow
      <3>2. \A k \in Kinds : Live(k) => code'[k] = [code[k] EXCEPT !.state = "cancelled"]
        BY Zenon DEF Ends, RetireLiveCodes
      <3>3. \A k \in Kinds : ~Live(k) => code'[k] = code[k]
        BY Zenon DEF Ends, RetireLiveCodes
      <3> QED BY <3>1, <3>2, <3>3, Zenon
    <2> QED BY <2>1, Zenon DEF NoLiveCodeOnEndedDeal, Live, LiveState
  <1>3. WindowFollowsDelivery'
    BY <1>1, Zenon DEF WindowFollowsDelivery, Finished, Closed
  <1>4. ClosedIsRefunded'
    BY Zenon DEF Ends, ClosedIsRefunded, Closed
  <1>5. FullRefundIsAll'
    <2>1. Captured # 0
      BY PayoutAssumption, SMT DEF Captured
    <2>2. Captured' = Captured
      BY DEF Captured
    <2> QED BY <2>1, <2>2, Zenon DEF Ends, FullRefundIsAll
  <1> QED BY <1>2, <1>3, <1>4, <1>5 DEF EndedIInv

LEMMA ResolutionEnds ==
    ASSUME IInv, NEW d \in DisputeIds, NEW award \in Resolutions, Resolve(d, award)
    PROVE  \E r : Ends(r)
  <1>1. status = "disputed"
    BY Zenon DEF Resolve, IInv, DisputeIInv, DisputeHoldsMoney, ActiveDispute
  <1>2. refunded = 0
    BY <1>1, Zenon DEF IInv, DisputeIInv, RefundCloses, Closed
  <1>3. Collected = Captured
    BY <1>2, CapturedIsNat, SMT DEF Collected
  <1>4. Settles(award)
    BY ResolutionSettles DEF IInv
  <1>5. PICK r \in Nat : r = award.refund
    BY <1>4, Zenon DEF Settles, SoundAward, ApplySettlement, MaySettle
  <1>6. refunded' = r
    <2>1. refunded' = refunded + r
      BY <1>5, Zenon DEF Resolve, ApplySettlement
    <2> QED BY <1>2, <2>1, SMT
  <1>7. Ends(r)
    BY <1>3, <1>5, <1>6, Zenon DEF Resolve, ApplyDisputeResolved, ResolutionStatus, Ends
  <1> QED BY <1>7

LEMMA CancellationEnds ==
    ASSUME IInv, CompensationIsPartial, CancellationNext
    PROVE  Ongoing \/ \E r : Ends(r)
  <1>1. status \in PrePickup
    BY Zenon DEF CancellationNext, Cancel, RecordNoShow, MayCancel
  <1>2. refunded = 0
    BY <1>1, Zenon DEF IInv, DisputeIInv, RefundCloses, PrePickup, Closed
  <1>3. Collected = Captured /\ Captured \in Nat /\ Captured # 0
    BY <1>2, CapturedIsNat, PayoutAssumption, SMT DEF Collected, Captured
  <1>4. ASSUME NEW owed \in Int, owed < Captured, ApplySettlement(CancellationPlan(owed))
        PROVE  \E r \in Nat : /\ r # 0 /\ refunded' = r /\ CancellationPlan(owed).refund = r
                              /\ r = Collected => CancellationPlan(owed).payout = 0
                              /\ r = Captured - owed
    <2>1. PICK asked \in Int : asked = Captured - owed /\ asked # 0
      BY <1>3, <1>4, SMT
    <2>2. CancellationPlan(owed)
            = PlanSettlement(Collected, Committed, asked, owed, FeeMode, Reward, Fee)
      BY <1>3, <2>1, Zenon DEF CancellationPlan
    <2>3. CancellationPlan(owed).refused = ""
      BY <1>4, Zenon DEF ApplySettlement, MaySettle
    <2>4. CancellationPlan(owed).refund = asked
      <3>1. Refunds(PlanSettlement(Collected, Committed, asked, owed, FeeMode, Reward, Fee), asked)
        BY AwardRefundsWhatWasAsked
      <3> QED BY <2>2, <2>3, <3>1, Zenon DEF Refunds
    <2>5. SoundAward(CancellationPlan(owed), Collected, Committed)
      BY <2>1, <2>2, EveryPlanOfIsSound, Zenon DEF IInv
    <2>6. PICK p \in Nat, f \in Nat :
              CancellationPlan(owed).payout = p /\ asked + p + f = Collected /\ asked \in Nat
      BY <2>3, <2>4, <2>5, Zenon DEF SoundAward
    <2>7. asked = Collected => p = 0
      BY <1>3, <2>1, <2>6, SMT
    <2>8. refunded' = asked
      <3>1. refunded' = refunded + asked
        BY <1>4, <2>4, Zenon DEF ApplySettlement
      <3> QED BY <1>2, <2>1, <3>1, SMT
    <2> QED BY <2>1, <2>4, <2>6, <2>7, <2>8, Zenon
  <1>5. ASSUME NEW role \in Parties, Cancel(role)
        PROVE  \E r : Ends(r)
    <2>1. PICK owed : owed = Compensation(role)
      OBVIOUS
    <2>2. owed \in Int /\ owed < Captured
      <3>1. LateCompensation(Reward, LateBps, LateCap, Captured) \in Int
        <4>1. Reward \in Nat /\ LateBps \in Nat /\ LateCap \in Nat
          BY PayoutAssumption, CancellationAssumption, SMT
        <4> QED BY <1>3, <4>1, CompensationIsAnAmount
      <3>2. owed \in {0, LateCompensation(Reward, LateBps, LateCap, Captured)}
        BY <1>3, <2>1, Zenon DEF Compensation
      <3>3. 0 \in Int /\ 0 < Captured
        BY <1>3, SMT
      <3> QED BY <3>1, <3>2, <3>3, Zenon DEF CompensationIsPartial
    <2>3. /\ ApplySettlement(CancellationPlan(owed)) /\ RetireLiveCodes
          /\ status' = IF CancellationPlan(owed).payout = 0 /\ CancellationPlan(owed).refund = Collected
                       THEN "refunded" ELSE "partially_refunded"
      BY <1>5, <2>1, Zenon DEF Cancel
    <2>4. PICK r \in Nat : /\ r # 0 /\ refunded' = r /\ CancellationPlan(owed).refund = r
                           /\ r = Collected => CancellationPlan(owed).payout = 0
      BY <1>4, <2>2, <2>3
    <2>5. Ends(r)
      BY <1>3, <2>3, <2>4, Zenon DEF Ends
    <2> QED BY <2>5
  <1>6. ASSUME NEW refund \in BOOLEAN, RecordNoShow(refund)
        PROVE  Ongoing \/ \E r : Ends(r)
    <2>1. CASE refund
      <3>1. ApplySettlement(CancellationPlan(0)) /\ RetireLiveCodes /\ status' = "refunded"
        BY <1>6, <2>1, Zenon DEF RecordNoShow
      <3>2. 0 \in Int /\ 0 < Captured /\ Captured - 0 = Captured
        BY <1>3, SMT
      <3>3. PICK r \in Nat : r # 0 /\ refunded' = r /\ r = Captured - 0
        BY <1>4, <3>1, <3>2
      <3>4. Ends(r)
        BY <3>1, <3>2, <3>3, Zenon DEF Ends
      <3> QED BY <3>4
    <2>2. CASE ~refund
      BY <1>6, <2>2, Zenon DEF RecordNoShow, Ongoing, payoutVars, Delivered
    <2> QED BY <2>1, <2>2
  <1> QED BY <1>5, <1>6, Zenon DEF CancellationNext

LEMMA DisputesEndOrGoOn ==
    ASSUME IInv, DisputesNext
    PROVE  Ongoing \/ \E r : Ends(r)
  <1>1. PICK d \in DisputeIds :
            \/ \E party \in BOOLEAN : OpenDispute(d, party)
            \/ \E s \in ActiveStatus : SetDisputeStatus(d, s)
            \/ CloseDispute(d)
            \/ \E award \in Resolutions : Resolve(d, award)
    BY Zenon DEF DisputesNext
  <1>2. CASE \E party \in BOOLEAN : OpenDispute(d, party)
    BY <1>2, Zenon DEF OpenDispute, ApplyDisputed, Ongoing, Finished, Closed, Delivered
  <1>3. CASE (\E s \in ActiveStatus : SetDisputeStatus(d, s)) \/ CloseDispute(d)
    BY <1>3, Zenon DEF SetDisputeStatus, CloseDispute, handoverVars, payoutVars, Ongoing, Delivered
  <1>4. CASE \E award \in Resolutions : Resolve(d, award)
    BY <1>4, ResolutionEnds, Zenon
  <1> QED BY <1>1, <1>2, <1>3, <1>4

LEMMA EndedInit == SystemInit => EndedIInv
  <1> SUFFICES ASSUME SystemInit PROVE EndedIInv
    OBVIOUS
  <1>1. status = "funded" /\ refunded = 0
    BY Zenon DEF SystemInit, LifecycleInit, PayoutInit
  <1>2. Captured # 0
    BY PayoutAssumption, SMT DEF Captured
  <1> QED BY <1>1, <1>2, Zenon DEF EndedIInv, NoLiveCodeOnEndedDeal, WindowFollowsDelivery,
             ClosedIsRefunded, FullRefundIsAll, Closed

LEMMA EndedNext ==
    CompensationIsPartial /\ IInv /\ EndedIInv /\ [SystemNext]_systemVars => EndedIInv'
  <1> SUFFICES ASSUME CompensationIsPartial, IInv, EndedIInv, [SystemNext]_systemVars
               PROVE  EndedIInv'
    OBVIOUS
  <1>1. Ongoing \/ \E r : Ends(r)
    BY HandoverIsOngoing, PayoutIsOngoing, DisputesEndOrGoOn, CancellationEnds, Zenon
       DEF SystemNext
  <1> QED BY <1>1, OngoingKeepsTheEnd, EndIsWhole

(* Whatever ends a Deal leaves no code that opens a handover and a status  *)
(* that agrees with the refund, for every amount, window, limit and number *)
(* of disputes, as long as the frozen policy leaves the sender something   *)
(* of a late cancellation.                                                 *)
THEOREM EndedDealsAreClosed == CompensationIsPartial /\ SystemSpec => []EndedDealIsClosed
  <1> SUFFICES ASSUME CompensationIsPartial PROVE SystemSpec => []EndedDealIsClosed
    OBVIOUS
  <1>1. IInv /\ EndedIInv /\ [SystemNext]_systemVars => EndedIInv'
    BY EndedNext
  <1>2. SystemSpec => []EndedIInv
    BY <1>1, EndedInit, SystemInvariant, PTL DEF SystemSpec
  <1> QED BY <1>2, EndedIInvIsEnough, SystemInvariant, PTL

(* With a platform fee the policy always does.                             *)
THEOREM EndedDealsWithFeeAreClosed == Fee > 0 /\ SystemSpec => []EndedDealIsClosed
  <1> SUFFICES ASSUME Fee > 0 PROVE SystemSpec => []EndedDealIsClosed
    OBVIOUS
  <1>1. CompensationIsPartial
    BY FeeKeepsCompensationPartial
  <1> QED BY <1>1, EndedDealsAreClosed
=============================================================================
