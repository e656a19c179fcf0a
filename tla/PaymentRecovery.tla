--------------------------- MODULE PaymentRecovery ---------------------------
(***************************************************************************)
(* The two durable jobs that finish what the payer's request and the       *)
(* provider's webhook may leave undone: provider_reconcile asks what       *)
(* became of a checkout, refund_reconcile drives a refund.  Each has a     *)
(* budget of attempts, after which its row is a dead letter that only an   *)
(* operator takes up again; a refund that keeps failing, or is refused, is *)
(* raised to an operator.  Whether a provider ever answers is not assumed. *)
(***************************************************************************)
EXTENDS Payments

CONSTANTS
    MaxPolls,    \* max_attempts of provider_reconcile (32)
    MaxDrives,   \* max_attempts of refund_reconcile (32)
    Escalation   \* REFUND_MANUAL_ESCALATION_ATTEMPTS (8)

ASSUME RecoveryAssumption ==
    MaxPolls \in Nat \ {0} /\ MaxDrives \in Nat \ {0} /\ Escalation \in Nat \ {0}

VARIABLES
    poll,    \* poll[a]: the provider_reconcile row of attempt a
    drive,   \* drive[a]: the refund_reconcile row of its refund
    tries    \* tries[a]: processing_attempts of its refund, as far as it matters

jobVars == <<poll, drive, tries>>

JobRow(max) == [status: {"none", "pending", "running", "done", "failed"}, spent: 0..max]
NoJob == [status |-> "none", spent |-> 0]
Fresh == [status |-> "pending", spent |-> 0]

RecoveryTypeOK ==
    /\ PaymentsTypeOK
    /\ poll \in [Attempts -> JobRow(MaxPolls)]
    /\ drive \in [Attempts -> JobRow(MaxDrives)]
    /\ tries \in [Attempts -> 0..Escalation]

RecoveryInit ==
    /\ Init
    /\ poll = [a \in Attempts |-> NoJob]
    /\ drive = [a \in Attempts |-> NoJob]
    /\ tries = [a \in Attempts |-> 0]
-----------------------------------------------------------------------------
(* run_job's record of a run: discharged, or one attempt of the budget     *)
(* spent, or a permanent failure.                                          *)
Discharge(job, a) == [job EXCEPT ![a].status = "done"]
Bury(job, a)      == [job EXCEPT ![a].status = "failed"]
Spend(job, a, max) ==
    [job EXCEPT ![a] = [status |-> IF @.spent + 1 < max THEN "pending" ELSE "failed",
                        spent |-> @.spent + 1]]

(* start_checkout and request_refund schedule the job in the transaction   *)
(* that creates the row the job is about.                                  *)
ArmPolls == poll' = [a \in Attempts |->
    IF attempt[a].status = "none" /\ attempt'[a].status # "none" THEN Fresh ELSE poll[a]]
ArmDrives == drive' = [a \in Attempts |->
    IF ~Obliged(a) /\ refund'[a].status # "none" THEN Fresh ELSE drive[a]]

(* schedule_job with reactivate_failed: only a dead letter is armed again; *)
(* the row of a run in progress is left alone.                             *)
Reactivate(job, a) == [job EXCEPT ![a] = IF @.status = "failed" THEN Fresh ELSE @]
-----------------------------------------------------------------------------
(* handle_provider_reconcile.  It is due after the checkout call is over.  *)
PollDue(a) == poll[a].status = "pending" /\ call[a] = "idle"

PollFindsSettled(a) ==
    /\ PollDue(a)
    /\ ~Pollable(a)
    /\ poll' = Discharge(poll, a)
    /\ UNCHANGED <<vars, drive, tries>>

PollRecovers(a) ==
    /\ PollDue(a)
    /\ RecoverSession(a)
    /\ UNCHANGED <<refundVars, jobVars>>

(* A final answer discharges the job; `processing' is reconciled and asked *)
(* again.  A worker that dies after reconciling leaves the row as it was.  *)
PollAnswered(a) ==
    /\ PollDue(a)
    /\ PollProvider(a)
    /\ \/ poll' = IF Answer(a) = "processing" THEN Spend(poll, a, MaxPolls) ELSE Discharge(poll, a)
       \/ MayCrash /\ UNCHANGED poll
    /\ ArmDrives
    /\ UNCHANGED <<refundVars, tries>>

(* The session is still open, or the provider cannot be reached.           *)
PollFruitless(a) ==
    /\ PollDue(a)
    /\ Pollable(a)
    /\ \/ attempt[a].stored /\ Answer(a) = "none"
       \/ MayRefuse /\ (attempt[a].stored \/ a \notin Dinar)
    /\ poll' = Spend(poll, a, MaxPolls)
    /\ UNCHANGED <<vars, drive, tries>>

(* The provider refuses to say, or the dinar session was never stored.     *)
PollRefused(a) ==
    /\ PollDue(a)
    /\ Pollable(a)
    /\ MayRefuse \/ (a \in Dinar /\ ~attempt[a].stored)
    /\ poll' = Bury(poll, a)
    /\ UNCHANGED <<vars, drive, tries>>

(* retry_failed_job, and queue_payment_reconciliation, which also reopens  *)
(* a discharged row.                                                       *)
OperatorPolls(a) ==
    /\ poll[a].status = "failed" \/ (poll[a].status = "done" /\ Pollable(a))
    /\ poll' = [poll EXCEPT ![a] = Fresh]
    /\ UNCHANGED <<vars, drive, tries>>
-----------------------------------------------------------------------------
(* _settle_refund_with_provider, first transaction, by the request that    *)
(* raised the refund once it has committed, or by a run of the job.        *)
CountTry(a) == tries' = [tries EXCEPT ![a] = Min({@ + 1, Escalation})]

RequestDrives(a) ==
    /\ tries[a] = 0
    /\ DriveRefund(a)
    /\ CountTry(a)
    /\ UNCHANGED <<poll, drive>>

JobDrives(a) ==
    /\ drive[a].status = "pending"
    /\ DriveRefund(a)
    /\ CountTry(a)
    /\ drive' = [drive EXCEPT ![a].status = "running"]
    /\ UNCHANGED poll

JobFindsReturned(a) ==
    /\ drive[a].status = "pending"
    /\ ~Unsettled(a)
    /\ drive' = Discharge(drive, a)
    /\ UNCHANGED <<vars, poll, tries>>

(* Something raised before the refund was touched (require_object_mode).   *)
JobRaises(a) ==
    /\ MayRefuse
    /\ drive[a].status = "pending"
    /\ drive' = Spend(drive, a, MaxDrives)
    /\ UNCHANGED <<vars, poll, tries>>

ProviderReturns(a) == ProviderRefunds(a) /\ UNCHANGED jobVars

(* mark_refund_succeeded discharges the job itself.                        *)
SettlesJob(a) ==
    /\ drive' = IF drive[a].status \in {"pending", "running"} THEN Discharge(drive, a) ELSE drive
    /\ UNCHANGED <<poll, tries>>
ProviderAnswered(a) == RecordRefunded(a) /\ SettlesJob(a)
OperatorSettles(a)  == SettleRefundManually(a) /\ SettlesJob(a)

(* _mark_refund_retryable, and an answer that says `pending': the refund   *)
(* is raised to an operator once it was tried often enough.  The call was  *)
(* the job's, which spends an attempt and cannot re-arm itself, or the     *)
(* request's.                                                              *)
Unanswered(a) ==
    /\ a \notin Dinar
    /\ MayRefuse
    /\ CallFails(a, tries[a] = Escalation)
    /\ \/ drive[a].status = "running" /\ drive' = Spend(drive, a, MaxDrives)
       \/ drive' = Reactivate(drive, a)
    /\ UNCHANGED <<poll, tries>>

(* A refusal is an obligation of the operator's and ends the job's part.   *)
Refused(a) ==
    /\ a \in Dinar \/ MayRefuse
    /\ CallFails(a, TRUE)
    /\ \/ drive[a].status = "running" /\ drive' = Discharge(drive, a)
       \/ drive' = Reactivate(drive, a)
    /\ UNCHANGED <<poll, tries>>

CallDies(a) == RefundCallDies(a) /\ UNCHANGED jobVars

(* requeue_stuck_jobs: the worker that drove the refund is gone.           *)
Requeue(a) ==
    /\ drive[a].status = "running"
    /\ asked[a] = {}
    /\ drive' = [drive EXCEPT ![a].status = "pending"]
    /\ UNCHANGED <<vars, poll, tries>>

OperatorDrives(a) ==
    /\ drive[a].status = "failed" \/ (drive[a].status = "done" /\ Unsettled(a))
    /\ drive' = [drive EXCEPT ![a] = Fresh]
    /\ UNCHANGED <<vars, poll, tries>>
-----------------------------------------------------------------------------
OutsideNext ==
    /\ \/ DomainNext /\ UNCHANGED <<providerVars, refundVars>>
       \/ SessionsNext /\ UNCHANGED refundVars
    /\ ArmPolls /\ ArmDrives
    /\ UNCHANGED tries

PollStep(a) ==
    \/ PollFindsSettled(a) \/ PollRecovers(a) \/ PollAnswered(a)
    \/ PollFruitless(a) \/ PollRefused(a)
CallEnds(a) == ProviderReturns(a) \/ ProviderAnswered(a) \/ Unanswered(a) \/ Refused(a)
DriveStep(a) == JobDrives(a) \/ JobFindsReturned(a) \/ JobRaises(a)

RecoveryNext ==
    \/ OutsideNext
    \/ \E a \in Attempts :
         \/ PollStep(a) \/ OperatorPolls(a)
         \/ RequestDrives(a) \/ DriveStep(a) \/ CallEnds(a) \/ CallDies(a)
         \/ Requeue(a) \/ OperatorDrives(a) \/ OperatorSettles(a)

recoveryVars == <<vars, jobVars>>

(* The worker loop runs due jobs and requeues abandoned ones, and a refund *)
(* call ends, somehow, unless processes die at it for ever.  No provider   *)
(* is obliged to act, no webhook to arrive, and nobody to re-arm a job.    *)
Fairness ==
    \A a \in Attempts :
        /\ WF_recoveryVars(PollStep(a)) /\ WF_recoveryVars(DriveStep(a))
        /\ WF_recoveryVars(Requeue(a)) /\ SF_recoveryVars(CallEnds(a))

RecoverySpec == RecoveryInit /\ [][RecoveryNext]_recoveryVars /\ Fairness
-----------------------------------------------------------------------------
(* A payment is never stranded by a lost webhook or a superseded attempt:  *)
(* polling records it, or its job ends as a dead letter an operator sees   *)
(* (handle_provider_reconcile, run_job's retry budget).                    *)
PaidIsRecorded ==
    \A a \in Attempts :
        session[a] = "paid" ~> attempt[a].status = "succeeded" \/ poll[a].status = "failed"

(* Money owed back is returned in the end, or raised to an operator, by    *)
(* the refund's own flag or by its dead letter; a refusal, a rail without  *)
(* refunds and a provider that never answers included.                     *)
OwedIsReturned ==
    \A a \in Attempts :
        refund[a].status = "pending" ~> Gone(a) \/ refund[a].manual \/ drive[a].status = "failed"
=============================================================================
