---------------------------- MODULE ScheduledJobs ----------------------------
(***************************************************************************)
(* The durable job queue of apps/finance: the ScheduledJob row, the        *)
(* claim / run / record loop of jobs.py that several worker processes      *)
(* share, the lease recovery of requeue_stuck_jobs, and the operator       *)
(* controls of operations.py.                                              *)
(*                                                                         *)
(* Every step below is one database transaction of the code, or the part   *)
(* of one up to an unlocked read.  Running a handler and recording its     *)
(* outcome are two transactions, and so are schedule_job's read of an      *)
(* existing row and its save by primary key, so that a crash, another      *)
(* worker or an operator can come between them.  Time is abstracted to the *)
(* two comparisons the code makes: `due' is run_at <= now, `stale' is      *)
(* locked_at < now - stale_after_seconds.  locked_by is written by the     *)
(* code and read by nothing, so it is not part of the state.               *)
(***************************************************************************)
EXTENDS Naturals, FiniteSets, FiniteSetsExt

CONSTANTS
    Jobs,            \* the keys of the job rows
    Workers,         \* the worker processes
    MaxAttempts,     \* ScheduledJob.max_attempts
    BatchLimit,      \* the `limit' of run_due_jobs
    Schedulers,      \* the processes that may be inside schedule_job at once
    MaxCrashes,      \* bound on worker crashes
    MaxReschedules   \* bound on moves of a pending row's run_at

ASSUME JobsAssumption ==
    /\ MaxAttempts \in Nat \ {0}
    /\ BatchLimit \in Nat \ {0}
    /\ MaxCrashes \in Nat
    /\ MaxReschedules \in Nat
    /\ IsFiniteSet(Jobs)

VARIABLES
    row,         \* row[j]: the ScheduledJob row of key j
    gate,        \* gate[j]: the kill switch is on and the time gate is open
    duty,        \* duty[j]: domain truth, what has become of the promise
    batch,       \* batch[w]: the snapshots w has claimed and not started
    hand,        \* hand[w]: the snapshot w is running, and what became of it
    reading,     \* reading[s]: the row schedule_job has read and not saved yet
    overtaken,   \* history: the jobs whose row was ever rewritten under a holder
    lifted,      \* history: the jobs let off under an excuse that has lapsed
    crashes, reschedules  \* counters for the bounds

vars == <<row, gate, duty, batch, hand, reading, overtaken, lifted, crashes, reschedules>>
history == <<overtaken, lifted>>
bounds  == <<crashes, reschedules>>

(* owed: still to be done.  done: it happened.  excused: the handler finds  *)
(* that it must not, or need not, be done now, and says so in a normal      *)
(* answer (a dispute, a hold, a blocked payout, a refund in human hands).   *)
Duty       == {"owed", "done", "excused"}
Status     == {"absent", "pending", "running", "succeeded", "failed", "cancelled"}
Resolution == {"", "resolved", "superseded"}
Outcome    == {"deferred", "permanent", "retryable", "ok"}
Row        == [status: Status, due: BOOLEAN, stale: BOOLEAN,
               attempts: 0..MaxAttempts, resolution: Resolution]
Snapshot   == [job: Jobs, attempts: 0..MaxAttempts]
Idle       == [phase |-> "idle", job |-> "none", attempts |-> 0, outcome |-> "none"]
Handling   == [phase: {"handling"}, job: Jobs, attempts: 0..MaxAttempts, outcome: {"none"}]
Returned   == [phase: {"returned"}, job: Jobs, attempts: 0..MaxAttempts, outcome: Outcome]
NoReading  == [job |-> "none", status |-> "none"]
Reading    == [job: Jobs, status: {"failed", "pending"}]

RowOf(s, d, a, res) ==
    [status |-> s, due |-> d, stale |-> FALSE, attempts |-> a, resolution |-> res]
WithStatus(r, s) == RowOf(s, r.due, r.attempts, r.resolution)
NoRow     == RowOf("absent", FALSE, 0, "")
NewRow    == RowOf("pending", FALSE, 0, "")
NewDueRow == RowOf("pending", TRUE, 0, "")

(* One type invariant: every row, snapshot and running job is well formed. *)
TypeOK ==
    /\ row \in [Jobs -> Row]
    /\ gate \in [Jobs -> BOOLEAN]
    /\ duty \in [Jobs -> Duty]
    /\ batch \in [Workers -> SUBSET Snapshot]
    /\ hand \in [Workers -> {Idle} \union Handling \union Returned]
    /\ reading \in [Schedulers -> {NoReading} \union Reading]
    /\ crashes \in 0..MaxCrashes
    /\ reschedules \in 0..MaxReschedules
    /\ overtaken \subseteq Jobs
    /\ lifted \subseteq Jobs

Init ==
    /\ row = [j \in Jobs |-> NoRow]
    /\ gate = [j \in Jobs |-> FALSE]
    /\ duty = [j \in Jobs |-> "owed"]
    /\ batch = [w \in Workers |-> {}]
    /\ hand = [w \in Workers |-> Idle]
    /\ reading = [s \in Schedulers |-> NoReading]
    /\ crashes = 0
    /\ reschedules = 0
    /\ overtaken = {}
    /\ lifted = {}
-----------------------------------------------------------------------------
(* A job that is armed again has another run before it, unless a worker     *)
(* that lost the job may still write the answer of an earlier one.          *)
ArmedAgain(j) == lifted' = IF j \in overtaken' THEN lifted ELSE lifted \ {j}

(* schedule_job is idempotent on the key: get_or_create is atomic.  A row   *)
(* that is running, succeeded, cancelled, or failed without                 *)
(* reactivate_failed, is left as it is.                                     *)
ScheduleNew(j) ==
    /\ row[j].status = "absent"
    /\ row' = [row EXCEPT ![j] = NewRow]
    /\ UNCHANGED <<gate, duty, batch, hand, reading, bounds, history>>

(* A row that exists is read without a lock, and what was read decides      *)
(* whether it will be reactivated or moved.                                 *)
ReadFailed(s, j) ==
    /\ reading[s] = NoReading
    /\ row[j].status = "failed"
    /\ reading' = [reading EXCEPT ![s] = [job |-> j, status |-> "failed"]]
    /\ UNCHANGED <<row, gate, duty, batch, hand, bounds, history>>

ReadPending(s, j) ==
    /\ reading[s] = NoReading
    /\ row[j].status = "pending"
    /\ reschedules < MaxReschedules
    /\ reschedules' = reschedules + 1
    /\ reading' = [reading EXCEPT ![s] = [job |-> j, status |-> "pending"]]
    /\ UNCHANGED <<row, gate, duty, batch, hand, crashes, history>>

(* The save is by primary key and does not ask what the row is by now: the  *)
(* job may have been retried by an operator, claimed and even finished.     *)
SaveReactivated(s) ==
    \E j \in Jobs :
        /\ reading[s] = [job |-> j, status |-> "failed"]
        /\ reading' = [reading EXCEPT ![s] = NoReading]
        /\ row' = [row EXCEPT ![j] = NewRow]
        /\ overtaken' = IF row[j].status = "failed" THEN overtaken ELSE overtaken \union {j}
        /\ ArmedAgain(j)
        /\ UNCHANGED <<gate, duty, batch, hand, bounds>>

SaveMoved(s) ==
    \E j \in Jobs :
        /\ reading[s] = [job |-> j, status |-> "pending"]
        /\ reading' = [reading EXCEPT ![s] = NoReading]
        /\ row' = [row EXCEPT ![j].due = FALSE]
        /\ UNCHANGED <<gate, duty, batch, hand, bounds, history>>

(* The transaction around schedule_job rolls back, or has nothing to save.  *)
DropReading(s) ==
    /\ reading[s] # NoReading
    /\ reading' = [reading EXCEPT ![s] = NoReading]
    /\ UNCHANGED <<row, gate, duty, batch, hand, bounds, history>>

(* The clock: run_at passes, a lease outlives stale_after_seconds.         *)
BecomeDue(j) ==
    /\ row[j].status = "pending"
    /\ ~row[j].due
    /\ row' = [row EXCEPT ![j].due = TRUE]
    /\ UNCHANGED <<gate, duty, batch, hand, reading, bounds, history>>

LeaseAges(j) ==
    /\ row[j].status = "running"
    /\ ~row[j].stale
    /\ row' = [row EXCEPT ![j].stale = TRUE]
    /\ UNCHANGED <<gate, duty, batch, hand, reading, bounds, history>>

(* What a handler waits for is a deadline, a user or an operator's switch:  *)
(* it may come, and a switch may be turned off again.                       *)
GateOpens(j) ==
    /\ ~gate[j]
    /\ gate' = [gate EXCEPT ![j] = TRUE]
    /\ UNCHANGED <<row, duty, batch, hand, reading, bounds, history>>

GateCloses(j) ==
    /\ gate[j]
    /\ gate' = [gate EXCEPT ![j] = FALSE]
    /\ UNCHANGED <<row, duty, batch, hand, reading, bounds, history>>

(* The domain moves under the queue: a dispute opens, a hold is placed, a   *)
(* payout is blocked; and any of them may be over again.  What was let off  *)
(* in the meantime is then owed again, and nobody is left to do it.         *)
Excuse(j) ==
    /\ duty[j] = "owed"
    /\ duty' = [duty EXCEPT ![j] = "excused"]
    /\ UNCHANGED <<row, gate, batch, hand, reading, bounds, history>>

LetOff(j) ==
    \/ row[j].status = "succeeded" \/ row[j].resolution = "superseded"
    \/ \E w \in Workers : hand[w].job = j /\ hand[w].outcome = "ok"

ExcuseLapses(j) ==
    /\ duty[j] = "excused"
    /\ duty' = [duty EXCEPT ![j] = "owed"]
    /\ lifted' = IF LetOff(j) THEN lifted \union {j} ELSE lifted
    /\ UNCHANGED <<row, gate, batch, hand, reading, bounds, overtaken>>

(* The operation happens outside this job: a webhook, a manual settlement,  *)
(* a prompt dispatch.  _finish_event, mark_refund_succeeded and             *)
(* dispatch_promptly also mark a pending or running row as succeeded.       *)
MeetElsewhere(j) ==
    /\ row[j].status # "absent"
    /\ duty[j] # "done"
    /\ duty' = [duty EXCEPT ![j] = "done"]
    /\ \/ UNCHANGED row
       \/ /\ row[j].status \in {"pending", "running"}
          /\ row' = [row EXCEPT ![j] = WithStatus(@, "succeeded")]
    /\ UNCHANGED <<gate, batch, hand, reading, bounds, history>>
-----------------------------------------------------------------------------
(* The worker loop of run_finance_worker: requeue_stuck_jobs, then         *)
(* run_due_jobs, which claims a batch and runs its jobs one by one.        *)
AtLoopTop(w) == hand[w] = Idle /\ batch[w] = {}

(* requeue_stuck_jobs returns every stale running row to the queue, whether *)
(* or not the worker that claimed it is still alive.                        *)
Stuck == {j \in Jobs : row[j].status = "running" /\ row[j].stale}

RequeueStuckJobs(w) ==
    /\ AtLoopTop(w)
    /\ Stuck # {}
    /\ row' = [j \in Jobs |-> IF j \in Stuck
                               THEN WithStatus(row[j], "pending")
                               ELSE row[j]]
    /\ overtaken' = overtaken \union Stuck
    /\ UNCHANGED <<gate, duty, batch, hand, reading, bounds, lifted>>

(* claim_due_jobs: SELECT ... FOR UPDATE SKIP LOCKED then UPDATE, in one    *)
(* transaction; the rows are read back, so the snapshot holds the attempts  *)
(* of the moment of the claim.  Which of the due rows come first is         *)
(* abstracted to any choice.                                                *)
BugDueAnyStatus == {j \in Jobs : row[j].due}

Due == {j \in Jobs : row[j].status = "pending" /\ row[j].due}

ClaimDueJobs(w) ==
    /\ AtLoopTop(w)
    /\ Due # {}
    /\ \E S \in SUBSET Due :
         /\ S # {}
         /\ Cardinality(S) <= BatchLimit
         /\ Cardinality(S) = BatchLimit \/ S = Due
         /\ row' = [j \in Jobs |-> IF j \in S
                                    THEN WithStatus(row[j], "running")
                                    ELSE row[j]]
         /\ batch' = [batch EXCEPT ![w] = {[job |-> j, attempts |-> row[j].attempts] : j \in S}]
    /\ UNCHANGED <<gate, duty, hand, reading, bounds, history>>

(* run_job, first half: the handler starts on the next snapshot.           *)
StartHandler(w) ==
    /\ hand[w] = Idle
    /\ \E s \in batch[w] :
         /\ batch' = [batch EXCEPT ![w] = @ \ {s}]
         /\ hand' = [hand EXCEPT ![w] = [phase |-> "handling", job |-> s.job,
                                          attempts |-> s.attempts, outcome |-> "none"]]
    /\ UNCHANGED <<row, gate, duty, reading, bounds, history>>

(* What a handler may do.  It defers while its gate is closed; once it is   *)
(* open it performs its operation.  It answers normally, with nothing done, *)
(* when the operation is done already or is excused; and it may fail,       *)
(* before the operation or after it committed.                              *)
HandlerMay(j, outcome, new) ==
    CASE outcome = "deferred"  -> ~gate[j] /\ new = duty[j]
      [] outcome = "ok"        -> \/ duty[j] # "owed" /\ new = duty[j]
                                  \/ gate[j] /\ new = "done"
      [] outcome = "permanent" -> new = duty[j]
      [] outcome = "retryable" -> new = duty[j] \/ (gate[j] /\ new = "done")

RunHandler(w) ==
    /\ hand[w].phase = "handling"
    /\ \E outcome \in Outcome, new \in Duty :
         /\ HandlerMay(hand[w].job, outcome, new)
         /\ duty' = [duty EXCEPT ![hand[w].job] = new]
         /\ hand' = [hand EXCEPT ![w].phase = "returned", ![w].outcome = outcome]
    /\ UNCHANGED <<row, gate, batch, reading, bounds, history>>

BugDeferredDischarges(r, attempts, outcome) ==
    RowOf(IF outcome \in {"ok", "deferred"} THEN "succeeded" ELSE "failed", r.due, attempts, "")

(* The row run_job writes for an outcome.  The update is by primary key     *)
(* alone: it does not ask whether the worker still holds the lease, and the *)
(* attempts are those of the claimed snapshot plus one.                     *)
Recorded(r, attempts, outcome) ==
    CASE outcome = "deferred"  -> RowOf("pending", FALSE, r.attempts, r.resolution)
      [] outcome = "ok"        -> RowOf("succeeded", r.due, attempts, "")
      [] outcome = "permanent" -> RowOf("failed", r.due, attempts, r.resolution)
      [] outcome = "retryable" ->
            RowOf(IF attempts >= MaxAttempts THEN "failed" ELSE "pending", FALSE,
                  attempts, r.resolution)

BugUncountedAttempt(w) == hand[w].attempts
(* int(job.attempts) + 1, capped where the comparison no longer changes.    *)
NextAttempts(w) == IF hand[w].attempts < MaxAttempts THEN hand[w].attempts + 1 ELSE MaxAttempts

(* fin_job_resolution_complete: a resolution is only allowed on a failed row. *)
RowAllowed(r) == r.resolution # "" => r.status = "failed"

RecordOf(w) == Recorded(row[hand[w].job], NextAttempts(w), hand[w].outcome)

RecordOutcome(w) ==
    /\ hand[w].phase = "returned"
    /\ IF RowAllowed(RecordOf(w))
       THEN row' = [row EXCEPT ![hand[w].job] = RecordOf(w)] /\ UNCHANGED batch
       ELSE \* the IntegrityError leaves run_due_jobs and drops the batch
            batch' = [batch EXCEPT ![w] = {}] /\ UNCHANGED row
    /\ hand' = [hand EXCEPT ![w] = Idle]
    /\ UNCHANGED <<gate, duty, reading, bounds, history>>

(* The process dies at any point; what it had claimed stays `running'.     *)
Crash(w) ==
    /\ ~AtLoopTop(w)
    /\ crashes < MaxCrashes
    /\ crashes' = crashes + 1
    /\ batch' = [batch EXCEPT ![w] = {}]
    /\ hand' = [hand EXCEPT ![w] = Idle]
    /\ UNCHANGED <<row, gate, duty, reading, reschedules, history>>
-----------------------------------------------------------------------------
(* resolve_satisfied_failed_jobs: archive a dead letter whose operation    *)
(* has in fact completed.                                                  *)
ResolveSatisfied(j) ==
    /\ row[j].status = "failed"
    /\ row[j].resolution = ""
    /\ duty[j] # "owed"
    /\ row' = [row EXCEPT ![j].resolution = "superseded"]
    /\ UNCHANGED <<gate, duty, batch, hand, reading, bounds, history>>

(* operations.resolve_failed_job, an operator's decision, whatever its      *)
(* wording; dismissing a mail job also withdraws the mail (see Outbox).     *)
ResolveFailedJob(j) ==
    /\ row[j].status = "failed"
    /\ row[j].resolution = ""
    /\ row' = [row EXCEPT ![j].resolution = "resolved"]
    /\ UNCHANGED <<gate, duty, batch, hand, reading, bounds, history>>

(* operations.retry_failed_job: only an unresolved dead letter, due at once. *)
RetryFailedJob(j) ==
    /\ row[j].status = "failed"
    /\ row[j].resolution = ""
    /\ row' = [row EXCEPT ![j] = NewDueRow]
    /\ UNCHANGED <<gate, duty, batch, hand, reading, bounds, overtaken>>
    /\ ArmedAgain(j)

(* The domain withdraws the obligation: cancel_order, close_order_to_collection. *)
CancelJob(j) ==
    /\ row[j].status = "pending"
    /\ row' = [row EXCEPT ![j] = WithStatus(@, "cancelled")]
    /\ UNCHANGED <<gate, duty, batch, hand, reading, bounds, history>>

(* operations._reactivate_completed_job and payout_sweeper._arm: a          *)
(* completed job is armed again under its key, because its operation was    *)
(* still unfinished when the caller looked.  Finished since, the worker     *)
(* that finished it may still hold the job.                                 *)
ReactivateCompleted(j) ==
    /\ row[j].status \in {"succeeded", "cancelled"}
    /\ row' = [row EXCEPT ![j] = NewDueRow]
    /\ overtaken' = IF duty[j] = "done" THEN overtaken \union {j} ELSE overtaken
    /\ ArmedAgain(j)
    /\ UNCHANGED <<gate, duty, batch, hand, reading, bounds>>

WorkerStep(w) ==
    RequeueStuckJobs(w) \/ ClaimDueJobs(w) \/ StartHandler(w) \/ RunHandler(w) \/ RecordOutcome(w)

Next ==
    \/ \E j \in Jobs :
         \/ ScheduleNew(j) \/ BecomeDue(j) \/ LeaseAges(j)
         \/ GateOpens(j) \/ GateCloses(j)
         \/ Excuse(j) \/ ExcuseLapses(j) \/ MeetElsewhere(j)
         \/ ResolveSatisfied(j) \/ ResolveFailedJob(j) \/ RetryFailedJob(j)
         \/ CancelJob(j) \/ ReactivateCompleted(j)
    \/ \E s \in Schedulers :
         \/ \E j \in Jobs : ReadFailed(s, j) \/ ReadPending(s, j)
         \/ SaveReactivated(s) \/ SaveMoved(s) \/ DropReading(s)
    \/ \E w \in Workers : WorkerStep(w) \/ Crash(w)

Spec == Init /\ [][Next]_vars

(* The clock runs and every live worker keeps taking its steps.  A worker  *)
(* is slow, not stopped: a stopped one is a Crash.  Nothing is assumed of   *)
(* gates and excuses: an operator's switch may stay off for ever.           *)
Fairness ==
    /\ \A j \in Jobs : WF_vars(BecomeDue(j)) /\ WF_vars(LeaseAges(j))
    /\ \A w \in Workers : /\ WF_vars(RequeueStuckJobs(w)) /\ WF_vars(ClaimDueJobs(w))
                          /\ WF_vars(StartHandler(w)) /\ WF_vars(RunHandler(w))
                          /\ WF_vars(RecordOutcome(w))

FairSpec == Spec /\ Fairness
-----------------------------------------------------------------------------
Holds(w, j) == (\E s \in batch[w] : s.job = j) \/ (hand[w].phase # "idle" /\ hand[w].job = j)

(* No obligation is lost: a row that says `succeeded', and a dead letter    *)
(* archived as `superseded', stand for an operation that happened or is not *)
(* to happen, whatever crashed workers, late writers and late schedulers    *)
(* did to the row in between (run_job, resolve_satisfied_failed_jobs).  The *)
(* exception is named: the job was let off by an excuse that has lapsed,    *)
(* and it has not been armed again.                                         *)
NoLostObligation ==
    \A j \in Jobs \ lifted :
        row[j].status = "succeeded" \/ row[j].resolution = "superseded" => duty[j] # "owed"

(* Claiming is exclusive: no two workers hold a job (claim_due_jobs, SKIP   *)
(* LOCKED) until requeue_stuck_jobs takes its lease away, a late save of    *)
(* schedule_job rewrites a row that is no longer failed, or a finished job  *)
(* is armed again on an outdated look.                                      *)
ExclusiveUntilOvertaken ==
    \A j \in Jobs \ overtaken : \A w1, w2 \in Workers :
        Holds(w1, j) /\ Holds(w2, j) => w1 = w2

(* Every job reaches a final status as long as what its handler waits for   *)
(* is there, although workers crash, leases expire under live workers and   *)
(* late writers overwrite rows: the retry budget of run_job is consumed in  *)
(* the end.                                                                 *)
EveryJobSettles ==
    \A j \in Jobs : row[j].status \in {"pending", "running"}
                       ~> \/ row[j].status \in {"succeeded", "failed", "cancelled"}
                          \/ ~gate[j]

(* The claim of run_job, "Never raises".                                    *)
RunJobNeverRaises ==
    \A w \in Workers : hand[w].phase = "returned" => RowAllowed(RecordOf(w))
=============================================================================
