------------------------------ MODULE JobProofs ------------------------------
(***************************************************************************)
(* Proofs about the ScheduledJob queue, and about two of its handlers: the *)
(* Deal of a rating_reveal job (Ratings) and the mail of an                *)
(* outbound_message job (Outbox).  They hold for any sets of jobs, workers *)
(* and event ids, any retry budgets, batch limit and rating window, and    *)
(* any number of crashes.                                                  *)
(***************************************************************************)
EXTENDS ScheduledJobs, Outbox, Ratings, TLAPS

(* A handler that answered normally has done its operation or was let off, *)
(* and the worker is about to write `succeeded'.                           *)
AnswersStand ==
    \A w \in Workers :
        hand[w].phase = "returned" /\ hand[w].outcome = "ok"
            => duty[hand[w].job] # "owed" \/ hand[w].job \in lifted

(* A worker holds at most one snapshot of a job.                           *)
OneSnapshotPerJob ==
    \A w \in Workers :
        /\ \A s1, s2 \in batch[w] : s1.job = s2.job => s1 = s2
        /\ hand[w].phase # "idle" => \A s \in batch[w] : s.job # hand[w].job

(* Until it is overtaken, a job that is held is marked running, or was     *)
(* marked succeeded by whoever finished its operation.                     *)
HeldIsRunning ==
    \A j \in Jobs \ overtaken : \A w \in Workers :
        Holds(w, j) => \/ row[j].status = "running"
                       \/ row[j].status = "succeeded" /\ duty[j] = "done"

IInv ==
    /\ TypeOK
    /\ AnswersStand
    /\ NoLostObligation
    /\ OneSnapshotPerJob
    /\ HeldIsRunning
    /\ ExclusiveUntilOvertaken

(* The rows the code creates are well formed.                              *)
LEMMA FreshRows == NoRow \in Row /\ NewRow \in Row /\ NewDueRow \in Row
<1>1. 0 \in 0..MaxAttempts
  BY JobsAssumption
<1> QED BY <1>1, Zenon DEF NoRow, NewRow, NewDueRow, RowOf, Row, Status, Resolution

(* The initial state, an empty table and idle workers, satisfies IInv.     *)
LEMMA InitInv == Init => IInv
<1> SUFFICES ASSUME Init PROVE IInv
  OBVIOUS
<1> USE DEF Init
<1>1. row \in [Jobs -> Row]
  BY FreshRows
<1>2. crashes \in 0..MaxCrashes /\ reschedules \in 0..MaxReschedules
  BY JobsAssumption
<1>3. hand \in [Workers -> {Idle} \union Handling \union Returned]
  OBVIOUS
<1>4. /\ batch \in [Workers -> SUBSET Snapshot] /\ overtaken \subseteq Jobs /\ lifted \subseteq Jobs
      /\ reading \in [Schedulers -> {NoReading} \union Reading]
  OBVIOUS
<1>5. gate \in [Jobs -> BOOLEAN]
  BY Zenon
<1>6. duty \in [Jobs -> Duty]
  BY DEF Duty
<1>7. TypeOK
  BY <1>1, <1>2, <1>3, <1>4, <1>5, <1>6 DEF TypeOK
<1>8. AnswersStand /\ OneSnapshotPerJob /\ HeldIsRunning /\ ExclusiveUntilOvertaken
  BY DEF AnswersStand, OneSnapshotPerJob, HeldIsRunning, ExclusiveUntilOvertaken, Holds, Idle
<1>9. NoLostObligation
  BY DEF NoLostObligation, NoRow, RowOf
<1> QED BY <1>7, <1>8, <1>9 DEF IInv

(* What a row may become while nobody's answer and nobody's claim changes. *)
KeepsItsWord(old, new, j) ==
    /\ old.status \in {"running", "succeeded"} => new.status = old.status
    /\ new.status = "succeeded" => old.status = "succeeded"
    /\ new.resolution = "superseded" => old.resolution = "superseded" \/ duty[j] # "owed"

LEMMA QuietStepInv ==
    ASSUME IInv, TypeOK', UNCHANGED <<duty, batch, hand, overtaken, lifted>>,
           \A k \in Jobs : row'[k] = row[k] \/ KeepsItsWord(row[k], row'[k], k)
    PROVE  IInv'
<1>1. AnswersStand' /\ OneSnapshotPerJob' /\ ExclusiveUntilOvertaken'
  BY DEF IInv, AnswersStand, OneSnapshotPerJob, ExclusiveUntilOvertaken, Holds
<1>2. NoLostObligation'
  BY DEF IInv, NoLostObligation, KeepsItsWord
<1>3. HeldIsRunning'
  BY DEF IInv, HeldIsRunning, Holds, KeepsItsWord
<1> QED BY <1>1, <1>2, <1>3 DEF IInv

(* Steps that touch one row only: the clock, a new row, a withdrawal, and  *)
(* the archiving of a dead letter.                                         *)
RowStep(j) ==
    \/ ScheduleNew(j) \/ BecomeDue(j) \/ LeaseAges(j)
    \/ ResolveSatisfied(j) \/ ResolveFailedJob(j) \/ CancelJob(j)

LEMMA RowStepInv == ASSUME IInv, NEW j \in Jobs, RowStep(j) PROVE IInv'
<1>1. PICK new \in Row : row' = [row EXCEPT ![j] = new] /\ KeepsItsWord(row[j], new, j)
  <2> USE DEF IInv, TypeOK, Row, Status, Resolution, KeepsItsWord
  <2>1. NewRow \in Row
    BY FreshRows
  <2>2. CASE ScheduleNew(j)
    BY <2>1, <2>2 DEF ScheduleNew, NewRow, RowOf
  <2>3. CASE BecomeDue(j)
    <3> WITNESS [row[j] EXCEPT !.due = TRUE] \in Row
    <3> QED BY <2>3 DEF BecomeDue
  <2>4. CASE LeaseAges(j)
    <3> WITNESS [row[j] EXCEPT !.stale = TRUE] \in Row
    <3> QED BY <2>4 DEF LeaseAges
  <2>5. CASE ResolveSatisfied(j)
    <3> WITNESS [row[j] EXCEPT !.resolution = "superseded"] \in Row
    <3> QED BY <2>5 DEF ResolveSatisfied
  <2>6. CASE ResolveFailedJob(j)
    <3> WITNESS [row[j] EXCEPT !.resolution = "resolved"] \in Row
    <3> QED BY <2>6 DEF ResolveFailedJob
  <2>7. CASE CancelJob(j)
    <3>1. WithStatus(row[j], "cancelled") \in Row
      BY DEF WithStatus, RowOf
    <3> WITNESS WithStatus(row[j], "cancelled") \in Row
    <3> QED BY <2>7 DEF CancelJob, WithStatus, RowOf
  <2> QED BY <2>2, <2>3, <2>4, <2>5, <2>6, <2>7 DEF RowStep
<1>2. UNCHANGED <<gate, duty, batch, hand, reading, crashes, reschedules, overtaken, lifted>>
  BY DEF RowStep, ScheduleNew, BecomeDue, LeaseAges, ResolveSatisfied, ResolveFailedJob, CancelJob,
         history, bounds
<1>3. TypeOK'
  BY <1>1, <1>2 DEF IInv, TypeOK
<1>4. \A k \in Jobs : row'[k] = row[k] \/ KeepsItsWord(row[k], row'[k], k)
  BY <1>1 DEF IInv, TypeOK
<1> QED BY <1>2, <1>3, <1>4, QuietStepInv

(* Opening or closing a gate disturbs nothing IInv speaks of.              *)
LEMMA GateInv == ASSUME IInv, NEW j \in Jobs, GateOpens(j) \/ GateCloses(j) PROVE IInv'
<1>1. /\ UNCHANGED <<row, duty, batch, hand, reading, crashes, reschedules, overtaken, lifted>>
      /\ gate' = [gate EXCEPT ![j] = TRUE] \/ gate' = [gate EXCEPT ![j] = FALSE]
  BY DEF GateOpens, GateCloses, history, bounds
<1>2. gate' \in [Jobs -> BOOLEAN]
  BY <1>1, Zenon DEF IInv, TypeOK
<1>3. TypeOK'
  BY <1>1, <1>2 DEF IInv, TypeOK
<1> QED BY <1>1, <1>3, QuietStepInv

(* Reading a row, giving it up, and moving run_at disturb nothing either:  *)
(* they neither end nor start a claim.                                     *)
ReadingStep(s) ==
    \/ \E j \in Jobs : ReadFailed(s, j) \/ ReadPending(s, j)
    \/ SaveMoved(s) \/ DropReading(s)

LEMMA ReadingInv == ASSUME IInv, NEW s \in Schedulers, ReadingStep(s) PROVE IInv'
<1>1. UNCHANGED <<gate, duty, batch, hand, crashes, overtaken, lifted>>
  BY DEF ReadingStep, ReadFailed, ReadPending, SaveMoved, DropReading, history, bounds
<1>2. reschedules' \in 0..MaxReschedules
  <2>1. reschedules' = reschedules \/ (reschedules < MaxReschedules /\ reschedules' = reschedules + 1)
    BY DEF ReadingStep, ReadFailed, ReadPending, SaveMoved, DropReading, bounds
  <2> QED BY <2>1, JobsAssumption DEF IInv, TypeOK
<1>3. PICK r \in {NoReading} \union Reading : reading' = [reading EXCEPT ![s] = r]
  BY DEF ReadingStep, ReadFailed, ReadPending, SaveMoved, DropReading, Reading
<1>4. /\ row' \in [Jobs -> Row]
      /\ \A k \in Jobs : row'[k] = row[k] \/ KeepsItsWord(row[k], row'[k], k)
  <2>1. CASE UNCHANGED row
    BY <2>1 DEF IInv, TypeOK
  <2>2. CASE SaveMoved(s)
    <3>1. PICK j \in Jobs : row' = [row EXCEPT ![j].due = FALSE]
      BY <2>2 DEF SaveMoved
    <3>2. row' \in [Jobs -> Row]
      BY <3>1 DEF IInv, TypeOK, Row
    <3>3. \A k \in Jobs : row'[k].status = row[k].status /\ row'[k].resolution = row[k].resolution
      BY <3>1 DEF IInv, TypeOK, Row
    <3> QED BY <3>2, <3>3 DEF KeepsItsWord
  <2> QED BY <2>1, <2>2 DEF ReadingStep, ReadFailed, ReadPending, DropReading
<1>5. TypeOK'
  BY <1>1, <1>2, <1>3, <1>4 DEF IInv, TypeOK
<1> QED BY <1>1, <1>4, <1>5, QuietStepInv

(* Arming a job again: until it is overtaken nobody holds a job that is    *)
(* failed, cancelled, or succeeded without its operation done; and what    *)
(* was let off gets another run.                                           *)
Arms(j) ==
    /\ \E new \in {NewRow, NewDueRow} : row' = [row EXCEPT ![j] = new]
    /\ UNCHANGED <<gate, duty, batch, hand, crashes, reschedules>>
    /\ overtaken' \in {overtaken, overtaken \union {j}}
    /\ j \notin overtaken' =>
          \/ row[j].status \in {"failed", "cancelled"}
          \/ row[j].status = "succeeded" /\ duty[j] # "done"
    /\ ArmedAgain(j)
    /\ reading' \in [Schedulers -> {NoReading} \union Reading]

LEMMA ArmsInv == ASSUME IInv, NEW j \in Jobs, Arms(j) PROVE IInv'
<1>1. PICK new \in {NewRow, NewDueRow} : row' = [row EXCEPT ![j] = new]
  BY DEF Arms
<1>2. /\ new \in Row /\ new.status = "pending" /\ new.resolution = ""
  <2>1. new \in Row
    BY FreshRows
  <2>2. NewRow.status = "pending" /\ NewRow.resolution = ""
    BY DEF NewRow, RowOf
  <2>3. NewDueRow.status = "pending" /\ NewDueRow.resolution = ""
    BY DEF NewDueRow, RowOf
  <2> QED BY <2>1, <2>2, <2>3
<1>3. /\ row'[j] = new
      /\ \A k \in Jobs \ {j} : row'[k] = row[k]
      /\ row' \in [Jobs -> Row]
  BY <1>1, <1>2 DEF IInv, TypeOK
<1>4. /\ UNCHANGED <<gate, duty, batch, hand, crashes, reschedules>>
      /\ overtaken' \in {overtaken, overtaken \union {j}}
      /\ lifted' = IF j \in overtaken' THEN lifted ELSE lifted \ {j}
  BY DEF Arms, ArmedAgain
<1>5. TypeOK'
  BY <1>3, <1>4 DEF IInv, TypeOK, Arms
<1>6. j \notin overtaken' => \A w \in Workers : ~Holds(w, j)
  BY <1>4 DEF Arms, IInv, HeldIsRunning
<1>7. AnswersStand'
  <2> SUFFICES ASSUME NEW w \in Workers, hand[w].phase = "returned", hand[w].outcome = "ok"
               PROVE  duty[hand[w].job] # "owed" \/ hand[w].job \in lifted'
    BY <1>4 DEF AnswersStand
  <2>1. duty[hand[w].job] # "owed" \/ hand[w].job \in lifted
    BY DEF IInv, AnswersStand
  <2>2. hand[w].job = j => Holds(w, j)
    BY DEF Holds
  <2> QED BY <1>4, <1>6, <2>1, <2>2
<1>8. NoLostObligation'
  BY <1>2, <1>3, <1>4 DEF IInv, NoLostObligation
<1>9. OneSnapshotPerJob' /\ ExclusiveUntilOvertaken'
  BY <1>4 DEF IInv, OneSnapshotPerJob, ExclusiveUntilOvertaken, Holds
<1>10. HeldIsRunning'
  <2>1. \A k \in Jobs, w \in Workers : Holds(w, k)' = Holds(w, k)
    BY <1>4 DEF Holds
  <2> QED BY <1>3, <1>4, <1>6, <2>1 DEF IInv, HeldIsRunning
<1> QED BY <1>5, <1>7, <1>8, <1>9, <1>10 DEF IInv

LEMMA ArmingInv ==
    ASSUME IInv, NEW j \in Jobs, RetryFailedJob(j) \/ ReactivateCompleted(j) PROVE IInv'
<1>1. reading' = reading /\ reading \in [Schedulers -> {NoReading} \union Reading]
  BY DEF RetryFailedJob, ReactivateCompleted, IInv, TypeOK
<1>2. Arms(j)
  BY <1>1 DEF RetryFailedJob, ReactivateCompleted, Arms, history, bounds
<1> QED BY <1>2, ArmsInv

LEMMA SaveReactivatedInv == ASSUME IInv, NEW s \in Schedulers, SaveReactivated(s) PROVE IInv'
<1>1. PICK j \in Jobs :
        /\ reading' = [reading EXCEPT ![s] = NoReading]
        /\ row' = [row EXCEPT ![j] = NewRow]
        /\ overtaken' = IF row[j].status = "failed" THEN overtaken ELSE overtaken \union {j}
        /\ ArmedAgain(j)
        /\ UNCHANGED <<gate, duty, batch, hand, bounds>>
  BY DEF SaveReactivated
<1>2. reading' \in [Schedulers -> {NoReading} \union Reading]
  BY <1>1 DEF IInv, TypeOK
<1>3. Arms(j)
  BY <1>1, <1>2 DEF Arms, bounds
<1> QED BY <1>3, ArmsInv

(* The domain moves under the queue: an excuse that lapses marks the jobs  *)
(* that were let off under it.                                             *)
LEMMA ExcuseInv == ASSUME IInv, NEW j \in Jobs, Excuse(j) PROVE IInv'
<1>1. /\ UNCHANGED <<row, gate, batch, hand, reading, crashes, reschedules, overtaken, lifted>>
      /\ duty[j] = "owed" /\ duty' = [duty EXCEPT ![j] = "excused"]
  BY DEF Excuse, history, bounds
<1>2. /\ TypeOK'
      /\ \A k \in Jobs : /\ duty[k] # "owed" => duty'[k] # "owed"
                         /\ duty[k] = "done" => duty'[k] = "done"
  BY <1>1 DEF IInv, TypeOK, Duty
<1>3. \A w \in Workers : hand[w].phase # "idle" => hand[w].job \in Jobs
  BY DEF IInv, TypeOK, Handling, Returned, Idle
<1>4. AnswersStand' /\ NoLostObligation'
  BY <1>1, <1>2, <1>3 DEF IInv, AnswersStand, NoLostObligation
<1>5. OneSnapshotPerJob' /\ HeldIsRunning' /\ ExclusiveUntilOvertaken'
  BY <1>1, <1>2 DEF IInv, OneSnapshotPerJob, HeldIsRunning, ExclusiveUntilOvertaken, Holds
<1> QED BY <1>2, <1>4, <1>5 DEF IInv

LEMMA LapseInv == ASSUME IInv, NEW j \in Jobs, ExcuseLapses(j) PROVE IInv'
<1>1. /\ UNCHANGED <<row, gate, batch, hand, reading, crashes, reschedules, overtaken>>
      /\ duty[j] = "excused" /\ duty' = [duty EXCEPT ![j] = "owed"]
      /\ lifted' = IF LetOff(j) THEN lifted \union {j} ELSE lifted
  BY DEF ExcuseLapses, bounds
<1>2. /\ TypeOK'
      /\ \A k \in Jobs \ {j} : duty'[k] = duty[k]
      /\ \A k \in Jobs : duty[k] = "done" => duty'[k] = "done"
      /\ lifted \subseteq lifted' /\ (LetOff(j) => j \in lifted')
  BY <1>1 DEF IInv, TypeOK, Duty
<1>3. \A w \in Workers : hand[w].phase # "idle" => hand[w].job \in Jobs
  BY DEF IInv, TypeOK, Handling, Returned, Idle
<1>4. AnswersStand' /\ NoLostObligation'
  BY <1>1, <1>2, <1>3 DEF IInv, AnswersStand, NoLostObligation, LetOff
<1>5. OneSnapshotPerJob' /\ HeldIsRunning' /\ ExclusiveUntilOvertaken'
  BY <1>1, <1>2 DEF IInv, OneSnapshotPerJob, HeldIsRunning, ExclusiveUntilOvertaken, Holds
<1> QED BY <1>2, <1>4, <1>5 DEF IInv

(* Whoever performs the operation elsewhere may close the row of a job     *)
(* that is held: it is then done, and is not armed again unnoticed.        *)
LEMMA MeetInv == ASSUME IInv, NEW j \in Jobs, MeetElsewhere(j) PROVE IInv'
<1>1. /\ UNCHANGED <<gate, batch, hand, reading, crashes, reschedules, overtaken, lifted>>
      /\ duty' = [duty EXCEPT ![j] = "done"]
      /\ \/ UNCHANGED row
         \/ row' = [row EXCEPT ![j] = WithStatus(@, "succeeded")]
  BY DEF MeetElsewhere, history, bounds
<1>2. /\ duty' \in [Jobs -> Duty] /\ duty'[j] = "done"
      /\ \A k \in Jobs \ {j} : duty'[k] = duty[k]
  BY <1>1 DEF IInv, TypeOK, Duty
<1>3. /\ row' \in [Jobs -> Row]
      /\ \A k \in Jobs \ {j} : row'[k] = row[k]
      /\ row'[j].status \in {row[j].status, "succeeded"}
  <2>1. WithStatus(row[j], "succeeded") \in Row
    BY DEF IInv, TypeOK, WithStatus, RowOf, Row, Status
  <2>2. WithStatus(row[j], "succeeded").status = "succeeded"
    BY DEF WithStatus, RowOf
  <2> QED BY <1>1, <2>1, <2>2 DEF IInv, TypeOK
<1>4. TypeOK'
  BY <1>1, <1>2, <1>3 DEF IInv, TypeOK
<1>5. \A w \in Workers : hand[w].phase # "idle" => hand[w].job \in Jobs
  BY DEF IInv, TypeOK, Handling, Returned, Idle
<1>6. AnswersStand' /\ NoLostObligation'
  BY <1>1, <1>2, <1>3, <1>5 DEF IInv, AnswersStand, NoLostObligation
<1>7. OneSnapshotPerJob' /\ ExclusiveUntilOvertaken'
  BY <1>1 DEF IInv, OneSnapshotPerJob, ExclusiveUntilOvertaken, Holds
<1>8. HeldIsRunning'
  BY <1>1, <1>2, <1>3 DEF IInv, HeldIsRunning, Holds
<1> QED BY <1>4, <1>6, <1>7, <1>8 DEF IInv

(* requeue_stuck_jobs preserves IInv: it records which leases it broke.    *)
LEMMA RequeueInv == ASSUME IInv, NEW w \in Workers, RequeueStuckJobs(w) PROVE IInv'
<1>1. TypeOK'
  BY DEF IInv, TypeOK, RequeueStuckJobs, Stuck, WithStatus, RowOf, Row, Status, Resolution, bounds
<1>2. /\ UNCHANGED <<duty, batch, hand, lifted>>
      /\ overtaken' = overtaken \union Stuck
      /\ \A k \in Jobs : /\ k \notin Stuck => row'[k] = row[k]
                         /\ k \in Stuck => row'[k].status = "pending"
                         /\ row'[k].resolution = row[k].resolution
  BY DEF IInv, TypeOK, RequeueStuckJobs, Stuck, WithStatus, RowOf, Row
<1>3. AnswersStand' /\ OneSnapshotPerJob'
  BY <1>2 DEF IInv, AnswersStand, OneSnapshotPerJob
<1>4. NoLostObligation'
  BY <1>2 DEF IInv, NoLostObligation
<1>5. HeldIsRunning' /\ ExclusiveUntilOvertaken'
  BY <1>2 DEF IInv, HeldIsRunning, ExclusiveUntilOvertaken, Holds
<1> QED BY <1>1, <1>3, <1>4, <1>5 DEF IInv

(* claim_due_jobs preserves IInv: a pending job was held by nobody.        *)
LEMMA ClaimInv == ASSUME IInv, NEW w \in Workers, ClaimDueJobs(w) PROVE IInv'
<1>1. PICK S \in SUBSET Due :
        /\ row' = [j \in Jobs |-> IF j \in S
                     THEN WithStatus(row[j], "running") ELSE row[j]]
        /\ batch' = [batch EXCEPT ![w] = {[job |-> j, attempts |-> row[j].attempts] : j \in S}]
  BY DEF ClaimDueJobs
<1>2. /\ UNCHANGED <<gate, duty, hand, reading, crashes, reschedules, overtaken, lifted>>
      /\ hand[w] = Idle /\ batch[w] = {} /\ S \subseteq Jobs
      /\ \A j \in S : row[j].status = "pending"
  BY DEF ClaimDueJobs, AtLoopTop, history, bounds, Due
<1>3. batch' \in [Workers -> SUBSET Snapshot]
  <2>1. {[job |-> j, attempts |-> row[j].attempts] : j \in S} \subseteq Snapshot
    BY <1>2 DEF IInv, TypeOK, Row, Snapshot
  <2> QED BY <2>1, <1>1 DEF IInv, TypeOK
<1>4. row' \in [Jobs -> Row]
  BY <1>1, <1>2 DEF IInv, TypeOK, WithStatus, RowOf, Row, Status
<1>5. TypeOK'
  BY <1>2, <1>3, <1>4 DEF IInv, TypeOK
<1>6. /\ \A k \in Jobs : /\ k \notin S => row'[k] = row[k]
                         /\ k \in S => row'[k].status = "running"
                         /\ row'[k].resolution = row[k].resolution
      /\ \A v \in Workers \ {w} : batch'[v] = batch[v]
      /\ \A s \in batch'[w] : s.job \in S
      /\ \A s1, s2 \in batch'[w] : s1.job = s2.job => s1 = s2
      /\ hand'[w].phase = "idle"
  BY <1>1, <1>2 DEF IInv, TypeOK, WithStatus, RowOf, Row, Idle
<1>7. AnswersStand' /\ NoLostObligation'
  BY <1>2, <1>6 DEF IInv, AnswersStand, NoLostObligation
<1>8. OneSnapshotPerJob'
  BY <1>2, <1>6 DEF IInv, OneSnapshotPerJob
<1>9. \A k \in Jobs \ overtaken : \A v \in Workers :
        Holds(v, k)' => \/ v = w /\ k \in S
                        \/ v # w /\ Holds(v, k) /\ k \notin S
  BY <1>2, <1>6 DEF IInv, HeldIsRunning, Holds
<1>10. HeldIsRunning' /\ ExclusiveUntilOvertaken'
  BY <1>2, <1>6, <1>9 DEF IInv, HeldIsRunning, ExclusiveUntilOvertaken
<1> QED BY <1>5, <1>7, <1>8, <1>10 DEF IInv

(* Starting a handler moves one snapshot of a job from batch to hand.      *)
LEMMA StartInv == ASSUME IInv, NEW w \in Workers, StartHandler(w) PROVE IInv'
<1>1. PICK s \in batch[w] :
        /\ batch' = [batch EXCEPT ![w] = @ \ {s}]
        /\ hand' = [hand EXCEPT ![w] = [phase |-> "handling", job |-> s.job,
                                         attempts |-> s.attempts, outcome |-> "none"]]
  BY DEF StartHandler
<1>2. UNCHANGED <<row, gate, duty, reading, crashes, reschedules, overtaken, lifted>>
  BY DEF StartHandler, history, bounds
<1>3. s \in Snapshot
  BY DEF IInv, TypeOK
<1>4. TypeOK'
  BY <1>1, <1>2, <1>3 DEF IInv, TypeOK, Handling, Returned, Snapshot
<1>5. /\ hand'[w].phase = "handling" /\ hand'[w].job = s.job
      /\ batch'[w] = batch[w] \ {s}
      /\ \A v \in Workers \ {w} : batch'[v] = batch[v] /\ hand'[v] = hand[v]
  BY <1>1 DEF IInv, TypeOK
<1>6. AnswersStand' /\ NoLostObligation'
  BY <1>2, <1>5 DEF IInv, AnswersStand, NoLostObligation
<1>7. OneSnapshotPerJob'
  BY <1>5 DEF IInv, OneSnapshotPerJob
<1>8. \A k \in Jobs, v \in Workers : Holds(v, k)' => Holds(v, k)
  BY <1>5 DEF Holds
<1>9. HeldIsRunning' /\ ExclusiveUntilOvertaken'
  BY <1>2, <1>8 DEF IInv, HeldIsRunning, ExclusiveUntilOvertaken
<1> QED BY <1>4, <1>6, <1>7, <1>9 DEF IInv

(* A handler's transaction: a duty is only ever done, and a normal answer  *)
(* means that nothing is owed at that moment.                              *)
LEMMA RunInv == ASSUME IInv, NEW w \in Workers, RunHandler(w) PROVE IInv'
<1>1. PICK outcome \in Outcome, new \in Duty :
        /\ HandlerMay(hand[w].job, outcome, new)
        /\ duty' = [duty EXCEPT ![hand[w].job] = new]
        /\ hand' = [hand EXCEPT ![w].phase = "returned", ![w].outcome = outcome]
  BY DEF RunHandler
<1>2. /\ UNCHANGED <<row, gate, batch, reading, crashes, reschedules, overtaken, lifted>>
      /\ hand[w].phase = "handling"
  BY DEF RunHandler, history, bounds
<1>3. hand[w] \in Handling
  BY <1>2 DEF IInv, TypeOK, Idle, Returned
<1>4. TypeOK'
  BY <1>1, <1>2, <1>3 DEF IInv, TypeOK, Handling, Returned
<1>5. /\ hand'[w].phase = "returned" /\ hand'[w].outcome = outcome
      /\ hand'[w].job = hand[w].job
      /\ \A v \in Workers \ {w} : hand'[v] = hand[v]
  BY <1>1, <1>3 DEF IInv, TypeOK, Handling, Returned
<1>6. /\ \A k \in Jobs : /\ duty[k] # "owed" => duty'[k] # "owed"
                         /\ duty[k] = "done" => duty'[k] = "done"
      /\ outcome = "ok" => duty'[hand[w].job] # "owed"
  <2>1. hand[w].job \in Jobs
    BY <1>3 DEF Handling, Returned
  <2>2. new = duty[hand[w].job] \/ new = "done"
    BY <1>1 DEF HandlerMay, Outcome
  <2>3. outcome = "ok" => new # "owed"
    BY <1>1 DEF HandlerMay, Outcome
  <2> QED BY <2>1, <2>2, <2>3, <1>1 DEF IInv, TypeOK
<1>7. \A v \in Workers : hand[v].phase # "idle" => hand[v].job \in Jobs
  BY DEF IInv, TypeOK, Handling, Returned, Idle
<1>8. AnswersStand'
  BY <1>2, <1>5, <1>6, <1>7 DEF IInv, AnswersStand
<1>9. NoLostObligation'
  BY <1>2, <1>6 DEF IInv, NoLostObligation
<1>10. OneSnapshotPerJob'
  BY <1>2, <1>5 DEF IInv, OneSnapshotPerJob
<1>11. \A k \in Jobs, v \in Workers : Holds(v, k)' = Holds(v, k)
  BY <1>2, <1>5 DEF Holds
<1>12. HeldIsRunning' /\ ExclusiveUntilOvertaken'
  BY <1>2, <1>6, <1>11 DEF IInv, HeldIsRunning, ExclusiveUntilOvertaken
<1> QED BY <1>4, <1>8, <1>9, <1>10, <1>12 DEF IInv

(* Recording an outcome, late or not: `succeeded' is only written after a  *)
(* normal answer, and the job leaves the worker's hand.                    *)
LEMMA RecordInv == ASSUME IInv, NEW w \in Workers, RecordOutcome(w) PROVE IInv'
<1>0. PICK j \in Jobs : j = hand[w].job
  BY DEF RecordOutcome, IInv, TypeOK, Idle, Handling, Returned
<1> DEFINE new == Recorded(row[j], NextAttempts(w), hand[w].outcome)
<1>1. /\ UNCHANGED <<gate, duty, reading, crashes, reschedules, overtaken, lifted>>
      /\ hand' = [hand EXCEPT ![w] = Idle]
      /\ hand[w].phase = "returned" /\ j = hand[w].job
      /\ \/ row' = [row EXCEPT ![j] = new] /\ UNCHANGED batch
         \/ batch' = [batch EXCEPT ![w] = {}] /\ UNCHANGED row
  BY <1>0 DEF RecordOutcome, RecordOf, history, bounds
<1>2. hand[w] \in Returned
  BY <1>1 DEF IInv, TypeOK, Idle, Handling, Returned
<1>3. NextAttempts(w) \in 0..MaxAttempts
  BY <1>2, JobsAssumption DEF NextAttempts, Handling, Returned
<1>4. new \in Row
  BY <1>2, <1>3 DEF IInv, TypeOK, Returned, Recorded, RowOf, Row, Status, Resolution, Outcome
<1>5. TypeOK'
  BY <1>1, <1>2, <1>4 DEF IInv, TypeOK
<1>6. /\ hand'[w] = Idle
      /\ \A v \in Workers \ {w} : batch'[v] = batch[v] /\ hand'[v] = hand[v]
      /\ batch'[w] \subseteq batch[w]
      /\ \A k \in Jobs \ {j} : row'[k] = row[k]
  BY <1>1, <1>2 DEF IInv, TypeOK
<1>7. AnswersStand'
  BY <1>1, <1>6 DEF IInv, AnswersStand, Idle
<1>8. OneSnapshotPerJob'
  BY <1>6 DEF IInv, OneSnapshotPerJob, Idle
<1>9. /\ new.status = "succeeded" => hand[w].outcome = "ok"
      /\ new.resolution \in {row[j].resolution, ""}
  BY <1>2, <1>3 DEF IInv, TypeOK, Returned, Recorded, RowOf, Row, Outcome
<1>10. new.status = "succeeded" \/ new.resolution = "superseded" => duty[j] # "owed" \/ j \in lifted
  BY <1>1, <1>2, <1>9 DEF IInv, AnswersStand, NoLostObligation
<1>11. row'[j] = new \/ row'[j] = row[j]
  BY <1>1, <1>2 DEF IInv, TypeOK
<1>12. NoLostObligation'
  BY <1>1, <1>2, <1>6, <1>10, <1>11 DEF IInv, NoLostObligation
<1>13. \A k \in Jobs, v \in Workers : Holds(v, k)' => Holds(v, k)
  BY <1>6 DEF Holds, Idle
<1>14. \A v \in Workers : j \notin overtaken => ~Holds(v, j)'
  <2>1. \A v \in Workers : j \notin overtaken /\ Holds(v, j) => v = w
    BY <1>1, <1>2 DEF IInv, ExclusiveUntilOvertaken, Holds
  <2>2. ~Holds(w, j)'
    BY <1>1, <1>2, <1>6 DEF IInv, OneSnapshotPerJob, Holds, Idle
  <2> QED BY <1>13, <2>1, <2>2, <1>2
<1>15. HeldIsRunning'
  BY <1>1, <1>2, <1>6, <1>13, <1>14 DEF IInv, HeldIsRunning
<1>16. ExclusiveUntilOvertaken'
  BY <1>1, <1>13 DEF IInv, ExclusiveUntilOvertaken
<1> QED BY <1>5, <1>7, <1>8, <1>12, <1>15, <1>16 DEF IInv

(* A crash only makes a worker let go.                                     *)
LEMMA CrashInv == ASSUME IInv, NEW w \in Workers, Crash(w) PROVE IInv'
<1>1. /\ UNCHANGED <<row, gate, duty, reading, reschedules, overtaken, lifted>>
      /\ crashes' \in 0..MaxCrashes
      /\ batch' = [batch EXCEPT ![w] = {}]
      /\ hand' = [hand EXCEPT ![w] = Idle]
  BY JobsAssumption DEF Crash, history, IInv, TypeOK
<1>2. TypeOK'
  BY <1>1 DEF IInv, TypeOK
<1>3. /\ hand'[w].phase = "idle" /\ batch'[w] = {}
      /\ \A v \in Workers \ {w} : batch'[v] = batch[v] /\ hand'[v] = hand[v]
  BY <1>1 DEF IInv, TypeOK, Idle
<1>4. AnswersStand' /\ NoLostObligation' /\ OneSnapshotPerJob'
  BY <1>1, <1>3 DEF IInv, AnswersStand, NoLostObligation, OneSnapshotPerJob
<1>5. \A k \in Jobs, v \in Workers : Holds(v, k)' => Holds(v, k)
  BY <1>3 DEF Holds
<1>6. HeldIsRunning' /\ ExclusiveUntilOvertaken'
  BY <1>1, <1>5 DEF IInv, HeldIsRunning, ExclusiveUntilOvertaken
<1> QED BY <1>2, <1>4, <1>6 DEF IInv

(* IInv is inductive and implies the three invariants of the runs.         *)
THEOREM IInvHolds == Spec => []IInv
<1>1. ASSUME IInv, [Next]_vars PROVE IInv'
  <2>1. CASE \E j \in Jobs : RowStep(j)
    BY <1>1, <2>1, RowStepInv
  <2>2. CASE \E j \in Jobs : GateOpens(j) \/ GateCloses(j)
    BY <1>1, <2>2, GateInv
  <2>3. CASE \E j \in Jobs : Excuse(j) \/ ExcuseLapses(j) \/ MeetElsewhere(j)
    BY <1>1, <2>3, ExcuseInv, LapseInv, MeetInv
  <2>4. CASE \E j \in Jobs : RetryFailedJob(j) \/ ReactivateCompleted(j)
    BY <1>1, <2>4, ArmingInv
  <2>5. CASE \E s \in Schedulers : ReadingStep(s) \/ SaveReactivated(s)
    BY <1>1, <2>5, ReadingInv, SaveReactivatedInv
  <2>6. CASE \E w \in Workers : WorkerStep(w)
    BY <1>1, <2>6, RequeueInv, ClaimInv, StartInv, RunInv, RecordInv DEF WorkerStep
  <2>7. CASE \E w \in Workers : Crash(w)
    BY <1>1, <2>7, CrashInv
  <2>8. CASE UNCHANGED vars
    BY <1>1, <2>8 DEF vars, IInv, TypeOK, AnswersStand, NoLostObligation, OneSnapshotPerJob,
                      HeldIsRunning, ExclusiveUntilOvertaken, Holds
  <2> QED BY <1>1, <2>1, <2>2, <2>3, <2>4, <2>5, <2>6, <2>7, <2>8 DEF Next, RowStep, ReadingStep
<1> QED BY InitInv, <1>1, PTL DEF Spec

(* Rows, snapshots, workers and schedulers keep their types (TypeOK), for  *)
(* every number of them.                                                   *)
THEOREM JobsTypeCorrect == Spec => []TypeOK
  BY IInvHolds, PTL DEF IInv

(* Whatever order claims, lease losses, crashes, late writers and late     *)
(* schedulers come in, run_job and resolve_satisfied_failed_jobs only mark *)
(* as discharged what was done or excused; the one way to be marked so and *)
(* still owed is an excuse that lapsed afterwards.                         *)
THEOREM ObligationsAreKept == Spec => []NoLostObligation
  BY IInvHolds, PTL DEF IInv

(* claim_due_jobs gives a job to one worker until its lease is taken away, *)
(* or its row is rewritten by a save that no longer knows its state.       *)
THEOREM ClaimsAreExclusive == Spec => []ExclusiveUntilOvertaken
  BY IInvHolds, PTL DEF IInv
-----------------------------------------------------------------------------
(* The rating_reveal job's Deal: a party is shown the other's rating only  *)
(* when it can no longer rate.                                             *)
RatingRow == [submitted: BOOLEAN, revealed: BOOLEAN, informed: BOOLEAN]

BlindIInv ==
    /\ clock \in Nat /\ knows \in [Roles -> BOOLEAN]
    /\ rating \in [Roles -> RatingRow]
    /\ \A r \in Roles : knows[r] => IsRevealed(clock)
    /\ RatedBlind

LEMMA BlindInit == RatingsInit => BlindIInv
  <1>1. SUFFICES ASSUME RatingsInit PROVE BlindIInv
    OBVIOUS
  <1>2. NoRating \in RatingRow
    BY DEF NoRating, RatingRow
  <1>3. rating \in [Roles -> RatingRow] /\ clock \in Nat /\ knows \in [Roles -> BOOLEAN]
    BY <1>1, <1>2, SMT DEF RatingsInit
  <1>4. \A r \in Roles : ~knows[r] /\ ~rating[r].informed
    BY <1>1 DEF RatingsInit, NoRating
  <1> QED BY <1>3, <1>4 DEF BlindIInv, RatedBlind

LEMMA OtherIs == \A r \in Roles : Other(r) \in Roles /\ Other(r) # r
  <1>1. ASSUME NEW r \in Roles PROVE \E x \in Roles : x # r
    BY SMT DEF Roles
  <1> QED BY <1>1, Zenon DEF Other

(* What is revealed stays revealed: time goes on and ratings stay.         *)
LEMMA RevealedStays ==
    ASSUME clock \in Nat, clock' \in Nat, clock <= clock',
           \A r \in Roles : rating[r].submitted => rating'[r].submitted,
           IsRevealed(clock)
    PROVE  IsRevealed(clock)'
  <1>1. Window \in Nat
    BY WindowAssumption
  <1>2. CASE clock >= Window
    <2>1. clock' >= Window
      BY <1>1, <1>2, SMT
    <2> QED BY <2>1 DEF IsRevealed
  <1>3. CASE BothSidesSubmitted
    BY <1>3 DEF IsRevealed, BothSidesSubmitted
  <1> QED BY <1>2, <1>3 DEF IsRevealed

LEMMA SubmitIsBlind ==
    ASSUME BlindIInv, NEW role \in Roles, Submit(role) PROVE BlindIInv'
  <1>1. UNCHANGED <<clock, knows>> /\ ~rating[role].submitted /\ clock < Window
    BY DEF Submit, WindowOpen
  <1>2. ~IsRevealed(clock)
    <2>1. ~BothSidesSubmitted
      BY <1>1 DEF BothSidesSubmitted
    <2>2. ~ (clock >= Window)
      BY <1>1, WindowAssumption, SMT DEF BlindIInv
    <2> QED BY <2>1, <2>2 DEF IsRevealed
  <1>3. ~knows[role]
    BY <1>2 DEF BlindIInv
  <1>4. PICK second \in BOOLEAN : second = rating[Other(role)].submitted
    BY OtherIs, SMT DEF BlindIInv, RatingRow
  <1> DEFINE given == [submitted |-> TRUE, revealed |-> second, informed |-> knows[role]]
  <1>5. rating' = IF second
                  THEN [rating EXCEPT ![role] = given, ![Other(role)].revealed = TRUE]
                  ELSE [rating EXCEPT ![role] = given]
    BY <1>4, Zenon DEF Submit
  <1>6. given \in RatingRow /\ given.submitted /\ given.informed = knows[role]
    BY <1>4, SMT DEF BlindIInv, RatingRow
  <1> HIDE DEF given
  <1>7. /\ rating' \in [Roles -> RatingRow]
        /\ \A r \in Roles : rating[r].submitted => rating'[r].submitted
        /\ \A r \in Roles : ~rating'[r].informed
    <2>1. PICK once : once = [rating EXCEPT ![role] = given]
      OBVIOUS
    <2>2. /\ once \in [Roles -> RatingRow] /\ once[role] = given
          /\ \A r \in Roles \ {role} : once[r] = rating[r]
      BY <1>6, <2>1, Zenon DEF BlindIInv
    <2>3. \A r \in Roles : (rating[r].submitted => once[r].submitted) /\ ~once[r].informed
      BY <1>1, <1>3, <1>6, <2>2, Zenon DEF BlindIInv, RatedBlind
    <2>4. CASE ~second
      <3>1. rating' = once
        BY <1>5, <2>1, <2>4, Zenon
      <3> QED BY <2>2, <2>3, <3>1, Zenon
    <2>5. CASE second
      <3>1. PICK yes \in BOOLEAN, other \in Roles : rating' = [once EXCEPT ![other].revealed = yes]
        BY <1>5, <2>1, <2>5, OtherIs, Zenon
      <3>2. rating' \in [Roles -> RatingRow]
        BY <2>2, <3>1, SMT DEF RatingRow
      <3>3. \A r \in Roles : /\ rating'[r].submitted = once[r].submitted
                             /\ rating'[r].informed = once[r].informed
        BY <2>2, <3>1, SMT DEF RatingRow
      <3> QED BY <2>3, <3>2, <3>3, Zenon
    <2> QED BY <2>4, <2>5
  <1>8. \A r \in Roles : ~knows[r]
    BY <1>2 DEF BlindIInv
  <1> QED BY <1>1, <1>7, <1>8 DEF BlindIInv, RatedBlind

LEMMA BlindNext == BlindIInv /\ [RatingsNext]_ratingsVars => BlindIInv'
  <1> SUFFICES ASSUME BlindIInv, [RatingsNext]_ratingsVars PROVE BlindIInv'
    OBVIOUS
  <1>1. ASSUME NEW role \in Roles, Submit(role) PROVE BlindIInv'
    BY <1>1, SubmitIsBlind
  <1>2. ASSUME NEW role \in Roles, Look(role) PROVE BlindIInv'
    <2>1. /\ UNCHANGED <<clock, rating>> /\ IsRevealed(clock)
          /\ knows' = [knows EXCEPT ![role] = TRUE]
      BY <1>2 DEF Look
    <2>2. knows' \in [Roles -> BOOLEAN]
      BY <2>1 DEF BlindIInv
    <2>3. IsRevealed(clock)'
      BY <2>1 DEF IsRevealed, BothSidesSubmitted
    <2> QED BY <2>1, <2>2, <2>3 DEF BlindIInv, RatedBlind
  <1>3. CASE Tick
    <2>1. clock' = clock + 1 /\ UNCHANGED <<rating, knows>> /\ clock \in Nat
      BY <1>3 DEF Tick, BlindIInv
    <2>2. clock' \in Nat /\ clock <= clock'
      BY <2>1
    <2>3. IsRevealed(clock) => IsRevealed(clock)'
      BY <2>1, <2>2, RevealedStays
    <2> QED BY <2>1, <2>2, <2>3 DEF BlindIInv, RatedBlind
  <1>4. CASE Reveal
    <2>1. UNCHANGED <<clock, knows>>
      BY <1>4 DEF Reveal
    <2>2. ASSUME NEW r \in Roles
          PROVE  /\ rating'[r] \in RatingRow
                 /\ rating'[r].submitted = rating[r].submitted /\ rating'[r].informed = rating[r].informed
      <3>1. PICK yes \in BOOLEAN : rating'[r] = rating[r] \/ rating'[r] = [rating[r] EXCEPT !.revealed = yes]
        BY <1>4, Zenon DEF Reveal
      <3>2. rating[r] \in RatingRow
        BY DEF BlindIInv
      <3> QED BY <3>1, <3>2, SMT DEF RatingRow
    <2>3. rating' \in [Roles -> RatingRow]
      BY <1>4, <2>2 DEF Reveal
    <2>4. IsRevealed(clock) => IsRevealed(clock)'
      BY <2>1, <2>2, Zenon DEF IsRevealed, BothSidesSubmitted
    <2> QED BY <2>1, <2>2, <2>3, <2>4, Zenon DEF BlindIInv, RatedBlind
  <1>5. CASE StartReveal \/ BecomesUnratable \/ UNCHANGED ratingsVars
    <2>1. UNCHANGED <<clock, rating, knows>>
      BY <1>5 DEF StartReveal, BecomesUnratable, ratingsVars
    <2> QED BY <2>1 DEF BlindIInv, RatedBlind, IsRevealed, BothSidesSubmitted
  <1> QED BY <1>1, <1>2, <1>3, <1>4, <1>5, Zenon DEF RatingsNext

(* Neither party has seen the other's rating when it gives its own,        *)
(* whatever the length of the window and whenever the job runs             *)
(* (submit_rating, handle_rating_reveal).                                  *)
THEOREM RatingsAreBlind == RatingsSpec => []RatedBlind
  <1>1. BlindIInv => RatedBlind
    BY DEF BlindIInv
  <1> QED BY <1>1, BlindInit, BlindNext, PTL DEF RatingsSpec
-----------------------------------------------------------------------------
(* The outbound_message job: what its rows say of the mail.                *)
Events      == MessageEvents \union {""}
MessageRow  == [status: {"pending", "dispatched", "failed", "cancelled"},
                attempts: Nat, event: Events, due: BOOLEAN]
Flight      == [stage: {"none", "rendered", "added", "error"}, event: Events, n: Nat]
Publication == [queued: BOOLEAN, marker: BOOLEAN, delivered: BOOLEAN, sent: BOOLEAN]

OutboxTables ==
    /\ message \in MessageRow
    /\ flight \in [Dispatchers -> Flight]
    /\ published \in [MessageEvents -> Publication]
    /\ sending \in SUBSET MessageEvents

(* Every trace of a delivery follows a send.                               *)
Receipted(e) == published[e].delivered \/ published[e].marker \/ e \in sending => published[e].sent

(* After a withdrawal the row only ever names an event that was under way, *)
(* and none is minted beside it.                                           *)
Underway(e) == published[e] # Unpublished => e \in withdrawn
Recalled ==
    withdrawn # {} =>
        /\ "" \in withdrawn
        /\ \A e \in MessageEvents : Underway(e)
        /\ message.event \in withdrawn
        /\ \A d \in Dispatchers : flight[d].event \in withdrawn
        /\ message.status \in {"pending", "failed"} => message.event # ""

OutboxIInv ==
    /\ OutboxTables
    /\ \A d \in Dispatchers : flight[d].stage # "none" => flight[d].event \in MessageEvents
    /\ \A e \in MessageEvents : Receipted(e)
    /\ DispatchedWasSent
    /\ Recalled

LEMMA GroundedIs == Grounded \in Flight /\ Grounded.stage = "none" /\ Grounded.event = ""
  BY DEF Grounded, Flight, Events

LEMMA OutboxStarts == OutboxInit => OutboxIInv
  <1> SUFFICES ASSUME OutboxInit PROVE OutboxIInv
    OBVIOUS
  <1>1. OutboxTables
    <2>1. message \in MessageRow
      BY DEF OutboxInit, MessageRow, Events
    <2>2. Unpublished \in Publication
      BY DEF Unpublished, Publication
    <2> QED BY <2>1, <2>2, GroundedIs DEF OutboxInit, OutboxTables
  <1>2. \A d \in Dispatchers : flight[d].stage = "none"
    BY GroundedIs DEF OutboxInit
  <1>3. \A e \in MessageEvents : Receipted(e)
    BY DEF OutboxInit, Unpublished, Receipted
  <1>4. message.status = "pending" /\ withdrawn = {}
    BY DEF OutboxInit
  <1> QED BY <1>1, <1>2, <1>3, <1>4 DEF OutboxIInv, DispatchedWasSent, Recalled

(* A step of a dispatcher that leaves the stream alone.                    *)
LEMMA RowKeepsOutbox ==
    ASSUME OutboxIInv, UNCHANGED <<published, sending, withdrawn>>,
           message' \in MessageRow, flight' \in [Dispatchers -> Flight],
           \A d \in Dispatchers : flight'[d].stage # "none" => flight'[d].event \in MessageEvents,
           message'.status = "dispatched" =>
               message.status = "dispatched" \/ \E e \in MessageEvents : published[e].sent,
           withdrawn # {} =>
               /\ message'.event \in withdrawn
               /\ \A d \in Dispatchers : flight'[d].event \in withdrawn
               /\ message'.status \in {"pending", "failed"} => message'.event # ""
    PROVE  OutboxIInv'
  <1>1. OutboxTables'
    BY Zenon DEF OutboxIInv, OutboxTables
  <1>2. \A e \in MessageEvents : Receipted(e)'
    BY Zenon DEF OutboxIInv, Receipted
  <1>3. DispatchedWasSent'
    BY Zenon DEF OutboxIInv, DispatchedWasSent
  <1>4. Recalled'
    BY Zenon DEF OutboxIInv, Recalled, Underway
  <1> QED BY <1>1, <1>2, <1>3, <1>4, Zenon DEF OutboxIInv

(* A step of the stream and its consumer.                                  *)
LEMMA StreamKeepsOutbox ==
    ASSUME OutboxIInv, UNCHANGED <<message, withdrawn>>,
           published' \in [MessageEvents -> Publication], sending' \in SUBSET MessageEvents,
           flight' \in [Dispatchers -> Flight],
           \A d \in Dispatchers : flight'[d].stage # "none" => flight'[d].event \in MessageEvents,
           \A d \in Dispatchers : withdrawn # {} => flight'[d].event \in withdrawn,
           \A e \in MessageEvents : published[e].sent => published'[e].sent,
           \A e \in MessageEvents : Receipted(e)',
           \A e \in MessageEvents : published'[e] # Unpublished =>
               \/ published[e] # Unpublished
               \/ \E d \in Dispatchers : flight[d].event = e
    PROVE  OutboxIInv'
  <1>1. OutboxTables'
    BY Zenon DEF OutboxIInv, OutboxTables
  <1>2. DispatchedWasSent'
    BY Zenon DEF OutboxIInv, DispatchedWasSent
  <1>3. withdrawn # {} => \A e \in MessageEvents : published'[e] # Unpublished => e \in withdrawn
    <2> SUFFICES ASSUME withdrawn # {}, NEW e \in MessageEvents, published'[e] # Unpublished
                 PROVE  e \in withdrawn
      OBVIOUS
    <2>1. published[e] # Unpublished => e \in withdrawn
      BY Zenon DEF OutboxIInv, Recalled, Underway
    <2>2. \A d \in Dispatchers : flight[d].event \in withdrawn
      BY Zenon DEF OutboxIInv, Recalled
    <2> QED BY <2>1, <2>2, Zenon
  <1>4. Recalled'
    BY <1>3, Zenon DEF OutboxIInv, Recalled, Underway
  <1> QED BY <1>1, <1>2, <1>4, Zenon DEF OutboxIInv

(* One flight that changes.                                                *)
LEMMA OneFlight ==
    ASSUME flight \in [Dispatchers -> Flight], NEW d \in Dispatchers, NEW f \in Flight,
           flight' = [flight EXCEPT ![d] = f]
    PROVE  /\ flight' \in [Dispatchers -> Flight] /\ flight'[d] = f
           /\ \A c \in Dispatchers \ {d} : flight'[c] = flight[c]
  BY Zenon

LEMMA Landing ==
    ASSUME OutboxIInv, NEW d \in Dispatchers, flight' = [flight EXCEPT ![d] = Grounded]
    PROVE  /\ flight' \in [Dispatchers -> Flight]
           /\ \A c \in Dispatchers : flight'[c].stage # "none" => flight'[c].event \in MessageEvents
           /\ \A c \in Dispatchers : flight'[c] = flight[c] \/ flight'[c] = Grounded
  <1>1. /\ flight' \in [Dispatchers -> Flight] /\ flight'[d] = Grounded
        /\ \A c \in Dispatchers \ {d} : flight'[c] = flight[c]
    BY GroundedIs, OneFlight, Zenon DEF OutboxIInv, OutboxTables
  <1> QED BY <1>1, GroundedIs, Zenon DEF OutboxIInv

LEMMA SettleKeepsOutbox ==
    ASSUME OutboxIInv, NEW d \in Dispatchers, SettleMessage(d) PROVE OutboxIInv'
  <1>1. UNCHANGED <<flight, published, sending, withdrawn>>
    BY DEF SettleMessage
  <1>2. PICK s \in {"dispatched", "failed"} :
            \/ message' = message
            \/ /\ message' = [message EXCEPT !.status = s]
               /\ s = "dispatched" => Confirmed
               /\ message.status \in {"pending", "failed"}
    BY Zenon DEF SettleMessage
  <1>3. message \in MessageRow
    BY DEF OutboxIInv, OutboxTables
  <1>4. CASE message' = message
    BY <1>1, <1>3, <1>4, RowKeepsOutbox, Zenon DEF OutboxIInv, OutboxTables, Recalled
  <1>5. CASE /\ message' = [message EXCEPT !.status = s]
             /\ s = "dispatched" => Confirmed
             /\ message.status \in {"pending", "failed"}
    <2>1. message' \in MessageRow /\ message'.event = message.event /\ message'.status = s
      BY <1>3, <1>5, SMT DEF MessageRow
    <2>2. message.event \in Events
      BY <1>3, SMT DEF MessageRow
    <2>3. Confirmed => \E e \in MessageEvents : published[e].sent
      <3>1. Confirmed => message.event \in MessageEvents /\ published[message.event].delivered
        BY <2>2 DEF Confirmed, Events
      <3> QED BY <3>1, Zenon DEF OutboxIInv, Receipted
    <2> QED BY <1>1, <1>5, <2>1, <2>3, RowKeepsOutbox, Zenon DEF OutboxIInv, OutboxTables, Recalled
  <1> QED BY <1>2, <1>4, <1>5

LEMMA StartKeepsOutbox ==
    ASSUME OutboxIInv, NEW d \in Dispatchers, StartDispatch(d) PROVE OutboxIInv'
  <1>1. UNCHANGED <<published, sending, withdrawn>> /\ message.status \in {"pending", "failed"}
    BY DEF StartDispatch
  <1>2. message \in MessageRow /\ flight \in [Dispatchers -> Flight]
    BY DEF OutboxIInv, OutboxTables
  <1>3. message' \in MessageRow /\ message'.event = message.event /\ message'.status = message.status
    <2> DEFINE more == IF message.attempts < MessageAttempts THEN message.attempts + 1
                       ELSE message.attempts
    <2>1. message' = [message EXCEPT !.attempts = more]
      BY Zenon DEF StartDispatch
    <2>2. more \in Nat
      BY <1>2, SMT DEF MessageRow
    <2> HIDE DEF more
    <2> QED BY <1>2, <2>1, <2>2, SMT DEF MessageRow
  <1>4. PICK e \in MessageEvents :
          /\ message.event # "" => e = message.event
          /\ flight' = [flight EXCEPT ![d] =
                          [stage |-> "rendered", event |-> e, n |-> message.attempts + 1]]
    BY Zenon DEF StartDispatch
  <1>n. message.attempts + 1 \in Nat
    BY <1>2, SMT DEF MessageRow
  <1> DEFINE f == [stage |-> "rendered", event |-> e, n |-> message.attempts + 1]
  <1>5. f \in Flight /\ f.event = e
    BY <1>n DEF Flight, Events
  <1> HIDE DEF f
  <1>6. /\ flight' \in [Dispatchers -> Flight] /\ flight'[d] = f
        /\ \A c \in Dispatchers \ {d} : flight'[c] = flight[c]
    BY <1>2, <1>4, <1>5, OneFlight, Zenon DEF f
  <1>7. \A c \in Dispatchers : flight'[c].stage # "none" => flight'[c].event \in MessageEvents
    BY <1>5, <1>6, Zenon DEF OutboxIInv
  <1>8. withdrawn # {} => message.event # "" /\ e \in withdrawn
    BY <1>1, <1>4, Zenon DEF OutboxIInv, Recalled
  <1>9. withdrawn # {} => \A c \in Dispatchers : flight'[c].event \in withdrawn
    BY <1>5, <1>6, <1>8, Zenon DEF OutboxIInv, Recalled
  <1>10. withdrawn # {} => message'.event \in withdrawn /\ message'.event # ""
    BY <1>3, <1>8, Zenon DEF OutboxIInv, Recalled
  <1>11. message'.status # "dispatched"
    BY <1>1, <1>3
  <1> QED BY <1>1, <1>3, <1>6, <1>7, <1>9, <1>10, <1>11, RowKeepsOutbox, Zenon

LEMMA XaddKeepsOutbox ==
    ASSUME OutboxIInv, NEW d \in Dispatchers, Xadd(d) PROVE OutboxIInv'
  <1>1. UNCHANGED <<message, sending, withdrawn>> /\ flight[d].stage = "rendered"
    BY DEF Xadd
  <1>2. flight \in [Dispatchers -> Flight] /\ published \in [MessageEvents -> Publication]
        /\ sending \in SUBSET MessageEvents
    BY DEF OutboxIInv, OutboxTables
  <1>3. PICK e \in MessageEvents : e = flight[d].event
    BY <1>1, SMT DEF OutboxIInv
  <1>4. PICK answer \in {"added", "error"}, joins \in BOOLEAN :
            /\ published' = IF joins THEN [published EXCEPT ![e].queued = TRUE] ELSE published
            /\ flight' = [flight EXCEPT ![d].stage = answer]
    BY <1>3, Zenon DEF Xadd
  <1>5. /\ flight' \in [Dispatchers -> Flight]
        /\ \A c \in Dispatchers : flight'[c].event = flight[c].event
        /\ \A c \in Dispatchers \ {d} : flight'[c].stage = flight[c].stage
    BY <1>2, <1>4, SMT DEF Flight
  <1>6. \A c \in Dispatchers : flight'[c].stage # "none" => flight'[c].event \in MessageEvents
    BY <1>3, <1>5, Zenon DEF OutboxIInv
  <1>7. /\ published' \in [MessageEvents -> Publication]
        /\ \A x \in MessageEvents : /\ published'[x].sent = published[x].sent
                                    /\ published'[x].delivered = published[x].delivered
                                    /\ published'[x].marker = published[x].marker
        /\ \A x \in MessageEvents \ {e} : published'[x] = published[x]
    <2>1. CASE ~joins
      <3>1. published' = published
        BY <1>4, <2>1, Zenon
      <3> QED BY <1>2, <3>1
    <2>2. CASE joins
      <3>1. PICK yes \in BOOLEAN : published' = [published EXCEPT ![e].queued = yes]
        BY <1>4, <2>2, Zenon
      <3> QED BY <1>2, <3>1, SMT DEF Publication
    <2> QED BY <2>1, <2>2
  <1>8. \A x \in MessageEvents : Receipted(x)'
    BY <1>1, <1>7, Zenon DEF OutboxIInv, Receipted
  <1>9. \A x \in MessageEvents : published'[x] # Unpublished =>
            published[x] # Unpublished \/ \E c \in Dispatchers : flight[c].event = x
    BY <1>3, <1>7, Zenon
  <1>10. \A c \in Dispatchers : withdrawn # {} => flight'[c].event \in withdrawn
    BY <1>5, Zenon DEF OutboxIInv, Recalled
  <1>11. sending' \in SUBSET MessageEvents /\ \A x \in MessageEvents : published[x].sent => published'[x].sent
    BY <1>1, <1>2, <1>7, Zenon
  <1> QED BY <1>1, <1>5, <1>6, <1>7, <1>8, <1>9, <1>10, <1>11, StreamKeepsOutbox, Zenon

(* The last write of a dispatch, over whatever the row has become.         *)
LEMMA WriteKeepsOutbox ==
    ASSUME OutboxIInv, NEW d \in Dispatchers, flight[d].stage # "none",
           flight' = [flight EXCEPT ![d] = Grounded], UNCHANGED <<published, sending, withdrawn>>,
           NEW s \in {"pending", "failed"},
           message' = [message EXCEPT !.status = s, !.event = flight[d].event, !.due = FALSE]
    PROVE  OutboxIInv'
  <1>1. message \in MessageRow
    BY DEF OutboxIInv, OutboxTables
  <1>2. PICK e \in MessageEvents : e = flight[d].event
    BY Zenon DEF OutboxIInv
  <1>3. message' \in MessageRow /\ message'.event = e /\ message'.status = s
    <2>1. PICK no \in BOOLEAN : message' = [message EXCEPT !.status = s, !.event = e, !.due = no]
      BY <1>2, Zenon
    <2>2. e \in Events
      BY DEF Events
    <2>3. PICK once : once = [message EXCEPT !.status = s]
      OBVIOUS
    <2>4. once \in MessageRow /\ once.status = s
      BY <1>1, <2>3, SMT DEF MessageRow
    <2>5. PICK twice : twice = [once EXCEPT !.event = e]
      OBVIOUS
    <2>6. twice \in MessageRow /\ twice.event = e /\ twice.status = s
      BY <2>2, <2>4, <2>5, SMT DEF MessageRow
    <2>7. PICK thrice : thrice = [twice EXCEPT !.due = no]
      OBVIOUS
    <2>8. thrice \in MessageRow /\ thrice.event = e /\ thrice.status = s
      BY <2>6, <2>7, SMT DEF MessageRow
    <2> QED BY <2>1, <2>3, <2>5, <2>7, <2>8
  <1>4. e # ""
    BY OutboxAssumption
  <1>5. /\ flight' \in [Dispatchers -> Flight]
        /\ \A c \in Dispatchers : flight'[c].stage # "none" => flight'[c].event \in MessageEvents
        /\ \A c \in Dispatchers : flight'[c] = flight[c] \/ flight'[c] = Grounded
    BY Landing, Zenon
  <1>6. withdrawn # {} => e \in withdrawn /\ \A c \in Dispatchers : flight'[c].event \in withdrawn
    BY <1>2, <1>5, GroundedIs, Zenon DEF OutboxIInv, Recalled
  <1>7. s # "dispatched"
    OBVIOUS
  <1> QED BY <1>3, <1>4, <1>5, <1>6, <1>7, RowKeepsOutbox, Zenon

LEMMA RecordKeepsOutbox ==
    ASSUME OutboxIInv, NEW d \in Dispatchers, RecordTransport(d) \/ RecordError(d)
    PROVE  OutboxIInv'
  <1>1. flight[d].stage # "none" /\ flight' = [flight EXCEPT ![d] = Grounded]
        /\ UNCHANGED <<published, sending, withdrawn>>
    BY DEF RecordTransport, RecordError
  <1>2. PICK s \in {"pending", "failed"} :
            message' = [message EXCEPT !.status = s, !.event = flight[d].event, !.due = FALSE]
    BY DEF RecordTransport, RecordError, Transported
  <1> QED BY <1>1, <1>2, WriteKeepsOutbox

LEMMA DueKeepsOutbox == ASSUME OutboxIInv, FallsDue PROVE OutboxIInv'
  <1>1. UNCHANGED <<flight, published, sending, withdrawn>>
    BY DEF FallsDue
  <1>2. PICK yes \in BOOLEAN : message' = [message EXCEPT !.due = yes]
    BY Zenon DEF FallsDue
  <1>3. message \in MessageRow /\ flight \in [Dispatchers -> Flight]
    BY DEF OutboxIInv, OutboxTables
  <1>4. message' \in MessageRow /\ message'.event = message.event /\ message'.status = message.status
    BY <1>2, <1>3, SMT DEF MessageRow
  <1> QED BY <1>1, <1>3, <1>4, RowKeepsOutbox, Zenon DEF OutboxIInv, Recalled

(* An entry that changes.                                                  *)
Elsewhere(new, old, e) ==
    /\ new \in [MessageEvents -> Publication]
    /\ \A x \in MessageEvents \ {e} : new[x] = old[x]

Queued(old, e, v) == [old EXCEPT ![e].queued = v]
Marked(old, e, v) == [old EXCEPT ![e].marker = v]
Delivered(old, e, v) == [old EXCEPT ![e].delivered = v]
Sent(old, e, v) == [old EXCEPT ![e].sent = v]

LEMMA Queueing ==
    ASSUME NEW old \in [MessageEvents -> Publication], NEW e \in MessageEvents, NEW v \in BOOLEAN
    PROVE  /\ Elsewhere(Queued(old, e, v), old, e) /\ Queued(old, e, v)[e].queued = v
           /\ Queued(old, e, v)[e].marker = old[e].marker
           /\ Queued(old, e, v)[e].delivered = old[e].delivered
           /\ Queued(old, e, v)[e].sent = old[e].sent
  <1>1. old[e] \in Publication
    OBVIOUS
  <1> QED BY <1>1, SMT DEF Publication, Elsewhere, Queued

LEMMA Marking ==
    ASSUME NEW old \in [MessageEvents -> Publication], NEW e \in MessageEvents, NEW v \in BOOLEAN
    PROVE  /\ Elsewhere(Marked(old, e, v), old, e) /\ Marked(old, e, v)[e].marker = v
           /\ Marked(old, e, v)[e].delivered = old[e].delivered
           /\ Marked(old, e, v)[e].sent = old[e].sent
  <1>1. old[e] \in Publication
    OBVIOUS
  <1> QED BY <1>1, SMT DEF Publication, Elsewhere, Marked

LEMMA Delivering ==
    ASSUME NEW old \in [MessageEvents -> Publication], NEW e \in MessageEvents, NEW v \in BOOLEAN
    PROVE  /\ Elsewhere(Delivered(old, e, v), old, e) /\ Delivered(old, e, v)[e].delivered = v
           /\ Delivered(old, e, v)[e].marker = old[e].marker
           /\ Delivered(old, e, v)[e].sent = old[e].sent
  <1>1. old[e] \in Publication
    OBVIOUS
  <1> QED BY <1>1, SMT DEF Publication, Elsewhere, Delivered

LEMMA Sending ==
    ASSUME NEW old \in [MessageEvents -> Publication], NEW e \in MessageEvents, NEW v \in BOOLEAN
    PROVE  /\ Elsewhere(Sent(old, e, v), old, e) /\ Sent(old, e, v)[e].sent = v
           /\ Sent(old, e, v)[e].marker = old[e].marker
  <1>1. old[e] \in Publication
    OBVIOUS
  <1> QED BY <1>1, SMT DEF Publication, Elsewhere, Sent

LEMMA EntryKeepsOutbox ==
    ASSUME OutboxIInv, UNCHANGED <<message, flight, withdrawn>>,
           NEW e \in MessageEvents, Elsewhere(published', published, e),
           published[e] # Unpublished, published[e].sent => published'[e].sent,
           sending' \in SUBSET MessageEvents, \A x \in sending' : x \in sending \/ x = e,
           Receipted(e)'
    PROVE  OutboxIInv'
  <1>1. flight' \in [Dispatchers -> Flight] /\ UNCHANGED <<message, withdrawn>>
    BY DEF OutboxIInv, OutboxTables
  <1>2. /\ published' \in [MessageEvents -> Publication]
        /\ \A x \in MessageEvents \ {e} : published'[x] = published[x]
    BY Zenon DEF Elsewhere
  <1>3. \A x \in MessageEvents : Receipted(x)'
    BY <1>2, Zenon DEF OutboxIInv, Receipted
  <1>4. \A x \in MessageEvents : published[x].sent => published'[x].sent
    BY <1>2, Zenon
  <1>5. \A x \in MessageEvents : published'[x] # Unpublished =>
            published[x] # Unpublished \/ \E d \in Dispatchers : flight[d].event = x
    BY <1>2, Zenon
  <1>6. \A c \in Dispatchers : flight'[c].stage # "none" => flight'[c].event \in MessageEvents
    BY Zenon DEF OutboxIInv
  <1>7. \A c \in Dispatchers : withdrawn # {} => flight'[c].event \in withdrawn
    BY Zenon DEF OutboxIInv, Recalled
  <1> QED BY <1>1, <1>2, <1>3, <1>4, <1>5, <1>6, <1>7, StreamKeepsOutbox, Zenon

LEMMA EntryOf ==
    ASSUME OutboxIInv, NEW e \in MessageEvents
    PROVE  /\ published \in [MessageEvents -> Publication] /\ sending \in SUBSET MessageEvents
           /\ published[e].queued \/ published[e].marker \/ published[e].sent
                 => published[e] # Unpublished
           /\ Receipted(e)
  <1>1. published[e] = Unpublished =>
            ~published[e].queued /\ ~published[e].marker /\ ~published[e].sent
    BY DEF Unpublished
  <1> QED BY <1>1, Zenon DEF OutboxIInv, OutboxTables

LEMMA ConsumeKeepsOutbox ==
    ASSUME OutboxIInv, NEW e \in MessageEvents, Consume(e) PROVE OutboxIInv'
  <1>1. /\ published \in [MessageEvents -> Publication] /\ sending \in SUBSET MessageEvents
        /\ published[e].queued \/ published[e].marker \/ published[e].sent
              => published[e] # Unpublished
        /\ Receipted(e)
    BY EntryOf
  <1>2. CASE Skip(e)
    <2>1. /\ UNCHANGED <<message, flight, withdrawn>> /\ sending' = {} /\ published[e].queued
          /\ published[e].delivered \/ published[e].marker
      BY <1>2 DEF Skip
    <2>2. PICK no, yes \in BOOLEAN :
            published' = [published EXCEPT ![e].queued = no, ![e].delivered = yes]
      BY <1>2, Zenon DEF Skip
    <2>3. PICK once : once = Queued(published, e, no)
      OBVIOUS
    <2>4. published' = Delivered(once, e, yes)
      BY <2>2, <2>3 DEF Queued, Delivered
    <2>5. Elsewhere(once, published, e) /\ once[e].sent = published[e].sent
      BY <1>1, <2>3, Queueing, Zenon
    <2>6. Elsewhere(published', once, e) /\ published'[e].sent = once[e].sent
      <3>1. once \in [MessageEvents -> Publication]
        BY <2>5 DEF Elsewhere
      <3> QED BY <2>4, <3>1, Delivering, Zenon
    <2>7. Elsewhere(published', published, e) /\ published'[e].sent = published[e].sent
      BY <2>5, <2>6, Zenon DEF Elsewhere
    <2>8. published'[e].sent
      BY <1>1, <2>1, <2>7, Zenon DEF Receipted
    <2>9. sending' \in SUBSET MessageEvents /\ \A x \in sending' : x = e
      BY <2>1
    <2> QED BY <1>1, <2>1, <2>7, <2>8, <2>9, EntryKeepsOutbox, Zenon DEF Receipted
  <1>3. CASE SendEmail(e)
    <2>1. UNCHANGED <<message, flight, withdrawn>> /\ published[e].queued /\ sending' = {e}
      BY <1>3 DEF SendEmail
    <2>2. PICK yes \in BOOLEAN : yes /\ published' = Sent(published, e, yes)
      BY <1>3, Zenon DEF SendEmail, Sent
    <2>3. Elsewhere(published', published, e) /\ published'[e].sent
      BY <1>1, <2>2, Sending, Zenon
    <2>4. sending' \in SUBSET MessageEvents /\ \A x \in sending' : x = e
      BY <2>1
    <2> QED BY <1>1, <2>1, <2>3, <2>4, EntryKeepsOutbox, Zenon DEF Receipted
  <1>4. CASE Receipt(e)
    <2>1. UNCHANGED <<message, flight, withdrawn>> /\ sending' = {} /\ e \in sending
      BY <1>4 DEF Receipt
    <2>2. PICK marked, given, left \in BOOLEAN :
            published' = [published EXCEPT ![e].marker = marked,
                                           ![e].delivered = given, ![e].queued = left]
      <3>1. PICK written \in BOOLEAN : published' =
                [published EXCEPT ![e].marker = TRUE, ![e].delivered = @ \/ written,
                                  ![e].queued = ~written]
        BY <1>4, Zenon DEF Receipt
      <3> QED BY <3>1, Zenon
    <2>3. PICK once : once = Marked(published, e, marked)
      OBVIOUS
    <2>4. PICK twice : twice = Delivered(once, e, given)
      OBVIOUS
    <2>5. published' = Queued(twice, e, left)
      BY <2>2, <2>3, <2>4 DEF Marked, Delivered, Queued
    <2>6. Elsewhere(once, published, e) /\ once[e].sent = published[e].sent
      BY <1>1, <2>3, Marking, Zenon
    <2>7. Elsewhere(twice, once, e) /\ twice[e].sent = once[e].sent
      <3>1. once \in [MessageEvents -> Publication]
        BY <2>6 DEF Elsewhere
      <3> QED BY <2>4, <3>1, Delivering, Zenon
    <2>8. Elsewhere(published', twice, e) /\ published'[e].sent = twice[e].sent
      <3>1. twice \in [MessageEvents -> Publication]
        BY <2>7 DEF Elsewhere
      <3> QED BY <2>5, <3>1, Queueing, Zenon
    <2>9. Elsewhere(published', published, e) /\ published'[e].sent = published[e].sent
      BY <2>6, <2>7, <2>8, Zenon DEF Elsewhere
    <2>10. published[e].sent
      BY <1>1, <2>1, Zenon DEF Receipted
    <2>11. sending' \in SUBSET MessageEvents /\ \A x \in sending' : x = e
      BY <2>1
    <2> QED BY <1>1, <2>1, <2>9, <2>10, <2>11, EntryKeepsOutbox, Zenon DEF Receipted
  <1> QED BY <1>2, <1>3, <1>4 DEF Consume

LEMMA LossKeepsOutbox ==
    ASSUME OutboxIInv, NEW e \in MessageEvents, StreamLoses(e) PROVE OutboxIInv'
  <1>1. /\ published \in [MessageEvents -> Publication] /\ sending \in SUBSET MessageEvents
        /\ published[e].queued \/ published[e].marker \/ published[e].sent
              => published[e] # Unpublished
        /\ Receipted(e)
    BY EntryOf
  <1>2. UNCHANGED <<message, flight, withdrawn>> /\ sending' = {}
    BY DEF StreamLoses
  <1>3. PICK no \in BOOLEAN :
            /\ ~no
            /\ \/ published[e].queued /\ published' = Queued(published, e, no)
               \/ published[e].marker /\ published' = Marked(published, e, no)
    BY Zenon DEF StreamLoses, Queued, Marked
  <1>4. /\ Elsewhere(published', published, e) /\ published'[e].sent = published[e].sent
        /\ published'[e].delivered = published[e].delivered
        /\ published'[e].marker => published[e].marker
    <2>1. CASE published' = Queued(published, e, no)
      BY <1>1, <2>1, Queueing, Zenon
    <2>2. CASE published' = Marked(published, e, no)
      BY <1>1, <1>3, <2>2, Marking, Zenon
    <2> QED BY <1>3, <2>1, <2>2
  <1>5. sending' \in SUBSET MessageEvents /\ \A x \in sending' : x = e
    BY <1>2
  <1> QED BY <1>1, <1>2, <1>3, <1>4, <1>5, EntryKeepsOutbox, Zenon DEF Receipted

(* A death loses a flight or a receipt, and no row.                        *)
LEMMA DeathKeepsOutbox == ASSUME OutboxIInv, Dies PROVE OutboxIInv'
  <1>1. UNCHANGED <<message, published, withdrawn>>
    BY DEF Dies
  <1>2. /\ published \in [MessageEvents -> Publication] /\ flight \in [Dispatchers -> Flight]
        /\ sending \in SUBSET MessageEvents
    BY DEF OutboxIInv, OutboxTables
  <1>3. \/ sending' = {} /\ flight' = flight
        \/ sending' = sending /\ \E d \in Dispatchers : flight' = [flight EXCEPT ![d] = Grounded]
    BY DEF Dies
  <1>4. sending' \in SUBSET MessageEvents /\ \A x \in sending' : x \in sending
    BY <1>2, <1>3
  <1>5. /\ flight' \in [Dispatchers -> Flight]
        /\ \A c \in Dispatchers : flight'[c].stage # "none" => flight'[c].event \in MessageEvents
        /\ \A c \in Dispatchers : flight'[c] = flight[c] \/ flight'[c] = Grounded
    <2>1. CASE flight' = flight
      BY <1>2, <2>1, Zenon DEF OutboxIInv
    <2>2. CASE \E d \in Dispatchers : flight' = [flight EXCEPT ![d] = Grounded]
      BY <2>2, Landing, Zenon
    <2> QED BY <1>3, <2>1, <2>2
  <1>6. \A c \in Dispatchers : withdrawn # {} => flight'[c].event \in withdrawn
    BY <1>5, GroundedIs, Zenon DEF OutboxIInv, Recalled
  <1>7. \A x \in MessageEvents : Receipted(x)'
    BY <1>1, <1>4, Zenon DEF OutboxIInv, Receipted
  <1> QED BY <1>1, <1>2, <1>4, <1>5, <1>6, <1>7, StreamKeepsOutbox, Zenon

(* A first withdrawal takes down every event that is under way; a later    *)
(* one has nothing to add, because nothing new was minted in between.      *)
LEMMA RecallKeepsOutbox ==
    ASSUME OutboxIInv, Recall, UNCHANGED <<flight, published, sending>>,
           message' \in MessageRow, message'.event = message.event, message'.status = "cancelled"
    PROVE  OutboxIInv'
  <1>1. message \in MessageRow /\ message.event \in Events
    BY SMT DEF OutboxIInv, OutboxTables, MessageRow
  <1>2. OutboxTables' /\ DispatchedWasSent' /\ \A e \in MessageEvents : Receipted(e)'
    <2>1. OutboxTables'
      BY Zenon DEF OutboxIInv, OutboxTables
    <2>2. \A e \in MessageEvents : Receipted(e)'
      BY Zenon DEF OutboxIInv, Receipted
    <2>3. DispatchedWasSent'
      BY Zenon DEF DispatchedWasSent
    <2> QED BY <2>1, <2>2, <2>3
  <1>3. /\ "" \in withdrawn' /\ message.event \in withdrawn'
        /\ \A d \in Dispatchers : flight[d].event \in withdrawn'
        /\ \A e \in MessageEvents : published[e] # Unpublished => e \in withdrawn'
    <2>1. CASE withdrawn = {}
      BY <1>1, <2>1 DEF Recall, InFlight, Events
    <2>2. CASE withdrawn # {}
      <3>1. withdrawn' = withdrawn
        BY <2>2, Zenon DEF Recall
      <3> QED BY <2>2, <3>1, Zenon DEF OutboxIInv, Recalled, Underway
    <2> QED BY <2>1, <2>2
  <1>4. Recalled'
    BY <1>3, Zenon DEF Recalled, Underway
  <1>5. flight' \in [Dispatchers -> Flight]
    BY <1>2 DEF OutboxTables
  <1> QED BY <1>2, <1>4, <1>5, Zenon DEF OutboxIInv

LEMMA WithdrawKeepsOutbox == ASSUME OutboxIInv, Withdraw \/ DismissMailJob PROVE OutboxIInv'
  <1>1. UNCHANGED <<flight, published, sending>> /\ Recall
    BY DEF Withdraw, DismissMailJob
  <1>2. message \in MessageRow
    BY DEF OutboxIInv, OutboxTables
  <1>3. message' \in MessageRow /\ message'.event = message.event /\ message'.status = "cancelled"
    <2>1. CASE Withdraw
      BY <1>2, <2>1 DEF Withdraw, MessageRow
    <2>2. CASE DismissMailJob
      BY <1>2, <2>2 DEF DismissMailJob, MessageRow
    <2> QED BY <2>1, <2>2
  <1> QED BY <1>1, <1>3, RecallKeepsOutbox

LEMMA OutboxSteps == ASSUME OutboxIInv, [OutboxNext]_outboxVars PROVE OutboxIInv'
  <1>1. ASSUME NEW d \in Dispatchers, Dispatch(d) PROVE OutboxIInv'
    BY <1>1, SettleKeepsOutbox, StartKeepsOutbox, XaddKeepsOutbox, RecordKeepsOutbox DEF Dispatch
  <1>2. ASSUME NEW e \in MessageEvents, Consume(e) \/ StreamLoses(e) PROVE OutboxIInv'
    BY <1>2, ConsumeKeepsOutbox, LossKeepsOutbox
  <1>3. CASE FallsDue \/ Dies \/ Withdraw \/ DismissMailJob
    BY <1>3, DueKeepsOutbox, DeathKeepsOutbox, WithdrawKeepsOutbox
  <1>4. CASE ResolveMailJob \/ RetryMailJob \/ UNCHANGED outboxVars
    <2>1. UNCHANGED <<message, flight, published, sending, withdrawn>>
      BY <1>4 DEF ResolveMailJob, RetryMailJob, outboxVars
    <2> QED BY <2>1, Zenon DEF OutboxIInv, OutboxTables, Receipted, DispatchedWasSent, Recalled, Underway
  <1> QED BY <1>1, <1>2, <1>3, <1>4 DEF OutboxNext

LEMMA OutboxHolds == OutboxSpec => []OutboxIInv
  BY OutboxStarts, OutboxSteps, PTL DEF OutboxSpec

(* A message is called dispatched only when SMTP accepted it, whatever was *)
(* retried, lost, trimmed or overwritten on the way.                       *)
THEOREM TransportIsNotDelivery == OutboxSpec => []DispatchedWasSent
  <1>1. OutboxIInv => DispatchedWasSent
    BY DEF OutboxIInv
  <1> QED BY <1>1, OutboxHolds, PTL

(* What leaves after a withdrawal, by cancel_message or by the dismissal   *)
(* of the failed job, was under way before it.                             *)
THEOREM NothingIsMintedAfterwards == OutboxSpec => []WithdrawnSendsNothingNew
  <1>1. OutboxIInv => WithdrawnSendsNothingNew
    <2> SUFFICES ASSUME OutboxIInv, withdrawn # {}, NEW e \in MessageEvents, published[e].sent
                 PROVE  e \in withdrawn
      BY DEF WithdrawnSendsNothingNew
    <2>1. published[e] # Unpublished
      BY EntryOf
    <2> QED BY <2>1, Zenon DEF OutboxIInv, Recalled, Underway
  <1> QED BY <1>1, OutboxHolds, PTL
=============================================================================
