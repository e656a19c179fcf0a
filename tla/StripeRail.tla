----------------------------- MODULE StripeRail -----------------------------
(***************************************************************************)
(* The automatic EUR rail for one Payout: reserve source slices, commit,   *)
(* send one Transfer per slice, then one bank payout, while answers are    *)
(* lost, the worker dies between any two steps, idempotency keys outlive   *)
(* their window, refunds compete for the captures and two readers apply    *)
(* what they retrieved from Stripe at any later time.                      *)
(***************************************************************************)
EXTENDS Integers, Sequences, FiniteSets, FiniteSetsExt

CONSTANTS
    Captured,           \* a sequence: cents of each source capture, in H0's order
    Award,              \* payout.amount_eur_cents
    MaxAttempts, MaxDisbursements, MaxLosses, MaxCrashes, MaxRefunds,
    Readers             \* webhook deliveries and reconcile jobs in progress

ASSUME RailAssumption ==
    /\ Captured \in Seq(Nat \ {0})
    /\ Award \in Nat \ {0}
    /\ {MaxAttempts, MaxDisbursements} \subseteq Nat \ {0}
    /\ {MaxLosses, MaxCrashes, MaxRefunds} \subseteq Nat

Sources == DOMAIN Captured
Attempts == 1 .. MaxAttempts
Disbursements == 1 .. MaxDisbursements

VARIABLES
    payout,     \* Payout: status, and whether block_reason is set
    att,        \* PayoutAttempt.status
    op,         \* the transfer_create operation and allocation of each slice
    dis,        \* StripeDisbursement, its allocation and its operation
    bank,       \* Stripe's own bank payouts: status, how often made, ever paid
    call,       \* the payout_execute run after its commit: what it still sends
    seen,       \* what each reader retrieved and has not applied yet
    holds,      \* the active FinanceHolds, by who may clear them
    refunded,   \* PaymentRefunds of each source
    spent       \* how many faults the environment has used up

vars == <<payout, att, op, dis, bank, call, seen, holds, refunded, spent>>
-----------------------------------------------------------------------------
NoCall == [kind |-> "none"]
NoOp == [status |-> "none", cents |-> 0, key |-> "unused", done |-> 0, late |-> FALSE]
NoDisbursement ==
    [status |-> "none", attempt |-> 0, active |-> FALSE, op |-> "none",
     key |-> "unused", known |-> FALSE]
NoBankPayout == [status |-> "none", made |-> 0, paid |-> FALSE]

Init ==
    /\ payout = [status |-> "eligible", blocked |-> FALSE]
    /\ att = [n \in Attempts |-> "none"]
    /\ op = [n \in Attempts |-> [s \in Sources |-> NoOp]]
    /\ dis = [d \in Disbursements |-> NoDisbursement]
    /\ bank = [d \in Disbursements |-> NoBankPayout]
    /\ call = NoCall
    /\ seen = [r \in Readers |-> {}]
    /\ holds = {}
    /\ refunded = [s \in Sources |-> 0]
    /\ spent = [losses |-> 0, crashes |-> 0, refunds |-> 0]

(* An idempotency key is "unused" before its first request, then "fresh"    *)
(* while Stripe knows it, then "stale"; once the operation is answered its *)
(* age no longer matters and it is "unused" again.                         *)

(* validate_transition: what append_event_locked lets a payout do; any     *)
(* other move raises and takes its transaction with it.                    *)
Transitions ==
    {<<"eligible", "scheduled">>, <<"scheduled", "processing">>,
     <<"processing", "sent">>, <<"processing", "paid">>, <<"processing", "failed">>,
     <<"sent", "paid">>, <<"sent", "failed">>, <<"paid", "failed">>,
     <<"failed", "scheduled">>, <<"failed", "processing">>}

MayBecome(to) == payout.status = to \/ <<payout.status, to>> \in Transitions
Becomes(to) == payout' = [payout EXCEPT !.status = to]

(* An allocation binds its source until a PayoutFundingRelease exists.     *)
BugUnknownIsFree(o) == o.status \notin {"none", "failed", "unknown"}
Binding(o) == o.status \notin {"none", "failed"}
Reserved(s) ==
    SumFunctionOnSet([n \in Attempts |-> IF Binding(op[n][s]) THEN op[n][s].cents ELSE 0],
                     Attempts)
Available(s) == Captured[s] - refunded[s] - Reserved(s)

(* plan_source_slices: greedy in the order of the sources. *)
AvailableOf(some) == SumFunctionOnSet([s \in Sources |-> Available(s)], some)
Take(s) ==
    LET needed == Award - AvailableOf(1 .. s - 1)
    IN IF needed <= 0 THEN 0 ELSE IF Available(s) < needed THEN Available(s) ELSE needed
Coverable == AvailableOf(Sources) >= Award

Dispatchable ==
    /\ payout.status \in {"eligible", "scheduled", "processing", "sent", "failed"}
    /\ ~payout.blocked
    /\ holds = {}

UnknownOf(n) == {s \in Sources : op[n][s].status = "unknown"}
NothingUnknown ==
    /\ \A n \in Attempts : UnknownOf(n) = {}
    /\ \A d \in Disbursements : dis[d].op # "unknown"

(* The attempts execute_payout continues instead of planning a new one. *)
Live(a) == a \in {"prepared", "dispatch_committed", "unknown", "accepted", "sent"}
Current(n) == Live(att[n]) /\ \A m \in Attempts : m > n => ~Live(att[m])

(* A run of the job that starts new work. *)
Working == call = NoCall /\ Dispatchable /\ NothingUnknown
-----------------------------------------------------------------------------
(* _reserve_dispatch: the whole intent in one transaction. *)
Reserve(n) ==
    /\ Working
    /\ \A m \in Attempts : ~Live(att[m]) /\ (att[m] = "none" <=> m >= n)
    /\ Coverable
    /\ MayBecome("scheduled")
    /\ att' = [att EXCEPT ![n] = "prepared"]
    /\ op' = [op EXCEPT ![n] = [s \in Sources |->
                IF Take(s) = 0 THEN NoOp
                ELSE [NoOp EXCEPT !.status = "prepared", !.cents = Take(s)]]]
    /\ Becomes("scheduled")
    /\ UNCHANGED <<dis, bank, call, seen, holds, refunded, spent>>

(* _commit_dispatch, the linearization point, also of a resumed attempt.   *)
Outstanding(o) == o.status \notin {"none", "accepted", "failed"}
Commit(n) ==
    LET todo == {s \in Sources : Outstanding(op[n][s])}
    IN /\ Working
       /\ Current(n) /\ att[n] \in {"prepared", "dispatch_committed", "unknown"}
       /\ att' = [att EXCEPT ![n] = IF @ = "prepared" THEN "dispatch_committed" ELSE @]
       /\ op' = [op EXCEPT ![n] = [s \in Sources |->
                    IF s \in todo
                    THEN [op[n][s] EXCEPT !.status = IF @ = "prepared" THEN "committed" ELSE @,
                                          !.key = IF @ = "unused" THEN "fresh" ELSE @]
                    ELSE op[n][s]]]
       /\ payout' = IF payout.status \in {"scheduled", "failed"}
                    THEN [payout EXCEPT !.status = "processing"] ELSE payout
       /\ call' = IF todo = {} THEN NoCall
                  ELSE [kind |-> "transfer", n |-> n, todo |-> todo, again |-> FALSE,
                        answer |-> "none"]
       /\ UNCHANGED <<dis, bank, seen, holds, refunded, spent>>

(* execute_payout finds operations whose outcome is unknown. *)
RecoverTransfers(n) ==
    /\ call = NoCall /\ Dispatchable
    /\ UnknownOf(n) # {}
    /\ call' = [kind |-> "transfer", n |-> n, todo |-> UnknownOf(n), again |-> TRUE,
                answer |-> "none"]
    /\ UNCHANGED <<payout, att, op, dis, bank, seen, holds, refunded, spent>>

Slice == Min(call.todo)
Asking(kind) == call.kind = kind /\ call.answer = "none"
Answered(kind, answer) == call.kind = kind /\ call.answer = answer
Says(answer) == call' = [call EXCEPT !.answer = answer]

(* MaxLosses bounds the lost answers of first requests; a recovery may lose *)
(* its own however often.                                                  *)
MayLose == call.again \/ spent.losses < MaxLosses
CountsLoss(answer) ==
    spent' = [spent EXCEPT !.losses = IF answer = "lost" /\ ~call.again THEN @ + 1 ELSE @]

(* _recover_unknown_transfer replays a key only inside Stripe's window.    *)
BugAlwaysReplays(o) == o.key # "unused"
Replays(o) == o.key = "fresh"

(* Stripe receives create_transfer.  Under a key it still knows it repeats *)
(* what it did; otherwise it executes or refuses.  Its answer may be lost. *)
Transfer ==
    LET o == op[call.n][Slice]
        known == o.key = "fresh" /\ o.done > 0
    IN /\ Asking("transfer")
       /\ call.again => Replays(o)
       /\ \E executes \in (IF known THEN {FALSE} ELSE BOOLEAN),
             answer \in {"accepted", "rejected", "lost"} :
            /\ answer = "accepted" => executes \/ known
            /\ answer = "rejected" => ~executes /\ ~known
            /\ answer = "lost" => MayLose
            /\ CountsLoss(answer)
            /\ op' = [op EXCEPT ![call.n][Slice].done = IF executes THEN @ + 1 ELSE @,
                                ![call.n][Slice].late =
                                    @ \/ (~call.again /\ o.key = "stale")]
            /\ Says(answer)
       /\ UNCHANGED <<payout, att, dis, bank, seen, holds, refunded>>

(* find_transfer_by_metadata, past the window.  Finding nothing is         *)
(* PayoutUnresolved: the job fails and the sweep asks again.               *)
SearchTransfer ==
    LET o == op[call.n][Slice]
    IN /\ Asking("transfer") /\ call.again /\ ~Replays(o)
       /\ IF o.done > 0 THEN Says("accepted") ELSE call' = NoCall
       /\ UNCHANGED <<payout, att, op, dis, bank, seen, holds, refunded, spent>>

NextSlice ==
    call' = IF call.todo = {Slice} THEN NoCall
            ELSE [call EXCEPT !.todo = @ \ {Slice}, !.answer = "none"]

(* apply_transfer_accepted: with its last outstanding operation answered,  *)
(* the attempt is accepted.                                                *)
AcceptTransfer ==
    /\ Answered("transfer", "accepted")
    /\ op' = [op EXCEPT ![call.n][Slice].status = "accepted", ![call.n][Slice].key = "unused"]
    /\ att' = [att EXCEPT ![call.n] =
                IF (\A s \in Sources \ {Slice} : ~Outstanding(op[call.n][s]))
                    /\ @ \notin {"sent", "succeeded"}
                THEN "accepted" ELSE @]
    /\ NextSlice
    /\ UNCHANGED <<payout, dis, bank, seen, holds, refunded, spent>>

(* A timeout is unknown, never a refusal. *)
BugTimeoutIsRefusal(answer) == answer \in {"rejected", "lost"}
Refused(answer) == answer = "rejected"

(* apply_transfer_rejected: the slice is released; beside an accepted one  *)
(* a hold stops the payout, otherwise the attempt has failed.              *)
RejectTransfer ==
    LET partial == \E s \in Sources : op[call.n][s].status = "accepted"
    IN /\ call.kind = "transfer" /\ Refused(call.answer)
       /\ MayBecome("failed")
       /\ op' = [op EXCEPT ![call.n][Slice].status = "failed", ![call.n][Slice].key = "unused"]
       /\ holds' = IF partial THEN holds \union {"slice"} ELSE holds
       /\ att' = IF partial THEN att ELSE [att EXCEPT ![call.n] = "failed"]
       /\ Becomes("failed")
       /\ NextSlice
       /\ UNCHANGED <<dis, bank, seen, refunded, spent>>

(* mark_operation_unknown: ProviderUnavailable while sending. *)
TransferUnknown ==
    /\ Answered("transfer", "lost") /\ ~Refused(call.answer) /\ ~call.again
    /\ op' = [op EXCEPT ![call.n][Slice].status = "unknown"]
    /\ att' = [att EXCEPT ![call.n] = IF @ = "dispatch_committed" THEN "unknown" ELSE @]
    /\ NextSlice
    /\ UNCHANGED <<payout, dis, bank, seen, holds, refunded, spent>>

(* ProviderUnavailable while recovering defers the whole job. *)
RecoveryDeferred ==
    /\ call.kind \in {"transfer", "bank"}
    /\ call.answer = "lost" /\ call.again
    /\ call' = NoCall
    /\ UNCHANGED <<payout, att, op, dis, bank, seen, holds, refunded, spent>>
-----------------------------------------------------------------------------
(* _advance_to_bank_payout and _plan_bank_payout.  The balance that is read *)
(* is the whole account's, which other Deals fill too: that it suffices is *)
(* possible at any time, and until it does the job defers itself.  The     *)
(* allocation of a disbursement that may be live stands in the way of the  *)
(* next one.                                                               *)
BugPlansOverUnknown(d) == dis[d].active /\ dis[d].status \notin {"committed", "unknown"}
Busy(d) == dis[d].active
PlanBankPayout(d) ==
    /\ Working
    /\ \E n \in Attempts :
        /\ Current(n) /\ att[n] = "accepted"
        /\ dis' = [dis EXCEPT ![d] = [NoDisbursement EXCEPT
                    !.status = "planned", !.attempt = n, !.active = TRUE, !.op = "prepared"]]
    /\ \A e \in Disbursements : ~Busy(e) /\ (dis[e].status = "none" <=> e >= d)
    /\ UNCHANGED <<payout, att, op, bank, call, seen, holds, refunded, spent>>

(* _commit_bank_payout: the holds are read again first. *)
CommitBankPayout(d) ==
    /\ Working
    /\ dis[d].active /\ dis[d].status = "planned"
    /\ \E n \in Attempts : Current(n) /\ att[n] = "accepted"
    /\ dis' = [dis EXCEPT ![d].status = "committed", ![d].op = "committed", ![d].key = "fresh"]
    /\ call' = [kind |-> "bank", d |-> d, again |-> FALSE, answer |-> "none"]
    /\ UNCHANGED <<payout, att, op, bank, seen, holds, refunded, spent>>

RecoverBankPayout(d) ==
    /\ call = NoCall /\ Dispatchable
    /\ dis[d].op = "unknown"
    /\ call' = [kind |-> "bank", d |-> d, again |-> TRUE, answer |-> "none"]
    /\ UNCHANGED <<payout, att, op, dis, bank, seen, holds, refunded, spent>>

(* Stripe receives create_bank_payout. *)
BankPayout ==
    LET b == bank[call.d]
        known == dis[call.d].key = "fresh" /\ b.made > 0
    IN /\ Asking("bank")
       /\ call.again => Replays(dis[call.d])
       /\ \E executes \in (IF known THEN {FALSE} ELSE BOOLEAN),
             answer \in {"accepted", "rejected", "lost"} :
            /\ answer = "accepted" => executes \/ known
            /\ answer = "rejected" => ~executes /\ ~known
            /\ answer = "lost" => MayLose
            /\ CountsLoss(answer)
            /\ bank' = IF executes
                       THEN [bank EXCEPT ![call.d].status = "pending", ![call.d].made = @ + 1]
                       ELSE bank
            /\ call' = [kind |-> "bank", d |-> call.d, again |-> call.again,
                        answer |-> answer, says |-> "pending"]
       /\ UNCHANGED <<payout, att, op, dis, seen, holds, refunded>>

(* find_bank_payout_by_metadata, which answers with the current status. *)
SearchBankPayout ==
    /\ Asking("bank") /\ call.again /\ ~Replays(dis[call.d])
    /\ call' = IF bank[call.d].made = 0 THEN NoCall
               ELSE [kind |-> "bank", d |-> call.d, again |-> TRUE,
                     answer |-> "accepted", says |-> bank[call.d].status]
    /\ UNCHANGED <<payout, att, op, dis, bank, seen, holds, refunded, spent>>

(* apply_bank_payout_accepted, first transaction: the id is recorded. *)
AcceptBankPayout ==
    /\ Answered("bank", "accepted")
    /\ IF MayBecome("processing")
       THEN /\ dis' = [dis EXCEPT ![call.d].op = "accepted", ![call.d].known = TRUE,
                                   ![call.d].key = "unused"]
            /\ Becomes("processing")
            /\ call' = [kind |-> "observe", d |-> call.d, says |-> call.says]
       ELSE call' = NoCall /\ UNCHANGED <<dis, payout>>
    /\ UNCHANGED <<att, op, bank, seen, holds, refunded, spent>>

(* apply_bank_payout_rejected: the money is still in the account, and      *)
(* nothing asks a person before the next bank payout.                      *)
RejectBankPayout ==
    /\ Answered("bank", "rejected")
    /\ MayBecome("failed")
    /\ dis' = [dis EXCEPT ![call.d].op = "failed", ![call.d].status = "failed",
                          ![call.d].active = FALSE, ![call.d].key = "unused"]
    /\ Becomes("failed")
    /\ call' = NoCall
    /\ UNCHANGED <<att, op, bank, seen, holds, refunded, spent>>

BankPayoutUnknown ==
    /\ Answered("bank", "lost") /\ ~call.again
    /\ dis' = [dis EXCEPT ![call.d].op = "unknown", ![call.d].status = "unknown"]
    /\ call' = NoCall
    /\ UNCHANGED <<payout, att, op, bank, seen, holds, refunded, spent>>
-----------------------------------------------------------------------------
PayoutSide(says) ==
    CASE says = "paid" -> "paid" [] says = "failed" -> "failed"
      [] says = "in_transit" -> "sent" [] OTHER -> "none"

AttemptSide(n, says) ==
    CASE says = "paid" -> "succeeded" [] says = "failed" -> "accepted"
      [] says = "in_transit" /\ att[n] = "accepted" -> "sent" [] OTHER -> att[n]

(* apply_bank_payout_observation and _apply_payout_side.  An observation   *)
(* is dated when it is applied, so none is ever older than the last one;   *)
(* the payout of a released allocation is moved all the same.              *)
Observe(d, says) ==
    LET to == PayoutSide(says)
        moves == to # "none" /\ payout.status # to
        n == dis[d].attempt
    IN IF moves /\ ~MayBecome(to) THEN UNCHANGED <<dis, payout, att>>
       ELSE /\ dis' = [dis EXCEPT
                    ![d].status = IF says = "failed" /\ @ = "paid" THEN "returned" ELSE says,
                    ![d].active = @ /\ says # "failed"]
            /\ payout' = IF moves THEN [status |-> to, blocked |-> payout.blocked \/ to = "failed"]
                         ELSE payout
            /\ att' = IF moves THEN [att EXCEPT ![n] = AttemptSide(n, says)] ELSE att

(* The second transaction of apply_bank_payout_accepted. *)
ObserveAnswer ==
    /\ call.kind = "observe"
    /\ Observe(call.d, call.says)
    /\ call' = NoCall
    /\ UNCHANGED <<op, bank, seen, holds, refunded, spent>>

(* A webhook or reconcile_payout retrieves the bank payout, and applies    *)
(* what it read when its transaction comes to run.                         *)
Retrieve(r, d) ==
    /\ seen[r] = {} /\ dis[d].known
    /\ seen' = [seen EXCEPT ![r] = {<<d, bank[d].status>>}]
    /\ UNCHANGED <<payout, att, op, dis, bank, call, holds, refunded, spent>>

ApplyRead(r) ==
    /\ \E read \in seen[r] : Observe(read[1], read[2])
    /\ seen' = [seen EXCEPT ![r] = {}]
    /\ UNCHANGED <<op, bank, call, holds, refunded, spent>>

(* An event for a bank payout whose id no disbursement has yet: the        *)
(* account is held, and clear_hold does not reach an account's hold.       *)
UnexpectedPayoutEvent(d) ==
    /\ bank[d].made > 0 /\ ~dis[d].known
    /\ "account" \notin holds
    /\ holds' = holds \union {"account"}
    /\ UNCHANGED <<payout, att, op, dis, bank, call, seen, refunded, spent>>

(* Finance or a provider dispute opens a hold; its owner clears it. *)
OpenHold ==
    /\ "owned" \notin holds
    /\ holds' = holds \union {"owned"}
    /\ UNCHANGED <<payout, att, op, dis, bank, call, seen, refunded, spent>>

ClearHold ==
    /\ "owned" \in holds
    /\ holds' = holds \ {"owned"}
    /\ UNCHANGED <<payout, att, op, dis, bank, call, seen, refunded, spent>>

(* create_refund of one cent of a capture, under the order's lock. *)
Refund(s) ==
    /\ Available(s) >= 1 /\ spent.refunds < MaxRefunds
    /\ refunded' = [refunded EXCEPT ![s] = @ + 1]
    /\ spent' = [spent EXCEPT !.refunds = @ + 1]
    /\ UNCHANGED <<payout, att, op, dis, bank, call, seen, holds>>

(* admin_retry_bank_payout: the only way out of a block reason. *)
RetryBankPayout ==
    /\ payout.status = "failed"
    /\ holds = {} /\ NothingUnknown
    /\ \E n \in Attempts : att[n] = "accepted"
    /\ \A d \in Disbursements : ~dis[d].active
    /\ payout' = [status |-> "processing", blocked |-> FALSE]
    /\ UNCHANGED <<att, op, dis, bank, call, seen, holds, refunded, spent>>
-----------------------------------------------------------------------------
(* The environment: banks, time, and a worker process that dies. *)
BankMoves(d) ==
    /\ \E to \in CASE bank[d].status = "pending" -> {"in_transit", "failed"}
                   [] bank[d].status = "in_transit" -> {"paid", "failed"}
                   [] bank[d].status = "paid" -> {"failed"}
                   [] OTHER -> {} :
        bank' = [bank EXCEPT ![d].status = to, ![d].paid = @ \/ to = "paid"]
    /\ UNCHANGED <<payout, att, op, dis, call, seen, holds, refunded, spent>>

KeyExpires ==
    /\ \/ \E n \in Attempts, s \in Sources :
            /\ op[n][s].key = "fresh" /\ Outstanding(op[n][s])
            /\ op' = [op EXCEPT ![n][s].key = "stale"]
            /\ UNCHANGED dis
       \/ \E d \in Disbursements :
            /\ dis[d].key = "fresh" /\ dis[d].op \in {"committed", "unknown"}
            /\ dis' = [dis EXCEPT ![d].key = "stale"]
            /\ UNCHANGED op
    /\ call = NoCall
    /\ UNCHANGED <<payout, att, bank, call, seen, holds, refunded, spent>>

Crash ==
    /\ call # NoCall /\ spent.crashes < MaxCrashes
    /\ call' = NoCall
    /\ spent' = [spent EXCEPT !.crashes = @ + 1]
    /\ UNCHANGED <<payout, att, op, dis, bank, seen, holds, refunded>>
-----------------------------------------------------------------------------
Execute ==
    \/ \E n \in Attempts : Reserve(n) \/ Commit(n) \/ RecoverTransfers(n)
    \/ \E d \in Disbursements :
        PlanBankPayout(d) \/ CommitBankPayout(d) \/ RecoverBankPayout(d)
    \/ Transfer \/ SearchTransfer \/ AcceptTransfer \/ RejectTransfer
    \/ TransferUnknown \/ RecoveryDeferred
    \/ BankPayout \/ SearchBankPayout \/ AcceptBankPayout \/ RejectBankPayout
    \/ BankPayoutUnknown \/ ObserveAnswer

Next ==
    \/ Execute
    \/ \E r \in Readers : ApplyRead(r) \/ \E d \in Disbursements : Retrieve(r, d)
    \/ \E d \in Disbursements : UnexpectedPayoutEvent(d) \/ BankMoves(d)
    \/ \E s \in Sources : Refund(s)
    \/ OpenHold \/ ClearHold \/ RetryBankPayout \/ KeyExpires \/ Crash

Spec == Init /\ [][Next]_vars
-----------------------------------------------------------------------------
(* What Stripe transferred for a slice, an attempt, a capture and in all.  *)
Moved(n, s) == op[n][s].cents * op[n][s].done
TransferredOf(n) == SumFunctionOnSet([s \in Sources |-> Moved(n, s)], Sources)
TransferredFrom(s) == SumFunctionOnSet([n \in Attempts |-> Moved(n, s)], Attempts)
Transferred == SumFunctionOnSet([n \in Attempts |-> TransferredOf(n)], Attempts)
AtBank(d) == bank[d].status \in {"pending", "in_transit", "paid"}

(* The only way Stripe executes one slice twice: the worker died before    *)
(* its answer, nothing resumed it inside the key's window, and the         *)
(* operation, still "committed", was sent again without asking its age.    *)
Late(n, s) == op[n][s].late

(* A Transfer is executed once, whatever answers are lost and however often *)
(* it is replayed, and one whose slice was handed back to its capture was  *)
(* never executed (_recover_unknown_transfer, apply_transfer_rejected).    *)
TransferredOnce ==
    \A n \in Attempts, s \in Sources :
        op[n][s].done > (IF op[n][s].status = "failed" THEN 0 ELSE 1) => Late(n, s)

(* The same cent of a capture is refunded or transferred, never both,      *)
(* whatever became of the answers (create_refund, source_available_cents). *)
CaptureSpentOnce ==
    \A s \in Sources :
        \/ \E n \in Attempts : Late(n, s)
        \/ refunded[s] + TransferredFrom(s) <= Captured[s]

(* A bank payout that was paid came back. *)
CameBack(d) == bank[d].paid /\ bank[d].status = "failed"

(* More than the award is transferred only through an operation a dead     *)
(* worker left committed, under an attempt that a sibling's refusal had    *)
(* already failed or past its key's window; or when a reading of "paid" is *)
(* applied after the bank took that payout back, which closes the attempt, *)
(* and the next bank payout is refused, which reopens the Payout.          *)
AwardExceededOnlyByFault ==
    Transferred > Award =>
        \/ \E n \in Attempts, s \in Sources :
              Late(n, s) \/ (att[n] = "failed" /\ op[n][s].status = "committed")
        \/ \E d, e \in Disbursements : CameBack(d) /\ dis[e].op = "failed"

(* At most one bank payout is under way or paid, for the retry after a     *)
(* failure never races the payout it replaces; and a Payout that says paid *)
(* has one the bank really paid, possibly to return it later               *)
(* (_plan_bank_payout's allocation, _apply_payout_side).                   *)
BankPaidOnce ==
    /\ Cardinality({d \in Disbursements : AtBank(d)}) <= 1
    /\ \A d \in Disbursements : bank[d].made <= 1
    /\ payout.status = "paid" => \E d \in Disbursements : bank[d].paid

(* What the code says and does not do: nothing new is dispatched for a     *)
(* payout whose last instruction's outcome is unknown, so what was         *)
(* transferred stays within the award (execute_payout).                    *)
AwardNeverExceeded ==
    (\A n \in Attempts, s \in Sources : ~Late(n, s)) =>
        Transferred <= Award

(* What the code says and does not do: a duplicate delivery that reports a *)
(* fact already recorded changes nothing (_apply_payout_side).             *)
DuplicateChangesNothing ==
    [][\A r \in Readers, d \in Disbursements :
            (<<d, dis[d].status>> \in seen[r] /\ ApplyRead(r)) => UNCHANGED payout]_vars
=============================================================================
