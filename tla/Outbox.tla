------------------------------- MODULE Outbox -------------------------------
(***************************************************************************)
(* One durable email obligation: its row, the ScheduledJob that drives it, *)
(* the worker loop's sweep of the same table, the Redis stream that only   *)
(* transports, the Go consumer that sends by SMTP and writes the receipt,  *)
(* and a caller that withdraws the message when its fact has passed.       *)
(***************************************************************************)
EXTENDS Naturals, FiniteSets

CONSTANTS
    MessageAttempts,    \* max_attempts of the row and of its job
    MessageEvents,      \* event ids uuid4 may mint
    MessageFaults       \* dispatcher or consumer deaths

ASSUME OutboxAssumption ==
    /\ MessageAttempts \in Nat \ {0}
    /\ MessageFaults \in Nat
    /\ IsFiniteSet(MessageEvents) /\ "" \notin MessageEvents

Dispatchers == {"job", "sweep"}

VARIABLES
    message,    \* OutboundMessage: status, attempts, transport_event_id, due
    flight,     \* a dispatch_message call between its transactions
    published,  \* PublishedEvent and its stream entry and marker, per event id
    sending,    \* the entry whose SMTP send was accepted and has no receipt yet
    mailJob,    \* the outbound_message job: status, attempts, resolved
    withdrawn,  \* event ids known or in flight when it was first withdrawn
    deaths

outboxVars == <<message, flight, published, sending, mailJob, withdrawn, deaths>>

Grounded == [stage |-> "none", event |-> "", n |-> 0]
Unpublished == [queued |-> FALSE, marker |-> FALSE, delivered |-> FALSE, sent |-> FALSE]

OutboxInit ==
    /\ message = [status |-> "pending", attempts |-> 0, event |-> "", due |-> TRUE]
    /\ flight = [d \in Dispatchers |-> Grounded]
    /\ published = [e \in MessageEvents |-> Unpublished]
    /\ sending = {}
    /\ mailJob = [status |-> "pending", attempts |-> 0, resolved |-> FALSE]
    /\ withdrawn = {}
    /\ deaths = 0

(* A run of the job is recorded at its end: every answer discharges it,    *)
(* an exception is retried until the budget is spent.                      *)
Discharged(d) ==
    mailJob' = IF d = "job" THEN [mailJob EXCEPT !.status = "succeeded"] ELSE mailJob
Raised(d) ==
    mailJob' = IF d # "job" THEN mailJob
               ELSE [mailJob EXCEPT
                        !.attempts = @ + 1,
                        !.status = IF mailJob.attempts + 1 >= MessageAttempts
                                   THEN "failed" ELSE "pending"]

(* run_due_jobs, and dispatch_due_messages of every loop. *)
MayDispatch(d) ==
    /\ flight[d] = Grounded
    /\ IF d = "job" THEN mailJob.status = "pending"
                    ELSE message.status = "pending" /\ message.due

BugTransportIsDelivery ==
    message.event # "" /\ (published[message.event].delivered \/ published[message.event].queued)

Confirmed == message.event # "" /\ published[message.event].delivered
Awaiting == message.event # "" /\ ~message.due
BugNeverExhausted == FALSE

Exhausted == message.event # "" /\ message.attempts >= MessageAttempts

(* dispatch_message, first transaction, when it settles the message. *)
SettleMessage(d) ==
    /\ MayDispatch(d)
    /\ \/ /\ message.status \in {"dispatched", "cancelled"}
          /\ UNCHANGED message
       \/ /\ message.status \in {"pending", "failed"}
          /\ \/ Confirmed /\ message' = [message EXCEPT !.status = "dispatched"]
             \/ ~Confirmed /\ Awaiting /\ UNCHANGED message
             \/ /\ ~Confirmed /\ ~Awaiting /\ Exhausted
                /\ message' = [message EXCEPT !.status = "failed"]
    /\ Discharged(d)
    /\ UNCHANGED <<flight, published, sending, withdrawn, deaths>>

(* Otherwise it counts an attempt and renders outside the transaction; the *)
(* event id is the row's, or a new one that no row knows yet.              *)
InFlight == {flight[d].event : d \in Dispatchers}
StartDispatch(d) ==
    /\ MayDispatch(d)
    /\ message.status \in {"pending", "failed"}
    /\ ~Confirmed /\ ~Awaiting /\ ~Exhausted
    /\ message' = [message EXCEPT !.attempts =
                    IF @ < MessageAttempts THEN @ + 1 ELSE @]
    /\ \E e \in MessageEvents :
        /\ IF message.event # "" THEN e = message.event
           ELSE e \notin InFlight /\ published[e] = Unpublished
        /\ flight' = [flight EXCEPT ![d] =
                        [stage |-> "rendered", event |-> e, n |-> message.attempts + 1]]
    /\ mailJob' = IF d = "job" THEN [mailJob EXCEPT !.status = "running"] ELSE mailJob
    /\ UNCHANGED <<published, sending, withdrawn, deaths>>

(* _xadd_email: the entry joins the stream, even when the client sees a    *)
(* connection error.                                                       *)
Xadd(d) ==
    /\ flight[d].stage = "rendered"
    /\ \E answer \in {"added", "error"}, joins \in BOOLEAN :
        /\ answer = "added" => joins
        /\ published' = IF joins THEN [published EXCEPT ![flight[d].event].queued = TRUE]
                        ELSE published
        /\ flight' = [flight EXCEPT ![d].stage = answer]
    /\ UNCHANGED <<message, sending, mailJob, withdrawn, deaths>>

(* The last write goes to the row by primary key, whatever became of it    *)
(* since the first transaction.                                            *)
BugForgetsEvent(e) == [message EXCEPT !.status = "pending", !.due = FALSE]

Transported(e) == [message EXCEPT !.status = "pending", !.event = e, !.due = FALSE]
RecordTransport(d) ==
    /\ flight[d].stage = "added"
    /\ message' = Transported(flight[d].event)
    /\ flight' = [flight EXCEPT ![d] = Grounded]
    /\ Discharged(d)
    /\ UNCHANGED <<published, sending, withdrawn, deaths>>

RecordError(d) ==
    /\ flight[d].stage = "error"
    /\ message' = [message EXCEPT
                    !.status = IF flight[d].n >= MessageAttempts THEN "failed" ELSE "pending",
                    !.event = flight[d].event, !.due = FALSE]
    /\ flight' = [flight EXCEPT ![d] = Grounded]
    /\ Raised(d)
    /\ UNCHANGED <<published, sending, withdrawn, deaths>>

(* next_attempt_at passes. *)
FallsDue ==
    /\ ~message.due
    /\ message' = [message EXCEPT !.due = TRUE]
    /\ UNCHANGED <<flight, published, sending, mailJob, withdrawn, deaths>>
-----------------------------------------------------------------------------
(* handle in consumer.go: a receipt or a marker means it was sent already. *)
Skip(e) ==
    /\ published[e].queued /\ sending = {}
    /\ published[e].delivered \/ published[e].marker
    /\ published' = [published EXCEPT ![e].queued = FALSE, ![e].delivered = TRUE]
    /\ UNCHANGED <<message, flight, sending, mailJob, withdrawn, deaths>>

SendEmail(e) ==
    /\ published[e].queued /\ sending = {}
    /\ ~published[e].delivered /\ ~published[e].marker
    /\ published' = [published EXCEPT ![e].sent = TRUE]
    /\ sending' = {e}
    /\ UNCHANGED <<message, flight, mailJob, withdrawn, deaths>>

(* The marker, then the receipt, then the acknowledgement; the receipt may *)
(* fail and leave the entry for the consumer's sweep.                      *)
Receipt(e) ==
    /\ e \in sending
    /\ \E written \in BOOLEAN :
        published' = [published EXCEPT ![e].marker = TRUE,
                                       ![e].delivered = @ \/ written,
                                       ![e].queued = ~written]
    /\ sending' = {}
    /\ UNCHANGED <<message, flight, mailJob, withdrawn, deaths>>

(* The stream is trimmed or lost, a marker's ten minutes pass. *)
StreamLoses(e) ==
    /\ sending = {}
    /\ \/ published[e].queued /\ published' = [published EXCEPT ![e].queued = FALSE]
       \/ published[e].marker /\ published' = [published EXCEPT ![e].marker = FALSE]
    /\ deaths < MessageFaults /\ deaths' = deaths + 1
    /\ UNCHANGED <<message, flight, sending, mailJob, withdrawn>>

(* A worker dies in mid-call, and its job is requeued; the consumer dies   *)
(* before the receipt, and the entry stays pending in the stream.          *)
Dies ==
    /\ deaths < MessageFaults /\ deaths' = deaths + 1
    /\ \/ /\ sending # {} /\ sending' = {}
          /\ UNCHANGED <<flight, mailJob>>
       \/ \E d \in Dispatchers :
            /\ flight[d] # Grounded
            /\ flight' = [flight EXCEPT ![d] = Grounded]
            /\ Raised(d)
            /\ UNCHANGED sending
    /\ UNCHANGED <<message, published, withdrawn>>
-----------------------------------------------------------------------------
(* What is known of the message, or under way, when it is first withdrawn. *)
Recall ==
    withdrawn' = IF withdrawn # {} THEN withdrawn
                 ELSE InFlight \union {e \in MessageEvents :
                        published[e] # Unpublished \/ message.event = e} \union {""}

(* resolve_failed_job by an operator.  A dismissal also cancels a message  *)
(* that is still pending, and clears next_attempt_at.                      *)
ResolveMailJob ==
    /\ mailJob.status = "failed" /\ ~mailJob.resolved
    /\ mailJob' = [mailJob EXCEPT !.resolved = TRUE]
    /\ UNCHANGED <<message, flight, published, sending, withdrawn, deaths>>

DismissMailJob ==
    /\ mailJob.status = "failed" /\ ~mailJob.resolved
    /\ message.status = "pending"
    /\ mailJob' = [mailJob EXCEPT !.resolved = TRUE]
    /\ message' = [message EXCEPT !.status = "cancelled", !.due = TRUE]
    /\ Recall
    /\ UNCHANGED <<flight, published, sending, deaths>>

(* retry_failed_job by an operator. *)
RetryMailJob ==
    /\ mailJob.status = "failed" /\ ~mailJob.resolved
    /\ mailJob' = [mailJob EXCEPT !.status = "pending", !.attempts = 0]
    /\ UNCHANGED <<message, flight, published, sending, withdrawn, deaths>>

(* cancel_message, by a payment that succeeded or a dispute that opened.   *)
(* It also cancels the job, but a resolved job may only be "failed": then  *)
(* the constraint undoes it all, and the message stays owed.               *)
Withdraw ==
    /\ message.status = "pending"
    /\ ~(mailJob.status = "failed" /\ mailJob.resolved)
    /\ message' = [message EXCEPT !.status = "cancelled"]
    /\ mailJob' = IF mailJob.status \in {"pending", "failed"}
                  THEN [mailJob EXCEPT !.status = "cancelled"] ELSE mailJob
    /\ Recall
    /\ UNCHANGED <<flight, published, sending, deaths>>

Dispatch(d) ==
    SettleMessage(d) \/ StartDispatch(d) \/ Xadd(d) \/ RecordTransport(d) \/ RecordError(d)
Consume(e) == Skip(e) \/ SendEmail(e) \/ Receipt(e)

OutboxNext ==
    \/ \E d \in Dispatchers : Dispatch(d)
    \/ \E e \in MessageEvents : Consume(e) \/ StreamLoses(e)
    \/ FallsDue \/ Dies
    \/ ResolveMailJob \/ DismissMailJob \/ RetryMailJob \/ Withdraw

(* The clock, and worker loops that keep looping.  Nothing is assumed of    *)
(* the stream or its consumer.                                             *)
OutboxSpec ==
    /\ OutboxInit /\ [][OutboxNext]_outboxVars
    /\ \A d \in Dispatchers : WF_outboxVars(Dispatch(d))
    /\ WF_outboxVars(FallsDue)
-----------------------------------------------------------------------------
(* A message is called dispatched only if SMTP accepted it: transport is   *)
(* not delivery, whatever was retried, lost or overwritten on the way.     *)
DispatchedWasSent ==
    message.status = "dispatched" => \E e \in MessageEvents : published[e].sent

(* A message withdrawn by its domain, or by the dismissal of its failed    *)
(* job, can come back, because a dispatch in flight writes "pending" over  *)
(* it; but what leaves then is only what was already under way, under its  *)
(* old event id, never a newly minted one.                                 *)
WithdrawnSendsNothingNew ==
    withdrawn # {} => \A e \in MessageEvents : published[e].sent => e \in withdrawn

(* Every obligation is discharged, given up or withdrawn in the end, even  *)
(* when its job is lost or its withdrawal was refused.                     *)
EveryMessageSettles == message.status = "pending" ~> message.status # "pending"
=============================================================================
