------------------------------ MODULE LockOrder ------------------------------
(***************************************************************************)
(* Which rows each transaction of the marketplace and of the finance app   *)
(* locks, in which order and mode: the helpers of core/financial_locks and *)
(* their callers, the locks PostgreSQL takes at COMMIT for foreign keys,   *)
(* and the transactions that lock rows without the helpers.  The shipments *)
(* travel on one journey.  A row locked again by its holder is left out.   *)
(***************************************************************************)
EXTENDS RowLocks

CONSTANT LastShipment     \* shipments: a request with its match, offer, Deal, orders
Shipments == 1..LastShipment
Shared == 0               \* rows of the journey, of its traveler and the traveler's method

(* The order the docstring of financial_locks lists.  The outbox row is    *)
(* not in it; the services take it before the job that carries it.         *)
Order == <<"request", "match", "offer", "boost", "journey", "leg", "kyc", "proof", "user",
           "deal", "allocation", "recipient", "arrival", "code", "dispute", "rating",
           "deposit", "balance", "attempt", "event", "refund", "payout", "method",
           "message", "job">>

RankOf(row) == (LastShipment + 1) * (CHOOSE i \in 1..Len(Order) : Order[i] = row[1]) + row[2]

(* Bug: a bare select_for_update(), which the docstring forbids.           *)
BugBareLock == "update"

(* select_for_update(no_key=True), and any UPDATE.                         *)
RowLock == "no key update"

Entry(mode, class, n) == [mode |-> mode, row |-> <<class, n>>]
Lock(classes, n) == [i \in 1..Len(classes) |-> Entry(RowLock, classes[i], n)]

-----------------------------------------------------------------------------
(* The helpers.                                                            *)
LockRequestGraph(d, negotiation) ==
    Lock(IF negotiation THEN <<"request", "match", "offer", "boost">> ELSE <<"request", "boost">>, d)

LockDealAggregate(d) ==
    LockRequestGraph(d, TRUE) \o Lock(<<"journey", "leg">>, Shared) \o Lock(<<"deal", "allocation">>, d)

LockDealLifecycle(d) ==
    LockDealAggregate(d) \o Lock(<<"recipient", "arrival", "code", "dispute", "rating">>, d)

(* A deposit belongs to a request, a balance to a Deal.                    *)
LockPaymentOrder(order, d) ==
    (IF order = "deposit" THEN LockRequestGraph(d, FALSE) ELSE LockDealAggregate(d))
        \o Lock(<<order>>, d)

LockPayoutAggregate(d) ==
    LockDealLifecycle(d) \o Lock(<<"deposit", "balance", "attempt", "payout">>, d)

(* The deferred foreign keys an INSERT checks at COMMIT, in the order of   *)
(* the model's fields.                                                     *)
Parents(class, order) ==
    CASE class = "event"  -> <<"attempt", order>>
      [] class = "refund" -> <<order, "attempt">>
      [] class = "offer"  -> <<"match">>
      [] class = "match"  -> <<"request">>
CommitInsert(class, order, d) ==
    [i \in 1..Len(Parents(class, order)) |-> Entry("key share", Parents(class, order)[i], d)]

(* cancel_message locks the outbox row with a bare select_for_update, then *)
(* updates the job that carries it.                                        *)
CancelMessage(d) == <<Entry("update", "message", d), Entry(RowLock, "job", d)>>

-----------------------------------------------------------------------------
(* Matching and trips.                                                     *)
CreateSenderOffer(d) ==
    Lock(<<"request">>, d) \o Lock(<<"journey", "leg">>, Shared) \o CommitInsert("match", "", d)

CounterOffer(d) ==
    Lock(<<"request", "match", "offer">>, d) \o Lock(<<"journey", "leg">>, Shared)
        \o CommitInsert("offer", "", d)

AcceptOffer(d) ==
    LockRequestGraph(d, TRUE) \o Lock(<<"journey", "leg", "kyc", "proof", "user">>, Shared)
        \o Lock(<<"user", "deposit">>, d)

PublishJourney      == Lock(<<"journey", "leg">>, Shared)
ReplaceJourneyRoute == Lock(<<"journey", "leg", "proof">>, Shared)

(* cancel_journey looks for a funded Deal, and in its last transaction     *)
(* closes the pending negotiations of every request.                       *)
CancelJourney(d) == Lock(<<"journey">>, Shared) \o Lock(<<"deal">>, d)
CancelJourneyMatches ==
    [i \in 1..(2 * LastShipment) |->
        IF i <= LastShipment THEN Entry(RowLock, "match", i)
                             ELSE Entry(RowLock, "offer", i - LastShipment)]

ReviewKycSubmission == Lock(<<"kyc", "user">>, Shared)
ReviewFlightProof   == Lock(<<"proof">>, Shared)

CancelDeliveryRequest(d) ==
    LockRequestGraph(d, TRUE) \o Lock(<<"deposit", "attempt">>, d) \o CommitInsert("refund", "deposit", d)

SetBoostIntent(d)     == LockPaymentOrder("deposit", d)
DepositExpiry(d)      == LockPaymentOrder("deposit", d) \o Lock(<<"attempt", "job">>, d)
ReleaseReservation(d) == LockPaymentOrder("balance", d) \o Lock(<<"attempt", "job">>, d)

-----------------------------------------------------------------------------
(* Payments and refunds.                                                   *)
StartCheckout(order, d) == Lock(<<order, "attempt">>, d)

PersistProviderEvent(order, d) == CommitInsert("event", order, d)
ClaimProviderEvent(d) == Lock(<<"event">>, d)

ReconcileAttempt(order, d) ==
    LockPaymentOrder(order, d) \o Lock(<<"attempt">>, d) \o CancelMessage(d)
        \o CommitInsert("refund", order, d)

RequestRefund(order, d) == Lock(<<order, "attempt", "job">>, d) \o CommitInsert("refund", order, d)
ClaimRefund(d)          == Lock(<<"refund">>, d)
MarkRefundSucceeded(order, d) == Lock(<<order, "refund", "job">>, d)

QueueReconciliation(d) == Lock(<<"attempt", "job">>, d)

-----------------------------------------------------------------------------
(* The Deal and its payout.                                                *)
HandoverStep(d) == LockDealLifecycle(d) \o Lock(<<"job">>, d)
OpenDispute(d)  == LockDealLifecycle(d) \o Lock(<<"payout">>, d) \o CancelMessage(d)

ApplySettlement(d) ==
    LockPayoutAggregate(d) \o Lock(<<"job">>, d) \o CommitInsert("refund", "balance", d)

EvaluatePayoutRelease(d) ==
    LockDealLifecycle(d) \o Lock(<<"balance", "payout">>, d) \o Lock(<<"method">>, Shared)
        \o Lock(<<"job">>, d)

DispatchPayout(d) == LockPayoutAggregate(d) \o Lock(<<"method">>, Shared) \o Lock(<<"job">>, d)
CompleteManualPayout(d) == Lock(<<"payout">>, d)

SavePayoutMethod    == Lock(<<"user", "method">>, Shared)
ReviewPayoutProfile == Lock(<<"method">>, Shared)

-----------------------------------------------------------------------------
(* The outbox and the operators' job console.                              *)
DispatchMessage(d)  == <<Entry("update", "message", d)>>
RetryFailedJob(d)   == Lock(<<"job">>, d)
ResolveFailedJob(d) == Lock(<<"job", "message">>, d)

-----------------------------------------------------------------------------
PerJourney == {"publish_journey", "replace_journey_route", "cancel_journey_matches",
               "review_kyc", "review_flight_proof", "save_payout_method", "review_payout_profile"}
PerShipment == {"create_sender_offer", "counter_offer", "accept_offer", "cancel_journey",
                "cancel_delivery_request", "set_boost_intent", "deposit_expiry",
                "release_reservation", "claim_provider_event", "claim_refund",
                "queue_reconciliation", "handover", "open_dispute", "apply_settlement",
                "evaluate_release", "dispatch_payout", "complete_manual_payout",
                "dispatch_message", "retry_failed_job", "resolve_failed_job"}
PerOrder == {"start_checkout", "persist_provider_event", "reconcile_attempt",
             "request_refund", "mark_refund_succeeded"}

AllOperations ==
    {[name |-> n, of |-> Shared, order |-> ""] : n \in PerJourney}
        \union [name : PerShipment, of : Shipments, order : {""}]
        \union [name : PerOrder, of : Shipments, order : {"deposit", "balance"}]

LocksOf(o) ==
    CASE o.name = "publish_journey"         -> PublishJourney
      [] o.name = "replace_journey_route"   -> ReplaceJourneyRoute
      [] o.name = "cancel_journey_matches"  -> CancelJourneyMatches
      [] o.name = "review_kyc"              -> ReviewKycSubmission
      [] o.name = "review_flight_proof"     -> ReviewFlightProof
      [] o.name = "save_payout_method"      -> SavePayoutMethod
      [] o.name = "review_payout_profile"   -> ReviewPayoutProfile
      [] o.name = "create_sender_offer"     -> CreateSenderOffer(o.of)
      [] o.name = "counter_offer"           -> CounterOffer(o.of)
      [] o.name = "accept_offer"            -> AcceptOffer(o.of)
      [] o.name = "cancel_journey"          -> CancelJourney(o.of)
      [] o.name = "cancel_delivery_request" -> CancelDeliveryRequest(o.of)
      [] o.name = "set_boost_intent"        -> SetBoostIntent(o.of)
      [] o.name = "deposit_expiry"          -> DepositExpiry(o.of)
      [] o.name = "release_reservation"     -> ReleaseReservation(o.of)
      [] o.name = "claim_provider_event"    -> ClaimProviderEvent(o.of)
      [] o.name = "claim_refund"            -> ClaimRefund(o.of)
      [] o.name = "queue_reconciliation"    -> QueueReconciliation(o.of)
      [] o.name = "handover"                -> HandoverStep(o.of)
      [] o.name = "open_dispute"            -> OpenDispute(o.of)
      [] o.name = "apply_settlement"        -> ApplySettlement(o.of)
      [] o.name = "evaluate_release"        -> EvaluatePayoutRelease(o.of)
      [] o.name = "dispatch_payout"         -> DispatchPayout(o.of)
      [] o.name = "complete_manual_payout"  -> CompleteManualPayout(o.of)
      [] o.name = "dispatch_message"        -> DispatchMessage(o.of)
      [] o.name = "retry_failed_job"        -> RetryFailedJob(o.of)
      [] o.name = "resolve_failed_job"      -> ResolveFailedJob(o.of)
      [] o.name = "start_checkout"          -> StartCheckout(o.order, o.of)
      [] o.name = "persist_provider_event"  -> PersistProviderEvent(o.order, o.of)
      [] o.name = "reconcile_attempt"       -> ReconcileAttempt(o.order, o.of)
      [] o.name = "request_refund"          -> RequestRefund(o.order, o.of)
      [] o.name = "mark_refund_succeeded"   -> MarkRefundSucceeded(o.order, o.of)

-----------------------------------------------------------------------------
(* The operations that reach cancel_message.                               *)
Withdrawals == {"open_dispute", "reconcile_attempt"}

(* No two transactions wait for each other for ever, except an operator    *)
(* who dismisses the failed job of a mail and a service that withdraws     *)
(* that mail: resolve_failed_job takes the job before the message, and     *)
(* cancel_message the message before the job.  The server ends that wait   *)
(* by aborting one of them.                                                *)
OnlyMailWaitsInACircle ==
    \A group \in SUBSET Sessions :
        Stuck(group) =>
            /\ \E s \in group : op[s].name = "resolve_failed_job"
            /\ \E s \in group : op[s].name \in Withdrawals

(* The same without the exception, which the docstring of financial_locks  *)
(* asks of every writer; a dismissal and a withdrawal violate it.          *)
NobodyWaitsInACircle == \A group \in SUBSET Sessions : ~ Stuck(group)

(* Three facts of the table, for the theorems about it: every operation but*)
(* the dismissal takes its contended rows in order; the dismissal takes the*)
(* job and then, last, the message; and whoever locks a message and goes   *)
(* on to another row is withdrawing it.                                    *)
OnlyDismissalGoesBack ==
    \A o \in Operations : Canonical(o) \/ o.name = "resolve_failed_job"
DismissalEndsWithTheMail ==
    \A o \in Operations : o.name = "resolve_failed_job" =>
        Len(Locks(o)) = 2 /\ Locks(o)[2].row[1] = "message"
OnlyWithdrawalsGoOnFromMail ==
    \A o \in Operations : \A i \in 1..Len(Locks(o)) :
        Locks(o)[i].row[1] = "message" /\ i < Len(Locks(o)) => o.name \in Withdrawals
MailTable == OnlyDismissalGoesBack /\ DismissalEndsWithTheMail /\ OnlyWithdrawalsGoOnFromMail
=============================================================================
