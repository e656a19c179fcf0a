------------------------------ MODULE Checkouts ------------------------------
(***************************************************************************)
(* How an attempt meets its provider: start_checkout around its HTTP call, *)
(* the hosted session, the webhooks that may be late, doubled, reordered   *)
(* or lost, and the provider_reconcile and attempt_expiry jobs.  The       *)
(* provider is called outside every transaction, so each call is three     *)
(* steps: the request leaves, the provider acts, the answer is stored.     *)
(***************************************************************************)
EXTENDS PaymentOrders

CONSTANTS
    MayCrash,   \* a process or a checkout call may fail halfway
    MayRefuse   \* the card rail may refuse a refund or time out

VARIABLES
    session,    \* session[a]: the provider's own record of the checkout
    call,       \* call[a]: the create_checkout call of attempt a
    event       \* event[a][k]: the PaymentProviderEvent of kind k about session a

providerVars == <<session, call, event>>

Outcomes == {"processing", "succeeded", "expired"}
NoEvent  == [state |-> "none", bound |-> 0]

CheckoutsTypeOK ==
    /\ session \in [Attempts -> {"none", "open", "processing", "paid", "closed"}]
    /\ call \in [Attempts -> {"idle", "asking", "answered"}]
    /\ event \in [Attempts -> [Outcomes ->
                    [state: {"none", "received", "applied"},
                     bound: Attempts \union {0}]]]

CheckoutsInit ==
    /\ session = [a \in Attempts |-> "none"]
    /\ call = [a \in Attempts |-> "idle"]
    /\ event = [a \in Attempts |-> [k \in Outcomes |-> NoEvent]]
-----------------------------------------------------------------------------
(* start_checkout, first transaction.  An open attempt that cannot be      *)
(* reused (other rail, other payer, expired, no address yet) is superseded;*)
(* its hosted session stays open at the provider.                          *)
IsNext(a) ==
    attempt[a].status = "none" /\ \A b \in Attempts : b < a => attempt[b].status # "none"

StartCheckout(a, o) ==
    /\ IsNext(a)
    /\ Collectable(o)
    /\ attempt' = [WithoutOpen(o) EXCEPT ![a] =
                    [status |-> "created", order |-> o,
                     amount |-> Outstanding(o), stored |-> FALSE, unapplied |-> FALSE]]
    /\ call' = [call EXCEPT ![a] = "asking"]
    /\ UNCHANGED <<order, refund, domainVars, session, event>>

ProviderCreates(a) ==
    /\ call[a] = "asking"
    /\ session' = [session EXCEPT ![a] = "open"]
    /\ call' = [call EXCEPT ![a] = "answered"]
    /\ UNCHANGED <<orderVars, domainVars, event>>

(* A refusal, or an answer that is lost after the session was made: the    *)
(* failure is written whatever the attempt has become.                     *)
CheckoutFails(a) ==
    /\ MayCrash
    /\ call[a] # "idle"
    /\ call' = [call EXCEPT ![a] = "idle"]
    /\ SetStatus(a, "failed")
    /\ UNCHANGED <<order, refund, domainVars, session, event>>

(* start_checkout, last transaction: the handle is stored only if nobody   *)
(* has closed the attempt meanwhile.                                       *)
StoreSession(a) ==
    /\ call[a] = "answered"
    /\ call' = [call EXCEPT ![a] = "idle"]
    /\ attempt' = IF attempt[a].status = "created"
                  THEN [attempt EXCEPT ![a].status = "checkout_pending", ![a].stored = TRUE]
                  ELSE attempt
    /\ UNCHANGED <<order, refund, domainVars, session, event>>

CheckoutDies(a) ==
    /\ MayCrash
    /\ call[a] # "idle"
    /\ call' = [call EXCEPT ![a] = "idle"]
    /\ UNCHANGED <<orderVars, domainVars, session, event>>
-----------------------------------------------------------------------------
(* The hosted session.  The payer reaches it by the stored address only.   *)
SessionMoves(a, from, to) ==
    /\ session[a] = from
    /\ session' = [session EXCEPT ![a] = to]
    /\ UNCHANGED <<orderVars, domainVars, call, event>>

PayerPays(a)    == attempt[a].stored /\ SessionMoves(a, "open", "paid")
PayerDefers(a)  == attempt[a].stored /\ SessionMoves(a, "open", "processing")
DebitSettles(a) == SessionMoves(a, "processing", "paid")
DebitFails(a)   == SessionMoves(a, "processing", "closed")
SessionEnds(a)  == SessionMoves(a, "open", "closed")

(* What the provider says of a session, in a webhook or when asked.        *)
Answer(a) == CASE session[a] = "paid" -> "succeeded"
               [] session[a] = "closed" -> "expired"
               [] session[a] = "processing" -> "processing"
               [] OTHER -> "none"

(* _match_attempt: by the session, else by the order's reference the       *)
(* newest attempt of that rail that has no session stored yet.             *)
BugMatchesNewest(a) == Max({b \in Attempts : attempt[b].status # "none"})
Unstored(a) == {b \in Attempts : /\ attempt[b].status # "none" /\ ~attempt[b].stored
                                 /\ attempt[b].order = attempt[a].order
                                 /\ b \in Dinar <=> a \in Dinar}
MatchAttempt(a) == IF attempt[a].stored THEN a ELSE Max(Unstored(a))

(* apply_provider_event: the row is written with the attempt it names, and *)
(* may be applied much later, after events that were sent after it.  A     *)
(* redelivery finds the row and drives it again.                           *)
ReceiveEvent(a) ==
    /\ Answer(a) # "none"
    /\ event[a][Answer(a)].state = "none"
    /\ event' = [event EXCEPT ![a][Answer(a)] = [state |-> "received", bound |-> MatchAttempt(a)]]
    /\ UNCHANGED <<orderVars, domainVars, session, call>>

(* process_provider_event: reconciliation commits, and then another        *)
(* transaction says so; after a crash in between the event is driven again.*)
ProcessEvent(a, k) ==
    /\ event[a][k].state = "received"
    /\ Reconcile(event[a][k].bound, k)
    /\ \E s \in {"applied"} \union (IF MayCrash THEN {"received"} ELSE {}) :
         event' = [event EXCEPT ![a][k].state = s]
    /\ UNCHANGED <<session, call>>
-----------------------------------------------------------------------------
(* handle_provider_reconcile: recover the session if it was never stored   *)
(* (the idempotency key returns the same one; the dinar rail has no such   *)
(* key and is left to an operator), then ask the provider and reconcile    *)
(* with its answer.  The job is due five minutes after the attempt's time  *)
(* to live, so the create_checkout call, which has an HTTP timeout of      *)
(* seconds, is over by then.                                               *)
RecoverSession(a) ==
    /\ attempt[a].status \notin {"none", "succeeded"}
    /\ ~attempt[a].stored
    /\ a \notin Dinar
    /\ call[a] = "idle"
    /\ session' = [session EXCEPT ![a] = IF @ = "none" THEN "open" ELSE @]
    /\ attempt' = [attempt EXCEPT ![a].stored = TRUE,
                    ![a].status = IF @ = "created" THEN "checkout_pending" ELSE @]
    /\ UNCHANGED <<order, refund, domainVars, call, event>>

BugPollsOpen(a) == attempt[a].status \in Open
Pollable(a) == attempt[a].status # "succeeded"

PollProvider(a) ==
    /\ attempt[a].stored
    /\ Pollable(a)
    /\ Answer(a) # "none"
    /\ Reconcile(a, Answer(a))
    /\ UNCHANGED providerVars

(* handle_attempt_expiry: the time to live of an open attempt is over.     *)
ExpireAttempt(a) ==
    /\ attempt[a].status \in Open
    /\ CloseUnpaid(a)
    /\ UNCHANGED providerVars

SessionsNext ==
    \/ \E a \in Attempts, o \in OrderIds : StartCheckout(a, o)
    \/ \E a \in Attempts :
         \/ ProviderCreates(a) \/ CheckoutFails(a) \/ StoreSession(a) \/ CheckoutDies(a)
         \/ PayerPays(a) \/ PayerDefers(a) \/ DebitSettles(a) \/ DebitFails(a) \/ SessionEnds(a)
         \/ ExpireAttempt(a)
         \/ ReceiveEvent(a) \/ \E k \in Outcomes : ProcessEvent(a, k)

CheckoutsNext == SessionsNext \/ \E a \in Attempts : RecoverSession(a) \/ PollProvider(a)
=============================================================================
