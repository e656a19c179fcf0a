---------------------------- MODULE PaymentOrders ----------------------------
(***************************************************************************)
(* The obligations of apps/finance/services.py: the posting deposit of one *)
(* request and the balance of the Deal accepted on it, the attempts to pay *)
(* them, and what a provider's answer does to them.  The money columns of  *)
(* an order (paid, refunded, status) are definitions here: every           *)
(* transaction that changes an attempt or a refund ends in                 *)
(* _recompute_order_money, which derives them from those rows.             *)
(* One refund per attempt, of its whole amount, stands for the refunds.    *)
(***************************************************************************)
EXTENDS Naturals, FiniteSets, FiniteSetsExt

CONSTANTS
    Attempts,   \* the payment attempts, numbered in the order they are made
    Dinar,      \* those of them made on the dinar rail; the others are euro cards
    Total       \* what the sender owes for the Deal, in cents

ASSUME PaymentsAssumption ==
    /\ Attempts \subseteq Nat \ {0}
    /\ IsFiniteSet(Attempts)
    /\ Dinar \subseteq Attempts
    /\ Total \in Nat \ {0}

VARIABLES
    request,    \* ParcelRequest.status
    deal,       \* Deal.status, up to its funding
    order,      \* order[o]: the PaymentOrder row of purpose o
    attempt,    \* attempt[a]: the PaymentAttempt row
    refund,     \* refund[a]: the PaymentRefund row of attempt a
    expiryJob   \* the deposit_expiry_refund job of the request

orderVars  == <<order, attempt, refund>>
domainVars == <<request, deal, expiryJob>>

OrderIds == {"deposit", "balance"}
Open     == {"created", "checkout_pending", "processing"}
Terminal == {"succeeded", "failed", "expired", "cancelled"}

Order   == [made: BOOLEAN, cancelled: BOOLEAN, amount: 0..Total, credit: 0..Total]
Attempt == [status: {"none"} \union Open \union Terminal, order: OrderIds,
            amount: 0..Total, stored: BOOLEAN, unapplied: BOOLEAN]
Refund  == [status: {"none", "pending", "processing", "succeeded"}, manual: BOOLEAN]

NoOrder   == [made |-> FALSE, cancelled |-> FALSE, amount |-> 0, credit |-> 0]
NoAttempt == [status |-> "none", order |-> "deposit", amount |-> 0,
              stored |-> FALSE, unapplied |-> FALSE]
NoRefund  == [status |-> "none", manual |-> FALSE]
NewRefund == [status |-> "pending", manual |-> FALSE]

OrdersTypeOK ==
    /\ request \in {"awaiting_deposit", "open", "matched", "expired", "cancelled"}
    /\ deal \in {"none", "payment_required", "active", "released"}
    /\ order \in [OrderIds -> Order]
    /\ attempt \in [Attempts -> Attempt]
    /\ refund \in [Attempts -> Refund]
    /\ expiryJob \in {"none", "armed", "refunding", "done"}

OrdersInit ==
    /\ request \in {"awaiting_deposit", "open"}   \* the policy asks for a deposit or not
    /\ deal = "none"
    /\ order = [o \in OrderIds |-> NoOrder]
    /\ attempt = [a \in Attempts |-> NoAttempt]
    /\ refund = [a \in Attempts |-> NoRefund]
    /\ expiryJob = "none"
-----------------------------------------------------------------------------
(* _recompute_order_money.                                                 *)
Applied(a, o) ==
    attempt[a].order = o /\ attempt[a].status = "succeeded" /\ ~attempt[a].unapplied
AppliedTo(o) == {a \in Attempts : Applied(a, o)}
Obliged(a)   == refund[a].status # "none"
CentsOf(S)   == SumFunctionOnSet([a \in Attempts |-> attempt[a].amount], S)

Paid(o)      == CentsOf(AppliedTo(o))
Obligated(o) == CentsOf({a \in AppliedTo(o) : Obliged(a)})

Outstanding(o) ==
    LET covered == order[o].credit + Paid(o)
    IN IF covered < order[o].amount THEN order[o].amount - covered ELSE 0

(* The statuses pending and partially_paid, and the status paid.           *)
Collectable(o) ==
    /\ order[o].made /\ ~order[o].cancelled
    /\ \A a \in AppliedTo(o) : ~Obliged(a)
    /\ Outstanding(o) > 0
IsPaid(o) ==
    /\ order[o].made /\ ~order[o].cancelled
    /\ \A a \in AppliedTo(o) : ~Obliged(a)
    /\ Outstanding(o) = 0

OpenOn(o) == {a \in Attempts : attempt[a].order = o /\ attempt[a].status \in Open}
WithoutOpen(o) ==
    [a \in Attempts |-> IF a \in OpenOn(o) THEN [attempt[a] EXCEPT !.status = "cancelled"]
                        ELSE attempt[a]]

(* cancel_order is a no-op once captured money that is not owed back has   *)
(* won the race; otherwise it hands the deposit's credit back and closes   *)
(* every open attempt.                                                     *)
MayCancelOrder(o) == order[o].made /\ ~order[o].cancelled /\ Paid(o) <= Obligated(o)

CancelOrder(o) ==
    IF MayCancelOrder(o)
    THEN /\ order' = [order EXCEPT ![o].cancelled = TRUE, ![o].credit = 0]
         /\ attempt' = WithoutOpen(o)
    ELSE UNCHANGED <<order, attempt>>

(* refund_order_in_full: every applied capture that no refund covers yet.  *)
RefundInFull(o) ==
    [a \in Attempts |-> IF a \in AppliedTo(o) /\ ~Obliged(a) THEN NewRefund ELSE refund[a]]
-----------------------------------------------------------------------------
(* reconcile_attempt, one conjunct of guards per path.                     *)
SetStatus(a, s) == attempt' = [attempt EXCEPT ![a].status = s]

MarkProcessing(a) ==
    /\ attempt[a].status \in Open
    /\ SetStatus(a, "processing")
    /\ UNCHANGED <<order, refund, domainVars>>

(* failed, expired or cancelled, or a success of the wrong amount or       *)
(* currency: the three final statuses without money behave alike.          *)
CloseUnpaid(a) ==
    /\ attempt[a].status \in Open
    /\ SetStatus(a, "expired")
    /\ UNCHANGED <<order, refund, domainVars>>

(* A success may find the attempt open, or already closed locally.         *)
BugIgnoresCancelled(a) == Outstanding(attempt[a].order) >= attempt[a].amount
BugAbsorbsAnyway(a) == ~order[attempt[a].order].cancelled
Absorbable(a) ==
    ~order[attempt[a].order].cancelled /\ Outstanding(attempt[a].order) >= attempt[a].amount

(* _publish_request_after_deposit arms the expiry job with the publication.*)
PublishAfterDeposit ==
    IF request = "awaiting_deposit"
    THEN /\ request' = "open"
         /\ expiryJob' = IF expiryJob = "none" THEN "armed" ELSE expiryJob
    ELSE UNCHANGED <<request, expiryJob>>

Capture(a) ==
    /\ attempt[a].status # "succeeded"
    /\ Absorbable(a)
    /\ SetStatus(a, "succeeded")
    /\ UNCHANGED <<order, refund>>
    /\ \/ /\ attempt[a].order = "deposit"
          /\ IF IsPaid("deposit")' THEN PublishAfterDeposit ELSE UNCHANGED <<request, expiryJob>>
          /\ UNCHANGED deal
       \/ /\ attempt[a].order = "balance"
          /\ deal = "payment_required"
          /\ deal' = "active"             \* fund_deal
          /\ UNCHANGED <<request, expiryJob>>

CaptureUnapplied(a) ==
    /\ attempt[a].status # "succeeded"
    /\ ~Absorbable(a)
    /\ attempt' = [attempt EXCEPT ![a].status = "succeeded", ![a].unapplied = TRUE]
    /\ refund' = [refund EXCEPT ![a] = NewRefund]
    /\ UNCHANGED <<order, domainVars>>

AlreadySettled(a, outcome) ==
    /\ attempt[a].status \in (IF outcome = "succeeded" THEN {"succeeded"} ELSE Terminal)
    /\ UNCHANGED <<orderVars, domainVars>>

Reconcile(a, outcome) ==
    \/ outcome = "processing" /\ MarkProcessing(a)
    \/ outcome = "expired" /\ CloseUnpaid(a)
    \/ outcome = "succeeded" /\ (Capture(a) \/ CaptureUnapplied(a))
    \/ AlreadySettled(a, outcome)
-----------------------------------------------------------------------------
(* ensure_posting_deposit_order: created once, repriced only while nobody  *)
(* has paid or is paying it.                                               *)
SetDeposit(cents) ==
    /\ request = "awaiting_deposit"
    /\ ~order["deposit"].cancelled
    /\ \/ ~order["deposit"].made
       \/ Paid("deposit") = 0 /\ OpenOn("deposit") = {}
    /\ order' = [order EXCEPT !["deposit"].made = TRUE, !["deposit"].amount = cents]
    /\ UNCHANGED <<attempt, refund, domainVars>>

(* Acceptance: the Deal, its balance order and the deposit's credit come   *)
(* into being together; a deposit that covers everything funds at once.    *)
Credit == IF IsPaid("deposit") THEN Min({Paid("deposit"), Total}) ELSE 0

AcceptOffer ==
    /\ request = "open"
    /\ deal = "none"
    /\ request' = "matched"
    /\ order' = [order EXCEPT !["balance"] =
                    [made |-> TRUE, cancelled |-> FALSE, amount |-> Total, credit |-> Credit]]
    /\ deal' = IF Credit = Total THEN "active" ELSE "payment_required"
    /\ UNCHANGED <<attempt, refund, expiryJob>>

(* release_pending_deal_reservation: the grace lapsed, or a party gave up. *)
ReleaseDeal ==
    /\ deal = "payment_required"
    /\ deal' = "released"
    /\ request' = "open"
    /\ CancelOrder("balance")
    /\ UNCHANGED <<refund, expiryJob>>

(* cancel_delivery_request: refused once any Deal exists.                  *)
CancelRequest ==
    /\ request \in {"awaiting_deposit", "open"}
    /\ deal = "none"
    /\ request' = "cancelled"
    /\ refund' = RefundInFull("deposit")
    /\ order' = [order EXCEPT !["deposit"].cancelled = order["deposit"].made]
    /\ attempt' = WithoutOpen("deposit")
    /\ UNCHANGED <<deal, expiryJob>>

(* handle_deposit_expiry_refund, due at the deadline; before it the job    *)
(* is deferred, which changes nothing.  A request that found a traveler    *)
(* discharges the job; otherwise one transaction expires the request and a *)
(* second one raises the refund.                                           *)
JobFindsMatch ==
    /\ expiryJob = "armed"
    /\ request = "matched"
    /\ expiryJob' = "done"
    /\ UNCHANGED <<orderVars, request, deal>>

BugStaysOpen(s) == s
Expired(s) == IF s = "open" THEN "expired" ELSE s

JobExpiresRequest ==
    /\ expiryJob = "armed"
    /\ request # "matched"
    /\ request' = Expired(request)
    /\ expiryJob' = IF order["deposit"].cancelled \/ order["balance"].credit > 0
                    THEN "done" ELSE "refunding"
    /\ UNCHANGED <<orderVars, deal>>

JobRefundsDeposit ==
    /\ expiryJob = "refunding"
    /\ refund' = RefundInFull("deposit")
    /\ expiryJob' = "done"
    /\ UNCHANGED <<order, attempt, request, deal>>

(* The worker dies between the two transactions; the job is taken again.   *)
JobDies ==
    /\ expiryJob = "refunding"
    /\ expiryJob' = "armed"
    /\ UNCHANGED <<orderVars, request, deal>>

DomainNext ==
    \/ \E cents \in 1..Total : SetDeposit(cents)
    \/ AcceptOffer \/ ReleaseDeal \/ CancelRequest
    \/ JobFindsMatch \/ JobExpiresRequest \/ JobRefundsDeposit \/ JobDies
=============================================================================
