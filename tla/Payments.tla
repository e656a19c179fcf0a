------------------------------ MODULE Payments ------------------------------
(***************************************************************************)
(* The payment system: orders, checkouts and the refunds that return what  *)
(* was captured.  A refund is driven by the request that raised it and by  *)
(* its durable job, possibly both at once; the provider call in between    *)
(* may time out before or after the provider acted.                        *)
(***************************************************************************)
EXTENDS Checkouts

VARIABLES
    asked,      \* asked[a]: the phases of the refund calls in flight for a
    reversed,   \* the attempts whose refund the provider has carried out
    wired,      \* wired[a]: how often an operator has sent a's money by bank transfer
    raced       \* history: those settled by hand beside a provider call

refundVars == <<asked, reversed, wired, raced>>
vars == <<orderVars, domainVars, providerVars, refundVars>>

Phases == {"asking", "answered"}

PaymentsTypeOK ==
    /\ OrdersTypeOK /\ CheckoutsTypeOK
    /\ asked \in [Attempts -> SUBSET Phases]
    /\ reversed \subseteq Attempts /\ raced \subseteq Attempts
    /\ wired \in [Attempts -> 0..2]

Init ==
    /\ OrdersInit /\ CheckoutsInit
    /\ asked = [a \in Attempts |-> {}]
    /\ reversed = {} /\ raced = {}
    /\ wired = [a \in Attempts |-> 0]
-----------------------------------------------------------------------------
BugSkipsCancelled(a) ==
    refund[a].status \in {"pending", "processing"} /\ ~order[attempt[a].order].cancelled
Unsettled(a) == refund[a].status \in {"pending", "processing"}
CallMoves(a, from, to) == asked' = [asked EXCEPT ![a] = (@ \ {from}) \union to]

(* _settle_refund_with_provider, first transaction.                        *)
DriveRefund(a) ==
    /\ Unsettled(a)
    /\ refund' = [refund EXCEPT ![a].status = "processing"]
    /\ CallMoves(a, "", {"asking"})
    /\ UNCHANGED <<order, attempt, domainVars, providerVars, reversed, wired, raced>>

(* The provider honours the idempotency key: the first call with it moves  *)
(* the money, every later one is answered from the record.  A call that is *)
(* given up before the provider acted never acts later.                    *)
ProviderRefunds(a) ==
    /\ "asking" \in asked[a]
    /\ a \notin Dinar
    /\ reversed' = reversed \union {a}
    /\ CallMoves(a, "asking", {"answered"})
    /\ UNCHANGED <<orderVars, domainVars, providerVars, wired, raced>>

(* mark_refund_succeeded: once, whoever comes first.                       *)
RecordRefunded(a) ==
    /\ "answered" \in asked[a]
    /\ CallMoves(a, "answered", {})
    /\ refund' = [refund EXCEPT ![a] = [status |-> "succeeded", manual |-> FALSE]]
    /\ UNCHANGED <<order, attempt, domainVars, providerVars, reversed, wired, raced>>

(* The provider is unreachable, answers `pending', refuses, has no refund  *)
(* call at all, or its answer is lost: _mark_refund_retryable or a manual  *)
(* obligation, unless another call has succeeded meanwhile.                *)
BugForgetsSuccess(a) == TRUE
StillOwed(a) == refund[a].status # "succeeded"

CallFails(a, manual) ==
    /\ \E phase \in asked[a] : CallMoves(a, phase, {})
    /\ refund' = [refund EXCEPT ![a] =
                     IF StillOwed(a) THEN [status |-> "pending", manual |-> @.manual \/ manual]
                     ELSE @]
    /\ UNCHANGED <<order, attempt, domainVars, providerVars, reversed, wired, raced>>

RefundCallFails(a) ==
    /\ a \in Dinar \/ MayRefuse
    /\ \E manual \in BOOLEAN : (a \in Dinar => manual) /\ CallFails(a, manual)

RefundCallDies(a) ==
    /\ MayCrash
    /\ asked[a] # {}
    /\ \E phase \in asked[a] : CallMoves(a, phase, {})
    /\ UNCHANGED <<orderVars, domainVars, providerVars, reversed, wired, raced>>

(* settle_refund_manually: an operator has sent the money by bank transfer *)
(* and records it.  Any unsettled refund is accepted, on any rail, whether *)
(* or not a refund call is in flight.                                      *)
SettleRefundManually(a) ==
    /\ Unsettled(a)
    /\ wired' = [wired EXCEPT ![a] = @ + 1]
    /\ raced' = IF asked[a] # {} \/ a \in reversed THEN raced \union {a} ELSE raced
    /\ refund' = [refund EXCEPT ![a] = [status |-> "succeeded", manual |-> FALSE]]
    /\ UNCHANGED <<order, attempt, domainVars, providerVars, asked, reversed>>

RefundsNext ==
    \E a \in Attempts :
        \/ DriveRefund(a) \/ ProviderRefunds(a) \/ RecordRefunded(a) \/ RefundCallFails(a)
        \/ RefundCallDies(a) \/ SettleRefundManually(a)

Next ==
    \/ DomainNext /\ UNCHANGED <<providerVars, refundVars>>
    \/ CheckoutsNext /\ UNCHANGED refundVars
    \/ RefundsNext

Spec == Init /\ [][Next]_vars
-----------------------------------------------------------------------------
(* One obligation never collects more than it asks, whichever of its       *)
(* attempts, superseded or expired ones included, turn out to be paid      *)
(* (reconcile_attempt, the order's no-over-collection constraint).         *)
NeverOverCollected ==
    \A o \in OrderIds : order[o].credit + Paid(o) <= order[o].amount

(* Money that serves no obligation is owed back: an unapplied capture, and *)
(* any capture of an order that was closed (cancel_order).                 *)
UnusedMoneyIsOwed ==
    \A a \in Attempts :
        attempt[a].status = "succeeded" /\ (attempt[a].unapplied \/ order[attempt[a].order].cancelled)
            => Obliged(a)

(* A deposit is spent once: while it is credited to the Deal's balance     *)
(* nothing of it is owed back, and the credit is money really captured.    *)
DepositSpentOnce ==
    order["balance"].credit > 0 =>
        /\ Obligated("deposit") = 0
        /\ order["balance"].credit <= Paid("deposit")
        /\ ~order["deposit"].cancelled

(* A Deal is funded only by money the providers hold: what backs it was    *)
(* paid at a session, covers the total, and is not owed back.              *)
Held(o) == CentsOf({a \in AppliedTo(o) : session[a] = "paid" /\ ~Obliged(a)})
FundedByRealMoney ==
    deal = "active" =>
        /\ IsPaid("balance")
        /\ order["balance"].credit <= Held("deposit")
        /\ Total - order["balance"].credit <= Held("balance")

(* A refund that says succeeded has left, although calls time out and are  *)
(* sent again; an operator sends it once; and it leaves by both ways only  *)
(* if it was settled by hand while a provider call was in flight, or after *)
(* one whose answer was lost (settle_refund_manually asks about neither).  *)
Gone(a) == a \in reversed \/ wired[a] # 0
ReturnedOnce ==
    \A a \in Attempts :
        /\ refund[a].status = "succeeded" => Gone(a)
        /\ wired[a] <= 1
        /\ a \in reversed /\ wired[a] # 0 => a \in raced

(* The captures are in custody: collected, then applied or owed, then      *)
(* returned, and never back.                                               *)
CustodyOf(a) ==
    CASE Gone(a) -> "returned"
      [] ~Gone(a) /\ attempt[a].status = "succeeded" /\ Obliged(a) -> "owed"
      [] ~Gone(a) /\ attempt[a].status = "succeeded" /\ ~Obliged(a) -> "applied"
      [] ~Gone(a) /\ attempt[a].status # "succeeded" ->
            IF session[a] = "paid" THEN "provider" ELSE "payer"
CapturesInCustody == INSTANCE Custody
    WITH Captures <- Attempts, custody <- [a \in Attempts |-> CustodyOf(a)]
ImplementsCustody == CapturesInCustody!CustodySpec

(* The claim of _match_attempt: "a late event can never be bound to the    *)
(* wrong attempt on an order that has several".                            *)
EventsFindTheirAttempt ==
    \A a \in Attempts, k \in Outcomes : event[a][k].bound \in {0, a}

(* The claim of mark_refund_succeeded: an operator settles "for a rail     *)
(* that has no refund API", so the two ways of returning never meet.       *)
OneWayBack == raced = {}

(* The claim of _publish_request_after_deposit: a public request whose     *)
(* deposit is held has its refund obligation in the database.              *)
HeldDepositIsGuarded ==
    request = "open" /\ IsPaid("deposit") => expiryJob # "done"
=============================================================================
