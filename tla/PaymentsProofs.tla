--------------------------- MODULE PaymentsProofs ---------------------------
(***************************************************************************)
(* Every capture stays in custody and serves what it was collected for,    *)
(* for any number of attempts on either rail, any amounts, lost and        *)
(* repeated webhooks, crashes and refusals.  The first half follows the    *)
(* rows of one attempt, its session and its refund, through steps that     *)
(* touch several attempts, and never adds up money; the second half adds   *)
(* up what each order was paid.                                            *)
(***************************************************************************)
EXTENDS PaymentRecovery, SumLemmas

(* The tables as far as the argument reads them.  What an attempt amounts  *)
(* to and what an event was bound to may be anything.                      *)
AttemptRow(amounts) == [status: {"none"} \union Open \union Terminal, order: OrderIds,
                        amount: amounts, stored: BOOLEAN, unapplied: BOOLEAN]
IsAttempts(f) == f \in [Attempts -> AttemptRow({f[a].amount : a \in Attempts})]

EventRow(bounds) == [state: {"none", "received", "applied"}, bound: bounds]
IsEvents(f) ==
    f \in [Attempts -> [Outcomes -> EventRow({f[a][k].bound : a \in Attempts, k \in Outcomes})]]

Returns == reversed \subseteq Attempts /\ raced \subseteq Attempts /\ wired \in [Attempts -> 0..1]

Tables ==
    /\ IsAttempts(attempt) /\ IsEvents(event)
    /\ refund \in [Attempts -> Refund]
    /\ session \in [Attempts -> {"none", "open", "processing", "paid", "closed"}]
    /\ call \in [Attempts -> {"idle", "asking", "answered"}]
    /\ asked \in [Attempts -> SUBSET Phases]
    /\ Returns

(* A session is paid only through its stored address, an attempt succeeds  *)
(* only on a paid session, and money is owed only on a success.  A call    *)
(* that was answered was carried out, an operator's transfer is recorded   *)
(* at once, and one beside a provider call is remembered as such.          *)
Reached(a) ==
    /\ attempt[a].status = "none" => session[a] = "none" /\ call[a] = "idle" /\ ~attempt[a].stored
    /\ call[a] = "asking" => session[a] = "none"
    /\ attempt[a].stored => call[a] = "idle"
    /\ session[a] \in {"processing", "paid"} => attempt[a].stored
    /\ attempt[a].status = "succeeded" => session[a] = "paid"
Repaid(a) ==
    /\ Obliged(a) => attempt[a].status = "succeeded"
    /\ asked[a] # {} \/ a \in reversed => Obliged(a)
    /\ "answered" \in asked[a] => a \in reversed
    /\ refund[a].status = "succeeded" => Gone(a)
    /\ wired[a] # 0 => refund[a].status = "succeeded"
    /\ wired[a] # 0 /\ (asked[a] # {} \/ a \in reversed) => a \in raced
Informed(a) ==
    event[a]["succeeded"].state # "none" =>
        event[a]["succeeded"].bound = a /\ session[a] = "paid"

IInv == Tables /\ \A a \in Attempts : Reached(a) /\ Repaid(a) /\ Informed(a)
-----------------------------------------------------------------------------
(* What a step does to the rows of attempts and refunds.                   *)
Closing == {"processing", "failed", "expired", "cancelled"}
SameAttempt(a) == attempt'[a].status = attempt[a].status /\ attempt'[a].stored = attempt[a].stored

QuietAttempts ==
    /\ IsAttempts(attempt')
    /\ \A a \in Attempts :
         /\ attempt'[a].stored = attempt[a].stored
         /\ \/ attempt'[a].status = attempt[a].status
            \/ attempt[a].status \in Open /\ attempt'[a].status \in Closing
MoreIsOwed ==
    /\ refund' \in [Attempts -> Refund]
    /\ \A a \in Attempts :
         \/ refund'[a] = refund[a]
         \/ attempt[a].status = "succeeded" /\ ~Obliged(a) /\ refund'[a] = NewRefund
Succeeds(a) ==
    /\ attempt[a].status # "succeeded"
    /\ IsAttempts(attempt')
    /\ attempt'[a].status = "succeeded" /\ attempt'[a].stored = attempt[a].stored
    /\ \A b \in Attempts \ {a} : SameAttempt(b)
    /\ refund' = refund \/ refund' = [refund EXCEPT ![a] = NewRefund]

LEMMA AttemptsAre ==
    ASSUME NEW amounts, NEW f \in [Attempts -> AttemptRow(amounts)]
    PROVE  IsAttempts(f)
  <1>1. ASSUME NEW a \in Attempts
        PROVE  f[a] \in AttemptRow({f[b].amount : b \in Attempts})
    <2>1. f[a] \in AttemptRow(amounts) /\ f[a].amount \in {f[b].amount : b \in Attempts}
      BY Zenon
    <2> DEFINE seen == {f[b].amount : b \in Attempts}
    <2> HIDE DEF seen
    <2>2. f[a].amount \in seen
      BY <2>1 DEF seen
    <2>3. f[a] \in AttemptRow(seen)
      BY <2>1, <2>2, SMT DEF AttemptRow
    <2> QED BY <2>3 DEF seen
  <1> QED BY <1>1, Zenon DEF IsAttempts

LEMMA EventsAre ==
    ASSUME NEW bounds, NEW f \in [Attempts -> [Outcomes -> EventRow(bounds)]]
    PROVE  IsEvents(f)
  <1> DEFINE seen == {f[b][m].bound : b \in Attempts, m \in Outcomes}
  <1>1. ASSUME NEW a \in Attempts, NEW k \in Outcomes
        PROVE  f[a][k].bound \in seen
    BY SMT
  <1> HIDE DEF seen
  <1>2. f \in [Attempts -> [Outcomes -> EventRow(seen)]]
    BY <1>1, SMT DEF EventRow
  <1> QED BY <1>2 DEF IsEvents, seen

LEMMA SetStatusWrites ==
    ASSUME IsAttempts(attempt), NEW a, NEW s \in Terminal \union Open, SetStatus(a, s)
    PROVE  /\ IsAttempts(attempt')
           /\ \A b \in Attempts \ {a} : SameAttempt(b)
           /\ a \in Attempts => attempt'[a].status = s /\ attempt'[a].stored = attempt[a].stored
  <1>1. PICK amounts : attempt \in [Attempts -> AttemptRow(amounts)]
    BY Zenon DEF IsAttempts
  <1>2. attempt' \in [Attempts -> AttemptRow(amounts)]
    <2>1. CASE a \in Attempts
      BY <1>1, <2>1, SMT DEF SetStatus, AttemptRow
    <2>2. CASE a \notin Attempts
      <3>1. attempt' = attempt
        BY <1>1, <2>2, SMT DEF SetStatus
      <3> QED BY <1>1, <3>1
    <2> QED BY <2>1, <2>2
  <1>3. a \in Attempts => attempt'[a].status = s /\ attempt'[a].stored = attempt[a].stored
    BY <1>1, SMT DEF SetStatus, AttemptRow
  <1>4. \A b \in Attempts \ {a} : attempt'[b] = attempt[b]
    BY <1>1, SMT DEF SetStatus, AttemptRow
  <1> QED BY <1>2, <1>3, <1>4, AttemptsAre, Zenon DEF SameAttempt

LEMMA WithoutOpenIsQuiet ==
    ASSUME IsAttempts(attempt), NEW o, attempt' = WithoutOpen(o)
    PROVE  QuietAttempts
  <1>1. PICK amounts : attempt \in [Attempts -> AttemptRow(amounts)]
    BY Zenon DEF IsAttempts
  <1>2. attempt' \in [Attempts -> AttemptRow(amounts)]
    BY <1>1, SMT DEF WithoutOpen, AttemptRow, Terminal
  <1>3. ASSUME NEW b \in Attempts
        PROVE  /\ attempt'[b].stored = attempt[b].stored
               /\ \/ attempt'[b].status = attempt[b].status
                  \/ attempt[b].status \in Open /\ attempt'[b].status = "cancelled"
    BY <1>1, SMT DEF WithoutOpen, AttemptRow, OpenOn
  <1> QED BY <1>2, <1>3, AttemptsAre, Zenon DEF QuietAttempts, Closing

LEMMA UnchangedIsQuiet ==
    ASSUME IsAttempts(attempt), attempt' = attempt PROVE QuietAttempts
  BY Zenon DEF QuietAttempts

LEMMA NothingMoreIsOwed ==
    ASSUME refund \in [Attempts -> Refund], refund' = refund PROVE MoreIsOwed
  BY Zenon DEF MoreIsOwed

LEMMA RefundInFullIsOwed ==
    ASSUME refund \in [Attempts -> Refund], NEW o, refund' = RefundInFull(o)
    PROVE  MoreIsOwed
  <1>1. NewRefund \in Refund
    BY DEF NewRefund, Refund
  <1>2. refund' \in [Attempts -> Refund]
    BY <1>1, SMT DEF RefundInFull
  <1>3. ASSUME NEW a \in Attempts
        PROVE  \/ refund'[a] = refund[a]
               \/ attempt[a].status = "succeeded" /\ ~Obliged(a) /\ refund'[a] = NewRefund
    BY Zenon DEF RefundInFull, AppliedTo, Applied
  <1> QED BY <1>2, <1>3, Zenon DEF MoreIsOwed

LEMMA CancelOrderIsQuiet ==
    ASSUME IsAttempts(attempt), NEW o, CancelOrder(o) PROVE QuietAttempts
  BY WithoutOpenIsQuiet, UnchangedIsQuiet, Zenon DEF CancelOrder

(* The marketplace's side closes open attempts and owes back what was      *)
(* captured; it never takes money or undoes a success.                     *)
LEMMA DomainIsQuiet ==
    ASSUME Tables, DomainNext PROVE QuietAttempts /\ MoreIsOwed
  <1> USE DEF Tables
  <1>1. ASSUME NEW cents, SetDeposit(cents) PROVE QuietAttempts /\ MoreIsOwed
    BY <1>1, UnchangedIsQuiet, NothingMoreIsOwed, Zenon DEF SetDeposit
  <1>2. CASE AcceptOffer
    BY <1>2, UnchangedIsQuiet, NothingMoreIsOwed, Zenon DEF AcceptOffer
  <1>3. CASE ReleaseDeal
    BY <1>3, CancelOrderIsQuiet, NothingMoreIsOwed, Zenon DEF ReleaseDeal
  <1>4. CASE CancelRequest
    BY <1>4, WithoutOpenIsQuiet, RefundInFullIsOwed, Zenon DEF CancelRequest
  <1>5. CASE JobFindsMatch
    BY <1>5, UnchangedIsQuiet, NothingMoreIsOwed, Zenon DEF JobFindsMatch, orderVars
  <1>6. CASE JobExpiresRequest
    BY <1>6, UnchangedIsQuiet, NothingMoreIsOwed, Zenon DEF JobExpiresRequest, orderVars
  <1>7. CASE JobRefundsDeposit
    BY <1>7, UnchangedIsQuiet, RefundInFullIsOwed, Zenon DEF JobRefundsDeposit
  <1>8. CASE JobDies
    BY <1>8, UnchangedIsQuiet, NothingMoreIsOwed, Zenon DEF JobDies, orderVars
  <1> QED BY <1>1, <1>2, <1>3, <1>4, <1>5, <1>6, <1>7, <1>8, Zenon DEF DomainNext

LEMMA ClosingIsQuiet ==
    ASSUME Tables, NEW a, NEW s \in Closing, attempt[a].status \in Open, SetStatus(a, s)
    PROVE  QuietAttempts
  <1>1. s \in Terminal \union Open
    BY DEF Closing, Terminal, Open
  <1>2. /\ IsAttempts(attempt')
        /\ \A b \in Attempts \ {a} : SameAttempt(b)
        /\ a \in Attempts => attempt'[a].status = s /\ attempt'[a].stored = attempt[a].stored
    BY <1>1, SetStatusWrites, Zenon DEF Tables
  <1>3. ASSUME NEW b \in Attempts
        PROVE  /\ attempt'[b].stored = attempt[b].stored
               /\ \/ attempt'[b].status = attempt[b].status
                  \/ attempt[b].status \in Open /\ attempt'[b].status \in Closing
    <2>1. CASE b = a
      BY <1>2, <2>1
    <2>2. CASE b # a
      BY <1>2, <2>2, Zenon DEF SameAttempt
    <2> QED BY <2>1, <2>2
  <1> QED BY <1>2, <1>3, Zenon DEF QuietAttempts

LEMMA CaptureSucceeds ==
    ASSUME Tables, NEW a \in Attempts, Capture(a) \/ CaptureUnapplied(a) PROVE Succeeds(a)
  <1>1. CASE Capture(a)
    <2>1. "succeeded" \in Terminal \union Open
      BY DEF Terminal
    <2> QED BY <1>1, <2>1, SetStatusWrites, Zenon DEF Capture, Succeeds, Tables
  <1>2. CASE CaptureUnapplied(a)
    <2>1. PICK amounts : attempt \in [Attempts -> AttemptRow(amounts)]
      BY Zenon DEF Tables, IsAttempts
    <2>2. attempt' = [attempt EXCEPT ![a].status = "succeeded", ![a].unapplied = TRUE]
      BY <1>2 DEF CaptureUnapplied
    <2>3. attempt' \in [Attempts -> AttemptRow(amounts)]
      <3>1. "succeeded" \in {"none"} \union Open \union Terminal
        BY DEF Terminal
      <3>2. PICK once : once = [attempt EXCEPT ![a].status = "succeeded"]
        OBVIOUS
      <3>3. once \in [Attempts -> AttemptRow(amounts)]
        BY <2>1, <3>1, <3>2, SMT DEF AttemptRow
      <3>4. PICK yes \in BOOLEAN : attempt' = [once EXCEPT ![a].unapplied = yes]
        BY <2>2, <3>2, Zenon
      <3> QED BY <3>3, <3>4, SMT DEF AttemptRow
    <2>4. attempt'[a].status = "succeeded" /\ attempt'[a].stored = attempt[a].stored
      BY <2>1, <2>2, SMT DEF AttemptRow
    <2>5. \A b \in Attempts \ {a} : attempt'[b] = attempt[b]
      BY <2>1, <2>2, SMT DEF AttemptRow
    <2> QED BY <1>2, <2>3, <2>4, <2>5, AttemptsAre, Zenon DEF CaptureUnapplied, Succeeds, SameAttempt
  <1> QED BY <1>1, <1>2

(* reconcile_attempt: an answer that is no success at most closes an open  *)
(* attempt, whichever attempt it was bound to.                             *)
LEMMA ReconcileRows ==
    ASSUME Tables, NEW a, NEW k, Reconcile(a, k), k = "succeeded" => a \in Attempts
    PROVE  (QuietAttempts /\ MoreIsOwed) \/ (k = "succeeded" /\ Succeeds(a))
  <1>1. CASE MarkProcessing(a)
    BY <1>1, ClosingIsQuiet, NothingMoreIsOwed, Zenon DEF MarkProcessing, Closing, Tables
  <1>2. CASE CloseUnpaid(a)
    BY <1>2, ClosingIsQuiet, NothingMoreIsOwed, Zenon DEF CloseUnpaid, Closing, Tables
  <1>3. CASE k = "succeeded" /\ (Capture(a) \/ CaptureUnapplied(a))
    BY <1>3, CaptureSucceeds, Zenon
  <1>4. CASE AlreadySettled(a, k)
    BY <1>4, UnchangedIsQuiet, NothingMoreIsOwed, Zenon DEF AlreadySettled, orderVars, Tables
  <1> QED BY <1>1, <1>2, <1>3, <1>4, Zenon DEF Reconcile
-----------------------------------------------------------------------------
(* The three kinds of steps of which the invariant is kept for all         *)
(* attempts together; the others concern the provider of one attempt.      *)
Elsewhere == UNCHANGED <<session, call, asked, reversed, wired, raced>>
Sound(a)  == Reached(a) /\ Repaid(a)

LEMMA NewRefundIsPending == NewRefund \in Refund /\ NewRefund.status = "pending"
  BY DEF NewRefund, Refund

LEMMA NotYetGone ==
    ASSUME IInv, NEW a \in Attempts, ~Obliged(a) \/ attempt[a].status # "succeeded"
    PROVE  ~Gone(a) /\ ~Obliged(a)
  <1>1. Repaid(a)
    BY DEF IInv
  <1>2. ~Obliged(a)
    BY <1>1, Zenon DEF Repaid
  <1> QED BY <1>1, <1>2, Zenon DEF Repaid, Obliged, Gone

LEMMA QuietKeepsSound ==
    ASSUME IInv, QuietAttempts, MoreIsOwed, Elsewhere, NEW a \in Attempts
    PROVE  Sound(a)'
  <1>1. Reached(a) /\ Repaid(a)
    BY DEF IInv
  <1>2. /\ attempt'[a].stored = attempt[a].stored
        /\ \/ attempt'[a].status = attempt[a].status
           \/ /\ attempt[a].status \notin {"none", "succeeded"}
              /\ attempt'[a].status \notin {"none", "succeeded"}
    BY Zenon DEF QuietAttempts, Open, Closing
  <1>3. \/ refund'[a] = refund[a]
        \/ attempt[a].status = "succeeded" /\ refund[a].status = "none" /\ refund'[a].status = "pending"
    BY NewRefundIsPending, Zenon DEF MoreIsOwed, Obliged
  <1>4. Reached(a)'
    BY <1>1, <1>2, Zenon DEF Reached, Elsewhere
  <1>5. Repaid(a)'
    <2>1. CASE refund'[a] = refund[a]
      <3>1. Obliged(a) => attempt'[a].status = "succeeded"
        BY <1>1, <1>2, Zenon DEF Repaid
      <3>2. (Obliged(a)' <=> Obliged(a)) /\ (Gone(a)' <=> Gone(a))
        BY <2>1, Zenon DEF Elsewhere, Obliged, Gone
      <3> QED BY <1>1, <2>1, <3>1, <3>2, Zenon DEF Repaid, Elsewhere
    <2>2. CASE attempt[a].status = "succeeded" /\ refund[a].status = "none" /\ refund'[a].status = "pending"
      BY <1>1, <1>2, <2>2, Zenon DEF Repaid, Obliged, Elsewhere
    <2> QED BY <1>3, <2>1, <2>2
  <1> QED BY <1>4, <1>5 DEF Sound

LEMMA SuccessKeepsSound ==
    ASSUME IInv, NEW c \in Attempts, session[c] = "paid", Succeeds(c), Elsewhere, NEW a \in Attempts
    PROVE  Sound(a)'
  <1>1. Reached(a) /\ Repaid(a)
    BY DEF IInv
  <1>2. CASE a # c
    <2>1. SameAttempt(a) /\ refund'[a] = refund[a]
      BY <1>2, Zenon DEF Succeeds, IInv, Tables
    <2> QED BY <1>1, <2>1, Zenon DEF Sound, Reached, Repaid, Obliged, SameAttempt, Elsewhere, Gone
  <1>3. CASE a = c
    <2>1. /\ attempt[a].status # "succeeded" /\ attempt'[a].status = "succeeded"
          /\ attempt'[a].stored = attempt[a].stored
      BY <1>3 DEF Succeeds
    <2>2. refund'[a] = refund[a] \/ refund'[a].status = "pending"
      <3>1. CASE refund' = refund
        BY <3>1
      <3>2. CASE refund' = [refund EXCEPT ![c] = NewRefund]
        <4>1. refund'[c] = NewRefund
          BY <3>2, Zenon DEF IInv, Tables
        <4> QED BY <1>3, <4>1, NewRefundIsPending
      <3> QED BY <3>1, <3>2, Zenon DEF Succeeds
    <2>3. refund[a].status = "none" /\ asked[a] = {} /\ a \notin reversed /\ wired[a] = 0
      BY <1>1, <2>1, Zenon DEF Repaid, Obliged
    <2>4. Reached(a)'
      BY <1>1, <1>3, <2>1, Zenon DEF Reached, Elsewhere
    <2>5. Repaid(a)'
      BY <2>1, <2>2, <2>3, Zenon DEF Repaid, Obliged, Elsewhere
    <2> QED BY <2>4, <2>5 DEF Sound
  <1> QED BY <1>2, <1>3

(* One attempt whose row is untouched, or closed beside another's step.    *)
Superseded(a) ==
    /\ attempt'[a].stored = attempt[a].stored
    /\ \/ attempt'[a].status = attempt[a].status
       \/ /\ attempt[a].status \notin {"none", "succeeded"}
          /\ attempt'[a].status \notin {"none", "succeeded"}
SameReturn(a) ==
    /\ wired'[a] = wired[a]
    /\ a \in reversed' <=> a \in reversed
    /\ a \in raced' <=> a \in raced
Untouched(a) ==
    /\ refund'[a] = refund[a] /\ session'[a] = session[a] /\ call'[a] = call[a]
    /\ asked'[a] = asked[a] /\ SameReturn(a)

LEMMA SupersededIsSound ==
    ASSUME NEW a \in Attempts, Sound(a), Superseded(a), Untouched(a) PROVE Sound(a)'
  BY Zenon DEF Sound, Reached, Repaid, Obliged, Superseded, Untouched, SameReturn, Gone

(* Where the money of a capture is, as a function of four columns.         *)
Place(gone, status, due, paid) ==
    IF gone THEN "returned"
    ELSE IF status = "succeeded" THEN (IF due = "none" THEN "applied" ELSE "owed")
    ELSE IF paid = "paid" THEN "provider" ELSE "payer"

LEMMA CustodyIsPlace ==
    ASSUME NEW a \in Attempts
    PROVE  /\ CustodyOf(a) = Place(Gone(a), attempt[a].status, refund[a].status, session[a])
           /\ CustodyOf(a)' = Place(Gone(a)', attempt'[a].status, refund'[a].status, session'[a])
  <1>1. CustodyOf(a) = Place(Gone(a), attempt[a].status, refund[a].status, session[a])
    BY SMT DEF CustodyOf, Place, Obliged, Gone
  <1>2. CustodyOf(a)' = Place(Gone(a)', attempt'[a].status, refund'[a].status, session'[a])
    BY SMT DEF CustodyOf, Place, Obliged, Gone
  <1> QED BY <1>1, <1>2

Stays(a) == CustodyOf(a)' = CustodyOf(a)

LEMMA StaysWhen ==
    ASSUME NEW a \in Attempts, SameReturn(a),
           refund'[a].status = refund[a].status,
           attempt'[a].status = "succeeded" <=> attempt[a].status = "succeeded",
           session'[a] = "paid" <=> session[a] = "paid"
    PROVE  Stays(a)
  BY CustodyIsPlace, Zenon DEF Stays, Place, Gone, SameReturn

LEMMA SupersededStays ==
    ASSUME NEW a \in Attempts, Superseded(a), Untouched(a) PROVE Stays(a)
  BY StaysWhen, Zenon DEF Superseded, Untouched

LEMMA ReportsKeep ==
    ASSUME IInv, UNCHANGED <<event, session>>, NEW a \in Attempts PROVE Informed(a)'
  BY Zenon DEF IInv, Informed

(* A session that was paid stays paid.                                     *)
LEMMA PaidReportsKeep ==
    ASSUME IInv, event' = event, NEW a \in Attempts, session[a] = "paid" => session'[a] = "paid"
    PROVE  Informed(a)'
  BY Zenon DEF IInv, Informed
-----------------------------------------------------------------------------
(* Each step keeps the invariant.  First the steps of start_checkout.      *)
LEMMA StartCheckoutKeeps ==
    ASSUME IInv, NEW a \in Attempts, NEW o \in OrderIds, StartCheckout(a, o),
           UNCHANGED refundVars
    PROVE  IInv' /\ \A b \in Attempts : Stays(b)
  <1> DEFINE row == [status |-> "created", order |-> o, amount |-> Outstanding(o),
                     stored |-> FALSE, unapplied |-> FALSE]
             closed == WithoutOpen(o)
  <1>1. attempt' = [closed EXCEPT ![a] = row] /\ attempt[a].status = "none"
    BY DEF StartCheckout, IsNext
  <1>2. PICK amounts : attempt \in [Attempts -> AttemptRow(amounts)]
    BY Zenon DEF IInv, Tables, IsAttempts
  <1>3. row \in AttemptRow(amounts \union {Outstanding(o)})
    BY SMT DEF AttemptRow, Open
  <1>4. closed \in [Attempts -> AttemptRow(amounts)]
    BY <1>2, SMT DEF WithoutOpen, AttemptRow, Terminal
  <1>5. AttemptRow(amounts) \subseteq AttemptRow(amounts \union {Outstanding(o)})
    BY SMT DEF AttemptRow
  <1>6. attempt' \in [Attempts -> AttemptRow(amounts \union {Outstanding(o)})]
    <2> HIDE DEF row, closed
    <2> QED BY <1>1, <1>3, <1>4, <1>5, SMT
  <1>7. IsAttempts(attempt')
    BY <1>6, AttemptsAre, Zenon
  <1>8. attempt'[a].status = "created" /\ attempt'[a].stored = FALSE
    <2>1. attempt'[a] = row
      <3> HIDE DEF row, closed
      <3> QED BY <1>1, <1>4, Zenon
    <2> QED BY <2>1
  <1>9. ASSUME NEW b \in Attempts \ {a}
        PROVE  /\ attempt'[b].stored = attempt[b].stored
               /\ \/ attempt'[b].status = attempt[b].status
                  \/ /\ attempt[b].status \notin {"none", "succeeded"}
                     /\ attempt'[b].status \notin {"none", "succeeded"}
    <2>1. attempt'[b] = closed[b]
      <3> HIDE DEF row, closed
      <3> QED BY <1>1, <1>4, Zenon
    <2>2. CASE b \in OpenOn(o)
      <3>1. closed[b] = [attempt[b] EXCEPT !.status = "cancelled"]
        BY <2>2, Zenon DEF WithoutOpen
      <3>2. closed[b].status = "cancelled" /\ closed[b].stored = attempt[b].stored
        <4> HIDE DEF closed
        <4> QED BY <1>2, <3>1, SMT DEF AttemptRow
      <3> QED BY <2>1, <2>2, <3>2, Zenon DEF OpenOn, Open
    <2>3. CASE b \notin OpenOn(o)
      BY <2>1, <2>3, Zenon DEF WithoutOpen
    <2> QED BY <2>2, <2>3
  <1>10. /\ UNCHANGED <<refund, session, event, asked, reversed, wired, raced>>
         /\ call' = [call EXCEPT ![a] = "asking"]
    BY Zenon DEF StartCheckout, refundVars
  <1>11. Tables'
    <2>1. call' \in [Attempts -> {"idle", "asking", "answered"}]
      BY <1>10, SMT DEF IInv, Tables
    <2> QED BY <1>7, <1>10, <2>1, Zenon DEF IInv, Tables, Returns
  <1>12. ASSUME NEW b \in Attempts \ {a} PROVE Sound(b)' /\ Stays(b)
    <2>1. Superseded(b)
      BY <1>9, Zenon DEF Superseded
    <2>2. Untouched(b)
      <3>1. call'[b] = call[b]
        BY <1>10, Zenon DEF IInv, Tables
      <3> QED BY <1>10, <3>1 DEF Untouched, SameReturn
    <2> QED BY <1>11, <2>1, <2>2, SupersededIsSound, SupersededStays DEF IInv, Sound
  <1>13. Sound(a)' /\ Stays(a)
    <2>1. call'[a] = "asking"
      BY <1>10, Zenon DEF IInv, Tables
    <2>2. Reached(a) /\ Repaid(a)
      BY DEF IInv
    <2>3. Reached(a)'
      BY <1>1, <1>8, <1>10, <2>1, <2>2, Zenon DEF Reached
    <2>4. Repaid(a)'
      BY <1>1, <1>10, <2>2, Zenon DEF Repaid, Obliged
    <2>5. Stays(a)
      BY <1>1, <1>8, <1>10, <1>11, StaysWhen, Zenon DEF IInv, SameReturn
    <2> QED BY <2>3, <2>4, <2>5 DEF Sound
  <1>14. \A b \in Attempts : Informed(b)'
    BY <1>10, ReportsKeep, Zenon
  <1> QED BY <1>11, <1>12, <1>13, <1>14, Zenon DEF IInv, Sound

LEMMA OneEntry ==
    ASSUME NEW S, NEW f \in [Attempts -> S], NEW a \in Attempts, NEW v \in S,
           NEW g, g = [f EXCEPT ![a] = v]
    PROVE  g \in [Attempts -> S] /\ g[a] = v /\ \A b \in Attempts \ {a} : g[b] = f[b]
  BY Zenon

LEMMA OneAttemptKeeps ==
    ASSUME IInv, Tables', NEW a \in Attempts, event' = event,
           \A b \in Attempts \ {a} : Superseded(b) /\ Untouched(b),
           Sound(a)', session[a] = "paid" => session'[a] = "paid"
    PROVE  IInv' /\ \A b \in Attempts \ {a} : Stays(b)
  <1>1. ASSUME NEW b \in Attempts \ {a} PROVE Sound(b)' /\ Stays(b) /\ Informed(b)'
    <2>1. Superseded(b) /\ Untouched(b)
      OBVIOUS
    <2>2. Informed(b)'
      BY <2>1, PaidReportsKeep DEF Untouched
    <2> QED BY <2>1, <2>2, SupersededIsSound, SupersededStays DEF IInv, Sound
  <1>2. Informed(a)'
    BY PaidReportsKeep
  <1> QED BY <1>1, <1>2, Zenon DEF IInv, Sound

(* The checkout call comes and goes: no session is paid while it is on.    *)
LEMMA CallKeeps ==
    ASSUME IInv, NEW a \in Attempts, UNCHANGED refundVars,
           ProviderCreates(a) \/ CheckoutFails(a) \/ StoreSession(a) \/ CheckoutDies(a)
    PROVE  IInv' /\ \A b \in Attempts : Stays(b)
  <1>1. Reached(a) /\ Repaid(a) /\ Tables
    BY DEF IInv
  <1>2. call[a] # "idle"
    BY Zenon DEF ProviderCreates, CheckoutFails, StoreSession, CheckoutDies
  <1>3. /\ attempt[a].status \notin {"none", "succeeded"} /\ ~attempt[a].stored
        /\ session[a] \notin {"processing", "paid"}
    BY <1>1, <1>2, Zenon DEF Reached
  <1>4. UNCHANGED <<event, refund, asked, reversed, wired, raced>>
    BY Zenon DEF ProviderCreates, CheckoutFails, StoreSession, CheckoutDies, orderVars, refundVars
  <1>5. /\ call' \in [Attempts -> {"idle", "asking", "answered"}]
        /\ \A b \in Attempts \ {a} : call'[b] = call[b]
        /\ call'[a] = IF ProviderCreates(a) THEN "answered" ELSE "idle"
    <2>1. CASE ProviderCreates(a)
      <3>1. call' = [call EXCEPT ![a] = "answered"]
        BY <2>1 DEF ProviderCreates
      <3> QED BY <1>1, <2>1, <3>1, OneEntry, Zenon DEF Tables
    <2>2. CASE ~ProviderCreates(a)
      <3>1. call' = [call EXCEPT ![a] = "idle"]
        BY <2>2, Zenon DEF CheckoutFails, StoreSession, CheckoutDies
      <3> QED BY <1>1, <2>2, <3>1, OneEntry, Zenon DEF Tables
    <2> QED BY <2>1, <2>2
  <1>6. /\ session' \in [Attempts -> {"none", "open", "processing", "paid", "closed"}]
        /\ \A b \in Attempts \ {a} : session'[b] = session[b]
        /\ session'[a] \notin {"processing", "paid"}
        /\ ~ProviderCreates(a) => session'[a] = session[a]
    <2>1. CASE ProviderCreates(a)
      <3>1. session' = [session EXCEPT ![a] = "open"]
        BY <2>1 DEF ProviderCreates
      <3> QED BY <1>1, <2>1, <3>1, OneEntry, Zenon DEF Tables
    <2>2. CASE session' = session
      BY <1>1, <1>3, <2>2 DEF Tables
    <2> QED BY <2>1, <2>2, Zenon DEF CheckoutFails, StoreSession, CheckoutDies
  <1>7. /\ IsAttempts(attempt')
        /\ \A b \in Attempts \ {a} : SameAttempt(b)
        /\ attempt'[a].status \notin {"none", "succeeded"}
        /\ attempt'[a].stored => ~ProviderCreates(a)
    <2>1. CASE attempt' = attempt
      BY <1>1, <1>3, <2>1, Zenon DEF Tables, SameAttempt
    <2>2. CASE SetStatus(a, "failed")
      <3>1. "failed" \in Terminal \union Open
        BY DEF Terminal
      <3>2. /\ IsAttempts(attempt')
            /\ \A b \in Attempts \ {a} : SameAttempt(b)
            /\ attempt'[a].status = "failed" /\ attempt'[a].stored = attempt[a].stored
        BY <1>1, <2>2, <3>1, SetStatusWrites, Zenon DEF Tables
      <3> QED BY <1>3, <3>2
    <2>3. CASE /\ StoreSession(a)
               /\ attempt' = [attempt EXCEPT ![a].status = "checkout_pending", ![a].stored = TRUE]
      <3>1. PICK amounts : attempt \in [Attempts -> AttemptRow(amounts)]
        BY <1>1, Zenon DEF Tables, IsAttempts
      <3>2. PICK once : once = [attempt EXCEPT ![a].status = "checkout_pending"]
        OBVIOUS
      <3>3. once \in [Attempts -> AttemptRow(amounts)] /\ once[a].status = "checkout_pending"
        BY <3>1, <3>2, SMT DEF AttemptRow, Open
      <3>4. PICK yes \in BOOLEAN : attempt' = [once EXCEPT ![a].stored = yes]
        BY <2>3, <3>2, Zenon
      <3>5. attempt' \in [Attempts -> AttemptRow(amounts)] /\ attempt'[a].status = "checkout_pending"
        BY <3>3, <3>4, SMT DEF AttemptRow
      <3>6. \A b \in Attempts \ {a} : attempt'[b] = attempt[b]
        BY <2>3, <3>1, SMT DEF AttemptRow
      <3>7. ~ProviderCreates(a)
        BY <2>3, Zenon DEF StoreSession, ProviderCreates
      <3> QED BY <3>5, <3>6, <3>7, AttemptsAre, Zenon DEF SameAttempt
    <2> QED
      BY <2>1, <2>2, <2>3, Zenon DEF ProviderCreates, CheckoutFails, StoreSession, CheckoutDies, orderVars
  <1>8. Tables'
    BY <1>1, <1>4, <1>5, <1>6, <1>7, Zenon DEF Tables, Returns
  <1>9. \A b \in Attempts \ {a} : Superseded(b) /\ Untouched(b)
    BY <1>4, <1>5, <1>6, <1>7, Zenon DEF Superseded, Untouched, SameAttempt, SameReturn
  <1>10. Sound(a)'
    <2>1. Reached(a)'
      BY <1>5, <1>6, <1>7, Zenon DEF Reached
    <2>2. Repaid(a)'
      BY <1>1, <1>3, <1>4, Zenon DEF Repaid, Obliged
    <2> QED BY <2>1, <2>2 DEF Sound
  <1>11. Stays(a)
    BY <1>1, <1>3, <1>4, <1>6, <1>7, <1>8, StaysWhen, Zenon DEF SameReturn
  <1> QED BY <1>3, <1>4, <1>8, <1>9, <1>10, <1>11, OneAttemptKeeps, Zenon

LEMMA RecoverSessionKeeps ==
    ASSUME IInv, NEW a \in Attempts, RecoverSession(a), UNCHANGED refundVars
    PROVE  IInv' /\ \A b \in Attempts : Stays(b)
  <1>1. Reached(a) /\ Repaid(a) /\ Tables
    BY DEF IInv
  <1>2. /\ attempt[a].status \notin {"none", "succeeded"} /\ ~attempt[a].stored
        /\ call[a] = "idle" /\ session[a] \notin {"processing", "paid"}
    BY <1>1, Zenon DEF RecoverSession, Reached
  <1>3. UNCHANGED <<event, refund, call, asked, reversed, wired, raced>>
    BY Zenon DEF RecoverSession, refundVars
  <1>4. /\ session' \in [Attempts -> {"none", "open", "processing", "paid", "closed"}]
        /\ \A b \in Attempts \ {a} : session'[b] = session[b]
        /\ session'[a] \notin {"processing", "paid"}
    <2> DEFINE opened == IF session[a] = "none" THEN "open" ELSE session[a]
    <2>1. session' = [session EXCEPT ![a] = opened]
      BY Zenon DEF RecoverSession
    <2>2. opened \in {"none", "open", "processing", "paid", "closed"}
      BY <1>1 DEF Tables
    <2>3. opened \notin {"processing", "paid"}
      BY <1>2
    <2> HIDE DEF opened
    <2> QED BY <1>1, <2>1, <2>2, <2>3, OneEntry, Zenon DEF Tables
  <1>5. /\ IsAttempts(attempt')
        /\ \A b \in Attempts \ {a} : SameAttempt(b)
        /\ attempt'[a].status \notin {"none", "succeeded"} /\ attempt'[a].stored
    <2> DEFINE next == IF attempt[a].status = "created" THEN "checkout_pending" ELSE attempt[a].status
    <2>1. PICK amounts : attempt \in [Attempts -> AttemptRow(amounts)]
      BY <1>1, Zenon DEF Tables, IsAttempts
    <2>2. PICK yes \in BOOLEAN : yes /\
            attempt' = [attempt EXCEPT ![a].stored = yes,
                         ![a].status = IF @ = "created" THEN "checkout_pending" ELSE @]
      BY Zenon DEF RecoverSession
    <2>3. next \in {"none"} \union Open \union Terminal /\ next \notin {"none", "succeeded"}
      <3>1. attempt[a].status \in {"none"} \union Open \union Terminal
        BY <2>1, SMT DEF AttemptRow
      <3> QED BY <1>2, <3>1 DEF Open
    <2>4. PICK once : once = [attempt EXCEPT ![a].stored = yes]
      OBVIOUS
    <2>5. once \in [Attempts -> AttemptRow(amounts)] /\ once[a].stored = yes
          /\ once[a].status = attempt[a].status
      BY <2>1, <2>4, SMT DEF AttemptRow
    <2>6. attempt' = [once EXCEPT ![a].status = next]
      <3>1. attempt' = [once EXCEPT ![a].status = IF @ = "created" THEN "checkout_pending" ELSE @]
        BY <2>2, <2>4, Zenon
      <3> QED BY <2>5, <3>1, Zenon
    <2> HIDE DEF next
    <2>7. attempt' \in [Attempts -> AttemptRow(amounts)] /\ attempt'[a].status = next
          /\ attempt'[a].stored = yes
      BY <2>3, <2>5, <2>6, SMT DEF AttemptRow
    <2>8. \A b \in Attempts \ {a} : attempt'[b] = attempt[b]
      BY <2>1, <2>4, <2>5, <2>6, SMT DEF AttemptRow
    <2> QED BY <2>2, <2>3, <2>7, <2>8, AttemptsAre, Zenon DEF SameAttempt
  <1>6. Tables'
    BY <1>1, <1>3, <1>4, <1>5, Zenon DEF Tables, Returns
  <1>7. \A b \in Attempts \ {a} : Superseded(b) /\ Untouched(b)
    BY <1>3, <1>4, <1>5, Zenon DEF Superseded, Untouched, SameAttempt, SameReturn
  <1>8. Sound(a)'
    <2>1. Reached(a)'
      BY <1>2, <1>3, <1>4, <1>5, Zenon DEF Reached
    <2>2. Repaid(a)'
      BY <1>1, <1>2, <1>3, Zenon DEF Repaid, Obliged
    <2> QED BY <2>1, <2>2 DEF Sound
  <1>9. Stays(a)
    BY <1>1, <1>2, <1>3, <1>4, <1>5, <1>6, StaysWhen, Zenon DEF SameReturn
  <1> QED BY <1>2, <1>3, <1>6, <1>7, <1>8, <1>9, OneAttemptKeeps, Zenon

(* What the money of one attempt does when the others' stays where it is.  *)
Moves(a, from, to) ==
    /\ CustodyOf(a) = from /\ CustodyOf(a)' = to
    /\ \A b \in Attempts \ {a} : Stays(b)
NothingMoves == \A b \in Attempts : Stays(b)

(* The payer reaches only a stored session, and pays it once.              *)
LEMMA SessionKeeps ==
    ASSUME IInv, NEW a \in Attempts, UNCHANGED refundVars,
           \/ PayerPays(a) \/ PayerDefers(a) \/ DebitSettles(a)
           \/ DebitFails(a) \/ SessionEnds(a)
    PROVE  IInv' /\ (NothingMoves \/ Moves(a, "payer", "provider"))
  <1>1. Reached(a) /\ Repaid(a) /\ Tables
    BY DEF IInv
  <1>2. PICK to \in {"processing", "paid", "closed"} :
            /\ session' = [session EXCEPT ![a] = to]
            /\ to \in {"processing", "paid"} => attempt[a].stored
    BY <1>1, Zenon DEF PayerPays, PayerDefers, DebitSettles, DebitFails, SessionEnds,
                       SessionMoves, Reached
  <1>3. UNCHANGED <<attempt, event, refund, call, asked, reversed, wired, raced>>
    BY Zenon DEF PayerPays, PayerDefers, DebitSettles, DebitFails, SessionEnds,
                 SessionMoves, orderVars, refundVars
  <1>4. session[a] \in {"open", "processing"}
    BY Zenon DEF PayerPays, PayerDefers, DebitSettles, DebitFails, SessionEnds, SessionMoves
  <1>5. /\ session' \in [Attempts -> {"none", "open", "processing", "paid", "closed"}]
        /\ session'[a] = to
        /\ \A b \in Attempts \ {a} : session'[b] = session[b]
    <2>1. to \in {"none", "open", "processing", "paid", "closed"}
      OBVIOUS
    <2> QED BY <1>1, <1>2, <2>1, OneEntry, Zenon DEF Tables
  <1>6. Tables'
    BY <1>1, <1>3, <1>5, Zenon DEF Tables, Returns
  <1>7. \A b \in Attempts \ {a} : Superseded(b) /\ Untouched(b)
    BY <1>3, <1>5, Zenon DEF Superseded, Untouched, SameReturn
  <1>8. attempt[a].status \notin {"none", "succeeded"} /\ call[a] # "asking"
    BY <1>1, <1>4, Zenon DEF Reached
  <1>9. Sound(a)'
    <2>1. Reached(a)'
      BY <1>1, <1>2, <1>3, <1>5, <1>8, Zenon DEF Reached
    <2>2. Repaid(a)'
      BY <1>1, <1>3, Zenon DEF Repaid, Obliged, Gone
    <2> QED BY <2>1, <2>2 DEF Sound
  <1>10. CASE to = "paid"
    <2>1. ~Gone(a)
      BY <1>8, NotYetGone
    <2>2. CustodyOf(a) = "payer" /\ CustodyOf(a)' = "provider"
      BY <1>1, <1>3, <1>4, <1>5, <1>6, <1>8, <1>10, <2>1, CustodyIsPlace, Zenon DEF Place, Gone
    <2> QED BY <1>3, <1>4, <1>6, <1>7, <1>9, <2>2, OneAttemptKeeps, Zenon DEF Moves
  <1>11. CASE to # "paid"
    <2>1. Stays(a)
      BY <1>1, <1>3, <1>4, <1>5, <1>6, <1>11, StaysWhen, Zenon DEF SameReturn
    <2> QED BY <1>3, <1>4, <1>6, <1>7, <1>9, <2>1, OneAttemptKeeps, Zenon DEF NothingMoves
  <1> QED BY <1>10, <1>11

LEMMA WiderRows ==
    ASSUME NEW R, NEW R2, R \subseteq R2, NEW f \in [Attempts -> [Outcomes -> R]]
    PROVE  f \in [Attempts -> [Outcomes -> R2]]
  <1>1. [Outcomes -> R] \subseteq [Outcomes -> R2]
    BY SMT
  <1> DEFINE narrow == [Outcomes -> R]
             wide   == [Outcomes -> R2]
  <1>2. narrow \subseteq wide /\ f \in [Attempts -> narrow]
    BY <1>1
  <1> HIDE DEF narrow, wide
  <1>3. f \in [Attempts -> wide]
    BY <1>2, SMT
  <1> QED BY <1>3 DEF wide

(* A success is reported only of a session the payer reached by its stored *)
(* address, so it is bound to its own attempt.                             *)
LEMMA ReceiveEventKeeps ==
    ASSUME IInv, NEW a \in Attempts, ReceiveEvent(a), UNCHANGED refundVars
    PROVE  IInv' /\ NothingMoves
  <1>1. Reached(a) /\ Tables
    BY DEF IInv
  <1>2. UNCHANGED <<attempt, refund, session, call, asked, reversed, wired, raced>>
    BY Zenon DEF ReceiveEvent, orderVars, refundVars
  <1>3. PICK k, row : /\ event' = [event EXCEPT ![a][k] = row]
                      /\ k = Answer(a) /\ row = [state |-> "received", bound |-> MatchAttempt(a)]
    BY Zenon DEF ReceiveEvent
  <1>4. session[a] \in {"none", "open", "processing", "paid", "closed"}
    BY <1>1, Zenon DEF Tables
  <1>5. k \in Outcomes
    <2>1. k # "none"
      BY <1>3, Zenon DEF ReceiveEvent
    <2> QED BY <1>3, <1>4, <2>1, SMT DEF Answer, Outcomes
  <1>6. k = "succeeded" => session[a] = "paid" /\ row.bound = a /\ row.state = "received"
    <2>1. k = "succeeded" => session[a] = "paid"
      BY <1>3, <1>4, SMT DEF Answer
    <2>2. session[a] = "paid" => MatchAttempt(a) = a
      BY <1>1, Zenon DEF Reached, MatchAttempt
    <2> QED BY <1>3, <2>1, <2>2
  <1>7. PICK bounds : event \in [Attempts -> [Outcomes -> EventRow(bounds)]]
    <2> DEFINE seen == {event[b][m].bound : b \in Attempts, m \in Outcomes}
    <2>1. event \in [Attempts -> [Outcomes -> EventRow(seen)]]
      BY <1>1 DEF Tables, IsEvents
    <2> HIDE DEF seen
    <2> QED BY <2>1
  <1>8. PICK wider : row \in EventRow(wider) /\ event \in [Attempts -> [Outcomes -> EventRow(wider)]]
    <2>1. EventRow(bounds) \subseteq EventRow(bounds \union {MatchAttempt(a)})
      BY SMT DEF EventRow
    <2>2. row \in EventRow(bounds \union {MatchAttempt(a)})
      BY <1>3, SMT DEF EventRow
    <2>3. event \in [Attempts -> [Outcomes -> EventRow(bounds \union {MatchAttempt(a)})]]
      BY <1>7, <2>1, WiderRows, Zenon
    <2> QED BY <2>2, <2>3
  <1>9. event' \in [Attempts -> [Outcomes -> EventRow(wider)]]
        /\ \A b \in Attempts : \A m \in Outcomes :
              event'[b][m] = IF b = a /\ m = k THEN row ELSE event[b][m]
    BY <1>3, <1>5, <1>8, SMT
  <1>10. Tables'
    BY <1>1, <1>2, <1>9, EventsAre, Zenon DEF Tables, Returns
  <1>11. ASSUME NEW b \in Attempts PROVE Reached(b)' /\ Repaid(b)' /\ Informed(b)' /\ Stays(b)
    <2>1. Superseded(b) /\ Untouched(b)
      BY <1>2, Zenon DEF Superseded, Untouched, SameReturn
    <2>2. "succeeded" \in Outcomes
      BY DEF Outcomes
    <2>3. Informed(b)'
      BY <1>2, <1>6, <1>9, <2>2, Zenon DEF Informed, IInv
    <2> QED BY <1>1, <1>10, <2>1, <2>3, SupersededIsSound, SupersededStays DEF IInv, Sound
  <1> QED BY <1>10, <1>11, Zenon DEF IInv, NothingMoves

(* Obligations fall away: what served them is owed back.                   *)
FallsAway(D) ==
    /\ D # {} /\ D \subseteq Attempts
    /\ \A a \in D : CustodyOf(a) = "applied" /\ CustodyOf(a)' = "owed"
    /\ \A a \in Attempts \ D : Stays(a)

LEMMA QuietKeeps ==
    ASSUME IInv, QuietAttempts, MoreIsOwed, Elsewhere, IsEvents(event'),
           \A a \in Attempts : Informed(a)'
    PROVE  IInv' /\ (NothingMoves \/ \E D \in SUBSET Attempts : FallsAway(D))
  <1>1. Tables'
    BY Zenon DEF IInv, Tables, QuietAttempts, MoreIsOwed, Elsewhere, Returns
  <1>2. IInv'
    BY <1>1, QuietKeepsSound, Zenon DEF IInv, Sound
  <1> DEFINE D == {a \in Attempts : refund'[a] # refund[a]}
  <1>3. ASSUME NEW a \in Attempts
        PROVE  attempt'[a].status = "succeeded" <=> attempt[a].status = "succeeded"
    BY Zenon DEF QuietAttempts, Open, Closing
  <1>4. ASSUME NEW a \in Attempts, a \notin D PROVE Stays(a)
    <2>1. refund'[a] = refund[a] /\ session'[a] = session[a] /\ SameReturn(a)
      BY <1>4, Zenon DEF Elsewhere, SameReturn
    <2> QED BY <1>1, <1>3, <2>1, StaysWhen, Zenon DEF IInv
  <1>5. ASSUME NEW a \in D PROVE CustodyOf(a) = "applied" /\ CustodyOf(a)' = "owed"
    <2>1. a \in Attempts /\ attempt[a].status = "succeeded" /\ ~Obliged(a) /\ refund'[a] = NewRefund
      BY Zenon DEF MoreIsOwed
    <2>2. ~Gone(a) /\ ~Gone(a)'
      BY <2>1, NotYetGone, Zenon DEF Elsewhere, Gone
    <2>3. refund[a].status = "none" /\ refund'[a].status = "pending"
      BY <2>1, NewRefundIsPending, Zenon DEF Obliged
    <2>4. attempt'[a].status = "succeeded"
      BY <1>3, <2>1
    <2> QED BY <1>1, <2>1, <2>2, <2>3, <2>4, CustodyIsPlace, Zenon DEF Place
  <1>6. NothingMoves \/ FallsAway(D)
    <2>1. D \subseteq Attempts
      OBVIOUS
    <2> HIDE DEF D
    <2>2. CASE D = {}
      BY <1>4, <2>2, Zenon DEF NothingMoves
    <2>3. CASE D # {}
      BY <1>4, <1>5, <2>1, <2>3, Zenon DEF FallsAway
    <2> QED BY <2>2, <2>3
  <1> HIDE DEF D
  <1>7. FallsAway(D) => D \in SUBSET Attempts
    BY Zenon DEF FallsAway
  <1> QED BY <1>2, <1>6, <1>7, Zenon

LEMMA SuccessKeeps ==
    ASSUME IInv, NEW c \in Attempts, session[c] = "paid", Succeeds(c), Elsewhere,
           IsEvents(event'), \A a \in Attempts : Informed(a)'
    PROVE  IInv' /\ \E to \in {"applied", "owed"} : Moves(c, "provider", to)
  <1>1. Tables'
    <2>1. refund' \in [Attempts -> Refund]
      <3>1. CASE refund' = refund
        BY <3>1 DEF IInv, Tables
      <3>2. CASE refund' = [refund EXCEPT ![c] = NewRefund]
        BY <3>2, OneEntry, NewRefundIsPending, Zenon DEF IInv, Tables
      <3> QED BY <3>1, <3>2, Zenon DEF Succeeds
    <2> QED BY <2>1, Zenon DEF IInv, Tables, Succeeds, Elsewhere, Returns
  <1>2. IInv'
    BY <1>1, SuccessKeepsSound, Zenon DEF IInv, Sound
  <1>3. ASSUME NEW a \in Attempts \ {c} PROVE Stays(a)
    <2>1. SameAttempt(a) /\ refund'[a] = refund[a]
      BY Zenon DEF Succeeds, IInv, Tables
    <2>2. session'[a] = session[a] /\ SameReturn(a)
      BY Zenon DEF Elsewhere, SameReturn
    <2> QED BY <1>1, <2>1, <2>2, StaysWhen, Zenon DEF IInv, SameAttempt
  <1>4. attempt[c].status # "succeeded" /\ attempt'[c].status = "succeeded"
    BY DEF Succeeds
  <1>5. ~Gone(c) /\ ~Gone(c)'
    BY <1>4, NotYetGone, Zenon DEF Elsewhere, Gone
  <1>6. CustodyOf(c) = "provider" /\ (CustodyOf(c)' = "applied" \/ CustodyOf(c)' = "owed")
    BY <1>1, <1>4, <1>5, CustodyIsPlace, Zenon DEF Place, IInv
  <1> QED BY <1>2, <1>3, <1>6, Zenon DEF Moves

(* What any step does to the money.                                        *)
MovesOn ==
    \/ NothingMoves
    \/ \E a \in Attempts :
         \/ Moves(a, "payer", "provider")
         \/ Moves(a, "provider", "applied") \/ Moves(a, "provider", "owed")
         \/ Moves(a, "owed", "returned")
    \/ \E D \in SUBSET Attempts : FallsAway(D)

LEMMA ReconcileKeeps ==
    ASSUME IInv, NEW a, NEW k, Reconcile(a, k), Elsewhere, IsEvents(event'),
           k = "succeeded" => a \in Attempts /\ session[a] = "paid",
           \A b \in Attempts : Informed(b)'
    PROVE  IInv' /\ MovesOn
  <1>1. (QuietAttempts /\ MoreIsOwed) \/ (k = "succeeded" /\ Succeeds(a))
    BY ReconcileRows, Zenon DEF IInv
  <1>2. CASE QuietAttempts /\ MoreIsOwed
    BY <1>2, QuietKeeps, Zenon DEF MovesOn
  <1>3. CASE k = "succeeded" /\ Succeeds(a)
    <2>1. IInv' /\ \E to \in {"applied", "owed"} : Moves(a, "provider", to)
      BY <1>3, SuccessKeeps, Zenon
    <2>2. Moves(a, "provider", "applied") \/ Moves(a, "provider", "owed")
      BY <2>1
    <2> QED BY <1>3, <2>1, <2>2, Zenon DEF MovesOn
  <1> QED BY <1>1, <1>2, <1>3

LEMMA PollProviderKeeps ==
    ASSUME IInv, NEW a \in Attempts, PollProvider(a), UNCHANGED refundVars
    PROVE  IInv' /\ MovesOn
  <1>1. Elsewhere /\ UNCHANGED <<event, session>>
    BY Zenon DEF PollProvider, providerVars, refundVars, Elsewhere
  <1>2. PICK k : k = Answer(a)
    OBVIOUS
  <1>3. k = "succeeded" => session[a] = "paid"
    <2>1. session[a] \in {"none", "open", "processing", "paid", "closed"}
      BY Zenon DEF IInv, Tables
    <2> QED BY <1>2, <2>1, SMT DEF Answer
  <1>4. Reconcile(a, k)
    BY <1>2, Zenon DEF PollProvider
  <1>5. IsEvents(event')
    BY <1>1, Zenon DEF IInv, Tables
  <1> QED BY <1>1, <1>3, <1>4, <1>5, ReconcileKeeps, ReportsKeep, Zenon

LEMMA ProcessEventKeeps ==
    ASSUME IInv, NEW a \in Attempts, NEW k \in Outcomes, ProcessEvent(a, k), UNCHANGED refundVars
    PROVE  IInv' /\ MovesOn
  <1>1. Elsewhere /\ session' = session
    BY Zenon DEF ProcessEvent, refundVars, Elsewhere
  <1>2. PICK c : c = event[a][k].bound
    OBVIOUS
  <1>3. Reconcile(c, k) /\ event[a][k].state = "received"
    BY <1>2, Zenon DEF ProcessEvent
  <1>4. k = "succeeded" => c = a /\ session[a] = "paid"
    BY <1>2, <1>3, Zenon DEF IInv, Informed
  <1>5. PICK s \in {"received", "applied"} : event' = [event EXCEPT ![a][k].state = s]
    <2>1. PICK s \in {"applied"} \union (IF MayCrash THEN {"received"} ELSE {}) :
            event' = [event EXCEPT ![a][k].state = s]
      BY Zenon DEF ProcessEvent
    <2>2. s \in {"received", "applied"}
      BY SMT
    <2> QED BY <2>1, <2>2
  <1>6. PICK bounds : event \in [Attempts -> [Outcomes -> EventRow(bounds)]]
    <2> DEFINE seen == {event[b][m].bound : b \in Attempts, m \in Outcomes}
    <2>1. event \in [Attempts -> [Outcomes -> EventRow(seen)]]
      BY DEF IInv, Tables, IsEvents
    <2> HIDE DEF seen
    <2> QED BY <2>1
  <1>7. /\ event' \in [Attempts -> [Outcomes -> EventRow(bounds)]]
        /\ \A b \in Attempts : \A m \in Outcomes :
             /\ event'[b][m].bound = event[b][m].bound
             /\ event'[b][m].state # "none" => event[b][m].state # "none"
    <2> DEFINE row == [event[a][k] EXCEPT !.state = s]
    <2>1. event[a][k] \in EventRow(bounds)
      BY <1>6, SMT
    <2>2. row \in EventRow(bounds) /\ row.bound = event[a][k].bound
      BY <2>1, SMT DEF EventRow
    <2>3. event' = [event EXCEPT ![a][k] = row]
      BY <1>5, Zenon
    <2> HIDE DEF row
    <2>4. event' \in [Attempts -> [Outcomes -> EventRow(bounds)]]
      BY <1>6, <2>2, <2>3, SMT
    <2>5. \A b \in Attempts : \A m \in Outcomes :
            event'[b][m] = IF b = a /\ m = k THEN row ELSE event[b][m]
      BY <1>6, <2>3, SMT
    <2> QED BY <1>3, <2>2, <2>4, <2>5, Zenon
  <1>8. IsEvents(event')
    BY <1>7, EventsAre, Zenon
  <1>9. ASSUME NEW b \in Attempts PROVE Informed(b)'
    <2>1. "succeeded" \in Outcomes
      BY DEF Outcomes
    <2> QED BY <1>1, <1>7, <2>1, Zenon DEF IInv, Informed
  <1> QED BY <1>1, <1>3, <1>4, <1>8, <1>9, ReconcileKeeps, Zenon

LEMMA ExpireAttemptKeeps ==
    ASSUME IInv, NEW a \in Attempts, ExpireAttempt(a), UNCHANGED refundVars
    PROVE  IInv' /\ MovesOn
  <1>1. Elsewhere /\ UNCHANGED <<event, session>>
    BY Zenon DEF ExpireAttempt, providerVars, refundVars, Elsewhere
  <1>2. QuietAttempts /\ MoreIsOwed
    BY ClosingIsQuiet, NothingMoreIsOwed, Zenon DEF ExpireAttempt, CloseUnpaid, Closing, IInv, Tables
  <1>3. IsEvents(event')
    BY <1>1, Zenon DEF IInv, Tables
  <1> QED BY <1>1, <1>2, <1>3, QuietKeeps, ReportsKeep, Zenon DEF MovesOn

LEMMA DomainKeeps ==
    ASSUME IInv, DomainNext, UNCHANGED <<providerVars, refundVars>>
    PROVE  IInv' /\ MovesOn
  <1>1. Elsewhere /\ UNCHANGED <<event, session>>
    BY Zenon DEF providerVars, refundVars, Elsewhere
  <1>2. QuietAttempts /\ MoreIsOwed
    BY DomainIsQuiet, Zenon DEF IInv
  <1>3. IsEvents(event')
    BY <1>1, Zenon DEF IInv, Tables
  <1> QED BY <1>1, <1>2, <1>3, QuietKeeps, ReportsKeep, Zenon DEF MovesOn
-----------------------------------------------------------------------------
(* The steps of one refund.  The row and the calls about it change, and    *)
(* nothing else does but the money the provider or an operator sends back. *)
LEMMA RefundMoves ==
    ASSUME IInv, NEW a \in Attempts, UNCHANGED <<attempt, session, call, event>>,
           refund' \in [Attempts -> Refund], Returns', asked' \in [Attempts -> SUBSET Phases],
           \A b \in Attempts \ {a} :
             refund'[b] = refund[b] /\ asked'[b] = asked[b] /\ SameReturn(b),
           Repaid(a)', Obliged(a), Obliged(a)', Gone(a) => Gone(a)'
    PROVE  IInv' /\ MovesOn
  <1>1. Tables'
    BY Zenon DEF IInv, Tables
  <1>2. \A b \in Attempts \ {a} : Superseded(b) /\ Untouched(b)
    BY Zenon DEF Superseded, Untouched
  <1>3. Sound(a)'
    <2>1. Reached(a)'
      BY Zenon DEF IInv, Reached
    <2> QED BY <2>1 DEF Sound
  <1>4. IInv' /\ \A b \in Attempts \ {a} : Stays(b)
    BY <1>1, <1>2, <1>3, OneAttemptKeeps, Zenon
  <1>5. attempt[a].status = "succeeded" /\ attempt'[a].status = "succeeded"
        /\ refund[a].status # "none" /\ refund'[a].status # "none"
    BY Zenon DEF IInv, Repaid, Obliged
  <1>6. /\ CustodyOf(a) = Place(Gone(a), attempt[a].status, refund[a].status, session[a])
        /\ CustodyOf(a)' = Place(Gone(a)', attempt'[a].status, refund'[a].status, session'[a])
    BY CustodyIsPlace, Zenon
  <1>7. CASE Gone(a)' <=> Gone(a)
    <2>1. CustodyOf(a)' = CustodyOf(a)
      BY <1>5, <1>6, <1>7, Zenon DEF Place
    <2> QED BY <1>4, <2>1, Zenon DEF Stays, NothingMoves, MovesOn
  <1>8. CASE ~Gone(a) /\ Gone(a)'
    <2>1. Moves(a, "owed", "returned")
      BY <1>4, <1>5, <1>6, <1>8, Zenon DEF Place, Moves
    <2> QED BY <1>4, <2>1, Zenon DEF MovesOn
  <1> QED BY <1>4, <1>7, <1>8

(* What is remembered of the money when a step leaves it alone.            *)
LEMMA NothingReturned ==
    ASSUME IInv, UNCHANGED <<reversed, wired, raced>>
    PROVE  /\ Returns' /\ \A b \in Attempts : SameReturn(b)
           /\ \A b \in Attempts : Gone(b) => Gone(b)'
  BY Zenon DEF IInv, Tables, Returns, SameReturn, Gone

(* The calls in flight for a, after one of them moved on.                  *)
LEMMA CallMovesWrites ==
    ASSUME asked \in [Attempts -> SUBSET Phases], NEW a \in Attempts, NEW from,
           NEW to \in SUBSET Phases, CallMoves(a, from, to)
    PROVE  /\ asked' \in [Attempts -> SUBSET Phases]
           /\ asked'[a] = (asked[a] \ {from}) \union to
           /\ \A b \in Attempts \ {a} : asked'[b] = asked[b]
  <1> DEFINE next == (asked[a] \ {from}) \union to
  <1>1. next \in SUBSET Phases
    <2>1. asked[a] \in SUBSET Phases
      BY Zenon
    <2> QED BY <2>1, SMT
  <1>2. asked' = [asked EXCEPT ![a] = next]
    BY Zenon DEF CallMoves
  <1> HIDE DEF next
  <1>3. asked' \in [Attempts -> SUBSET Phases] /\ asked'[a] = next
        /\ \A b \in Attempts \ {a} : asked'[b] = asked[b]
    BY <1>1, <1>2, OneEntry, Zenon
  <1> QED BY <1>3 DEF next

LEMMA DriveRefundKeeps ==
    ASSUME IInv, NEW a \in Attempts, DriveRefund(a) PROVE IInv' /\ MovesOn
  <1>1. /\ UNCHANGED <<attempt, session, call, event, reversed, wired, raced>>
        /\ refund[a].status \in {"pending", "processing"}
    BY Zenon DEF DriveRefund, providerVars, Unsettled
  <1>2. /\ asked' \in [Attempts -> SUBSET Phases]
        /\ asked'[a] = (asked[a] \ {""}) \union {"asking"}
        /\ \A b \in Attempts \ {a} : asked'[b] = asked[b]
    <2>1. {"asking"} \in SUBSET Phases
      BY SMT DEF Phases
    <2> QED BY <2>1, CallMovesWrites, Zenon DEF DriveRefund, IInv, Tables
  <1>3. /\ refund' \in [Attempts -> Refund] /\ refund'[a].status = "processing"
        /\ \A b \in Attempts \ {a} : refund'[b] = refund[b]
    <2>1. refund' = [refund EXCEPT ![a].status = "processing"] /\ refund \in [Attempts -> Refund]
      BY Zenon DEF DriveRefund, IInv, Tables
    <2> QED BY <2>1, SMT DEF Refund
  <1>4. Obliged(a) /\ Obliged(a)' /\ wired[a] = 0 /\ attempt[a].status = "succeeded"
    BY <1>1, <1>3, Zenon DEF IInv, Repaid, Obliged
  <1>5. Repaid(a)'
    <2>1. "answered" \in asked'[a] => "answered" \in asked[a]
      <3>1. asked'[a] = (asked[a] \ {""}) \union {"asking"}
        BY <1>2
      <3> QED BY <3>1, Zenon
    <2> QED BY <1>1, <1>3, <1>4, <2>1, Zenon DEF IInv, Repaid
  <1> QED BY <1>1, <1>2, <1>3, <1>4, <1>5, NothingReturned, RefundMoves

(* The provider acts on the first call with a key; a transfer made by hand *)
(* meanwhile found that call in flight.                                    *)
LEMMA ProviderRefundsKeeps ==
    ASSUME IInv, NEW a \in Attempts, ProviderRefunds(a) PROVE IInv' /\ MovesOn
  <1>1. /\ UNCHANGED <<attempt, refund, session, call, event, wired, raced>>
        /\ "asking" \in asked[a] /\ reversed' = reversed \union {a}
    BY Zenon DEF ProviderRefunds, providerVars, orderVars
  <1>2. /\ asked' \in [Attempts -> SUBSET Phases]
        /\ \A b \in Attempts \ {a} : asked'[b] = asked[b]
    <2>1. {"answered"} \in SUBSET Phases
      BY SMT DEF Phases
    <2> QED BY <2>1, CallMovesWrites, Zenon DEF ProviderRefunds, IInv, Tables
  <1>3. Returns' /\ \A b \in Attempts \ {a} : SameReturn(b)
    BY <1>1, Zenon DEF IInv, Tables, Returns, SameReturn
  <1>4. Obliged(a) /\ Obliged(a)' /\ attempt[a].status = "succeeded" /\ (wired[a] # 0 => a \in raced)
    <2>1. asked[a] # {}
      BY <1>1
    <2> QED BY <1>1, <2>1, Zenon DEF IInv, Repaid, Obliged
  <1>5. a \in reversed'
    BY <1>1
  <1>6. Repaid(a)' /\ Gone(a)'
    BY <1>1, <1>4, <1>5, Zenon DEF IInv, Repaid, Gone
  <1>7. refund' \in [Attempts -> Refund] /\ \A b \in Attempts \ {a} : refund'[b] = refund[b]
    BY <1>1, Zenon DEF IInv, Tables
  <1> QED BY <1>1, <1>2, <1>3, <1>4, <1>6, <1>7, RefundMoves

(* A refund that was not settled when it was tried has no calls it does    *)
(* not know of.                                                            *)
LEMMA FewerCalls ==
    ASSUME IInv, NEW a \in Attempts, asked'[a] \subseteq asked[a],
           UNCHANGED <<attempt, reversed, wired, raced>>, Obliged(a), Obliged(a)',
           refund'[a].status = "succeeded" => Gone(a),
           refund[a].status = "succeeded" => refund'[a].status = "succeeded"
    PROVE  Repaid(a)'
  <1>1. /\ asked'[a] # {} => asked[a] # {}
        /\ "answered" \in asked'[a] => "answered" \in asked[a]
    BY Zenon
  <1> QED BY <1>1, Zenon DEF IInv, Repaid, Gone, Obliged

LEMMA RecordRefundedKeeps ==
    ASSUME IInv, NEW a \in Attempts, RecordRefunded(a) PROVE IInv' /\ MovesOn
  <1>1. /\ UNCHANGED <<attempt, session, call, event, reversed, wired, raced>>
        /\ "answered" \in asked[a]
    BY Zenon DEF RecordRefunded, providerVars
  <1>2. Obliged(a) /\ Gone(a)
    <2>1. asked[a] # {}
      BY <1>1
    <2> QED BY <1>1, <2>1, Zenon DEF IInv, Repaid, Gone
  <1>3. /\ asked' \in [Attempts -> SUBSET Phases] /\ asked'[a] \subseteq asked[a]
        /\ \A b \in Attempts \ {a} : asked'[b] = asked[b]
    <2>1. {} \in SUBSET Phases
      BY SMT
    <2>2. /\ asked' \in [Attempts -> SUBSET Phases]
          /\ asked'[a] = (asked[a] \ {"answered"}) \union {}
          /\ \A b \in Attempts \ {a} : asked'[b] = asked[b]
      BY <2>1, CallMovesWrites, Zenon DEF RecordRefunded, IInv, Tables
    <2> QED BY <2>2, SMT
  <1>4. /\ refund' \in [Attempts -> Refund] /\ refund'[a].status = "succeeded"
        /\ \A b \in Attempts \ {a} : refund'[b] = refund[b]
    <2> DEFINE row == [status |-> "succeeded", manual |-> FALSE]
    <2>1. row \in Refund /\ row.status = "succeeded"
      BY DEF Refund
    <2>2. refund' = [refund EXCEPT ![a] = row]
      BY DEF RecordRefunded
    <2> HIDE DEF row
    <2> QED BY <2>1, <2>2, OneEntry, Zenon DEF IInv, Tables
  <1>5. Obliged(a)'
    BY <1>4, Zenon DEF Obliged
  <1>6. Repaid(a)'
    BY <1>1, <1>2, <1>3, <1>4, <1>5, FewerCalls
  <1> QED BY <1>1, <1>2, <1>3, <1>4, <1>5, <1>6, NothingReturned, RefundMoves

LEMMA CallFailsKeeps ==
    ASSUME IInv, NEW a \in Attempts, NEW manual \in BOOLEAN, CallFails(a, manual)
    PROVE  IInv' /\ MovesOn
  <1>1. UNCHANGED <<attempt, session, call, event, reversed, wired, raced>>
    BY Zenon DEF CallFails, providerVars
  <1>2. PICK phase \in asked[a] : CallMoves(a, phase, {})
    BY Zenon DEF CallFails
  <1>3. Obliged(a) /\ (refund[a].status = "succeeded" => Gone(a))
    BY <1>2, Zenon DEF IInv, Repaid
  <1>4. /\ asked' \in [Attempts -> SUBSET Phases] /\ asked'[a] \subseteq asked[a]
        /\ \A b \in Attempts \ {a} : asked'[b] = asked[b]
    <2>1. {} \in SUBSET Phases
      BY SMT
    <2>2. /\ asked' \in [Attempts -> SUBSET Phases]
          /\ asked'[a] = (asked[a] \ {phase}) \union {}
          /\ \A b \in Attempts \ {a} : asked'[b] = asked[b]
      BY <1>2, <2>1, CallMovesWrites, Zenon DEF IInv, Tables
    <2> QED BY <2>2, SMT
  <1>5. PICK row : /\ refund' = [refund EXCEPT ![a] = row] /\ row \in Refund
                   /\ row = refund[a] \/ (refund[a].status # "succeeded" /\ row.status = "pending")
    <2> DEFINE blocked == refund[a].manual \/ manual
               row     == IF StillOwed(a) THEN [status |-> "pending", manual |-> blocked]
                          ELSE refund[a]
    <2>1. refund[a] \in Refund
      BY Zenon DEF IInv, Tables
    <2>2. blocked \in BOOLEAN
      BY Zenon
    <2>3. refund' = [refund EXCEPT ![a] = row]
      BY Zenon DEF CallFails
    <2> HIDE DEF blocked
    <2>4. row \in Refund
          /\ (row = refund[a] \/ (refund[a].status # "succeeded" /\ row.status = "pending"))
      BY <2>1, <2>2, SMT DEF Refund, StillOwed
    <2> HIDE DEF row
    <2> QED BY <2>3, <2>4
  <1>6. /\ refund' \in [Attempts -> Refund] /\ refund'[a] = row
        /\ \A b \in Attempts \ {a} : refund'[b] = refund[b]
    BY <1>5, OneEntry, Zenon DEF IInv, Tables
  <1>7. Obliged(a)'
    BY <1>3, <1>5, <1>6, Zenon DEF Obliged
  <1>8. Repaid(a)'
    <2>1. refund'[a].status = "succeeded" <=> refund[a].status = "succeeded"
      BY <1>5, <1>6, Zenon
    <2> QED BY <1>1, <1>3, <1>4, <1>7, <2>1, FewerCalls
  <1> QED BY <1>1, <1>3, <1>4, <1>6, <1>7, <1>8, NothingReturned, RefundMoves

LEMMA RefundCallFailsKeeps ==
    ASSUME IInv, NEW a \in Attempts, RefundCallFails(a) PROVE IInv' /\ MovesOn
  <1>1. PICK manual \in BOOLEAN : CallFails(a, manual)
    BY Zenon DEF RefundCallFails
  <1> QED BY <1>1, CallFailsKeeps

LEMMA RefundCallDiesKeeps ==
    ASSUME IInv, NEW a \in Attempts, RefundCallDies(a) PROVE IInv' /\ MovesOn
  <1>1. UNCHANGED <<attempt, refund, session, call, event, reversed, wired, raced>>
    BY Zenon DEF RefundCallDies, providerVars, orderVars
  <1>2. PICK phase \in asked[a] : CallMoves(a, phase, {})
    BY Zenon DEF RefundCallDies
  <1>3. Obliged(a) /\ Obliged(a)' /\ (refund'[a].status = "succeeded" => Gone(a))
    BY <1>1, <1>2, Zenon DEF IInv, Repaid, Obliged
  <1>4. /\ asked' \in [Attempts -> SUBSET Phases] /\ asked'[a] \subseteq asked[a]
        /\ \A b \in Attempts \ {a} : asked'[b] = asked[b]
    <2>1. {} \in SUBSET Phases
      BY SMT
    <2>2. /\ asked' \in [Attempts -> SUBSET Phases]
          /\ asked'[a] = (asked[a] \ {phase}) \union {}
          /\ \A b \in Attempts \ {a} : asked'[b] = asked[b]
      BY <1>2, <2>1, CallMovesWrites, Zenon DEF IInv, Tables
    <2> QED BY <2>2, SMT
  <1>5. Repaid(a)'
    BY <1>1, <1>3, <1>4, FewerCalls
  <1>6. refund' \in [Attempts -> Refund] /\ \A b \in Attempts \ {a} : refund'[b] = refund[b]
    BY <1>1, Zenon DEF IInv, Tables
  <1> QED BY <1>1, <1>3, <1>4, <1>5, <1>6, NothingReturned, RefundMoves

(* An operator pays a refund back once, for it succeeds with the transfer; *)
(* a call in flight, or one that was carried out, is remembered.           *)
LEMMA SettleManuallyKeeps ==
    ASSUME IInv, NEW a \in Attempts, SettleRefundManually(a) PROVE IInv' /\ MovesOn
  <1>1. /\ UNCHANGED <<attempt, session, call, event, asked, reversed>>
        /\ refund[a].status \in {"pending", "processing"}
    BY Zenon DEF SettleRefundManually, providerVars, Unsettled
  <1>2. wired[a] = 0 /\ Obliged(a)
    BY <1>1, Zenon DEF IInv, Repaid, Obliged
  <1>3. /\ wired' \in [Attempts -> 0..1] /\ wired'[a] = 1
        /\ \A b \in Attempts \ {a} : wired'[b] = wired[b]
    <2>1. wired[a] + 1 = 1 /\ 1 \in 0..1
      BY <1>2, SMT
    <2>2. wired' = [wired EXCEPT ![a] = 1]
      BY <2>1, Zenon DEF SettleRefundManually
    <2> QED BY <2>1, <2>2, OneEntry, Zenon DEF IInv, Tables, Returns
  <1>4. /\ raced' \subseteq Attempts /\ \A b \in Attempts \ {a} : b \in raced' <=> b \in raced
        /\ asked[a] # {} \/ a \in reversed => a \in raced'
    BY Zenon DEF SettleRefundManually, IInv, Tables, Returns
  <1>5. Returns' /\ \A b \in Attempts \ {a} : SameReturn(b)
    BY <1>1, <1>3, <1>4, Zenon DEF IInv, Tables, Returns, SameReturn
  <1>6. /\ refund' \in [Attempts -> Refund] /\ refund'[a].status = "succeeded"
        /\ \A b \in Attempts \ {a} : refund'[b] = refund[b]
    <2> DEFINE row == [status |-> "succeeded", manual |-> FALSE]
    <2>1. row \in Refund /\ row.status = "succeeded"
      BY DEF Refund
    <2>2. refund' = [refund EXCEPT ![a] = row]
      BY DEF SettleRefundManually
    <2> HIDE DEF row
    <2> QED BY <2>1, <2>2, OneEntry, Zenon DEF IInv, Tables
  <1>7. Obliged(a)' /\ wired'[a] # 0
    BY <1>3, <1>6, SMT DEF Obliged
  <1>8. Repaid(a)' /\ Gone(a)'
    BY <1>1, <1>2, <1>4, <1>6, <1>7, Zenon DEF IInv, Repaid, Gone
  <1>9. asked' \in [Attempts -> SUBSET Phases] /\ \A b \in Attempts \ {a} : asked'[b] = asked[b]
    BY <1>1, Zenon DEF IInv, Tables
  <1> QED BY <1>1, <1>2, <1>5, <1>6, <1>7, <1>8, <1>9, RefundMoves
-----------------------------------------------------------------------------
LEMMA CheckoutsKeep ==
    ASSUME IInv, CheckoutsNext, UNCHANGED refundVars PROVE IInv' /\ MovesOn
  <1>1. CASE \E a \in Attempts, o \in OrderIds : StartCheckout(a, o)
    BY <1>1, StartCheckoutKeeps, Zenon DEF MovesOn, NothingMoves
  <1>2. ASSUME NEW a \in Attempts,
               ProviderCreates(a) \/ CheckoutFails(a) \/ StoreSession(a) \/ CheckoutDies(a)
        PROVE  IInv' /\ MovesOn
    BY <1>2, CallKeeps, Zenon DEF MovesOn, NothingMoves
  <1>3. ASSUME NEW a \in Attempts,
               \/ PayerPays(a) \/ PayerDefers(a) \/ DebitSettles(a)
               \/ DebitFails(a) \/ SessionEnds(a)
        PROVE  IInv' /\ MovesOn
    BY <1>3, SessionKeeps, Zenon DEF MovesOn
  <1>4. ASSUME NEW a \in Attempts, RecoverSession(a) PROVE IInv' /\ MovesOn
    BY <1>4, RecoverSessionKeeps, Zenon DEF MovesOn, NothingMoves
  <1>5. ASSUME NEW a \in Attempts, ReceiveEvent(a) PROVE IInv' /\ MovesOn
    BY <1>5, ReceiveEventKeeps, Zenon DEF MovesOn
  <1>6. ASSUME NEW a \in Attempts, PollProvider(a) \/ ExpireAttempt(a) PROVE IInv' /\ MovesOn
    BY <1>6, PollProviderKeeps, ExpireAttemptKeeps, Zenon
  <1>7. ASSUME NEW a \in Attempts, NEW k \in Outcomes, ProcessEvent(a, k) PROVE IInv' /\ MovesOn
    BY <1>7, ProcessEventKeeps, Zenon
  <1> QED BY <1>1, <1>2, <1>3, <1>4, <1>5, <1>6, <1>7, Zenon DEF CheckoutsNext, SessionsNext

LEMMA StepKeeps ==
    ASSUME IInv, [Next]_vars PROVE IInv' /\ MovesOn
  <1>1. CASE DomainNext /\ UNCHANGED <<providerVars, refundVars>>
    BY <1>1, DomainKeeps, Zenon
  <1>2. CASE CheckoutsNext /\ UNCHANGED refundVars
    BY <1>2, CheckoutsKeep, Zenon
  <1>3. CASE RefundsNext
    BY <1>3, DriveRefundKeeps, ProviderRefundsKeeps, RecordRefundedKeeps, RefundCallFailsKeeps,
       RefundCallDiesKeeps, SettleManuallyKeeps, Zenon DEF RefundsNext
  <1>4. CASE UNCHANGED vars
    <2>1. Elsewhere /\ UNCHANGED <<attempt, refund, event, session>>
      BY <1>4, Zenon DEF vars, orderVars, providerVars, refundVars, Elsewhere
    <2>2. QuietAttempts /\ MoreIsOwed /\ IsEvents(event')
      BY <2>1, UnchangedIsQuiet, NothingMoreIsOwed, Zenon DEF IInv, Tables
    <2> QED BY <2>1, <2>2, QuietKeeps, ReportsKeep, Zenon DEF MovesOn
  <1> QED BY <1>1, <1>2, <1>3, <1>4, Zenon DEF Next

LEMMA InitHolds ==
    ASSUME Init PROVE IInv /\ \A a \in Attempts : CustodyOf(a) = "payer"
  <1>1. /\ attempt = [a \in Attempts |-> NoAttempt] /\ refund = [a \in Attempts |-> NoRefund]
        /\ session = [a \in Attempts |-> "none"] /\ call = [a \in Attempts |-> "idle"]
        /\ event = [a \in Attempts |-> [k \in Outcomes |-> NoEvent]]
        /\ asked = [a \in Attempts |-> {}] /\ wired = [a \in Attempts |-> 0]
        /\ reversed = {} /\ raced = {}
    BY Zenon DEF Init, OrdersInit, CheckoutsInit
  <1>2. IsAttempts(attempt)
    <2>1. attempt \in [Attempts -> AttemptRow({0})]
      <3>1. NoAttempt \in AttemptRow({0})
        BY DEF NoAttempt, AttemptRow, OrderIds
      <3> HIDE DEF NoAttempt
      <3> QED BY <1>1, <3>1, Zenon
    <2> QED BY <2>1, AttemptsAre, Zenon
  <1>3. IsEvents(event)
    <2>1. event \in [Attempts -> [Outcomes -> EventRow({0})]]
      <3>1. NoEvent \in EventRow({0})
        BY DEF NoEvent, EventRow
      <3>2. [k \in Outcomes |-> NoEvent] \in [Outcomes -> EventRow({0})]
        BY <3>1, Zenon
      <3> QED BY <1>1, <3>2, Zenon
    <2> QED BY <2>1, EventsAre, Zenon
  <1>4. refund \in [Attempts -> Refund] /\ NoRefund.status = "none"
    <2>1. NoRefund \in Refund /\ NoRefund.status = "none"
      BY DEF NoRefund, Refund
    <2> QED BY <1>1, <2>1, Zenon
  <1>5. asked \in [Attempts -> SUBSET Phases] /\ Returns
    <2>1. {} \in SUBSET Phases /\ 0 \in 0..1
      BY SMT
    <2> QED BY <1>1, <2>1, Zenon DEF Returns
  <1>6. Tables
    BY <1>1, <1>2, <1>3, <1>4, <1>5, Zenon DEF Tables
  <1>7. NoAttempt.status = "none" /\ NoAttempt.stored = FALSE /\ NoEvent.state = "none" /\ 0 # 1
    BY SMT DEF NoAttempt, NoEvent
  <1>8. ASSUME NEW a \in Attempts
        PROVE  Reached(a) /\ Repaid(a) /\ Informed(a) /\ CustodyOf(a) = "payer"
    <2>1. /\ attempt[a].status = "none" /\ attempt[a].stored = FALSE /\ refund[a].status = "none"
          /\ session[a] = "none" /\ call[a] = "idle" /\ asked[a] = {} /\ ~Gone(a) /\ wired[a] = 0
      BY <1>1, <1>4, <1>7, Zenon DEF Gone
    <2>2. event[a]["succeeded"].state = "none"
      <3>1. "succeeded" \in Outcomes
        BY DEF Outcomes
      <3> QED BY <1>1, <1>7, <3>1, Zenon
    <2>3. Reached(a) /\ Informed(a)
      BY <2>1, <2>2, Zenon DEF Reached, Informed
    <2>4. Repaid(a)
      BY <1>1, <1>7, <2>1, Zenon DEF Repaid, Obliged
    <2>5. CustodyOf(a) = "payer"
      BY <2>1, SMT DEF CustodyOf
    <2> QED BY <2>3, <2>4, <2>5
  <1> QED BY <1>6, <1>8, Zenon DEF IInv

(* Every such movement of money is one the abstract custody allows.        *)
LEMMA MovesAreCustody ==
    ASSUME MovesOn
    PROVE  [CapturesInCustody!CustodyNext]_([a \in Attempts |-> CustodyOf(a)])
  <1> DEFINE held == [a \in Attempts |-> CustodyOf(a)]
  <1>1. held' = [a \in Attempts |-> CustodyOf(a)']
    OBVIOUS
  <1>2. CASE NothingMoves
    <2>1. held' = held
      BY <1>1, <1>2, Zenon DEF NothingMoves, Stays
    <2> QED BY <2>1
  <1>3. ASSUME NEW a \in Attempts, NEW from, NEW to, Moves(a, from, to)
        PROVE  held[a] = from /\ held' = [held EXCEPT ![a] = to]
    <2>1. /\ CustodyOf(a) = from /\ CustodyOf(a)' = to
          /\ \A b \in Attempts \ {a} : CustodyOf(b)' = CustodyOf(b)
      BY <1>3 DEF Moves, Stays
    <2> QED BY <1>1, <2>1, Zenon
  <1>4. ASSUME NEW a \in Attempts,
               \/ Moves(a, "payer", "provider")
               \/ Moves(a, "provider", "applied") \/ Moves(a, "provider", "owed")
               \/ Moves(a, "owed", "returned")
        PROVE  CapturesInCustody!CustodyNext
    <2>1. CASE Moves(a, "payer", "provider")
      <3>1. held[a] = "payer" /\ held' = [held EXCEPT ![a] = "provider"]
        BY <1>3, <2>1
      <3>2. CapturesInCustody!Charge(a)
        BY <3>1 DEF CapturesInCustody!Charge
      <3> QED BY <3>2 DEF CapturesInCustody!CustodyNext
    <2>2. ASSUME NEW p \in {"applied", "owed"}, Moves(a, "provider", p)
          PROVE  CapturesInCustody!CustodyNext
      <3>1. held[a] = "provider" /\ held' = [held EXCEPT ![a] = p]
        BY <1>3, <2>2
      <3>2. CapturesInCustody!Record(a)
        BY <3>1 DEF CapturesInCustody!Record
      <3> QED BY <3>2 DEF CapturesInCustody!CustodyNext
    <2>3. CASE Moves(a, "owed", "returned")
      <3>1. held[a] = "owed" /\ held' = [held EXCEPT ![a] = "returned"]
        BY <1>3, <2>3
      <3>2. CapturesInCustody!Return(a)
        BY <3>1 DEF CapturesInCustody!Return
      <3> QED BY <3>2 DEF CapturesInCustody!CustodyNext
    <2> QED BY <1>4, <2>1, <2>2, <2>3
  <1>5. ASSUME NEW D \in SUBSET Attempts, FallsAway(D) PROVE CapturesInCustody!CustodyNext
    <2>1. \A c \in D : held[c] = "applied"
      BY <1>5 DEF FallsAway
    <2>2. held' = [c \in Attempts |-> IF c \in D THEN "owed" ELSE held[c]]
      BY <1>1, <1>5 DEF FallsAway, Stays
    <2>3. CapturesInCustody!Unwind(D)
      BY <1>5, <2>1, <2>2 DEF CapturesInCustody!Unwind, FallsAway
    <2> QED BY <2>3 DEF CapturesInCustody!CustodyNext
  <1> QED BY <1>2, <1>4, <1>5 DEF MovesOn

LEMMA AlwaysIInv == Spec => []IInv
  <1>1. Init => IInv
    BY InitHolds
  <1>2. IInv /\ [Next]_vars => IInv'
    BY StepKeeps
  <1> QED BY <1>1, <1>2, PTL DEF Spec

(* The whole payment system, its lost and repeated webhooks, superseded    *)
(* checkouts, crashes and refund retries, moves the money of each capture  *)
(* only forward: payer, provider, applied or owed, returned once.          *)
THEOREM PaymentsImplementCustody == Spec => ImplementsCustody
  <1>1. Init => CapturesInCustody!CustodyInit
    <2>1. Init => [a \in Attempts |-> CustodyOf(a)] = [a \in Attempts |-> "payer"]
      BY InitHolds, Zenon
    <2> QED BY <2>1 DEF CapturesInCustody!CustodyInit
  <1>2. IInv /\ [Next]_vars =>
            [CapturesInCustody!CustodyNext]_([a \in Attempts |-> CustodyOf(a)])
    BY StepKeeps, MovesAreCustody
  <1> QED BY <1>1, <1>2, AlwaysIInv, PTL DEF Spec, ImplementsCustody, CapturesInCustody!CustodySpec

(* A refund that says succeeded has left the platform; an operator sends   *)
(* it at most once, a provider at most once under its key, and both send   *)
(* it only if the transfer was made while a provider call was in flight or *)
(* after one whose answer was lost, whatever times out, dies and is sent   *)
(* again (_settle_refund_with_provider, settle_refund_manually).           *)
THEOREM MoneyLeavesOnce == Spec => []ReturnedOnce
  <1>1. IInv => ReturnedOnce
    <2>1. ASSUME IInv, NEW a \in Attempts
          PROVE  /\ refund[a].status = "succeeded" => Gone(a)
                 /\ wired[a] <= 1
                 /\ a \in reversed /\ wired[a] # 0 => a \in raced
      <3>1. wired[a] \in 0..1
        BY <2>1, Zenon DEF IInv, Tables, Returns
      <3>2. wired[a] <= 1
        BY <3>1, SMT
      <3> QED BY <2>1, <3>2, Zenon DEF IInv, Repaid
    <2> QED BY <2>1 DEF ReturnedOnce
  <1> QED BY <1>1, AlwaysIInv, PTL

(* Where the refunds and the polls have their retry budgets, dead letters  *)
(* and escalation, every step is one of the payment system's, so all that  *)
(* is proved of it holds there (provider_reconcile, refund_reconcile).     *)
THEOREM RecoveryIsPayments == RecoverySpec => Spec
  <1>1. RecoveryInit => Init
    BY DEF RecoveryInit
  <1>2. [RecoveryNext]_recoveryVars => [Next]_vars
    <2>1. CASE OutsideNext
      BY <2>1, Zenon DEF OutsideNext, Next, CheckoutsNext
    <2>2. ASSUME NEW a \in Attempts, PollRecovers(a) \/ PollAnswered(a) PROVE Next
      BY <2>2, Zenon DEF PollRecovers, PollAnswered, Next, CheckoutsNext
    <2>3. ASSUME NEW a \in Attempts,
                 \/ RequestDrives(a) \/ JobDrives(a) \/ ProviderReturns(a) \/ ProviderAnswered(a)
                 \/ OperatorSettles(a) \/ CallDies(a)
          PROVE  Next
      BY <2>3, Zenon DEF RequestDrives, JobDrives, ProviderReturns, ProviderAnswered,
                         OperatorSettles, CallDies, Next, RefundsNext
    <2>4. ASSUME NEW a \in Attempts, Unanswered(a) \/ Refused(a) PROVE Next
      <3>1. RefundCallFails(a)
        BY <2>4, Zenon DEF Unanswered, Refused, RefundCallFails
      <3> QED BY <3>1, Zenon DEF Next, RefundsNext
    <2>5. ASSUME NEW a \in Attempts,
                 \/ PollFindsSettled(a) \/ PollFruitless(a) \/ PollRefused(a) \/ OperatorPolls(a)
                 \/ JobFindsReturned(a) \/ JobRaises(a) \/ Requeue(a) \/ OperatorDrives(a)
          PROVE  UNCHANGED vars
      BY <2>5, Zenon DEF PollFindsSettled, PollFruitless, PollRefused, OperatorPolls,
                         JobFindsReturned, JobRaises, Requeue, OperatorDrives
    <2>6. CASE UNCHANGED recoveryVars
      BY <2>6 DEF recoveryVars
    <2> QED BY <2>1, <2>2, <2>3, <2>4, <2>5, <2>6, Zenon
            DEF RecoveryNext, PollStep, DriveStep, CallEnds
  <1> QED BY <1>1, <1>2, PTL DEF RecoverySpec, Spec
-----------------------------------------------------------------------------
(* The money itself.  The orders follow the Deal: one balance order from   *)
(* acceptance on, whose credit lasts while the Deal does, and a deposit    *)
(* that is refunded only when no Deal can use it.                          *)
Deals == {"none", "payment_required", "active", "released"}
Requests == {"awaiting_deposit", "open", "matched", "expired", "cancelled"}

Prices ==
    /\ request \in Requests /\ deal \in Deals
    /\ expiryJob \in {"none", "armed", "refunding", "done"}
    /\ order \in [OrderIds -> Order]
    /\ \A a \in Attempts : attempt[a].amount \in 0..Total

Standing ==
    /\ order["balance"].made <=> deal # "none"
    /\ order["deposit"].credit = 0
    /\ order["balance"].credit > 0 => deal \in {"payment_required", "active"}
    /\ order["balance"].credit > 0 => ~order["deposit"].cancelled
    /\ deal \in {"payment_required", "active"} =>
         request = "matched" /\ ~order["balance"].cancelled /\ order["balance"].amount = Total
    /\ expiryJob # "none" => request # "awaiting_deposit"
    /\ expiryJob = "refunding" => request \in {"expired", "cancelled"}

(* What an attempt may be to its order: an open one on an unfunded balance *)
(* asks for all that is missing; an applied one is owed back only when the *)
(* deposit serves no Deal.                                                 *)
Assigned(a) ==
    /\ attempt[a].status # "none" => order[attempt[a].order].made
    /\ attempt[a].status # "none" /\ attempt[a].order = "balance" /\ deal = "payment_required"
          => attempt[a].amount = Total - order["balance"].credit
    /\ attempt[a].unapplied => attempt[a].status = "succeeded" /\ Obliged(a)
    /\ Applied(a, "balance") => deal = "active" /\ ~Obliged(a)
    /\ Applied(a, "deposit") /\ order["deposit"].cancelled => Obliged(a)
    /\ Applied(a, "deposit") /\ order["balance"].credit > 0 => ~Obliged(a)

(* The sums: no order above its amount, a credit that was paid, a funded   *)
(* Deal that is covered exactly.                                           *)
Collected ==
    /\ NeverOverCollected
    /\ order["balance"].credit <= Paid("deposit")
    /\ deal = "active" => order["balance"].credit + Paid("balance") = Total

MoneyInv == Prices /\ Standing /\ Collected /\ \A a \in Attempts : Assigned(a)

(* What is paid changes only with the captures an order takes.             *)
SamePrice(a) ==
    /\ attempt'[a].order = attempt[a].order /\ attempt'[a].amount = attempt[a].amount
    /\ attempt'[a].unapplied = attempt[a].unapplied
SameRow(a) ==
    /\ SamePrice(a)
    /\ attempt'[a].status = "succeeded" <=> attempt[a].status = "succeeded"
    /\ attempt'[a].status = "none" <=> attempt[a].status = "none"
OwesTheSame(a) == Obliged(a)' <=> Obliged(a)

LEMMA AttemptsAreFinite ==
    ASSUME NEW S \in SUBSET Attempts PROVE IsFiniteSet(S)
  BY FS_Subset, PaymentsAssumption, Zenon

LEMMA PaidIsNat ==
    ASSUME Prices, NEW S \in SUBSET Attempts
    PROVE  CentsOf(S) \in Nat
  <1> DEFINE cents == [a \in Attempts |-> attempt[a].amount]
  <1>1. IsFiniteSet(S)
    BY AttemptsAreFinite
  <1>2. \A a \in S : cents[a] \in Nat
    BY PaymentsAssumption, SMT DEF Prices
  <1> HIDE DEF cents
  <1>3. SumFunctionOnSet(cents, S) \in Nat
    BY <1>1, <1>2, SumIsNat, Zenon
  <1> QED BY <1>3 DEF CentsOf, cents

LEMMA NothingIsNothing == CentsOf({}) = 0
  BY SumOfNothing DEF CentsOf

LEMMA CentsStay ==
    ASSUME Prices, NEW S \in SUBSET Attempts, \A a \in S : attempt'[a].amount = attempt[a].amount
    PROVE  SumFunctionOnSet([a \in Attempts |-> attempt'[a].amount], S) = CentsOf(S)
  <1> DEFINE cents == [a \in Attempts |-> attempt[a].amount]
             after == [a \in Attempts |-> attempt'[a].amount]
  <1>1. IsFiniteSet(S)
    BY AttemptsAreFinite
  <1>2. \A a \in S : cents[a] \in Int /\ after[a] = cents[a]
    BY PaymentsAssumption, SMT DEF Prices
  <1> HIDE DEF cents, after
  <1>3. SumFunctionOnSet(after, S) = SumFunctionOnSet(cents, S)
    BY <1>1, <1>2, SumsAgree, Zenon
  <1> QED BY <1>3 DEF CentsOf, cents, after

LEMMA PaidStays ==
    ASSUME Prices, NEW o,
           \A a \in Attempts : Applied(a, o)' <=> Applied(a, o),
           \A a \in Attempts : Applied(a, o) => attempt'[a].amount = attempt[a].amount
    PROVE  Paid(o)' = Paid(o)
  <1>1. AppliedTo(o)' = AppliedTo(o)
    BY Zenon DEF AppliedTo
  <1>2. AppliedTo(o) \in SUBSET Attempts
    BY DEF AppliedTo
  <1>3. \A a \in AppliedTo(o) : attempt'[a].amount = attempt[a].amount
    BY Zenon DEF AppliedTo
  <1>4. SumFunctionOnSet([a \in Attempts |-> attempt'[a].amount], AppliedTo(o)) = CentsOf(AppliedTo(o))
    BY <1>2, <1>3, CentsStay, Zenon
  <1> QED BY <1>1, <1>4, Zenon DEF Paid, CentsOf

LEMMA PaidGrows ==
    ASSUME Prices, NEW o, NEW c \in Attempts, ~Applied(c, o), Applied(c, o)',
           \A a \in Attempts : a # c => (Applied(a, o)' <=> Applied(a, o)),
           \A a \in Attempts : attempt'[a].amount = attempt[a].amount
    PROVE  Paid(o)' = Paid(o) + attempt[c].amount
  <1>1. AppliedTo(o)' = AppliedTo(o) \union {c} /\ c \notin AppliedTo(o)
    BY DEF AppliedTo
  <1>2. AppliedTo(o) \in SUBSET Attempts /\ AppliedTo(o) \union {c} \in SUBSET Attempts
    BY DEF AppliedTo
  <1>3. SumFunctionOnSet([a \in Attempts |-> attempt'[a].amount], AppliedTo(o) \union {c})
            = CentsOf(AppliedTo(o) \union {c})
    BY <1>2, CentsStay, Zenon
  <1> DEFINE cents == [a \in Attempts |-> attempt[a].amount]
             S == AppliedTo(o)
  <1>4. cents[c] = attempt[c].amount /\ \A a \in Attempts : cents[a] \in Int
    BY PaymentsAssumption, SMT DEF Prices
  <1>5. IsFiniteSet(S)
    BY <1>2, AttemptsAreFinite
  <1>6. \A a \in S : cents[a] \in Int
    BY <1>2, <1>4
  <1>7. cents[c] \in Int /\ c \notin S
    BY <1>1, <1>4
  <1> HIDE DEF cents, S
  <1>8. SumFunctionOnSet(cents, S \union {c}) = SumFunctionOnSet(cents, S) + cents[c]
    BY <1>5, <1>6, <1>7, SumAddsOne, Zenon
  <1>9. CentsOf(S \union {c}) = CentsOf(S) + attempt[c].amount
    BY <1>4, <1>8, Zenon DEF CentsOf, cents
  <1> QED BY <1>1, <1>3, <1>9, Zenon DEF Paid, CentsOf, S
-----------------------------------------------------------------------------
LEMMA StillKeepsMoney ==
    ASSUME MoneyInv, UNCHANGED <<order, domainVars>>,
           \A a \in Attempts : SameRow(a) /\ OwesTheSame(a)
    PROVE  MoneyInv'
  <1>1. UNCHANGED <<order, request, deal, expiryJob>>
    BY DEF domainVars
  <1>2. \A a \in Attempts, o \in OrderIds : Applied(a, o)' <=> Applied(a, o)
    BY Zenon DEF Applied, SameRow, SamePrice
  <1>3. \A o \in OrderIds : Paid(o)' = Paid(o)
    BY <1>2, PaidStays, Zenon DEF MoneyInv, SameRow, SamePrice
  <1>4. "deposit" \in OrderIds /\ "balance" \in OrderIds
    BY DEF OrderIds
  <1>5. Prices'
    BY <1>1, Zenon DEF MoneyInv, Prices, SameRow, SamePrice
  <1>6. Standing'
    BY <1>1, Zenon DEF MoneyInv, Standing
  <1>7. Collected'
    BY <1>1, <1>3, <1>4, Zenon DEF MoneyInv, Collected, NeverOverCollected
  <1>8. ASSUME NEW a \in Attempts PROVE Assigned(a)'
    <2>1. SameRow(a) /\ OwesTheSame(a) /\ Assigned(a)
      BY Zenon DEF MoneyInv
    <2>2. Applied(a, "deposit")' <=> Applied(a, "deposit")
      BY <1>2, <1>4, Zenon
    <2>3. Applied(a, "balance")' <=> Applied(a, "balance")
      BY <1>2, <1>4, Zenon
    <2> QED BY <1>1, <2>1, <2>2, <2>3, Zenon DEF Assigned, SameRow, SamePrice, OwesTheSame
  <1> QED BY <1>5, <1>6, <1>7, <1>8 DEF MoneyInv
-----------------------------------------------------------------------------
(* Which rows a write of attempts changes, and in which columns.           *)
LEMMA SetStatusPrices ==
    ASSUME IsAttempts(attempt), NEW a, NEW s, SetStatus(a, s)
    PROVE  \A b \in Attempts : /\ SamePrice(b)
                               /\ IF b = a THEN attempt'[b].status = s
                                  ELSE attempt'[b].status = attempt[b].status
  <1>1. PICK amounts : attempt \in [Attempts -> AttemptRow(amounts)]
    BY Zenon DEF IsAttempts
  <1> QED BY <1>1, SMT DEF SetStatus, AttemptRow, SamePrice

LEMMA SetStatusSameRow ==
    ASSUME IsAttempts(attempt), NEW a, NEW s \in Closing \union {"checkout_pending"}, SetStatus(a, s),
           a \in Attempts => attempt[a].status \notin {"none", "succeeded"}
    PROVE  \A b \in Attempts : SameRow(b)
  <1>1. s \notin {"none", "succeeded"}
    BY DEF Closing
  <1>2. ASSUME NEW b \in Attempts PROVE SameRow(b)
    <2>1. SamePrice(b)
      BY SetStatusPrices, Zenon
    <2>2. CASE b = a
      <3>1. attempt'[b].status = s
        BY <2>2, SetStatusPrices, Zenon
      <3> QED BY <1>1, <2>1, <2>2, <3>1, Zenon DEF SameRow
    <2>3. CASE b # a
      <3>1. attempt'[b].status = attempt[b].status
        BY <2>3, SetStatusPrices, Zenon
      <3> QED BY <2>1, <3>1, Zenon DEF SameRow
    <2> QED BY <2>2, <2>3
  <1> QED BY <1>2

LEMMA WithoutOpenPrices ==
    ASSUME IsAttempts(attempt), NEW o, attempt' = WithoutOpen(o)
    PROVE  \A b \in Attempts : SameRow(b)
  <1>1. PICK amounts : attempt \in [Attempts -> AttemptRow(amounts)]
    BY Zenon DEF IsAttempts
  <1>2. ASSUME NEW b \in Attempts PROVE SamePrice(b)
    BY <1>1, <1>2, SMT DEF WithoutOpen, AttemptRow, SamePrice
  <1>3. ASSUME NEW b \in Attempts
        PROVE  \/ attempt'[b].status = attempt[b].status
               \/ attempt[b].status \notin {"none", "succeeded"} /\ attempt'[b].status = "cancelled"
    BY <1>1, SMT DEF WithoutOpen, AttemptRow, OpenOn, Open
  <1>4. ASSUME NEW b \in Attempts PROVE SameRow(b)
    BY <1>2, <1>3, <1>4, Zenon DEF SameRow
  <1> QED BY <1>4

LEMMA UnchangedRows == ASSUME attempt' = attempt PROVE \A a \in Attempts : SameRow(a)
  BY Zenon DEF SameRow, SamePrice

LEMMA UnchangedRefunds == ASSUME refund' = refund PROVE \A a \in Attempts : OwesTheSame(a)
  BY Zenon DEF OwesTheSame, Obliged

(* A status written to an attempt that is neither unused nor successful.   *)
LEMMA StatusKeepsMoney ==
    ASSUME IInv, MoneyInv, NEW a, NEW s \in Closing \union {"checkout_pending"}, SetStatus(a, s),
           a \in Attempts => attempt[a].status \notin {"none", "succeeded"},
           UNCHANGED <<order, refund, domainVars>>
    PROVE  MoneyInv'
  <1>1. \A b \in Attempts : SameRow(b)
    BY SetStatusSameRow, Zenon DEF IInv, Tables
  <1>2. refund' = refund /\ UNCHANGED <<order, domainVars>>
    OBVIOUS
  <1> QED BY <1>1, <1>2, UnchangedRefunds, StillKeepsMoney, Zenon

LEMMA RestKeepsMoney ==
    ASSUME MoneyInv, UNCHANGED <<orderVars, domainVars>> PROVE MoneyInv'
  <1>1. attempt' = attempt /\ refund' = refund /\ UNCHANGED <<order, domainVars>>
    BY DEF orderVars
  <1> QED BY <1>1, UnchangedRows, UnchangedRefunds, StillKeepsMoney, Zenon
-----------------------------------------------------------------------------
(* The provider's side: nothing moves but statuses of unpaid attempts.     *)
LEMMA CallKeepsMoney ==
    ASSUME IInv, MoneyInv, NEW a \in Attempts,
           \/ ProviderCreates(a) \/ CheckoutFails(a) \/ StoreSession(a) \/ CheckoutDies(a)
    PROVE  MoneyInv'
  <1>1. Reached(a)
    BY DEF IInv
  <1>2. CASE ProviderCreates(a)
    BY <1>2, RestKeepsMoney DEF ProviderCreates
  <1>3. CASE CheckoutFails(a)
    <2>1. attempt[a].status \notin {"none", "succeeded"}
      BY <1>1, <1>3, Zenon DEF CheckoutFails, Reached
    <2>2. "failed" \in Closing \union {"checkout_pending"}
      BY DEF Closing
    <2> QED BY <1>3, <2>1, <2>2, StatusKeepsMoney, Zenon DEF CheckoutFails
  <1>4. CASE StoreSession(a)
    <2>1. CASE attempt[a].status # "created"
      <3>1. attempt' = attempt
        BY <1>4, <2>1 DEF StoreSession
      <3> QED BY <1>4, <3>1, RestKeepsMoney DEF StoreSession, orderVars
    <2>2. CASE attempt[a].status = "created"
      <3>1. attempt' = [attempt EXCEPT ![a].status = "checkout_pending", ![a].stored = TRUE]
        BY <1>4, <2>2 DEF StoreSession
      <3>2. PICK amounts : attempt \in [Attempts -> AttemptRow(amounts)]
        BY Zenon DEF IInv, Tables, IsAttempts
      <3>3. PICK once : once = [attempt EXCEPT ![a].status = "checkout_pending"]
        OBVIOUS
      <3>4. PICK yes \in BOOLEAN : attempt' = [once EXCEPT ![a].stored = yes]
        BY <3>1, <3>3, Zenon
      <3>5. once \in [Attempts -> AttemptRow(amounts)]
        BY <3>2, <3>3, SMT DEF AttemptRow, Open
      <3>6. \A b \in Attempts : SamePrice(b)
        BY <3>2, <3>3, <3>4, SMT DEF AttemptRow, SamePrice
      <3>7. attempt'[a].status = "checkout_pending"
        BY <3>2, <3>3, <3>4, SMT DEF AttemptRow
      <3>8. \A b \in Attempts \ {a} : attempt'[b].status = attempt[b].status
        BY <3>2, <3>3, <3>4, SMT DEF AttemptRow
      <3>9. \A b \in Attempts : SameRow(b)
        BY <2>2, <3>6, <3>7, <3>8, Zenon DEF SameRow
      <3> QED BY <1>4, <3>9, UnchangedRefunds, StillKeepsMoney, Zenon DEF StoreSession
    <2> QED BY <2>1, <2>2
  <1>5. CASE CheckoutDies(a)
    BY <1>5, RestKeepsMoney DEF CheckoutDies
  <1> QED BY <1>2, <1>3, <1>4, <1>5

LEMMA RecoverKeepsMoney ==
    ASSUME IInv, MoneyInv, NEW a \in Attempts, RecoverSession(a) PROVE MoneyInv'
  <1> DEFINE s == IF attempt[a].status = "created" THEN "checkout_pending" ELSE attempt[a].status
  <1>1. PICK amounts : attempt \in [Attempts -> AttemptRow(amounts)]
    BY Zenon DEF IInv, Tables, IsAttempts
  <1>2. PICK yes \in BOOLEAN :
            attempt' = [attempt EXCEPT ![a].stored = yes,
                         ![a].status = IF @ = "created" THEN "checkout_pending" ELSE @]
    BY Zenon DEF RecoverSession
  <1>3. PICK once : once = [attempt EXCEPT ![a].stored = yes]
    OBVIOUS
  <1>4. /\ once \in [Attempts -> AttemptRow(amounts)]
        /\ \A b \in Attempts : once[b].status = attempt[b].status
        /\ \A b \in Attempts : /\ once[b].order = attempt[b].order /\ once[b].amount = attempt[b].amount
                               /\ once[b].unapplied = attempt[b].unapplied
    BY <1>1, <1>3, SMT DEF AttemptRow
  <1>5. attempt' = [once EXCEPT ![a].status = s]
    BY <1>2, <1>3, <1>4, Zenon
  <1>6. s \notin {"none", "succeeded"}
    BY DEF RecoverSession
  <1> HIDE DEF s
  <1>7. \A b \in Attempts : SamePrice(b)
    BY <1>4, <1>5, SMT DEF AttemptRow, SamePrice
  <1>8. attempt'[a].status = s
    BY <1>4, <1>5, SMT DEF AttemptRow
  <1>9. \A b \in Attempts \ {a} : attempt'[b].status = attempt[b].status
    BY <1>4, <1>5, SMT DEF AttemptRow
  <1>10. attempt[a].status \notin {"none", "succeeded"}
    BY DEF RecoverSession
  <1>11. ASSUME NEW b \in Attempts PROVE SameRow(b)
    BY <1>6, <1>7, <1>8, <1>9, <1>10, <1>11, Zenon DEF SameRow
  <1> QED BY <1>11, UnchangedRefunds, StillKeepsMoney, Zenon DEF RecoverSession

LEMMA SessionKeepsMoney ==
    ASSUME MoneyInv, NEW a, \/ PayerPays(a) \/ PayerDefers(a) \/ DebitSettles(a)
                            \/ DebitFails(a) \/ SessionEnds(a) \/ ReceiveEvent(a)
    PROVE  MoneyInv'
  BY RestKeepsMoney DEF PayerPays, PayerDefers, DebitSettles, DebitFails, SessionEnds,
     SessionMoves, ReceiveEvent

(* Refunds: none is forgotten, and none appears that was not owed.         *)
LEMMA RefundKeepsMoney ==
    ASSUME MoneyInv, NEW c, Obliged(c), refund'[c].status # "none",
           \A a \in Attempts \ {c} : refund'[a] = refund[a],
           UNCHANGED <<order, attempt, domainVars>>
    PROVE  MoneyInv'
  <1>1. ASSUME NEW a \in Attempts PROVE OwesTheSame(a)
    BY <1>1, Zenon DEF OwesTheSame, Obliged
  <1>2. attempt' = attempt /\ UNCHANGED <<order, domainVars>>
    OBVIOUS
  <1> QED BY <1>1, <1>2, UnchangedRows, StillKeepsMoney, Zenon

LEMMA RefundsKeepMoney ==
    ASSUME IInv, MoneyInv, RefundsNext PROVE MoneyInv'
  <1> refund \in [Attempts -> Refund]
    BY DEF IInv, Tables
  <1>1. ASSUME NEW a \in Attempts, NEW r, r.status # "none", Obliged(a),
               refund' = [refund EXCEPT ![a] = r], UNCHANGED <<order, attempt, domainVars>>
        PROVE  MoneyInv'
    <2>1. refund'[a] = r /\ \A b \in Attempts \ {a} : refund'[b] = refund[b]
      BY <1>1, Zenon
    <2> QED BY <1>1, <2>1, RefundKeepsMoney
  <1>2. ASSUME NEW a \in Attempts, DriveRefund(a) PROVE MoneyInv'
    <2>1. /\ refund'[a].status = "processing"
          /\ \A b \in Attempts \ {a} : refund'[b] = refund[b]
      <3>1. refund' = [refund EXCEPT ![a].status = "processing"]
        BY <1>2 DEF DriveRefund
      <3> QED BY <3>1, SMT DEF Refund
    <2>2. Obliged(a)
      BY <1>2, Zenon DEF DriveRefund, Unsettled, Obliged
    <2> QED BY <1>2, <2>1, <2>2, RefundKeepsMoney DEF DriveRefund
  <1>3. ASSUME NEW a \in Attempts, ProviderRefunds(a) PROVE MoneyInv'
    BY <1>3, RestKeepsMoney DEF ProviderRefunds
  <1>4. ASSUME NEW a \in Attempts, RecordRefunded(a) PROVE MoneyInv'
    <2>1. Obliged(a)
      BY <1>4 DEF IInv, Repaid, RecordRefunded
    <2> QED BY <1>4, <2>1, <1>1 DEF RecordRefunded
  <1>5. ASSUME NEW a \in Attempts, RefundCallFails(a) PROVE MoneyInv'
    <2>1. PICK manual \in BOOLEAN : CallFails(a, manual)
      BY <1>5, Zenon DEF RefundCallFails
    <2>2. Obliged(a)
      BY <2>1, Zenon DEF IInv, Repaid, CallFails
    <2>3. PICK r : /\ r = IF StillOwed(a)
                          THEN [status |-> "pending", manual |-> refund[a].manual \/ manual]
                          ELSE refund[a]
                   /\ refund' = [refund EXCEPT ![a] = r]
      BY <2>1, Zenon DEF CallFails
    <2>4. r.status # "none"
      BY <2>2, <2>3 DEF Obliged
    <2> QED BY <2>1, <2>2, <2>3, <2>4, <1>1 DEF CallFails
  <1>6. ASSUME NEW a \in Attempts, RefundCallDies(a) PROVE MoneyInv'
    BY <1>6, RestKeepsMoney DEF RefundCallDies
  <1>7. ASSUME NEW a \in Attempts, SettleRefundManually(a) PROVE MoneyInv'
    <2>1. Obliged(a)
      BY <1>7, Zenon DEF SettleRefundManually, Unsettled, Obliged
    <2> QED BY <1>7, <2>1, <1>1 DEF SettleRefundManually
  <1> QED BY <1>2, <1>3, <1>4, <1>5, <1>6, <1>7, Zenon DEF RefundsNext
-----------------------------------------------------------------------------
LEMMA OrderRow ==
    ASSUME Prices, NEW o \in OrderIds
    PROVE  /\ order[o].made \in BOOLEAN /\ order[o].cancelled \in BOOLEAN
           /\ order[o].amount \in 0..Total /\ order[o].credit \in 0..Total
           /\ Total \in Nat \ {0}
  BY PaymentsAssumption, SMT DEF Prices, Order

LEMMA PaidIsNatural ==
    ASSUME Prices, NEW o PROVE Paid(o) \in Nat /\ Obligated(o) \in Nat
  <1>1. AppliedTo(o) \in SUBSET Attempts /\ {a \in AppliedTo(o) : Obliged(a)} \in SUBSET Attempts
    BY DEF AppliedTo
  <1> QED BY <1>1, PaidIsNat, Zenon DEF Paid, Obligated

LEMMA OutstandingIs ==
    ASSUME Prices, NeverOverCollected, NEW o \in OrderIds
    PROVE  /\ Outstanding(o) \in 0..Total
           /\ Outstanding(o) = order[o].amount - (order[o].credit + Paid(o))
           /\ order[o].credit + Paid(o) <= order[o].amount
  <1>1. PICK paid \in Nat : paid = Paid(o)
    BY PaidIsNatural, Zenon
  <1>2. order[o].credit + paid <= order[o].amount
    BY <1>1, Zenon DEF NeverOverCollected
  <1>3. Outstanding(o) = IF order[o].credit + paid < order[o].amount
                         THEN order[o].amount - (order[o].credit + paid) ELSE 0
    BY <1>1, Zenon DEF Outstanding
  <1> QED BY <1>1, <1>2, <1>3, OrderRow, SMT

(* Before its Deal is funded, nobody has paid a balance.                   *)
LEMMA BalanceUnpaid ==
    ASSUME MoneyInv, deal # "active"
    PROVE  AppliedTo("balance") = {} /\ Paid("balance") = 0 /\ Obligated("balance") = 0
  <1>1. AppliedTo("balance") = {}
    BY DEF MoneyInv, Assigned, AppliedTo
  <1>2. {a \in AppliedTo("balance") : Obliged(a)} = {}
    BY <1>1
  <1> QED BY <1>1, <1>2, NothingIsNothing, Zenon DEF Paid, Obligated

LEMMA StartKeepsMoney ==
    ASSUME IInv, MoneyInv, NEW a \in Attempts, NEW o \in OrderIds, StartCheckout(a, o)
    PROVE  MoneyInv'
  <1> DEFINE row == [status |-> "created", order |-> o, amount |-> Outstanding(o),
                     stored |-> FALSE, unapplied |-> FALSE]
             closed == WithoutOpen(o)
  <1>1. /\ attempt' = [closed EXCEPT ![a] = row] /\ attempt[a].status = "none"
        /\ UNCHANGED <<order, refund, request, deal, expiryJob>>
        /\ order[o].made /\ ~order[o].cancelled
    BY DEF StartCheckout, IsNext, Collectable, domainVars
  <1>2. PICK amounts : attempt \in [Attempts -> AttemptRow(amounts)]
    BY Zenon DEF IInv, Tables, IsAttempts
  <1>3. closed \in [Attempts -> AttemptRow(amounts)]
    BY <1>2, SMT DEF WithoutOpen, AttemptRow, Terminal
  <1>4. attempt'[a] = row
    <2> HIDE DEF row, closed
    <2> QED BY <1>1, <1>3, Zenon
  <1>5. /\ attempt'[a].status = "created" /\ attempt'[a].order = o
        /\ attempt'[a].amount = Outstanding(o) /\ ~attempt'[a].unapplied
    BY <1>4
  <1>6. ASSUME NEW b \in Attempts \ {a} PROVE SameRow(b)
    <2>1. attempt'[b] = closed[b]
      <3> HIDE DEF row, closed
      <3> QED BY <1>1, <1>3, Zenon
    <2>2. CASE b \in OpenOn(o)
      <3>1. closed[b] = [attempt[b] EXCEPT !.status = "cancelled"]
        BY <2>2, Zenon DEF WithoutOpen
      <3>2. /\ closed[b].status = "cancelled" /\ closed[b].order = attempt[b].order
            /\ closed[b].amount = attempt[b].amount /\ closed[b].unapplied = attempt[b].unapplied
        <4> HIDE DEF closed
        <4> QED BY <1>2, <3>1, SMT DEF AttemptRow
      <3> QED BY <2>1, <2>2, <3>2, Zenon DEF OpenOn, Open, SameRow, SamePrice
    <2>3. CASE b \notin OpenOn(o)
      BY <2>1, <2>3, Zenon DEF WithoutOpen, SameRow, SamePrice
    <2> QED BY <2>2, <2>3
  <1>7. \A b \in Attempts : OwesTheSame(b)
    BY <1>1, UnchangedRefunds
  <1>8. ASSUME NEW b \in Attempts, NEW p PROVE Applied(b, p)' <=> Applied(b, p)
    <2>1. CASE b = a
      BY <1>1, <1>5, <2>1, Zenon DEF Applied
    <2>2. CASE b # a
      BY <1>6, <2>2, Zenon DEF Applied, SameRow, SamePrice
    <2> QED BY <2>1, <2>2
  <1>9. ASSUME NEW b \in Attempts, NEW p, Applied(b, p) PROVE attempt'[b].amount = attempt[b].amount
    <2>1. b # a
      BY <1>1, <1>9, Zenon DEF Applied
    <2> QED BY <1>6, <2>1, Zenon DEF SameRow, SamePrice
  <1>10. \A p : Paid(p)' = Paid(p)
    BY <1>8, <1>9, PaidStays, Zenon DEF MoneyInv
  <1>11. Outstanding(o) \in 0..Total
    BY OutstandingIs, Zenon DEF MoneyInv, Collected
  <1>12. Prices'
    <2>1. \A b \in Attempts : attempt'[b].amount \in 0..Total
      BY <1>5, <1>6, <1>11, Zenon DEF MoneyInv, Prices, SameRow, SamePrice
    <2> QED BY <1>1, <2>1, Zenon DEF MoneyInv, Prices
  <1>13. Standing'
    BY <1>1, Zenon DEF MoneyInv, Standing
  <1>14. Collected'
    BY <1>1, <1>10, Zenon DEF MoneyInv, Collected, NeverOverCollected
  <1>15. ASSUME NEW b \in Attempts \ {a} PROVE Assigned(b)'
    <2>1. SameRow(b) /\ OwesTheSame(b) /\ Assigned(b)
      BY <1>6, <1>7, Zenon DEF MoneyInv
    <2>2. /\ Applied(b, "deposit")' <=> Applied(b, "deposit")
          /\ Applied(b, "balance")' <=> Applied(b, "balance")
      BY <1>8, Zenon
    <2> QED BY <1>1, <2>1, <2>2, Zenon DEF Assigned, SameRow, SamePrice, OwesTheSame
  <1>16. Assigned(a)'
    <2>1. ~Applied(a, "deposit")' /\ ~Applied(a, "balance")'
      BY <1>5, Zenon DEF Applied
    <2>2. o = "balance" /\ deal = "payment_required" => Outstanding(o) = Total - order["balance"].credit
      <3>1. ASSUME o = "balance", deal = "payment_required"
            PROVE  Outstanding(o) = Total - order["balance"].credit
        <4>1. order[o].amount = Total /\ Paid(o) = 0
          BY <3>1, BalanceUnpaid, Zenon DEF MoneyInv, Standing
        <4>2. Outstanding(o) = order[o].amount - (order[o].credit + Paid(o))
          BY OutstandingIs, Zenon DEF MoneyInv, Collected
        <4>3. order[o].credit \in 0..Total /\ Total \in Nat
          BY OrderRow, Zenon DEF MoneyInv
        <4> QED BY <3>1, <4>1, <4>2, <4>3, SMT
      <3> QED BY <3>1
    <2> QED BY <1>1, <1>5, <2>1, <2>2, Zenon DEF Assigned
  <1> QED BY <1>12, <1>13, <1>14, <1>15, <1>16, Zenon DEF MoneyInv
-----------------------------------------------------------------------------
(* A success that is recorded: applied to its order, or owed back.         *)
LEMMA CaptureKeepsMoney ==
    ASSUME IInv, MoneyInv, NEW a \in Attempts, session[a] = "paid", Capture(a)
    PROVE  MoneyInv'
  <1>1. /\ attempt[a].status \notin {"none", "succeeded"} /\ ~attempt[a].unapplied /\ ~Obliged(a)
        /\ attempt[a].order \in OrderIds /\ order[attempt[a].order].made
    <2>1. attempt[a].order \in OrderIds
      BY SMT DEF IInv, Tables, IsAttempts, AttemptRow
    <2> QED BY <2>1, Zenon DEF IInv, MoneyInv, Reached, Repaid, Assigned, Capture
  <1>2. PICK p \in OrderIds : p = attempt[a].order
    BY <1>1
  <1>3. /\ UNCHANGED <<order, refund>> /\ ~order[p].cancelled
        /\ Outstanding(p) >= attempt[a].amount
    BY <1>2 DEF Capture, Absorbable
  <1>4. ASSUME NEW b \in Attempts
        PROVE  /\ SamePrice(b)
               /\ IF b = a THEN attempt'[b].status = "succeeded"
                  ELSE attempt'[b].status = attempt[b].status
    BY SetStatusPrices, Zenon DEF Capture, IInv, Tables
  <1>5. ASSUME NEW b \in Attempts, b # a PROVE SameRow(b)
    BY <1>4, <1>5, Zenon DEF SameRow
  <1>6. ASSUME NEW b \in Attempts, b # a, NEW o PROVE Applied(b, o)' <=> Applied(b, o)
    BY <1>5, <1>6, Zenon DEF Applied, SameRow, SamePrice
  <1>7. /\ Applied(a, p)' /\ \A o : ~Applied(a, o)
        /\ \A o : o # p => ~Applied(a, o)'
    BY <1>1, <1>4, <1>2, Zenon DEF Applied, SamePrice
  <1>8. \A b \in Attempts : OwesTheSame(b)
    BY <1>3, UnchangedRefunds
  <1>9. \A b \in Attempts : attempt'[b].amount = attempt[b].amount
    BY <1>4, Zenon DEF SamePrice
  <1>10. Paid(p)' = Paid(p) + attempt[a].amount
    <2> QED BY <1>6, <1>7, <1>9, PaidGrows, Zenon DEF MoneyInv
  <1>11. ASSUME NEW o, o # p PROVE Paid(o)' = Paid(o)
    <2>1. \A b \in Attempts : Applied(b, o)' <=> Applied(b, o)
      BY <1>6, <1>7, <1>11, Zenon
    <2> QED BY <1>9, <2>1, PaidStays, Zenon DEF MoneyInv
  <1>12. attempt[a].amount \in 0..Total /\ Paid(p) \in Nat /\ Total \in Nat
    BY PaidIsNatural, PaymentsAssumption, SMT DEF MoneyInv, Prices
  <1>13. order[p].credit + Paid(p)' <= order[p].amount
    <2>1. Outstanding(p) = order[p].amount - (order[p].credit + Paid(p))
      BY <1>1, OutstandingIs, Zenon DEF MoneyInv, Collected
    <2>2. order[p].credit \in Nat /\ order[p].amount \in Nat
      BY <1>1, OrderRow, SMT DEF MoneyInv
    <2> QED BY <1>3, <1>10, <1>12, <2>1, <2>2, SMT
  <1>14. NeverOverCollected'
    <2>1. ASSUME NEW o \in OrderIds PROVE order[o].credit + Paid(o)' <= order[o].amount
      <3>1. CASE o = p
        BY <1>13, <3>1, Zenon
      <3>2. CASE o # p
        BY <1>11, <3>2, Zenon DEF MoneyInv, Collected, NeverOverCollected
      <3> QED BY <3>1, <3>2
    <2> QED BY <1>3, <2>1, Zenon DEF NeverOverCollected
  <1>15. order["balance"].credit <= Paid("deposit")'
    <2>1. order["balance"].credit <= Paid("deposit")
      BY DEF MoneyInv, Collected
    <2>2. CASE p = "deposit"
      <3>1. order["balance"].credit \in 0..Total
        BY OrderRow, Zenon DEF MoneyInv, OrderIds
      <3>2. Paid("deposit")' = Paid("deposit") + attempt[a].amount /\ Paid("deposit") \in Nat
        BY <1>10, <1>12, <2>2, Zenon
      <3> QED BY <1>12, <2>1, <3>1, <3>2, SMT
    <2>3. CASE p # "deposit"
      BY <1>11, <2>1, <2>3, Zenon
    <2> QED BY <2>2, <2>3
  <1>16. CASE p = "deposit"
    <2>1. /\ UNCHANGED deal
          /\ \/ request = "awaiting_deposit" /\ request' = "open"
                /\ expiryJob' = IF expiryJob = "none" THEN "armed" ELSE expiryJob
             \/ UNCHANGED <<request, expiryJob>>
      BY <1>16, <1>2, Zenon DEF Capture, PublishAfterDeposit
    <2>2. Prices'
      <3>1. request' \in Requests /\ expiryJob' \in {"none", "armed", "refunding", "done"}
        BY <2>1, SMT DEF MoneyInv, Prices, Requests
      <3> QED BY <1>3, <1>9, <2>1, <3>1, Zenon DEF MoneyInv, Prices
    <2>3. Standing'
      <3>1. request = "awaiting_deposit" => expiryJob = "none" /\ deal \notin {"payment_required", "active"}
        BY Zenon DEF MoneyInv, Standing
      <3>2. /\ expiryJob' # "none" => request' # "awaiting_deposit"
            /\ expiryJob' = "refunding" => request' \in {"expired", "cancelled"}
            /\ deal \in {"payment_required", "active"} => request' = "matched"
        BY <2>1, <3>1, Zenon DEF MoneyInv, Standing
      <3> QED BY <1>3, <2>1, <3>2, Zenon DEF MoneyInv, Standing
    <2>4. Paid("balance")' = Paid("balance")
      BY <1>11, <1>16, Zenon
    <2>5. Collected'
      BY <1>3, <1>14, <1>15, <2>1, <2>4, Zenon DEF MoneyInv, Collected
    <2>6. ASSUME NEW b \in Attempts, b # a PROVE Assigned(b)'
      <3>1. SameRow(b) /\ OwesTheSame(b) /\ Assigned(b)
        BY <1>5, <1>8, <2>6, Zenon DEF MoneyInv
      <3>2. /\ Applied(b, "deposit")' <=> Applied(b, "deposit")
            /\ Applied(b, "balance")' <=> Applied(b, "balance")
        BY <1>6, <2>6, Zenon
      <3> QED BY <1>3, <2>1, <3>1, <3>2, Zenon DEF Assigned, SameRow, SamePrice, OwesTheSame
    <2>7. Assigned(a)'
      <3>1. ~Applied(a, "balance")' /\ ~Obliged(a)' /\ SamePrice(a)
        BY <1>1, <1>4, <1>7, <1>8, <1>16, Zenon DEF OwesTheSame
      <3> QED BY <1>1, <1>3, <1>16, <1>2, <3>1, Zenon DEF Assigned, SamePrice
    <2> QED BY <2>2, <2>3, <2>5, <2>6, <2>7, Zenon DEF MoneyInv
  <1>17. CASE p = "balance"
    <2>1. UNCHANGED <<request, expiryJob>> /\ deal = "payment_required" /\ deal' = "active"
      BY <1>17, <1>2, Zenon DEF Capture
    <2>2. Prices'
      <3>1. deal' \in Deals
        BY <2>1 DEF Deals
      <3> QED BY <1>3, <1>9, <2>1, <3>1, Zenon DEF MoneyInv, Prices
    <2>3. Standing'
      BY <1>3, <2>1, Zenon DEF MoneyInv, Standing
    <2>4. order["balance"].credit + Paid("balance")' = Total
      <3>1. Paid("balance") = 0
        BY <2>1, BalanceUnpaid, Zenon
      <3>2. attempt[a].amount = Total - order["balance"].credit
        BY <1>1, <1>17, <1>2, <2>1, Zenon DEF MoneyInv, Assigned
      <3>3. order["balance"].credit \in 0..Total
        BY OrderRow, Zenon DEF MoneyInv, OrderIds
      <3>4. Paid("balance")' = 0 + attempt[a].amount
        BY <1>10, <1>17, <3>1, Zenon
      <3> QED BY <1>12, <3>2, <3>3, <3>4, SMT
    <2>5. Collected'
      BY <1>3, <1>14, <1>15, <2>1, <2>4, Zenon DEF MoneyInv, Collected
    <2>6. ASSUME NEW b \in Attempts, b # a PROVE Assigned(b)'
      <3>1. SameRow(b) /\ OwesTheSame(b) /\ Assigned(b)
        BY <1>5, <1>8, <2>6, Zenon DEF MoneyInv
      <3>2. /\ Applied(b, "deposit")' <=> Applied(b, "deposit")
            /\ Applied(b, "balance")' <=> Applied(b, "balance")
        BY <1>6, <2>6, Zenon
      <3> QED BY <1>3, <2>1, <3>1, <3>2, Zenon DEF Assigned, SameRow, SamePrice, OwesTheSame
    <2>7. Assigned(a)'
      <3>1. ~Applied(a, "deposit")' /\ ~Obliged(a)' /\ SamePrice(a)
        BY <1>1, <1>4, <1>7, <1>8, <1>17, Zenon DEF OwesTheSame
      <3> QED BY <1>1, <1>3, <1>17, <1>2, <2>1, <3>1, Zenon DEF Assigned, SamePrice
    <2> QED BY <2>2, <2>3, <2>5, <2>6, <2>7, Zenon DEF MoneyInv
  <1> QED BY <1>16, <1>17, <1>2 DEF OrderIds

LEMMA UnappliedKeepsMoney ==
    ASSUME IInv, MoneyInv, NEW a \in Attempts, session[a] = "paid", CaptureUnapplied(a)
    PROVE  MoneyInv'
  <1>1. /\ attempt[a].status \notin {"none", "succeeded"}
        /\ attempt[a].order \in OrderIds /\ order[attempt[a].order].made
    <2>1. attempt[a].order \in OrderIds
      BY SMT DEF IInv, Tables, IsAttempts, AttemptRow
    <2> QED BY <2>1, Zenon DEF IInv, MoneyInv, Reached, Assigned, CaptureUnapplied
  <1>2. UNCHANGED <<order, request, deal, expiryJob>>
    BY DEF CaptureUnapplied, domainVars
  <1>3. PICK amounts : attempt \in [Attempts -> AttemptRow(amounts)]
    BY Zenon DEF IInv, Tables, IsAttempts
  <1>4. attempt' = [attempt EXCEPT ![a].status = "succeeded", ![a].unapplied = TRUE]
    BY DEF CaptureUnapplied
  <1>5. /\ attempt'[a].status = "succeeded" /\ attempt'[a].unapplied
        /\ attempt'[a].order = attempt[a].order /\ attempt'[a].amount = attempt[a].amount
    BY <1>3, <1>4, SMT DEF AttemptRow
  <1>6. \A b \in Attempts \ {a} : attempt'[b] = attempt[b]
    BY <1>3, <1>4, SMT DEF AttemptRow
  <1>7. Obliged(a)' /\ \A b \in Attempts \ {a} : OwesTheSame(b)
    <2>1. refund' = [refund EXCEPT ![a] = NewRefund] /\ refund \in [Attempts -> Refund]
      BY Zenon DEF CaptureUnapplied, IInv, Tables
    <2>2. refund'[a] = NewRefund /\ \A b \in Attempts \ {a} : refund'[b] = refund[b]
      BY <2>1, Zenon
    <2>3. refund'[a].status = "pending"
      BY <2>2, NewRefundIsPending, Zenon
    <2> QED BY <2>2, <2>3, Zenon DEF Obliged, OwesTheSame
  <1>8. ASSUME NEW b \in Attempts, NEW o PROVE Applied(b, o)' <=> Applied(b, o)
    BY <1>1, <1>5, <1>6, Zenon DEF Applied
  <1>9. \A b \in Attempts : attempt'[b].amount = attempt[b].amount
    BY <1>5, <1>6, Zenon
  <1>10. \A o : Paid(o)' = Paid(o)
    BY <1>8, <1>9, PaidStays, Zenon DEF MoneyInv
  <1>11. Prices'
    BY <1>2, <1>9, Zenon DEF MoneyInv, Prices
  <1>12. Standing'
    BY <1>2, Zenon DEF MoneyInv, Standing
  <1>13. Collected'
    BY <1>2, <1>10, Zenon DEF MoneyInv, Collected, NeverOverCollected
  <1>14. ASSUME NEW b \in Attempts, b # a PROVE Assigned(b)'
    <2>1. attempt'[b] = attempt[b] /\ OwesTheSame(b) /\ Assigned(b)
      BY <1>6, <1>7, <1>14, Zenon DEF MoneyInv
    <2>2. /\ Applied(b, "deposit")' <=> Applied(b, "deposit")
          /\ Applied(b, "balance")' <=> Applied(b, "balance")
      BY <1>8, Zenon
    <2> QED BY <1>2, <2>1, <2>2, Zenon DEF Assigned, OwesTheSame
  <1>15. Assigned(a)'
    <2>1. ~Applied(a, "deposit")' /\ ~Applied(a, "balance")'
      BY <1>5, Zenon DEF Applied
    <2> QED BY <1>1, <1>2, <1>5, <1>7, <2>1, Zenon DEF MoneyInv, Assigned
  <1> QED BY <1>11, <1>12, <1>13, <1>14, <1>15, Zenon DEF MoneyInv

LEMMA ReconcileKeepsMoney ==
    ASSUME IInv, MoneyInv, NEW a, NEW k, Reconcile(a, k),
           k = "succeeded" => a \in Attempts /\ session[a] = "paid"
    PROVE  MoneyInv'
  <1>1. ASSUME attempt[a].status \in Open, NEW s \in Closing, SetStatus(a, s),
               UNCHANGED <<order, refund, domainVars>>
        PROVE  MoneyInv'
    <2>1. attempt[a].status \notin {"none", "succeeded"}
      BY <1>1 DEF Open
    <2> QED BY <1>1, <2>1, StatusKeepsMoney
  <1>2. CASE MarkProcessing(a)
    BY <1>1, <1>2 DEF MarkProcessing, Closing
  <1>3. CASE CloseUnpaid(a)
    BY <1>1, <1>3 DEF CloseUnpaid, Closing
  <1>4. CASE k = "succeeded" /\ (Capture(a) \/ CaptureUnapplied(a))
    BY <1>4, CaptureKeepsMoney, UnappliedKeepsMoney, Zenon
  <1>5. CASE AlreadySettled(a, k)
    BY <1>5, RestKeepsMoney, Zenon DEF AlreadySettled
  <1> QED BY <1>2, <1>3, <1>4, <1>5, Zenon DEF Reconcile
-----------------------------------------------------------------------------
(* The marketplace's side, which prices, accepts, releases and cancels.    *)
LEMMA OrderOf ==
    ASSUME IInv, NEW a \in Attempts PROVE attempt[a].order \in {"deposit", "balance"}
  BY SMT DEF IInv, Tables, IsAttempts, AttemptRow, OrderIds

LEMMA SetDepositKeepsMoney ==
    ASSUME IInv, MoneyInv, NEW cents \in 1..Total, SetDeposit(cents) PROVE MoneyInv'
  <1>1. UNCHANGED <<attempt, refund, request, deal, expiryJob>>
    BY DEF SetDeposit, domainVars
  <1>2. order \in [OrderIds -> Order] /\ "deposit" \in OrderIds /\ "balance" \in OrderIds
    BY DEF MoneyInv, Prices, OrderIds
  <1>3. /\ order' \in [OrderIds -> Order] /\ order'["balance"] = order["balance"]
        /\ order'["deposit"].made /\ order'["deposit"].amount = cents
        /\ order'["deposit"].cancelled = order["deposit"].cancelled
        /\ order'["deposit"].credit = order["deposit"].credit
    <2>1. PICK yes \in BOOLEAN :
            yes /\ order' = [order EXCEPT !["deposit"].made = yes, !["deposit"].amount = cents]
      BY Zenon DEF SetDeposit
    <2>2. PICK once : once = [order EXCEPT !["deposit"].made = yes]
      OBVIOUS
    <2>3. /\ once \in [OrderIds -> Order] /\ once["balance"] = order["balance"]
          /\ once["deposit"].made = yes /\ once["deposit"].credit = order["deposit"].credit
          /\ once["deposit"].cancelled = order["deposit"].cancelled
      BY <1>2, <2>2, SMT DEF Order
    <2>4. order' = [once EXCEPT !["deposit"].amount = cents]
      BY <2>1, <2>2, Zenon
    <2>5. cents \in 0..Total
      BY PaymentsAssumption, SMT
    <2>6. /\ order' \in [OrderIds -> Order] /\ order'["balance"] = once["balance"]
          /\ order'["deposit"].made = once["deposit"].made /\ order'["deposit"].amount = cents
          /\ order'["deposit"].cancelled = once["deposit"].cancelled
          /\ order'["deposit"].credit = once["deposit"].credit
      BY <1>2, <2>3, <2>4, <2>5, SMT DEF Order
    <2> QED BY <2>1, <2>3, <2>6, Zenon
  <1>4. \A a \in Attempts : \A p : Applied(a, p)' <=> Applied(a, p)
    BY <1>1, Zenon DEF Applied
  <1>5. \A p : Paid(p)' = Paid(p)
    BY <1>1, <1>4, PaidStays, Zenon DEF MoneyInv
  <1>6. Paid("deposit") = 0
    <2>1. ASSUME ~order["deposit"].made PROVE AppliedTo("deposit") = {}
      BY <2>1 DEF MoneyInv, Assigned, AppliedTo, Applied
    <2>2. AppliedTo("deposit") = {} => Paid("deposit") = 0
      BY NothingIsNothing, Zenon DEF Paid
    <2> QED BY <2>1, <2>2, Zenon DEF SetDeposit
  <1>7. Prices'
    BY <1>1, <1>3, Zenon DEF MoneyInv, Prices
  <1>8. Standing'
    BY <1>1, <1>3, Zenon DEF MoneyInv, Standing
  <1>9. Collected'
    <2>1. order'["deposit"].credit + Paid("deposit")' <= order'["deposit"].amount
      <3>1. order'["deposit"].credit = 0 /\ Paid("deposit")' = 0
        BY <1>3, <1>5, <1>6, Zenon DEF MoneyInv, Standing
      <3> QED BY <1>3, <3>1, SMT
    <2>2. order'["balance"].credit + Paid("balance")' <= order'["balance"].amount
      BY <1>2, <1>3, <1>5, Zenon DEF MoneyInv, Collected, NeverOverCollected
    <2>3. NeverOverCollected'
      BY <2>1, <2>2 DEF NeverOverCollected, OrderIds
    <2> QED BY <1>1, <1>3, <1>5, <2>3, Zenon DEF MoneyInv, Collected
  <1>10. ASSUME NEW a \in Attempts PROVE Assigned(a)'
    <2>1. Assigned(a) /\ (Obliged(a)' <=> Obliged(a))
      BY <1>1, Zenon DEF MoneyInv, Obliged
    <2>2. /\ Applied(a, "deposit")' <=> Applied(a, "deposit")
          /\ Applied(a, "balance")' <=> Applied(a, "balance")
      BY <1>4, Zenon
    <2>3. order[attempt[a].order].made => order'[attempt[a].order].made
      <3>1. attempt[a].order \in {"deposit", "balance"}
        BY OrderOf
      <3> QED BY <1>3, <3>1, Zenon
    <2> QED BY <1>1, <1>3, <2>1, <2>2, <2>3, Zenon DEF Assigned
  <1> QED BY <1>7, <1>8, <1>9, <1>10, Zenon DEF MoneyInv

LEMMA SmallerOfTwo ==
    ASSUME NEW m \in Nat, NEW n \in Nat
    PROVE  Min({m, n}) \in Nat /\ Min({m, n}) <= m /\ Min({m, n}) <= n
  <1>1. \E x \in {m, n} : \A y \in {m, n} : x <= y
    BY SMT
  <1>2. Min({m, n}) \in {m, n} /\ \A y \in {m, n} : Min({m, n}) <= y
    BY <1>1, Zenon DEF Min
  <1> QED BY <1>2

LEMMA CreditIs ==
    ASSUME Prices
    PROVE  /\ Credit \in 0..Total /\ Credit <= Paid("deposit")
           /\ Credit > 0 => IsPaid("deposit")
  <1>1. PICK paid \in Nat : paid = Paid("deposit")
    BY PaidIsNatural, Zenon
  <1>2. Total \in Nat
    BY PaymentsAssumption
  <1>3. Credit = IF IsPaid("deposit") THEN Min({paid, Total}) ELSE 0
    BY <1>1, Zenon DEF Credit
  <1>4. Min({paid, Total}) \in Nat /\ Min({paid, Total}) <= paid /\ Min({paid, Total}) <= Total
    BY <1>2, SmallerOfTwo
  <1> QED BY <1>1, <1>2, <1>3, <1>4

LEMMA AcceptKeepsMoney ==
    ASSUME IInv, MoneyInv, AcceptOffer PROVE MoneyInv'
  <1>1. /\ UNCHANGED <<attempt, refund, expiryJob>> /\ request = "open" /\ request' = "matched"
        /\ deal = "none"
    BY DEF AcceptOffer
  <1>2. order \in [OrderIds -> Order] /\ "deposit" \in OrderIds /\ "balance" \in OrderIds
    BY DEF MoneyInv, Prices, OrderIds
  <1>3. /\ Credit \in 0..Total /\ Credit <= Paid("deposit")
        /\ Credit > 0 => IsPaid("deposit")
    BY CreditIs, Zenon DEF MoneyInv
  <1>4. order' = [order EXCEPT !["balance"] = [made |-> TRUE, cancelled |-> FALSE,
                                               amount |-> Total, credit |-> Credit]]
    BY Zenon DEF AcceptOffer
  <1>5. deal' = IF Credit = Total THEN "active" ELSE "payment_required"
    BY Zenon DEF AcceptOffer
  <1>6. /\ order' \in [OrderIds -> Order] /\ order'["deposit"] = order["deposit"]
        /\ order'["balance"].made /\ ~order'["balance"].cancelled
        /\ order'["balance"].amount = Total /\ order'["balance"].credit = Credit
    BY <1>2, <1>3, <1>4, PaymentsAssumption, SMT DEF Order
  <1>7. \A a \in Attempts : \A p : Applied(a, p)' <=> Applied(a, p)
    BY <1>1, Zenon DEF Applied
  <1>8. \A p : Paid(p)' = Paid(p)
    BY <1>1, <1>7, PaidStays, Zenon DEF MoneyInv
  <1>9. Paid("balance") = 0
    BY <1>1, BalanceUnpaid, Zenon
  <1>10. Credit > 0 => ~order["deposit"].cancelled /\ \A a \in AppliedTo("deposit") : ~Obliged(a)
    BY <1>3, Zenon DEF IsPaid
  <1>11. Prices'
    <2>1. deal' \in Deals /\ request' \in Requests
      BY <1>1, <1>5 DEF Deals, Requests
    <2> QED BY <1>1, <1>6, <2>1, Zenon DEF MoneyInv, Prices
  <1>12. Standing'
    <2>1. deal' \in {"payment_required", "active"} /\ deal' # "none"
      BY <1>5
    <2>2. order["deposit"].credit = 0 /\ expiryJob # "refunding"
      BY <1>1, Zenon DEF MoneyInv, Standing
    <2> QED BY <1>1, <1>6, <1>10, <2>1, <2>2, Zenon DEF Standing
  <1>13. Collected'
    <2>1. order'["balance"].credit + Paid("balance")' = Credit
      <3>1. Credit + 0 = Credit
        BY <1>3, SMT
      <3> QED BY <1>6, <1>8, <1>9, <3>1, Zenon
    <2>2. Credit <= Total /\ (deal' = "active" => Credit = Total)
      BY <1>3, <1>5, SMT
    <2>3. order'["deposit"].credit + Paid("deposit")' <= order'["deposit"].amount
      BY <1>2, <1>6, <1>8, Zenon DEF MoneyInv, Collected, NeverOverCollected
    <2>4. NeverOverCollected'
      BY <1>6, <2>1, <2>2, <2>3, Zenon DEF NeverOverCollected, OrderIds
    <2> QED BY <1>3, <1>6, <1>8, <2>1, <2>2, <2>4, Zenon DEF Collected
  <1>14. ASSUME NEW a \in Attempts PROVE Assigned(a)'
    <2>1. Assigned(a) /\ (Obliged(a)' <=> Obliged(a)) /\ ~order["balance"].made
      BY <1>1, Zenon DEF MoneyInv, Obliged, Standing
    <2>2. /\ Applied(a, "deposit")' <=> Applied(a, "deposit")
          /\ Applied(a, "balance")' <=> Applied(a, "balance")
      BY <1>7, Zenon
    <2>3. attempt[a].order = "balance" => attempt[a].status = "none"
      BY <2>1, Zenon DEF Assigned
    <2>4. attempt[a].status # "none" => order'[attempt[a].order].made
      <3>1. attempt[a].order \in {"deposit", "balance"}
        BY OrderOf
      <3> QED BY <1>6, <2>1, <3>1, Zenon DEF Assigned
    <2>5. ~Applied(a, "balance")
      BY <1>1, <2>1, Zenon DEF Assigned
    <2>6. Applied(a, "deposit") /\ Credit > 0 => ~Obliged(a)
      BY <1>10, Zenon DEF AppliedTo
    <2> QED BY <1>1, <1>6, <2>1, <2>2, <2>3, <2>4, <2>5, <2>6, Zenon DEF Assigned
  <1> QED BY <1>11, <1>12, <1>13, <1>14, Zenon DEF MoneyInv

LEMMA ReleaseKeepsMoney ==
    ASSUME IInv, MoneyInv, ReleaseDeal PROVE MoneyInv'
  <1>1. /\ UNCHANGED <<refund, expiryJob>> /\ request = "matched" /\ request' = "open"
        /\ deal = "payment_required" /\ deal' = "released"
        /\ order["balance"].made /\ ~order["balance"].cancelled
    BY Zenon DEF ReleaseDeal, MoneyInv, Standing
  <1>2. order \in [OrderIds -> Order] /\ "deposit" \in OrderIds /\ "balance" \in OrderIds
    BY DEF MoneyInv, Prices, OrderIds
  <1>3. Paid("balance") = 0 /\ Obligated("balance") = 0
    BY <1>1, BalanceUnpaid, Zenon
  <1>4. MayCancelOrder("balance")
    BY <1>1, <1>3, SMT DEF MayCancelOrder
  <1>5. /\ order' = [order EXCEPT !["balance"].cancelled = TRUE, !["balance"].credit = 0]
        /\ attempt' = WithoutOpen("balance")
    BY <1>4, Zenon DEF ReleaseDeal, CancelOrder
  <1>6. /\ order' \in [OrderIds -> Order] /\ order'["deposit"] = order["deposit"]
        /\ order'["balance"].made /\ order'["balance"].amount = order["balance"].amount
        /\ order'["balance"].credit = 0
    <2>1. PICK yes \in BOOLEAN :
            yes /\ order' = [order EXCEPT !["balance"].cancelled = yes, !["balance"].credit = 0]
      BY <1>5, Zenon
    <2>2. PICK once : once = [order EXCEPT !["balance"].cancelled = yes]
      OBVIOUS
    <2>3. /\ once \in [OrderIds -> Order] /\ once["deposit"] = order["deposit"]
          /\ once["balance"].made = order["balance"].made
          /\ once["balance"].amount = order["balance"].amount
      BY <1>2, <2>2, SMT DEF Order
    <2>4. order' = [once EXCEPT !["balance"].credit = 0]
      BY <2>1, <2>2, Zenon
    <2>5. 0 \in 0..Total
      BY PaymentsAssumption, SMT
    <2>6. /\ order' \in [OrderIds -> Order] /\ order'["deposit"] = once["deposit"]
          /\ order'["balance"].made = once["balance"].made
          /\ order'["balance"].amount = once["balance"].amount /\ order'["balance"].credit = 0
      BY <1>2, <2>3, <2>4, <2>5, SMT DEF Order
    <2> QED BY <1>1, <2>3, <2>6, Zenon
  <1>7. \A a \in Attempts : SameRow(a) /\ OwesTheSame(a)
    BY <1>1, <1>5, WithoutOpenPrices, UnchangedRefunds, Zenon DEF IInv, Tables
  <1>8. \A a \in Attempts : \A p : Applied(a, p)' <=> Applied(a, p)
    BY <1>7, Zenon DEF Applied, SameRow, SamePrice
  <1>9. \A p : Paid(p)' = Paid(p)
    BY <1>7, <1>8, PaidStays, Zenon DEF MoneyInv, SameRow, SamePrice
  <1>10. Prices'
    <2>1. deal' \in Deals /\ request' \in Requests
      BY <1>1 DEF Deals, Requests
    <2> QED BY <1>1, <1>6, <1>7, <2>1, Zenon DEF MoneyInv, Prices, SameRow, SamePrice
  <1>11. Standing'
    <2>1. order["deposit"].credit = 0 /\ expiryJob # "refunding"
      BY <1>1, Zenon DEF MoneyInv, Standing
    <2>2. ~ (order'["balance"].credit > 0)
      BY <1>6, SMT
    <2>3. deal' # "none" /\ deal' \notin {"payment_required", "active"} /\ request' # "awaiting_deposit"
      BY <1>1
    <2> QED BY <1>1, <1>6, <2>1, <2>2, <2>3, Zenon DEF Standing
  <1>12. Collected'
    <2>1. order'["balance"].credit + Paid("balance")' <= order'["balance"].amount
      <3>1. order'["balance"].credit = 0 /\ Paid("balance")' = 0 /\ order'["balance"].amount \in 0..Total
        BY <1>2, <1>3, <1>6, <1>9, OrderRow, Zenon DEF MoneyInv
      <3> QED BY <3>1, PaymentsAssumption, SMT
    <2>2. order'["deposit"].credit + Paid("deposit")' <= order'["deposit"].amount
      BY <1>2, <1>6, <1>9, Zenon DEF MoneyInv, Collected, NeverOverCollected
    <2>3. NeverOverCollected'
      BY <2>1, <2>2 DEF NeverOverCollected, OrderIds
    <2>4. order'["balance"].credit <= Paid("deposit")'
      <3>1. Paid("deposit") \in Nat
        BY PaidIsNatural, Zenon DEF MoneyInv
      <3>2. 0 <= Paid("deposit")
        BY <3>1, SMT
      <3> QED BY <1>6, <1>9, <3>2, Zenon
    <2> QED BY <1>1, <2>3, <2>4, Zenon DEF Collected
  <1>13. ASSUME NEW a \in Attempts PROVE Assigned(a)'
    <2>1. Assigned(a) /\ SameRow(a) /\ OwesTheSame(a)
      BY <1>7, Zenon DEF MoneyInv
    <2>2. /\ Applied(a, "deposit")' <=> Applied(a, "deposit")
          /\ Applied(a, "balance")' <=> Applied(a, "balance")
      BY <1>8, Zenon
    <2>3. attempt[a].status # "none" => order'[attempt[a].order].made
      <3>1. attempt[a].order \in {"deposit", "balance"}
        BY OrderOf
      <3> QED BY <1>6, <2>1, <3>1, Zenon DEF Assigned
    <2>4. ~Applied(a, "balance") /\ ~ (order'["balance"].credit > 0)
      <3>1. ~ (order'["balance"].credit > 0)
        BY <1>6, SMT
      <3> QED BY <1>1, <2>1, <3>1, Zenon DEF Assigned
    <2>5. deal' # "payment_required"
      BY <1>1
    <2> QED BY <1>6, <2>1, <2>2, <2>3, <2>4, <2>5, Zenon DEF Assigned, SameRow, SamePrice, OwesTheSame
  <1> QED BY <1>10, <1>11, <1>12, <1>13, Zenon DEF MoneyInv

LEMMA InFullOwesAll ==
    ASSUME NEW o, refund' = RefundInFull(o), NEW a \in Attempts
    PROVE  IF Applied(a, o) THEN Obliged(a)' ELSE OwesTheSame(a)
  <1>1. refund'[a] = IF a \in AppliedTo(o) /\ ~Obliged(a) THEN NewRefund ELSE refund[a]
    BY DEF RefundInFull
  <1>2. a \in AppliedTo(o) <=> Applied(a, o)
    BY DEF AppliedTo
  <1>3. NewRefund.status # "none"
    BY NewRefundIsPending
  <1> QED BY <1>1, <1>2, <1>3, Zenon DEF Obliged, OwesTheSame

LEMMA CancelKeepsMoney ==
    ASSUME IInv, MoneyInv, CancelRequest PROVE MoneyInv'
  <1>1. /\ UNCHANGED <<deal, expiryJob>> /\ request' = "cancelled"
        /\ request \in {"awaiting_deposit", "open"} /\ deal = "none"
        /\ refund' = RefundInFull("deposit") /\ attempt' = WithoutOpen("deposit")
    BY DEF CancelRequest
  <1>2. order \in [OrderIds -> Order] /\ "deposit" \in OrderIds /\ "balance" \in OrderIds
    BY DEF MoneyInv, Prices, OrderIds
  <1>3. /\ order' \in [OrderIds -> Order] /\ order'["balance"] = order["balance"]
        /\ order'["deposit"].made = order["deposit"].made
        /\ order'["deposit"].amount = order["deposit"].amount
        /\ order'["deposit"].credit = order["deposit"].credit
    <2>1. PICK yes \in BOOLEAN : order' = [order EXCEPT !["deposit"].cancelled = yes]
      <3>1. order["deposit"].made \in BOOLEAN
        BY <1>2, OrderRow, Zenon DEF MoneyInv
      <3> QED BY <3>1, Zenon DEF CancelRequest
    <2> QED BY <1>2, <2>1, SMT DEF Order
  <1>4. \A a \in Attempts : SameRow(a)
    BY <1>1, WithoutOpenPrices, Zenon DEF IInv, Tables
  <1>5. \A a \in Attempts : \A p : Applied(a, p)' <=> Applied(a, p)
    BY <1>4, Zenon DEF Applied, SameRow, SamePrice
  <1>6. \A p : Paid(p)' = Paid(p)
    BY <1>4, <1>5, PaidStays, Zenon DEF MoneyInv, SameRow, SamePrice
  <1>7. ~ (order["balance"].credit > 0)
    BY <1>1, Zenon DEF MoneyInv, Standing
  <1>8. Prices'
    <2>1. request' \in Requests
      BY <1>1 DEF Requests
    <2> QED BY <1>1, <1>3, <1>4, <2>1, Zenon DEF MoneyInv, Prices, SameRow, SamePrice
  <1>9. Standing'
    <2>1. request' \in {"expired", "cancelled"} /\ request' # "awaiting_deposit"
      BY <1>1
    <2>2. deal \notin {"payment_required", "active"}
      BY <1>1
    <2> QED BY <1>1, <1>3, <1>7, <2>1, <2>2, Zenon DEF MoneyInv, Standing
  <1>10. Collected'
    <2>1. \A o \in OrderIds : order'[o].credit = order[o].credit /\ order'[o].amount = order[o].amount
      BY <1>3 DEF OrderIds
    <2>2. NeverOverCollected'
      BY <1>6, <2>1, Zenon DEF MoneyInv, Collected, NeverOverCollected
    <2> QED BY <1>1, <1>3, <1>6, <2>2, Zenon DEF MoneyInv, Collected
  <1>11. ASSUME NEW a \in Attempts PROVE Assigned(a)'
    <2>1. Assigned(a) /\ SameRow(a)
      BY <1>4, Zenon DEF MoneyInv
    <2>2. /\ Applied(a, "deposit")' <=> Applied(a, "deposit")
          /\ Applied(a, "balance")' <=> Applied(a, "balance")
      BY <1>5, Zenon
    <2>3. Obliged(a) => Obliged(a)'
      BY <1>1, InFullOwesAll, Zenon DEF OwesTheSame
    <2>4. Applied(a, "deposit") => Obliged(a)'
      BY <1>1, InFullOwesAll, Zenon
    <2>5. ~Applied(a, "balance") /\ deal' # "payment_required"
      BY <1>1, <2>1, Zenon DEF Assigned
    <2>6. attempt[a].status # "none" => order'[attempt[a].order].made
      <3>1. attempt[a].order \in {"deposit", "balance"}
        BY OrderOf
      <3> QED BY <1>3, <2>1, <3>1, Zenon DEF Assigned
    <2> QED BY <1>3, <1>7, <2>1, <2>2, <2>3, <2>4, <2>5, <2>6, Zenon DEF Assigned, SameRow, SamePrice
  <1> QED BY <1>8, <1>9, <1>10, <1>11, Zenon DEF MoneyInv

(* The deposit's expiry job: it never finds a credit while it refunds.     *)
LEMMA RefundsDepositKeepsMoney ==
    ASSUME MoneyInv, JobRefundsDeposit PROVE MoneyInv'
  <1>1. /\ UNCHANGED <<order, attempt, request, deal>> /\ expiryJob' = "done"
        /\ expiryJob = "refunding" /\ refund' = RefundInFull("deposit")
    BY DEF JobRefundsDeposit
  <1>2. request \in {"expired", "cancelled"} /\ ~ (order["balance"].credit > 0)
    <2>1. request \in {"expired", "cancelled"}
      BY <1>1, Zenon DEF MoneyInv, Standing
    <2>2. request # "matched"
      BY <2>1
    <2> QED BY <2>1, <2>2, Zenon DEF MoneyInv, Standing
  <1>3. \A a \in Attempts : \A p : Applied(a, p)' <=> Applied(a, p)
    BY <1>1, Zenon DEF Applied
  <1>4. \A p : Paid(p)' = Paid(p)
    BY <1>1, <1>3, PaidStays, Zenon DEF MoneyInv
  <1>5. Prices'
    BY <1>1, SMT DEF MoneyInv, Prices
  <1>6. Standing'
    <2>1. expiryJob' # "refunding" /\ request # "awaiting_deposit"
      BY <1>1, <1>2
    <2> QED BY <1>1, <2>1, Zenon DEF MoneyInv, Standing
  <1>7. Collected'
    BY <1>1, <1>4, Zenon DEF MoneyInv, Collected, NeverOverCollected
  <1>8. ASSUME NEW a \in Attempts PROVE Assigned(a)'
    <2>1. Assigned(a) /\ attempt' = attempt
      BY <1>1, Zenon DEF MoneyInv
    <2>2. /\ Applied(a, "deposit")' <=> Applied(a, "deposit")
          /\ Applied(a, "balance")' <=> Applied(a, "balance")
      BY <1>3, Zenon
    <2>3. Applied(a, "balance") => ~Applied(a, "deposit")
      BY Zenon DEF Applied
    <2>4. /\ Obliged(a) => Obliged(a)'
          /\ ~Applied(a, "deposit") => (Obliged(a)' <=> Obliged(a))
      BY <1>1, InFullOwesAll, Zenon DEF OwesTheSame
    <2> QED BY <1>1, <1>2, <2>1, <2>2, <2>3, <2>4, Zenon DEF Assigned
  <1> QED BY <1>5, <1>6, <1>7, <1>8, Zenon DEF MoneyInv

LEMMA JobKeepsMoney ==
    ASSUME MoneyInv, UNCHANGED <<orderVars, deal>>,
           request' \in Requests, expiryJob' \in {"none", "armed", "refunding", "done"},
           request = "matched" <=> request' = "matched",
           expiryJob' # "none" => request' # "awaiting_deposit",
           expiryJob' = "refunding" => request' \in {"expired", "cancelled"}
    PROVE  MoneyInv'
  <1>1. UNCHANGED <<order, attempt, refund, deal>>
    BY DEF orderVars
  <1>2. \A a \in Attempts : \A p : Applied(a, p)' <=> Applied(a, p)
    BY <1>1, Zenon DEF Applied
  <1>3. \A p : Paid(p)' = Paid(p)
    BY <1>1, <1>2, PaidStays, Zenon DEF MoneyInv
  <1>4. Prices'
    BY <1>1, Zenon DEF MoneyInv, Prices
  <1>5. Standing'
    BY <1>1, Zenon DEF MoneyInv, Standing
  <1>6. Collected'
    BY <1>1, <1>3, Zenon DEF MoneyInv, Collected, NeverOverCollected
  <1>7. ASSUME NEW a \in Attempts PROVE Assigned(a)'
    BY <1>1, <1>2, <1>7, Zenon DEF MoneyInv, Assigned, Applied, Obliged
  <1> QED BY <1>4, <1>5, <1>6, <1>7, Zenon DEF MoneyInv

LEMMA JobsKeepMoney ==
    ASSUME MoneyInv, JobFindsMatch \/ JobExpiresRequest \/ JobDies PROVE MoneyInv'
  <1>1. request \in Requests
    BY DEF MoneyInv, Prices
  <1>2. expiryJob # "none" => request # "awaiting_deposit"
    BY DEF MoneyInv, Standing
  <1>3. CASE JobFindsMatch
    BY <1>1, <1>3, JobKeepsMoney, SMT DEF JobFindsMatch
  <1>4. CASE JobExpiresRequest
    <2>1. /\ expiryJob = "armed" /\ request # "matched" /\ request' = Expired(request)
          /\ expiryJob' \in {"done", "refunding"} /\ UNCHANGED <<orderVars, deal>>
      BY <1>4, SMT DEF JobExpiresRequest
    <2>2. request' \in {"expired", "cancelled"}
      BY <1>1, <1>2, <2>1, SMT DEF Expired, Requests
    <2>3. /\ request' \in Requests /\ request' # "matched" /\ request' # "awaiting_deposit"
          /\ expiryJob' \in {"none", "armed", "refunding", "done"}
      BY <2>1, <2>2, SMT DEF Requests
    <2> QED BY <2>1, <2>2, <2>3, JobKeepsMoney, Zenon
  <1>5. CASE JobDies
    BY <1>1, <1>2, <1>5, JobKeepsMoney, SMT DEF JobDies
  <1> QED BY <1>3, <1>4, <1>5

LEMMA DomainKeepsMoney ==
    ASSUME IInv, MoneyInv, DomainNext PROVE MoneyInv'
  BY SetDepositKeepsMoney, AcceptKeepsMoney, ReleaseKeepsMoney, CancelKeepsMoney,
     RefundsDepositKeepsMoney, JobsKeepMoney, Zenon DEF DomainNext

LEMMA PollKeepsMoney ==
    ASSUME IInv, MoneyInv, NEW a \in Attempts, PollProvider(a) PROVE MoneyInv'
  <1>1. PICK k : k = Answer(a)
    OBVIOUS
  <1>2. k = "succeeded" => session[a] = "paid"
    <2>1. session[a] \in {"none", "open", "processing", "paid", "closed"}
      BY Zenon DEF IInv, Tables
    <2> QED BY <1>1, <2>1, SMT DEF Answer
  <1>3. Reconcile(a, k)
    BY <1>1, Zenon DEF PollProvider
  <1> QED BY <1>2, <1>3, ReconcileKeepsMoney, Zenon

LEMMA ProcessKeepsMoney ==
    ASSUME IInv, MoneyInv, NEW a \in Attempts, NEW k, ProcessEvent(a, k) PROVE MoneyInv'
  <1>1. PICK c : c = event[a][k].bound
    OBVIOUS
  <1>2. Reconcile(c, k) /\ event[a][k].state = "received"
    BY <1>1, Zenon DEF ProcessEvent
  <1>3. k = "succeeded" => c = a /\ session[a] = "paid"
    BY <1>1, <1>2, Zenon DEF IInv, Informed
  <1> QED BY <1>2, <1>3, ReconcileKeepsMoney, Zenon

LEMMA CheckoutsKeepMoney ==
    ASSUME IInv, MoneyInv, CheckoutsNext PROVE MoneyInv'
  <1>1. ASSUME NEW a \in Attempts, ExpireAttempt(a) PROVE MoneyInv'
    <2>1. attempt[a].status \notin {"none", "succeeded"}
      BY <1>1 DEF ExpireAttempt, Open
    <2>2. "expired" \in Closing \union {"checkout_pending"}
      BY DEF Closing
    <2> QED BY <1>1, <2>1, <2>2, StatusKeepsMoney, Zenon DEF ExpireAttempt, CloseUnpaid
  <1>2. ASSUME NEW a \in Attempts, NEW o \in OrderIds, StartCheckout(a, o) PROVE MoneyInv'
    BY <1>2, StartKeepsMoney
  <1>3. ASSUME NEW a \in Attempts, NEW k \in Outcomes, ProcessEvent(a, k) PROVE MoneyInv'
    BY <1>3, ProcessKeepsMoney
  <1>4. ASSUME NEW a \in Attempts,
               \/ ProviderCreates(a) \/ CheckoutFails(a) \/ StoreSession(a) \/ CheckoutDies(a)
        PROVE  MoneyInv'
    BY <1>4, CallKeepsMoney
  <1>5. ASSUME NEW a \in Attempts,
               \/ PayerPays(a) \/ PayerDefers(a) \/ DebitSettles(a)
               \/ DebitFails(a) \/ SessionEnds(a) \/ ReceiveEvent(a)
        PROVE  MoneyInv'
    BY <1>5, SessionKeepsMoney
  <1>6. ASSUME NEW a \in Attempts, RecoverSession(a) \/ PollProvider(a) PROVE MoneyInv'
    BY <1>6, RecoverKeepsMoney, PollKeepsMoney
  <1> QED BY <1>1, <1>2, <1>3, <1>4, <1>5, <1>6, Zenon DEF CheckoutsNext, SessionsNext

LEMMA StepKeepsMoney ==
    ASSUME IInv, MoneyInv, [Next]_vars PROVE MoneyInv'
  <1>1. CASE Next
    BY <1>1, DomainKeepsMoney, CheckoutsKeepMoney, RefundsKeepMoney, Zenon DEF Next
  <1>2. CASE UNCHANGED vars
    <2>1. UNCHANGED <<orderVars, domainVars>>
      BY <1>2 DEF vars
    <2> QED BY <2>1, RestKeepsMoney
  <1> QED BY <1>1, <1>2

LEMMA NoMoneyYet == Init => MoneyInv
  <1>1. SUFFICES ASSUME Init PROVE MoneyInv
    OBVIOUS
  <1>2. OrdersInit
    BY <1>1 DEF Init
  <1>3. Prices
    <2>1. NoOrder \in Order /\ 0 \in 0..Total
      BY PaymentsAssumption, SMT DEF NoOrder, Order
    <2> QED BY <1>2, <2>1 DEF OrdersInit, Prices, Deals, Requests, NoAttempt
  <1>4. order["deposit"] = NoOrder /\ order["balance"] = NoOrder
    BY <1>2 DEF OrdersInit, OrderIds
  <1>5. Standing
    BY <1>2, <1>4 DEF OrdersInit, Standing, NoOrder
  <1>6. ASSUME NEW a \in Attempts PROVE attempt[a].status = "none" /\ ~attempt[a].unapplied
    BY <1>2 DEF OrdersInit, NoAttempt
  <1>7. \A a \in Attempts : Assigned(a)
    BY <1>6, Zenon DEF Assigned, Applied
  <1>8. ASSUME NEW o PROVE Paid(o) = 0
    <2>1. AppliedTo(o) = {}
      BY <1>6 DEF AppliedTo, Applied
    <2> QED BY <2>1, NothingIsNothing, Zenon DEF Paid
  <1>9. Collected
    BY <1>2, <1>4, <1>8 DEF OrdersInit, Collected, NeverOverCollected, OrderIds, NoOrder
  <1> QED BY <1>3, <1>5, <1>7, <1>9 DEF MoneyInv

LEMMA AlwaysMoneyInv == Spec => [](IInv /\ MoneyInv)
  <1>1. Init => MoneyInv
    BY NoMoneyYet
  <1>2. IInv /\ MoneyInv /\ [Next]_vars => MoneyInv'
    BY StepKeepsMoney
  <1> QED BY <1>1, <1>2, AlwaysIInv, PTL DEF Spec

(* No obligation collects more than it asks, whichever of its superseded,  *)
(* expired or cancelled attempts turn out to be paid, in whatever order    *)
(* (reconcile_attempt).                                                    *)
THEOREM NothingIsCollectedTwice == Spec => []NeverOverCollected
  <1>1. MoneyInv => NeverOverCollected
    BY DEF MoneyInv, Collected
  <1> QED BY <1>1, AlwaysMoneyInv, PTL

(* Money that serves no obligation is owed back (cancel_order,             *)
(* reconcile_attempt, cancel_delivery_request).                            *)
THEOREM IdleMoneyIsOwed == Spec => []UnusedMoneyIsOwed
  <1>1. IInv /\ MoneyInv => UnusedMoneyIsOwed
    <2>1. ASSUME IInv, MoneyInv, NEW a \in Attempts, attempt[a].status = "succeeded",
                 attempt[a].unapplied \/ order[attempt[a].order].cancelled
          PROVE  Obliged(a)
      <3>1. Assigned(a)
        BY <2>1 DEF MoneyInv
      <3>2. CASE attempt[a].unapplied
        BY <3>1, <3>2, Zenon DEF Assigned
      <3>3. CASE attempt[a].order = "deposit" /\ ~attempt[a].unapplied
        BY <2>1, <3>1, <3>3, Zenon DEF Assigned, Applied
      <3>4. CASE attempt[a].order = "balance" /\ ~attempt[a].unapplied
        <4>1. deal = "active"
          BY <2>1, <3>1, <3>4, Zenon DEF Assigned, Applied
        <4>2. ~order["balance"].cancelled
          BY <2>1, <4>1, Zenon DEF MoneyInv, Standing
        <4> QED BY <2>1, <3>4, <4>2, Zenon
      <3> QED BY <2>1, <3>2, <3>3, <3>4, OrderOf
    <2> QED BY <2>1, Zenon DEF UnusedMoneyIsOwed
  <1> QED BY <1>1, AlwaysMoneyInv, PTL

(* The deposit credited to a Deal is real, undivided and not owed back     *)
(* (accept_offer, handle_deposit_expiry_refund, cancel_delivery_request).  *)
LEMMA CreditIsSpentOnce == ASSUME MoneyInv PROVE DepositSpentOnce
  <1>1. ASSUME order["balance"].credit > 0 PROVE Obligated("deposit") = 0
    <2>1. {a \in AppliedTo("deposit") : Obliged(a)} = {}
      BY <1>1 DEF MoneyInv, Assigned, AppliedTo
    <2> QED BY <2>1, NothingIsNothing, Zenon DEF Obligated
  <1> QED BY <1>1, Zenon DEF DepositSpentOnce, MoneyInv, Collected, Standing

THEOREM DepositIsSpentOnce == Spec => []DepositSpentOnce
  BY CreditIsSpentOnce, AlwaysMoneyInv, PTL

(* A Deal is active only while captured money that nobody is owed covers   *)
(* its total (fund_deal and accept_offer, against every refund path).      *)
THEOREM FundingIsReal == Spec => []FundedByRealMoney
  <1>1. ASSUME IInv, MoneyInv, deal = "active"
        PROVE  /\ IsPaid("balance")
               /\ order["balance"].credit <= Held("deposit")
               /\ Total - order["balance"].credit <= Held("balance")
    <2>1. "deposit" \in OrderIds /\ "balance" \in OrderIds
      BY DEF OrderIds
    <2>2. ASSUME NEW o, \A a \in AppliedTo(o) : ~Obliged(a) PROVE Held(o) = Paid(o)
      <3>1. ASSUME NEW a \in AppliedTo(o) PROVE session[a] = "paid" /\ ~Obliged(a)
        <4>1. a \in Attempts /\ attempt[a].status = "succeeded"
          BY <3>1 DEF AppliedTo, Applied
        <4> QED BY <1>1, <2>2, <3>1, <4>1, Zenon DEF IInv, Reached
      <3>2. {a \in AppliedTo(o) : session[a] = "paid" /\ ~Obliged(a)} = AppliedTo(o)
        BY <3>1
      <3> QED BY <3>2, Zenon DEF Held, Paid
    <2>3. Held("balance") = Paid("balance") /\ \A a \in AppliedTo("balance") : ~Obliged(a)
      <3>1. \A a \in AppliedTo("balance") : ~Obliged(a)
        BY <1>1, Zenon DEF MoneyInv, Assigned, AppliedTo
      <3> QED BY <2>2, <3>1, Zenon
    <2>4. order["balance"].credit + Paid("balance") = Total /\ order["balance"].amount = Total
      BY <1>1, Zenon DEF MoneyInv, Collected, Standing
    <2>5. order["balance"].credit \in 0..Total /\ Paid("balance") \in Nat /\ Total \in Nat
      BY <1>1, <2>1, OrderRow, PaidIsNatural, PaymentsAssumption, SMT DEF MoneyInv
    <2>6. IsPaid("balance")
      <3>1. order["balance"].made /\ ~order["balance"].cancelled
        <4>1. deal # "none" /\ deal \in {"payment_required", "active"}
          BY <1>1
        <4> QED BY <1>1, <4>1, Zenon DEF MoneyInv, Standing
      <3>2. Outstanding("balance") = order["balance"].amount - (order["balance"].credit + Paid("balance"))
        BY <1>1, <2>1, OutstandingIs, Zenon DEF MoneyInv, Collected
      <3>3. Outstanding("balance") = 0
        BY <2>4, <2>5, <3>2, SMT
      <3> QED BY <2>3, <3>1, <3>3, Zenon DEF IsPaid
    <2>7. order["balance"].credit <= Held("deposit")
      <3>1. CASE order["balance"].credit > 0
        <4>1. \A a \in AppliedTo("deposit") : ~Obliged(a)
          BY <1>1, <3>1, Zenon DEF MoneyInv, Assigned, AppliedTo
        <4>2. Held("deposit") = Paid("deposit")
          BY <2>2, <4>1, Zenon
        <4> QED BY <1>1, <4>2, Zenon DEF MoneyInv, Collected
      <3>2. CASE ~ (order["balance"].credit > 0)
        <4>1. Held("deposit") \in Nat
          <5>1. {a \in AppliedTo("deposit") : session[a] = "paid" /\ ~Obliged(a)} \in SUBSET Attempts
            BY DEF AppliedTo
          <5> QED BY <1>1, <5>1, PaidIsNat, Zenon DEF Held, MoneyInv
        <4> QED BY <2>5, <3>2, <4>1, SMT
      <3> QED BY <3>1, <3>2
    <2>8. Total - order["balance"].credit <= Held("balance")
      <3>1. Total - order["balance"].credit <= Paid("balance")
        BY <2>4, <2>5, SMT
      <3> QED BY <2>3, <3>1, Zenon
    <2> QED BY <2>6, <2>7, <2>8
  <1>2. IInv /\ MoneyInv => FundedByRealMoney
    BY <1>1, Zenon DEF FundedByRealMoney
  <1> QED BY <1>2, AlwaysMoneyInv, PTL
=============================================================================
