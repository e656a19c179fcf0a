-------------------------- MODULE MarketplaceProofs --------------------------
(***************************************************************************)
(* Whatever travelers, senders, jobs and crashes do at once, for any       *)
(* requests, journeys and Boosts: a request is taken by one Deal, its      *)
(* Boost is promised once, a cancelled journey keeps nothing, and a leg    *)
(* carries what it can unless money came late.                             *)
(***************************************************************************)
EXTENDS Marketplace, SumLemmas

(* cancel_journey works under the status it committed first, so its list   *)
(* cannot grow stale: nothing is accepted on that journey any more.        *)
Clearing(j) ==
    /\ cancelling[j] # "idle" => journey[j] = "cancelled"
    /\ cancelling[j] = "listed" =>
         \A c \in On(j) : deal[c].status = "payment_required" => c \in toRelease[j]

IInv ==
    /\ MarketTypeOK /\ TakenByOneDeal /\ BoostPromisedOnce /\ CancelledJourneyIsCleared
    /\ \A j \in Journeys : Clearing(j)
-----------------------------------------------------------------------------
LEMMA SidesOf ==
    ASSUME NEW c \in Candidates
    PROVE  c[1] \in Requests /\ c[2] \in Journeys /\ c \in For(c[1]) /\ c \in On(c[2])
  <1>1. c \in Requests \X Journeys
    BY MarketAssumption, Zenon DEF MarketAssumption
  <1>2. c[1] \in Requests /\ c[2] \in Journeys
    BY <1>1, SMT
  <1> QED BY <1>2, Zenon DEF For, On

(* What the invariant says of one candidate.                               *)
LEMMA OfOne ==
    ASSUME IInv, NEW c \in Candidates
    PROVE  /\ Live(c) <=> deal[c].status \in {"payment_required", "funded"}
           /\ Live(c) => request[c[1]] = "matched"
           /\ \A d \in Candidates : d[1] = c[1] /\ Live(c) /\ Live(d) => c = d
           /\ match[c] = "pending" => request[c[1]] \notin {"matched", "cancelled", "closed"}
           /\ match[c] = "pending" => ~Live(c)
  <1>1. c \in For(c[1]) /\ c[1] \in Requests
    BY SidesOf
  <1>2. Live(c) => request[c[1]] = "matched"
    BY <1>1, Zenon DEF IInv, TakenByOneDeal
  <1>3. \A d \in Candidates : d[1] = c[1] /\ Live(c) /\ Live(d) => c = d
    BY <1>1, Zenon DEF IInv, TakenByOneDeal, For
  <1>4. match[c] = "pending" => request[c[1]] \notin {"matched", "cancelled", "closed"}
    BY Zenon DEF IInv, TakenByOneDeal
  <1> QED BY <1>2, <1>3, <1>4, Zenon DEF Live

(* The same the other way round: the invariant from what holds of each.    *)
Standing(c) ==
    /\ Live(c) => request[c[1]] = "matched"
    /\ \A d \in Candidates : d[1] = c[1] /\ Live(c) /\ Live(d) => c = d
    /\ match[c] = "pending" => request[c[1]] \notin {"matched", "cancelled", "closed"}
    /\ Live(c) => shown[c] = {deal[c].boost} \/ (shown[c] = Unseen /\ deal[c].boost = 0)
    /\ deal[c].status = "payment_required" => boost[c[1]] = deal[c].boost
    /\ deal[c].status = "funded" => boost[c[1]] = 0
    /\ cancelling[c[2]] = "done" => match[c] # "pending" /\ deal[c].status # "payment_required"
    /\ cancelling[c[2]] = "listed" /\ deal[c].status = "payment_required" => c \in toRelease[c[2]]

Held(r) == request[r] = "matched" => \E c \in For(r) : Live(c)
Final(j) == cancelling[j] # "idle" => journey[j] = "cancelled"

OneByOne ==
    /\ MarketTypeOK
    /\ \A c \in Candidates : Standing(c)
    /\ \A r \in Requests : Held(r)
    /\ \A j \in Journeys : Final(j)

LEMMA OneByOneIs == IInv <=> OneByOne
  <1>1. ASSUME IInv PROVE OneByOne
    <2>1. ASSUME NEW c \in Candidates PROVE Standing(c)
      <3>1. c[2] \in Journeys /\ c \in On(c[2])
        BY SidesOf
      <3>2. /\ Live(c) => shown[c] = {deal[c].boost} \/ (shown[c] = Unseen /\ deal[c].boost = 0)
            /\ deal[c].status = "payment_required" => boost[c[1]] = deal[c].boost
            /\ deal[c].status = "funded" => boost[c[1]] = 0
        BY <1>1, Zenon DEF IInv, BoostPromisedOnce
      <3>3. cancelling[c[2]] = "done" => match[c] # "pending" /\ deal[c].status # "payment_required"
        BY <1>1, <3>1, Zenon DEF IInv, CancelledJourneyIsCleared
      <3>4. cancelling[c[2]] = "listed" /\ deal[c].status = "payment_required" => c \in toRelease[c[2]]
        BY <1>1, <3>1, Zenon DEF IInv, Clearing
      <3> QED BY <1>1, <3>2, <3>3, <3>4, OfOne, Zenon DEF Standing
    <2>2. \A r \in Requests : Held(r)
      BY <1>1, Zenon DEF IInv, TakenByOneDeal, Held
    <2>3. \A j \in Journeys : Final(j)
      BY <1>1, Zenon DEF IInv, Clearing, Final
    <2> QED BY <1>1, <2>1, <2>2, <2>3 DEF IInv, OneByOne
  <1>2. ASSUME OneByOne PROVE IInv
    <2>1. TakenByOneDeal
      <3>1. ASSUME NEW r \in Requests PROVE request[r] = "matched" <=> \E c \in For(r) : Live(c)
        BY <1>2, Zenon DEF OneByOne, Standing, Held, For
      <3>2. ASSUME NEW r \in Requests, NEW c \in For(r), NEW d \in For(r), Live(c), Live(d)
            PROVE  c = d
        BY <1>2, <3>2, Zenon DEF OneByOne, Standing, For
      <3>3. \A c \in Candidates :
              request[c[1]] \in {"matched", "cancelled", "closed"} => match[c] # "pending"
        BY <1>2, Zenon DEF OneByOne, Standing
      <3> QED BY <3>1, <3>2, <3>3, Zenon DEF TakenByOneDeal
    <2>2. BoostPromisedOnce
      BY <1>2, Zenon DEF OneByOne, Standing, BoostPromisedOnce
    <2>3. CancelledJourneyIsCleared
      BY <1>2, Zenon DEF OneByOne, Standing, CancelledJourneyIsCleared, On
    <2>4. \A j \in Journeys : Clearing(j)
      BY <1>2, Zenon DEF OneByOne, Standing, Final, Clearing, On
    <2> QED BY <1>2, <2>1, <2>2, <2>3, <2>4 DEF OneByOne, IInv
  <1> QED BY <1>1, <1>2
-----------------------------------------------------------------------------
(* Offers come and go only on open requests and journeys, and a screen     *)
(* changes only while there is something left to accept.                   *)
LEMMA OffersKeep ==
    ASSUME OneByOne, UNCHANGED <<request, boost, journeyVars, deal>>, MarketTypeOK',
           \A c \in Candidates :
             /\ match'[c] = "pending" =>
                  match[c] = "pending" \/ (request[c[1]] = "open" /\ journey[c[2]] = "active")
             /\ shown'[c] = shown[c] \/ match[c] = "pending" \/ request[c[1]] = "open"
    PROVE  OneByOne'
  <1>1. UNCHANGED <<journey, cancelling, toRelease>>
    BY DEF journeyVars
  <1>2. ASSUME NEW c \in Candidates PROVE Standing(c)'
    <2>1. Standing(c)
      BY DEF OneByOne
    <2>2. Live(c)' <=> Live(c)
      BY DEF Live
    <2>3. Live(c) => shown'[c] = shown[c]
      BY <2>1, Zenon DEF Standing
    <2>4. \A d \in Candidates : d[1] = c[1] /\ Live(c)' /\ Live(d)' => c = d
      BY <2>1, Zenon DEF Standing, Live
    <2>5. c[2] \in Journeys
      BY SidesOf
    <2>6. match'[c] = "pending" => /\ request'[c[1]] \notin {"matched", "cancelled", "closed"}
                                   /\ cancelling'[c[2]] # "done"
      BY <1>1, <2>1, <2>5, Zenon DEF Standing, OneByOne, Final
    <2> QED BY <1>1, <2>1, <2>2, <2>3, <2>4, <2>6, Zenon DEF Standing
  <1>3. \A r \in Requests : Held(r)'
    BY Zenon DEF OneByOne, Held, Live
  <1>4. \A j \in Journeys : Final(j)'
    BY <1>1, Zenon DEF OneByOne, Final
  <1> QED BY <1>2, <1>3, <1>4 DEF OneByOne

LEMMA OfferStepKeeps ==
    ASSUME OneByOne, NEW c \in Candidates,
           CreateSenderOffer(c) \/ CounterOffer(c) \/ ReadOffer(c) \/ CloseNegotiation(c)
    PROVE  OneByOne'
  <1>1. MarketTypeOK /\ c[1] \in Requests
    BY SidesOf DEF OneByOne
  <1>2. UNCHANGED <<request, boost, journeyVars, deal>>
    BY Zenon DEF CreateSenderOffer, CounterOffer, ReadOffer, CloseNegotiation
  <1>3. MarketTypeOK'
    <2>1. match' \in [Candidates -> {"none", "pending", "accepted", "over"}]
      BY <1>1, SMT DEF MarketTypeOK, CreateSenderOffer, CounterOffer, ReadOffer, CloseNegotiation
    <2>2. shown' \in [Candidates -> SUBSET Boosts]
      <3>1. {boost[c[1]]} \in SUBSET Boosts /\ Unseen \in SUBSET Boosts
        BY <1>1, SMT DEF MarketTypeOK, Unseen
      <3> QED BY <1>1, <3>1, Zenon DEF MarketTypeOK, CreateSenderOffer, CounterOffer, ReadOffer,
                                       CloseNegotiation
    <2> QED BY <1>1, <1>2, <2>1, <2>2, Zenon DEF MarketTypeOK, journeyVars
  <1>4. ASSUME NEW d \in Candidates
        PROVE  /\ match'[d] = "pending" =>
                    match[d] = "pending" \/ (request[d[1]] = "open" /\ journey[d[2]] = "active")
               /\ shown'[d] = shown[d] \/ match[d] = "pending" \/ request[d[1]] = "open"
    <2>1. CASE d = c
      BY <1>1, <2>1, Zenon DEF MarketTypeOK, CreateSenderOffer, CounterOffer, ReadOffer,
                               CloseNegotiation, Compatible, Available, Bookable
    <2>2. CASE d # c
      BY <1>1, <2>2, Zenon DEF MarketTypeOK, CreateSenderOffer, CounterOffer, ReadOffer,
                               CloseNegotiation
    <2> QED BY <2>1, <2>2
  <1> QED BY <1>2, <1>3, <1>4, OffersKeep

(* A request nobody has taken changes its Boost or leaves the market.      *)
LEMMA RequestStepKeeps ==
    ASSUME OneByOne, NEW r \in Requests,
           \/ \E amount \in Boosts : SetBoostIntent(r, amount)
           \/ CancelDeliveryRequest(r) \/ ExpireRequest(r)
    PROVE  OneByOne'
  <1>1. MarketTypeOK /\ request[r] = "open"
    BY Zenon DEF OneByOne, SetBoostIntent, Editable, CancelDeliveryRequest, ExpireRequest
  <1>2. UNCHANGED <<journey, cancelling, toRelease, shown, deal>>
    BY Zenon DEF SetBoostIntent, CancelDeliveryRequest, ExpireRequest, journeyVars, offerVars
  <1>3. /\ request' \in [Requests -> {"open", "matched", "expired", "cancelled", "closed"}]
        /\ request'[r] \in {"open", "expired", "cancelled"}
        /\ \A q \in Requests \ {r} : request'[q] = request[q]
    <2>1. "expired" \in {"open", "matched", "expired", "cancelled", "closed"}
          /\ "cancelled" \in {"open", "matched", "expired", "cancelled", "closed"}
      OBVIOUS
    <2> QED BY <1>1, <2>1, Zenon DEF MarketTypeOK, SetBoostIntent, CancelDeliveryRequest, ExpireRequest
  <1>4. boost' \in [Requests -> Boosts] /\ \A q \in Requests \ {r} : boost'[q] = boost[q]
    <2>1. 0 \in Boosts
      BY MarketAssumption DEF MarketAssumption
    <2> QED BY <1>1, <2>1, Zenon DEF MarketTypeOK, SetBoostIntent, CancelDeliveryRequest, ExpireRequest
  <1>5. /\ match' \in [Candidates -> {"none", "pending", "accepted", "over"}]
        /\ \A c \in Candidates : match'[c] = "pending" =>
             match[c] = "pending" /\ (c[1] = r => request'[r] # "cancelled")
    <2>1. CASE CancelDeliveryRequest(r)
      <3>1. match' = [c \in Candidates |-> IF c \in For(r) /\ match[c] = "pending"
                                           THEN "over" ELSE match[c]]
        BY <2>1 DEF CancelDeliveryRequest
      <3> QED BY <1>1, <3>1, SMT DEF MarketTypeOK, For
    <2>2. CASE ~CancelDeliveryRequest(r)
      <3>1. match' = match /\ (request' = request \/ request'[r] = "expired")
        BY <1>1, <2>2, Zenon DEF SetBoostIntent, ExpireRequest, offerVars, MarketTypeOK
      <3> QED BY <1>1, <3>1, Zenon DEF MarketTypeOK
    <2> QED BY <2>1, <2>2
  <1>6. MarketTypeOK'
    BY <1>1, <1>2, <1>3, <1>4, <1>5, Zenon DEF MarketTypeOK
  <1>7. ASSUME NEW c \in Candidates PROVE Standing(c)'
    <2>1. Standing(c) /\ c[1] \in Requests
      BY SidesOf DEF OneByOne
    <2>2. (Live(c)' <=> Live(c)) /\ (deal[c].status \in {"payment_required", "funded"} => Live(c))
      BY <1>2 DEF Live
    <2>3. \A d \in Candidates : d[1] = c[1] /\ Live(c)' /\ Live(d)' => c = d
      BY <1>2, <2>1, Zenon DEF Standing, Live
    <2>4. CASE c[1] = r
      <3>1. ~Live(c)
        BY <1>1, <2>1, <2>4, Zenon DEF Standing
      <3> QED BY <1>2, <1>3, <1>5, <2>1, <2>2, <2>3, <2>4, <3>1, Zenon DEF Standing
    <2>5. CASE c[1] # r
      <3>1. request'[c[1]] = request[c[1]] /\ boost'[c[1]] = boost[c[1]]
        BY <1>3, <1>4, <2>1, <2>5
      <3> QED BY <1>2, <1>5, <2>1, <2>2, <2>3, <3>1, Zenon DEF Standing
    <2> QED BY <2>4, <2>5
  <1>8. ASSUME NEW q \in Requests PROVE Held(q)'
    <2>1. CASE q = r
      BY <1>3, <2>1, Zenon DEF Held
    <2>2. CASE q # r
      BY <1>2, <1>3, <2>2, Zenon DEF OneByOne, Held, Live
    <2> QED BY <2>1, <2>2
  <1>9. \A j \in Journeys : Final(j)'
    BY <1>2, Zenon DEF OneByOne, Final
  <1> QED BY <1>6, <1>7, <1>8, <1>9 DEF OneByOne

DealRow(amounts) ==
    [status: {"none", "payment_required", "funded", "released", "ended"},
     boost: amounts, lapsed: BOOLEAN, late: BOOLEAN]

LEMMA RowIsDeal ==
    ASSUME NEW row \in DealRow(Nat), row.boost \in Boosts PROVE row \in Deal
  BY SMT DEF DealRow, Deal

LEMMA StatusWritten ==
    ASSUME NEW row \in DealRow(Nat), NEW s \in {"payment_required", "funded", "released", "ended"},
           NEW next, next = [row EXCEPT !.status = s]
    PROVE  /\ next \in DealRow(Nat) /\ next.status = s /\ next.boost = row.boost
           /\ next.lapsed = row.lapsed /\ next.late = row.late
  BY SMT DEF DealRow

LEMMA BoostWritten ==
    ASSUME NEW row \in DealRow(Nat), NEW amount \in Nat,
           NEW next, next = [row EXCEPT !.boost = amount]
    PROVE  /\ next \in DealRow(Nat) /\ next.status = row.status /\ next.boost = amount
           /\ next.lapsed = row.lapsed /\ next.late = row.late
  BY SMT DEF DealRow

LEMMA NoDealIs ==
    NoDeal \in DealRow(Nat) /\ NoDeal.status = "none" /\ NoDeal.boost = 0 /\ ~NoDeal.late
  BY DEF NoDeal, DealRow

Reservation(amount) == [NoDeal EXCEPT !.status = "payment_required", !.boost = amount]

LEMMA ReservationIs ==
    ASSUME NEW amount \in Boosts
    PROVE  /\ Reservation(amount) \in Deal
           /\ Reservation(amount).status = "payment_required"
           /\ Reservation(amount).boost = amount
           /\ ~Reservation(amount).late
  <1>1. amount \in Nat
    BY MarketAssumption, Zenon DEF MarketAssumption
  <1>2. PICK once : once = [NoDeal EXCEPT !.status = "payment_required"]
    OBVIOUS
  <1>3. once \in DealRow(Nat) /\ once.status = "payment_required" /\ ~once.late
    BY <1>2, StatusWritten, NoDealIs
  <1>4. PICK row : row = [once EXCEPT !.boost = amount]
    OBVIOUS
  <1>5. row \in DealRow(Nat) /\ row.status = once.status /\ row.boost = amount /\ ~row.late
    BY <1>1, <1>3, <1>4, BoostWritten
  <1>6. row \in Deal
    BY <1>5, RowIsDeal
  <1>7. row = Reservation(amount)
    BY <1>2, <1>4, Zenon DEF Reservation
  <1> QED BY <1>3, <1>5, <1>6, <1>7

(* Accepting takes a request nobody had taken, on a journey not cancelled, *)
(* for the Boost that was on the screen, and ends every competing offer.   *)
LEMMA AcceptOfferKeeps ==
    ASSUME OneByOne, NEW c \in Candidates, AcceptOffer(c) PROVE OneByOne'
  <1>1. MarketTypeOK /\ c[1] \in Requests /\ c[2] \in Journeys
    BY SidesOf DEF OneByOne
  <1>2. /\ match[c] = "pending" /\ request[c[1]] = "open" /\ journey[c[2]] = "active"
        /\ shown[c] = {boost[c[1]]} \/ (shown[c] = Unseen /\ boost[c[1]] = 0)
    BY Zenon DEF AcceptOffer, Compatible, Available, Bookable, Confirmed
  <1>3. UNCHANGED <<boost, journey, cancelling, toRelease, shown>>
    BY Zenon DEF AcceptOffer, journeyVars
  <1>4. /\ request' \in [Requests -> {"open", "matched", "expired", "cancelled", "closed"}]
        /\ request'[c[1]] = "matched"
        /\ \A q \in Requests \ {c[1]} : request'[q] = request[q]
    <2>1. "matched" \in {"open", "matched", "expired", "cancelled", "closed"}
      OBVIOUS
    <2> QED BY <1>1, <2>1, Zenon DEF MarketTypeOK, AcceptOffer
  <1>5. /\ deal' \in [Candidates -> Deal]
        /\ deal'[c].status = "payment_required" /\ deal'[c].boost = boost[c[1]]
        /\ \A d \in Candidates \ {c} : deal'[d] = deal[d]
    <2>1. boost[c[1]] \in Boosts
      BY <1>1, Zenon DEF MarketTypeOK
    <2>2. deal' = [deal EXCEPT ![c] = Reservation(boost[c[1]])]
      BY DEF AcceptOffer, Reservation
    <2> QED BY <1>1, <2>1, <2>2, ReservationIs, Zenon DEF MarketTypeOK
  <1>6. /\ match' \in [Candidates -> {"none", "pending", "accepted", "over"}]
        /\ \A d \in Candidates : match'[d] = "pending" => match[d] = "pending" /\ d[1] # c[1]
    BY <1>1, SMT DEF MarketTypeOK, AcceptOffer, Competing, For
  <1>7. MarketTypeOK'
    BY <1>1, <1>3, <1>4, <1>5, <1>6, Zenon DEF MarketTypeOK
  <1>8. ASSUME NEW d \in Candidates, d[1] = c[1] PROVE ~Live(d)
    <2>1. Live(d) => request[d[1]] = "matched"
      BY Zenon DEF OneByOne, Standing
    <2> QED BY <1>2, <1>8, <2>1
  <1>9. ASSUME NEW d \in Candidates PROVE Live(d)' <=> (d = c \/ Live(d))
    BY <1>5, Zenon DEF Live
  <1>10. ASSUME NEW d \in Candidates PROVE Standing(d)'
    <2>1. Standing(d) /\ d[1] \in Requests /\ d[2] \in Journeys
      BY SidesOf DEF OneByOne
    <2>2. \A e \in Candidates : e[1] = d[1] /\ Live(d)' /\ Live(e)' => d = e
      BY <1>8, <1>9, <2>1, Zenon DEF Standing
    <2>3. CASE d = c
      <3>1. cancelling[c[2]] \notin {"done", "listed"}
        BY <1>1, <1>2, Zenon DEF OneByOne, Final
      <3> QED BY <1>2, <1>3, <1>4, <1>5, <1>6, <2>2, <2>3, <3>1, Zenon DEF Standing
    <2>4. CASE d # c /\ d[1] = c[1]
      <3>1. ~Live(d) /\ ~Live(d)' /\ match'[d] # "pending"
        BY <1>6, <1>8, <1>9, <2>4
      <3>2. deal'[d] = deal[d]
        BY <1>5, <2>4
      <3> QED BY <3>1, <3>2, <2>2, Zenon DEF Standing, Live
    <2>5. CASE d[1] # c[1]
      <3>1. /\ request'[d[1]] = request[d[1]] /\ deal'[d] = deal[d] /\ (Live(d)' <=> Live(d))
            /\ match'[d] = "pending" => match[d] = "pending"
        BY <1>4, <1>5, <1>6, <1>9, <2>1, <2>5
      <3> QED BY <1>3, <2>1, <2>2, <3>1, Zenon DEF Standing
    <2> QED BY <2>3, <2>4, <2>5
  <1>11. ASSUME NEW q \in Requests PROVE Held(q)'
    <2>1. CASE q = c[1]
      BY <1>9, <2>1, SidesOf, Zenon DEF Held
    <2>2. CASE q # c[1]
      BY <1>4, <1>9, <2>2, Zenon DEF OneByOne, Held, For
    <2> QED BY <2>1, <2>2
  <1>12. \A j \in Journeys : Final(j)'
    BY <1>3, Zenon DEF OneByOne, Final
  <1> QED BY <1>7, <1>10, <1>11, <1>12 DEF OneByOne

(* A Deal that lives on keeps its request and its Boost, until the funding *)
(* takes the Boost away; a Deal that ends frees the request or closes it.  *)
LEMMA DealKeeps ==
    ASSUME OneByOne, NEW c \in Candidates, Live(c), MarketTypeOK',
           UNCHANGED <<journey, cancelling>>,
           \A d \in Candidates : d # c =>
             /\ deal'[d] = deal[d] /\ match'[d] = match[d] /\ shown'[d] = shown[d]
             /\ d \in toRelease[d[2]] => d \in toRelease'[d[2]],
           \A q \in Requests \ {c[1]} : request'[q] = request[q] /\ boost'[q] = boost[q],
           match'[c] # "pending",
           \/ /\ Live(c)' /\ request'[c[1]] = "matched" /\ shown'[c] = shown[c]
              /\ deal'[c].boost = deal[c].boost
              /\ c \in toRelease[c[2]] => c \in toRelease'[c[2]]
              /\ deal'[c].status = "payment_required" =>
                   deal[c].status = "payment_required" /\ boost'[c[1]] = boost[c[1]]
              /\ deal'[c].status = "funded" => boost'[c[1]] = 0
           \/ ~Live(c)' /\ request'[c[1]] \in {"open", "closed"}
    PROVE  OneByOne'
  <1>1. ASSUME NEW d \in Candidates, d # c, d[1] = c[1]
        PROVE  ~Live(d) /\ ~Live(d)' /\ match'[d] # "pending"
    <2>1. Standing(d) /\ Standing(c)
      BY DEF OneByOne
    <2>2. ~Live(d)
      BY <1>1, <2>1, Zenon DEF Standing
    <2>3. match[d] # "pending"
      BY <1>1, <2>1, Zenon DEF Standing
    <2> QED BY <1>1, <2>2, <2>3, Zenon DEF Live
  <1>2. ASSUME NEW d \in Candidates, Live(d)' PROVE Live(d)
    BY <1>2, Zenon DEF Live
  <1>3. ASSUME NEW d \in Candidates PROVE Standing(d)'
    <2>1. Standing(d) /\ d[1] \in Requests
      BY SidesOf DEF OneByOne
    <2>2. \A e \in Candidates : e[1] = d[1] /\ Live(d)' /\ Live(e)' => d = e
      BY <1>2, <2>1, Zenon DEF Standing
    <2>3. CASE d = c
      <3>1. CASE Live(c)'
        BY <2>1, <2>2, <2>3, <3>1, Zenon DEF Standing
      <3>2. CASE ~Live(c)'
        BY <2>2, <2>3, <3>2, Zenon DEF Standing, Live
      <3> QED BY <3>1, <3>2
    <2>4. CASE d # c /\ d[1] = c[1]
      <3>1. ~Live(d)' /\ match'[d] # "pending"
        BY <1>1, <2>4
      <3> QED BY <2>2, <3>1, Zenon DEF Standing, Live
    <2>5. CASE d[1] # c[1]
      <3>1. request'[d[1]] = request[d[1]] /\ boost'[d[1]] = boost[d[1]] /\ d # c
        BY <2>1, <2>5
      <3>2. /\ deal'[d] = deal[d] /\ match'[d] = match[d] /\ shown'[d] = shown[d]
            /\ d \in toRelease[d[2]] => d \in toRelease'[d[2]]
        BY <3>1
      <3>3. Live(d)' <=> Live(d)
        BY <3>2, Zenon DEF Live
      <3> QED BY <2>1, <2>2, <3>1, <3>2, <3>3, Zenon DEF Standing
    <2> QED BY <2>3, <2>4, <2>5
  <1>4. ASSUME NEW q \in Requests PROVE Held(q)'
    <2>1. CASE q = c[1]
      BY <2>1, SidesOf, Zenon DEF Held
    <2>2. CASE q # c[1]
      <3>1. ASSUME NEW d \in For(q), Live(d) PROVE Live(d)'
        <4>1. d \in Candidates /\ d # c
          BY <2>2, Zenon DEF For
        <4> QED BY <3>1, <4>1, Zenon DEF Live
      <3> QED BY <2>2, <3>1, Zenon DEF OneByOne, Held
    <2> QED BY <2>1, <2>2
  <1>5. \A j \in Journeys : Final(j)'
    BY Zenon DEF OneByOne, Final
  <1> QED BY <1>3, <1>4, <1>5 DEF OneByOne

(* DealKeeps with the journey's list untouched and the rows written.       *)
LEMMA GraceLapsesKeeps ==
    ASSUME OneByOne, NEW c \in Candidates, GraceLapses(c) PROVE OneByOne'
  <1>1. MarketTypeOK /\ c[1] \in Requests /\ Standing(c)
    BY SidesOf DEF OneByOne
  <1>2. deal[c].status = "payment_required" /\ Live(c)
    BY DEF GraceLapses, Live
  <1>3. UNCHANGED <<request, boost, journey, cancelling, toRelease, match, shown>>
    BY DEF GraceLapses, journeyVars, offerVars
  <1>4. PICK yes \in BOOLEAN : deal' = [deal EXCEPT ![c].lapsed = yes]
    BY Zenon DEF GraceLapses
  <1>5. PICK row : row = [deal[c] EXCEPT !.lapsed = yes] /\ deal' = [deal EXCEPT ![c] = row]
    BY <1>4, Zenon
  <1>6. row \in Deal /\ row.status = deal[c].status /\ row.boost = deal[c].boost
    <2>1. PICK old \in Deal : old = deal[c]
      BY <1>1, Zenon DEF MarketTypeOK
    <2>2. row = [old EXCEPT !.lapsed = yes]
      BY <1>5, <2>1
    <2>3. row \in Deal /\ row.status = old.status /\ row.boost = old.boost
      BY <2>1, <2>2, SMT DEF Deal
    <2> QED BY <2>1, <2>3
  <1>7. /\ deal' \in [Candidates -> Deal] /\ deal'[c] = row
        /\ \A d \in Candidates : d # c => deal'[d] = deal[d]
    BY <1>1, <1>5, <1>6, Zenon DEF MarketTypeOK
  <1>8. MarketTypeOK'
    BY <1>1, <1>3, <1>7, Zenon DEF MarketTypeOK
  <1>9. request[c[1]] = "matched" /\ match[c] # "pending"
    BY <1>1, <1>2, Zenon DEF Standing
  <1>10. Live(c)' /\ deal'[c].boost = deal[c].boost /\ deal'[c].status = "payment_required"
    BY <1>2, <1>6, <1>7, Zenon DEF Live
  <1> QED BY <1>2, <1>3, <1>7, <1>8, <1>9, <1>10, DealKeeps, Zenon

LEMMA FundDealKeeps ==
    ASSUME OneByOne, NEW c \in Candidates, FundDeal(c) PROVE OneByOne'
  <1>1. MarketTypeOK /\ c[1] \in Requests /\ Standing(c)
    BY SidesOf DEF OneByOne
  <1>2. deal[c].status = "payment_required" /\ Live(c)
    BY DEF FundDeal, Live
  <1>3. UNCHANGED <<request, journey, cancelling, toRelease, match, shown>>
    BY DEF FundDeal, journeyVars, offerVars
  <1>4. PICK row : /\ row = [status |-> "funded", boost |-> deal[c].boost,
                            lapsed |-> FALSE, late |-> deal[c].lapsed]
                   /\ deal' = [deal EXCEPT ![c] = row]
    BY Zenon DEF FundDeal
  <1>5. row \in Deal /\ row.status = "funded" /\ row.boost = deal[c].boost
    BY <1>1, <1>4, SMT DEF MarketTypeOK, Deal
  <1>6. /\ deal' \in [Candidates -> Deal] /\ deal'[c] = row
        /\ \A d \in Candidates : d # c => deal'[d] = deal[d]
    BY <1>1, <1>4, <1>5, Zenon DEF MarketTypeOK
  <1>7. /\ boost' \in [Requests -> Boosts] /\ boost'[c[1]] = 0
        /\ \A q \in Requests \ {c[1]} : boost'[q] = boost[q]
    <2>1. 0 \in Boosts
      BY MarketAssumption DEF MarketAssumption
    <2> QED BY <1>1, <2>1, Zenon DEF MarketTypeOK, FundDeal
  <1>8. MarketTypeOK'
    BY <1>1, <1>3, <1>6, <1>7, Zenon DEF MarketTypeOK
  <1>9. request[c[1]] = "matched" /\ match[c] # "pending"
    BY <1>1, <1>2, Zenon DEF Standing
  <1>10. Live(c)' /\ deal'[c].boost = deal[c].boost /\ deal'[c].status # "payment_required"
    BY <1>5, <1>6, Zenon DEF Live
  <1> QED BY <1>2, <1>3, <1>6, <1>7, <1>8, <1>9, <1>10, DealKeeps, Zenon

(* The row of a Deal that is over.                                         *)
Over(s) == [NoDeal EXCEPT !.status = s]

LEMMA OverIs ==
    ASSUME NEW s \in {"released", "ended"} PROVE Over(s) \in Deal /\ Over(s).status = s /\ ~Over(s).late
  <1>1. PICK row : row = Over(s)
    OBVIOUS
  <1>2. row \in DealRow(Nat) /\ row.status = s /\ row.boost = 0 /\ ~row.late
    <2>1. row = [NoDeal EXCEPT !.status = s]
      BY <1>1 DEF Over
    <2> QED BY <2>1, NoDealIs, StatusWritten
  <1>3. 0 \in Boosts
    BY MarketAssumption DEF MarketAssumption
  <1>4. row \in Deal
    BY <1>2, <1>3, RowIsDeal
  <1> QED BY <1>1, <1>2, <1>4

LEMMA EndDealKeeps ==
    ASSUME OneByOne, NEW c \in Candidates, EndDeal(c) PROVE OneByOne'
  <1>1. MarketTypeOK /\ c[1] \in Requests /\ Standing(c)
    BY SidesOf DEF OneByOne
  <1>2. Live(c)
    BY DEF EndDeal, Live
  <1>3. UNCHANGED <<boost, journey, cancelling, toRelease, match>>
    BY DEF EndDeal, journeyVars
  <1>4. /\ deal' \in [Candidates -> Deal] /\ deal'[c].status = "ended"
        /\ \A d \in Candidates : d # c => deal'[d] = deal[d]
    <2>1. deal' = [deal EXCEPT ![c] = Over("ended")]
      BY DEF EndDeal, Over
    <2> QED BY <1>1, <2>1, OverIs, Zenon DEF MarketTypeOK
  <1>5. /\ request' \in [Requests -> {"open", "matched", "expired", "cancelled", "closed"}]
        /\ request'[c[1]] = "closed"
        /\ \A q \in Requests \ {c[1]} : request'[q] = request[q]
    <2>1. "closed" \in {"open", "matched", "expired", "cancelled", "closed"}
      OBVIOUS
    <2> QED BY <1>1, <2>1, Zenon DEF MarketTypeOK, EndDeal
  <1>6. /\ shown' \in [Candidates -> SUBSET Boosts]
        /\ \A d \in Candidates : d # c => shown'[d] = shown[d]
    <2>1. Unseen \in SUBSET Boosts
      BY SMT DEF Unseen
    <2> QED BY <1>1, <2>1, Zenon DEF MarketTypeOK, EndDeal
  <1>7. MarketTypeOK'
    BY <1>1, <1>3, <1>4, <1>5, <1>6, Zenon DEF MarketTypeOK
  <1>8. ~Live(c)' /\ match[c] # "pending"
    BY <1>1, <1>2, <1>4, Zenon DEF Live, Standing
  <1> QED BY <1>2, <1>3, <1>4, <1>5, <1>6, <1>7, <1>8, DealKeeps, Zenon

(* release_pending_deal_reservation, alone or in the journey's loop.       *)
LEMMA ReleaseKeeps ==
    ASSUME OneByOne, NEW c \in Candidates, Releasable(c), Release(c),
           UNCHANGED <<journey, cancelling>>, toRelease' \in [Journeys -> SUBSET Candidates],
           \A d \in Candidates : d # c => (d \in toRelease[d[2]] => d \in toRelease'[d[2]])
    PROVE  OneByOne'
  <1>1. MarketTypeOK /\ c[1] \in Requests /\ Standing(c)
    BY SidesOf DEF OneByOne
  <1>2. Live(c)
    BY DEF Releasable, Live
  <1>3. /\ deal' \in [Candidates -> Deal] /\ deal'[c].status = "released"
        /\ \A d \in Candidates : d # c => deal'[d] = deal[d]
    <2>1. deal' = [deal EXCEPT ![c] = Over("released")]
      BY DEF Release, Over
    <2> QED BY <1>1, <2>1, OverIs, Zenon DEF MarketTypeOK
  <1>4. /\ request' \in [Requests -> {"open", "matched", "expired", "cancelled", "closed"}]
        /\ request'[c[1]] = "open"
        /\ \A q \in Requests \ {c[1]} : request'[q] = request[q]
    <2>1. request[c[1]] = "matched"
      BY <1>1, <1>2, Zenon DEF Standing
    <2>2. request' = [request EXCEPT ![c[1]] = "open"]
      BY <2>1, Zenon DEF Release
    <2>3. "open" \in {"open", "matched", "expired", "cancelled", "closed"}
      OBVIOUS
    <2> QED BY <1>1, <2>2, <2>3, Zenon DEF MarketTypeOK
  <1>5. /\ match' \in [Candidates -> {"none", "pending", "accepted", "over"}]
        /\ match'[c] = "over"
        /\ \A d \in Candidates : d # c => match'[d] = match[d]
    BY <1>1, SMT DEF MarketTypeOK, Release
  <1>6. /\ shown' \in [Candidates -> SUBSET Boosts]
        /\ \A d \in Candidates : d # c => shown'[d] = shown[d]
    <2>1. Unseen \in SUBSET Boosts
      BY SMT DEF Unseen
    <2> QED BY <1>1, <2>1, Zenon DEF MarketTypeOK, Release
  <1>7. boost' = boost /\ MarketTypeOK'
    BY <1>1, <1>3, <1>4, <1>5, <1>6, Zenon DEF MarketTypeOK, Release
  <1>8. ~Live(c)'
    BY <1>3, Zenon DEF Live
  <1> QED BY <1>2, <1>3, <1>4, <1>5, <1>6, <1>7, <1>8, DealKeeps, Zenon
-----------------------------------------------------------------------------
(* The steps of a journey that leave requests, Boosts and Deals alone.     *)
LEMMA JourneyKeeps ==
    ASSUME OneByOne, UNCHANGED <<request, boost, shown, deal>>, MarketTypeOK',
           \A j \in Journeys : Final(j)',
           \A c \in Candidates :
             /\ match'[c] = "pending" => match[c] = "pending"
             /\ cancelling'[c[2]] = "done" =>
                  match'[c] # "pending" /\ deal[c].status # "payment_required"
             /\ cancelling'[c[2]] = "listed" /\ deal[c].status = "payment_required" =>
                  c \in toRelease'[c[2]]
    PROVE  OneByOne'
  <1>1. ASSUME NEW c \in Candidates PROVE Standing(c)'
    <2>1. Standing(c)
      BY DEF OneByOne
    <2>2. Live(c)' <=> Live(c)
      BY DEF Live
    <2>3. \A d \in Candidates : d[1] = c[1] /\ Live(c)' /\ Live(d)' => c = d
      BY <2>1, Zenon DEF Standing, Live
    <2> QED BY <2>1, <2>2, <2>3, Zenon DEF Standing
  <1>2. \A r \in Requests : Held(r)'
    BY Zenon DEF OneByOne, Held, Live
  <1> QED BY <1>1, <1>2 DEF OneByOne

Phase == {"idle", "cancelled", "listed", "done"}

LEMMA JourneyStepKeeps ==
    ASSUME OneByOne, NEW j \in Journeys,
           \/ PublishJourney(j) \/ BeginCancelJourney(j) \/ ListDeals(j)
           \/ CloseOffersOfJourney(j) \/ CancelJourneyDies(j)
    PROVE  OneByOne'
  <1>1. MarketTypeOK /\ Final(j)
    BY DEF OneByOne
  <1>2. UNCHANGED <<request, boost, shown, deal>>
    BY Zenon DEF PublishJourney, BeginCancelJourney, ListDeals, CloseOffersOfJourney,
                 CancelJourneyDies, offerVars
  <1>3. /\ journey' \in [Journeys -> {"draft", "active", "cancelled"}]
        /\ cancelling' \in [Journeys -> Phase]
        /\ \A i \in Journeys \ {j} : journey'[i] = journey[i] /\ cancelling'[i] = cancelling[i]
        /\ cancelling'[j] # "idle" => journey'[j] = "cancelled"
    <2>1. cancelling \in [Journeys -> Phase] /\ journey \in [Journeys -> {"draft", "active", "cancelled"}]
      BY <1>1 DEF MarketTypeOK, Phase
    <2>2. CASE PublishJourney(j)
      <3>1. journey[j] = "draft" /\ journey' = [journey EXCEPT ![j] = "active"] /\ cancelling' = cancelling
        BY <2>2 DEF PublishJourney
      <3> QED BY <1>1, <2>1, <3>1, SMT DEF Final
    <2>3. CASE BeginCancelJourney(j)
      BY <2>1, <2>3, SMT DEF BeginCancelJourney, Phase
    <2>4. CASE ListDeals(j)
      BY <1>1, <2>1, <2>4, SMT DEF ListDeals, Phase, Final
    <2>5. CASE CloseOffersOfJourney(j)
      BY <1>1, <2>1, <2>5, SMT DEF CloseOffersOfJourney, Phase, Final
    <2>6. CASE CancelJourneyDies(j)
      BY <1>1, <2>1, <2>6, SMT DEF CancelJourneyDies, Phase, Final
    <2> QED BY <2>2, <2>3, <2>4, <2>5, <2>6
  <1>4. /\ match' \in [Candidates -> {"none", "pending", "accepted", "over"}]
        /\ \A c \in Candidates : match'[c] = "pending" =>
             match[c] = "pending" /\ (CloseOffersOfJourney(j) => c[2] # j)
    <2>1. CASE CloseOffersOfJourney(j)
      <3>1. match' = [c \in Candidates |-> IF c \in On(j) /\ match[c] = "pending"
                                           THEN "over" ELSE match[c]]
        BY <2>1 DEF CloseOffersOfJourney
      <3> QED BY <1>1, <3>1, SMT DEF MarketTypeOK, On
    <2>2. CASE ~CloseOffersOfJourney(j)
      <3>1. match' = match
        BY <2>2, Zenon DEF PublishJourney, BeginCancelJourney, ListDeals, CancelJourneyDies, offerVars
      <3> QED BY <1>1, <2>2, <3>1, Zenon DEF MarketTypeOK
    <2> QED BY <2>1, <2>2
  <1>5. toRelease' \in [Journeys -> SUBSET Candidates]
        /\ \A i \in Journeys \ {j} : toRelease'[i] = toRelease[i]
    <2>1. CASE ListDeals(j)
      <3>1. {c \in On(j) : deal[c].status = "payment_required"} \in SUBSET Candidates
        BY SMT DEF On
      <3> QED BY <1>1, <2>1, <3>1, Zenon DEF ListDeals, MarketTypeOK
    <2>2. CASE CancelJourneyDies(j)
      <3>1. {} \in SUBSET Candidates
        BY SMT
      <3> QED BY <1>1, <2>2, <3>1, Zenon DEF CancelJourneyDies, MarketTypeOK
    <2>3. CASE toRelease' = toRelease
      BY <1>1, <2>3, Zenon DEF MarketTypeOK
    <2> QED BY <2>1, <2>2, <2>3, Zenon DEF PublishJourney, BeginCancelJourney, CloseOffersOfJourney
  <1>6. MarketTypeOK'
    BY <1>1, <1>2, <1>3, <1>4, <1>5, Zenon DEF MarketTypeOK, Phase
  <1>7. \A i \in Journeys : Final(i)'
    BY <1>3, Zenon DEF OneByOne, Final
  <1>8. ASSUME NEW c \in Candidates
        PROVE  /\ cancelling'[c[2]] = "done" =>
                    match'[c] # "pending" /\ deal[c].status # "payment_required"
               /\ cancelling'[c[2]] = "listed" /\ deal[c].status = "payment_required" =>
                    c \in toRelease'[c[2]]
    <2>1. Standing(c) /\ c[2] \in Journeys /\ c \in On(c[2])
      BY SidesOf DEF OneByOne
    <2>2. CASE c[2] # j
      <3>1. cancelling'[c[2]] = cancelling[c[2]] /\ toRelease'[c[2]] = toRelease[c[2]]
        BY <1>3, <1>5, <2>1, <2>2
      <3> QED BY <1>4, <2>1, <3>1, Zenon DEF Standing
    <2>3. CASE c[2] = j
      <3>1. CASE ListDeals(j)
        <4>1. cancelling'[j] = "listed"
              /\ toRelease'[j] = {d \in On(j) : deal[d].status = "payment_required"}
          BY <1>1, <3>1, Zenon DEF ListDeals, MarketTypeOK
        <4> QED BY <2>1, <2>3, <4>1, Zenon
      <3>2. CASE CloseOffersOfJourney(j)
        <4>1. cancelling[j] = "listed" /\ toRelease[j] = {} /\ cancelling'[j] = "done"
          BY <1>1, <3>2, Zenon DEF CloseOffersOfJourney, MarketTypeOK
        <4>2. deal[c].status # "payment_required"
          BY <2>1, <2>3, <4>1, Zenon DEF Standing
        <4> QED BY <1>4, <2>3, <3>2, <4>1, <4>2
      <3>3. CASE BeginCancelJourney(j) \/ CancelJourneyDies(j)
        <4>1. cancelling'[j] \in {"cancelled", "idle"}
          BY <1>1, <3>3, Zenon DEF BeginCancelJourney, CancelJourneyDies, MarketTypeOK
        <4> QED BY <2>3, <4>1
      <3>4. CASE PublishJourney(j)
        <4>1. UNCHANGED <<cancelling, toRelease, match>>
          BY <3>4 DEF PublishJourney, offerVars
        <4> QED BY <2>1, <4>1, Zenon DEF Standing
      <3> QED BY <3>1, <3>2, <3>3, <3>4
    <2> QED BY <2>2, <2>3
  <1> QED BY <1>2, <1>4, <1>6, <1>7, <1>8, JourneyKeeps

LEMMA ReleaseForJourneyKeeps ==
    ASSUME OneByOne, NEW j \in Journeys, NEW c \in Candidates, ReleaseForJourney(j, c)
    PROVE  OneByOne'
  <1>1. MarketTypeOK
    BY DEF OneByOne
  <1>2. /\ UNCHANGED <<journey, cancelling>>
        /\ toRelease' \in [Journeys -> SUBSET Candidates]
        /\ \A i \in Journeys : toRelease'[i] = IF i = j THEN toRelease[j] \ {c} ELSE toRelease[i]
    <2>1. toRelease[j] \ {c} \in SUBSET Candidates
      <3>1. toRelease[j] \in SUBSET Candidates
        BY <1>1, Zenon DEF MarketTypeOK
      <3> QED BY <3>1, SMT
    <2>2. toRelease' = [toRelease EXCEPT ![j] = toRelease[j] \ {c}] /\ UNCHANGED <<journey, cancelling>>
      BY Zenon DEF ReleaseForJourney
    <2> QED BY <1>1, <2>1, <2>2, SMT DEF MarketTypeOK
  <1>3. ASSUME NEW d \in Candidates, d # c, d \in toRelease[d[2]] PROVE d \in toRelease'[d[2]]
    <2>1. d[2] \in Journeys
      BY SidesOf
    <2> QED BY <1>2, <1>3, <2>1, Zenon
  <1>4. CASE Releasable(c)
    <2>1. Release(c)
      BY <1>4, Zenon DEF ReleaseForJourney
    <2> QED BY <1>2, <1>3, <1>4, <2>1, ReleaseKeeps, Zenon
  <1>5. CASE ~Releasable(c)
    <2>1. UNCHANGED <<request, boost, match, shown, deal>>
      BY <1>5, Zenon DEF ReleaseForJourney, offerVars
    <2>2. MarketTypeOK'
      BY <1>1, <1>2, <2>1, Zenon DEF MarketTypeOK
    <2>3. \A i \in Journeys : Final(i)'
      BY <1>2, Zenon DEF OneByOne, Final
    <2>4. ASSUME NEW d \in Candidates
          PROVE  /\ cancelling'[d[2]] = "done" =>
                      match'[d] # "pending" /\ deal[d].status # "payment_required"
                 /\ cancelling'[d[2]] = "listed" /\ deal[d].status = "payment_required" =>
                      d \in toRelease'[d[2]]
      <3>1. Standing(d)
        BY DEF OneByOne
      <3>2. deal[d].status = "payment_required" => d # c
        BY <1>5 DEF Releasable
      <3> QED BY <1>2, <1>3, <2>1, <3>1, <3>2, Zenon DEF Standing
    <2> QED BY <2>1, <2>2, <2>3, <2>4, JourneyKeeps
  <1> QED BY <1>4, <1>5
-----------------------------------------------------------------------------
LEMMA StepKeeps ==
    ASSUME OneByOne, [Next]_vars PROVE OneByOne'
  <1>1. ASSUME NEW r \in Requests,
               \/ \E amount \in Boosts : SetBoostIntent(r, amount)
               \/ CancelDeliveryRequest(r) \/ ExpireRequest(r)
        PROVE  OneByOne'
    BY <1>1, RequestStepKeeps
  <1>2. ASSUME NEW c \in Candidates,
               CreateSenderOffer(c) \/ CounterOffer(c) \/ ReadOffer(c) \/ CloseNegotiation(c)
        PROVE  OneByOne'
    BY <1>2, OfferStepKeeps
  <1>3. ASSUME NEW c \in Candidates,
               ReleaseExpiredReservation(c) \/ CancelPendingDeal(c)
        PROVE  OneByOne'
    <2>1. /\ Releasable(c) /\ Release(c)
          /\ UNCHANGED <<journey, cancelling, toRelease>>
      BY <1>3, Zenon DEF ReleaseExpiredReservation, CancelPendingDeal, journeyVars
    <2>2. toRelease' \in [Journeys -> SUBSET Candidates]
      BY <2>1, Zenon DEF OneByOne, MarketTypeOK
    <2> QED BY <2>1, <2>2, ReleaseKeeps, Zenon
  <1>4. ASSUME NEW c \in Candidates,
               AcceptOffer(c) \/ GraceLapses(c) \/ FundDeal(c) \/ EndDeal(c)
        PROVE  OneByOne'
    BY <1>4, AcceptOfferKeeps, GraceLapsesKeeps, FundDealKeeps, EndDealKeeps
  <1>5. ASSUME NEW j \in Journeys,
               \/ PublishJourney(j) \/ BeginCancelJourney(j) \/ ListDeals(j)
               \/ CloseOffersOfJourney(j) \/ CancelJourneyDies(j)
        PROVE  OneByOne'
    BY <1>5, JourneyStepKeeps
  <1>6. ASSUME NEW j \in Journeys, NEW c \in Candidates, ReleaseForJourney(j, c)
        PROVE  OneByOne'
    BY <1>6, ReleaseForJourneyKeeps
  <1>7. CASE UNCHANGED vars
    <2>1. UNCHANGED <<request, boost, journey, cancelling, toRelease, match, shown, deal>>
      BY <1>7 DEF vars, journeyVars, offerVars
    <2> QED BY <2>1, Zenon DEF OneByOne, MarketTypeOK, Standing, Held, Final, Live
  <1> QED BY <1>1, <1>2, <1>3, <1>4, <1>5, <1>6, <1>7, Zenon DEF Next

LEMMA InitHolds == Init => OneByOne
  <1> SUFFICES ASSUME Init PROVE OneByOne
    OBVIOUS
  <1>1. MarketTypeOK
    <2>1. NoDeal \in Deal
      <3>1. 0 \in Boosts
        BY MarketAssumption DEF MarketAssumption
      <3> QED BY <3>1, NoDealIs, RowIsDeal
    <2>2. 0 \in Boosts
      BY MarketAssumption DEF MarketAssumption
    <2>3. Unseen \in SUBSET Boosts /\ {} \in SUBSET Candidates
      BY SMT DEF Unseen
    <2> HIDE DEF NoDeal, Deal
    <2> QED BY <2>1, <2>2, <2>3, SMT DEF Init, MarketTypeOK
  <1>2. ASSUME NEW c \in Candidates PROVE Standing(c) /\ ~Live(c)
    <2>1. c[1] \in Requests /\ c[2] \in Journeys
      BY SidesOf
    <2>2. match[c] = "none" /\ deal[c].status = "none" /\ cancelling[c[2]] = "idle"
      BY <2>1, NoDealIs, Zenon DEF Init
    <2>3. ~Live(c)
      BY <2>2, Zenon DEF Live
    <2> QED BY <2>2, <2>3, Zenon DEF Standing
  <1>3. \A r \in Requests : Held(r)
    BY Zenon DEF Init, Held
  <1>4. \A j \in Journeys : Final(j)
    BY Zenon DEF Init, Final
  <1> QED BY <1>1, <1>2, <1>3, <1>4 DEF OneByOne

LEMMA MarketInvariant == Spec => []IInv
  <1>1. OneByOne /\ [Next]_vars => OneByOne'
    BY StepKeeps
  <1>2. OneByOne => IInv
    BY OneByOneIs
  <1> QED BY <1>1, <1>2, InitHolds, PTL DEF Spec

(* However many travelers are offered a request, and whatever expires, is  *)
(* released, funded late or cancelled meanwhile, one live Deal has it at a *)
(* time, and a request that is taken or withdrawn has no open offer.       *)
THEOREM OneDealTakesARequest == Spec => []TakenByOneDeal
  BY MarketInvariant, PTL DEF IInv

(* The Boost of a live Deal is the one its acceptor had read, still on the *)
(* request while the Deal is unfunded and gone from it once it is funded   *)
(* (_confirm_committed_economics, set_boost_intent, fund_deal).            *)
THEOREM BoostsArePromisedOnce == Spec => []BoostPromisedOnce
  BY MarketInvariant, PTL DEF IInv

(* A journey whose cancellation has finished holds no offer and no unpaid  *)
(* Deal, although the deals are listed and released in many transactions   *)
(* and the process may die between any two of them (cancel_journey).       *)
THEOREM CancelledJourneysAreCleared == Spec => []CancelledJourneyIsCleared
  BY MarketInvariant, PTL DEF IInv
-----------------------------------------------------------------------------
(* What a leg carries on time, the money that came late left aside, never  *)
(* exceeds it; a lateness is forgotten when its Deal ends.                 *)
OnTime(c) == Active(c) /\ ~deal[c].late
OnTimeOn(l) == {c \in Candidates : l \in Covered[c] /\ OnTime(c)}
LateIsFunded(c) == deal[c].late => deal[c].status = "funded"

LoadInv ==
    /\ \A c \in Candidates : LateIsFunded(c)
    /\ \A l \in Legs : SumFunctionOnSet(Weights, OnTimeOn(l)) <= Capacity[l]

LEMMA WeightsAre ==
    ASSUME NEW S \in SUBSET Candidates
    PROVE  /\ IsFiniteSet(S)
           /\ \A c \in S : Weights[c] \in Nat /\ Weights[c] = Weight[c[1]]
           /\ SumFunctionOnSet(Weights, S) \in Nat
  <1>1. IsFiniteSet(S)
    BY MarketAssumption, FS_Subset DEF MarketAssumption
  <1>2. ASSUME NEW c \in S PROVE Weights[c] \in Nat /\ Weights[c] = Weight[c[1]]
    <2>1. c[1] \in Requests /\ c \in Candidates
      BY SidesOf
    <2>2. Weight[c[1]] \in Nat
      BY <2>1, MarketAssumption DEF MarketAssumption
    <2> QED BY <2>1, <2>2 DEF Weights
  <1> HIDE DEF Weights
  <1> QED BY <1>1, <1>2, SumIsNat, Zenon

LEMMA LegsAre == ASSUME NEW l \in Legs PROVE Capacity[l] \in Nat
  BY MarketAssumption DEF MarketAssumption

(* A step after which no more Deals count on time.                         *)
LEMMA FewerKeep ==
    ASSUME LoadInv, \A c \in Candidates : LateIsFunded(c)' /\ (OnTime(c)' => OnTime(c))
    PROVE  LoadInv'
  <1>1. ASSUME NEW l \in Legs PROVE SumFunctionOnSet(Weights, OnTimeOn(l)') <= Capacity[l]
    <2> DEFINE before == OnTimeOn(l)
               after == OnTimeOn(l)'
    <2>1. before \in SUBSET Candidates /\ after \in SUBSET before
      BY DEF OnTimeOn
    <2>2. SumFunctionOnSet(Weights, before) <= Capacity[l]
      BY DEF LoadInv
    <2> HIDE DEF before, after
    <2>3. SumFunctionOnSet(Weights, after) <= SumFunctionOnSet(Weights, before)
      BY <2>1, WeightsAre, SumOfSubset, Zenon
    <2>4. /\ SumFunctionOnSet(Weights, before) \in Nat
          /\ SumFunctionOnSet(Weights, after) \in Nat
      BY <2>1, WeightsAre, SMT
    <2>5. SumFunctionOnSet(Weights, after) <= Capacity[l]
      BY <2>2, <2>3, <2>4, LegsAre, SMT
    <2> QED BY <2>5 DEF after
  <1>2. Weights' = Weights
    BY DEF Weights
  <1> QED BY <1>1, <1>2, Zenon DEF LoadInv

(* An acceptance counts for its own legs only, and finds room there among  *)
(* everything that is active, late money included.                         *)
LEMMA AcceptFindsRoom ==
    ASSUME OneByOne, LoadInv, NEW c \in Candidates, AcceptOffer(c) PROVE LoadInv'
  <1>1. MarketTypeOK /\ Standing(c) /\ c[1] \in Requests
    BY SidesOf DEF OneByOne
  <1>2. /\ ~Reservation(boost[c[1]]).late
        /\ deal' = [deal EXCEPT ![c] = Reservation(boost[c[1]])]
    <2>1. boost[c[1]] \in Boosts
      BY <1>1, Zenon DEF MarketTypeOK
    <2> QED BY <2>1, ReservationIs DEF AcceptOffer, Reservation
  <1>3. ~deal'[c].late /\ \A d \in Candidates \ {c} : deal'[d] = deal[d]
    BY <1>1, <1>2, Zenon DEF MarketTypeOK
  <1>4. \A d \in Candidates : LateIsFunded(d)'
    BY <1>3, Zenon DEF LoadInv, LateIsFunded
  <1>5. ~Active(c)
    BY <1>1, Zenon DEF AcceptOffer, Compatible, Available, Standing, Active, Live
  <1>6. ASSUME NEW l \in Legs PROVE SumFunctionOnSet(Weights, OnTimeOn(l)') <= Capacity[l]
    <2> DEFINE before == OnTimeOn(l)
               after == OnTimeOn(l)'
               loaded == {d \in Candidates : l \in Covered[d] /\ Active(d)}
    <2>1. /\ before \in SUBSET Candidates /\ after \in SUBSET (before \union {c})
          /\ before \in SUBSET loaded /\ loaded \in SUBSET Candidates /\ c \notin before
          /\ l \notin Covered[c] => after \in SUBSET before
      BY <1>3, <1>5, SMT DEF OnTimeOn, OnTime, Active
    <2>2. SumFunctionOnSet(Weights, before) <= Capacity[l]
      BY DEF LoadInv
    <2>3. l \in Covered[c] => SumFunctionOnSet(Weights, loaded) + Weight[c[1]] <= Capacity[l]
      BY DEF AcceptOffer, Compatible, HasRoom, Load
    <2> HIDE DEF before, after, loaded
    <2> DEFINE wider == before \union {c}
    <2>4. wider \in SUBSET Candidates /\ after \in SUBSET Candidates
      BY <2>1
    <2>5. /\ SumFunctionOnSet(Weights, before) \in Nat
          /\ SumFunctionOnSet(Weights, after) \in Nat
          /\ SumFunctionOnSet(Weights, loaded) \in Nat
          /\ SumFunctionOnSet(Weights, wider) \in Nat
          /\ Weights[c] \in Nat /\ Weights[c] = Weight[c[1]]
      <3>1. {c} \in SUBSET Candidates /\ c \in {c}
        OBVIOUS
      <3> QED BY <2>1, <2>4, <3>1, WeightsAre, Zenon
    <2>6. SumFunctionOnSet(Weights, before) <= SumFunctionOnSet(Weights, loaded)
      BY <2>1, WeightsAre, SumOfSubset, Zenon
    <2>7. SumFunctionOnSet(Weights, after) <= SumFunctionOnSet(Weights, wider)
      BY <2>1, <2>4, WeightsAre, SumOfSubset, Zenon
    <2>8. SumFunctionOnSet(Weights, wider) = SumFunctionOnSet(Weights, before) + Weights[c]
      <3>1. IsFiniteSet(before) /\ \A d \in before : Weights[d] \in Int
        BY <2>1, WeightsAre, SMT
      <3>2. Weights[c] \in Int
        BY <2>5, SMT
      <3> QED BY <2>1, <3>1, <3>2, SumAddsOne, Zenon
    <2>9. l \notin Covered[c] => SumFunctionOnSet(Weights, after) <= SumFunctionOnSet(Weights, before)
      BY <2>1, WeightsAre, SumOfSubset, Zenon
    <2> HIDE DEF wider
    <2>10. SumFunctionOnSet(Weights, after) <= Capacity[l]
      BY <2>2, <2>3, <2>5, <2>6, <2>7, <2>8, <2>9, LegsAre, SMT
    <2> QED BY <2>10 DEF after
  <1>7. Weights' = Weights
    BY DEF Weights
  <1> QED BY <1>4, <1>6, <1>7, Zenon DEF LoadInv

(* Every other step of one Deal: what it writes counts no more than before.*)
LEMMA OneDealKeeps ==
    ASSUME LoadInv, NEW c \in Candidates, MarketTypeOK, NEW row, deal' = [deal EXCEPT ![c] = row],
           row.late => row.status = "funded",
           row.status \in {"none", "released", "ended"}
             \/ (row.status = "payment_required" /\ row.lapsed)
             \/ (row.status = "funded" /\ deal[c].status = "payment_required"
                    /\ row.late = deal[c].lapsed)
    PROVE  LoadInv'
  <1>1. deal'[c] = row /\ \A d \in Candidates \ {c} : deal'[d] = deal[d]
    BY Zenon DEF MarketTypeOK
  <1>2. ~deal[c].late \/ deal[c].status = "funded"
    BY Zenon DEF LoadInv, LateIsFunded
  <1>3. OnTime(c)' => OnTime(c)
    BY <1>1, <1>2, Zenon DEF OnTime, Active
  <1>4. LateIsFunded(c)'
    BY <1>1, Zenon DEF LateIsFunded
  <1>5. ASSUME NEW d \in Candidates PROVE LateIsFunded(d)' /\ (OnTime(d)' => OnTime(d))
    <2>1. CASE d = c
      BY <1>3, <1>4, <2>1
    <2>2. CASE d # c
      <3>1. deal'[d] = deal[d]
        BY <1>1, <2>2
      <3> QED BY <3>1, Zenon DEF LoadInv, LateIsFunded, OnTime, Active
    <2> QED BY <2>1, <2>2
  <1> QED BY <1>5, FewerKeep

LEMMA DealStepLoads ==
    ASSUME OneByOne, LoadInv, NEW c \in Candidates,
           GraceLapses(c) \/ FundDeal(c) \/ EndDeal(c) \/ Release(c)
    PROVE  LoadInv'
  <1>1. MarketTypeOK /\ deal[c] \in Deal
    BY Zenon DEF OneByOne, MarketTypeOK
  <1>2. CASE GraceLapses(c)
    <2>1. PICK row : row = [deal[c] EXCEPT !.lapsed = TRUE] /\ deal' = [deal EXCEPT ![c] = row]
      BY <1>2, Zenon DEF GraceLapses
    <2>2. row.status = deal[c].status /\ row.late = deal[c].late /\ row.lapsed
      <3>1. PICK old \in Deal : old = deal[c]
        BY <1>1
      <3>2. PICK yes \in BOOLEAN : yes = TRUE
        OBVIOUS
      <3>3. row = [old EXCEPT !.lapsed = yes]
        BY <2>1, <3>1, <3>2, Zenon
      <3>4. row.status = old.status /\ row.late = old.late /\ row.lapsed = yes
        BY <3>3, SMT DEF Deal
      <3> QED BY <3>1, <3>2, <3>4
    <2>3. deal[c].status = "payment_required" /\ LateIsFunded(c)
      BY <1>2, Zenon DEF GraceLapses, LoadInv
    <2> QED BY <1>1, <2>1, <2>2, <2>3, OneDealKeeps, Zenon DEF LateIsFunded
  <1>3. CASE FundDeal(c)
    <2>1. PICK row : /\ row = [status |-> "funded", boost |-> deal[c].boost,
                              lapsed |-> FALSE, late |-> deal[c].lapsed]
                     /\ deal' = [deal EXCEPT ![c] = row]
      BY <1>3, Zenon DEF FundDeal
    <2>2. row.status = "funded" /\ row.late = deal[c].lapsed
      BY <2>1
    <2>3. deal[c].status = "payment_required"
      BY <1>3 DEF FundDeal
    <2> QED BY <1>1, <2>1, <2>2, <2>3, OneDealKeeps, Zenon
  <1>4. CASE EndDeal(c)
    <2>1. deal' = [deal EXCEPT ![c] = Over("ended")]
      BY <1>4 DEF EndDeal, Over
    <2>2. Over("ended").status = "ended" /\ ~Over("ended").late
      BY OverIs
    <2> QED BY <1>1, <2>1, <2>2, OneDealKeeps, Zenon
  <1>5. CASE Release(c)
    <2>1. deal' = [deal EXCEPT ![c] = Over("released")]
      BY <1>5 DEF Release, Over
    <2>2. Over("released").status = "released" /\ ~Over("released").late
      BY OverIs
    <2> QED BY <1>1, <2>1, <2>2, OneDealKeeps, Zenon
  <1> QED BY <1>2, <1>3, <1>4, <1>5

LEMMA StepLoads ==
    ASSUME OneByOne, LoadInv, [Next]_vars PROVE LoadInv'
  <1>1. ASSUME deal' = deal PROVE LoadInv'
    <2>1. \A c \in Candidates : LateIsFunded(c)' /\ (OnTime(c)' => OnTime(c))
      BY <1>1, Zenon DEF LoadInv, LateIsFunded, OnTime, Active
    <2> QED BY <2>1, FewerKeep
  <1>2. ASSUME NEW r \in Requests,
               \/ \E amount \in Boosts : SetBoostIntent(r, amount)
               \/ CancelDeliveryRequest(r) \/ ExpireRequest(r)
        PROVE  deal' = deal
    BY <1>2, Zenon DEF SetBoostIntent, CancelDeliveryRequest, ExpireRequest
  <1>3. ASSUME NEW c \in Candidates,
               CreateSenderOffer(c) \/ CounterOffer(c) \/ ReadOffer(c) \/ CloseNegotiation(c)
        PROVE  deal' = deal
    BY <1>3, Zenon DEF CreateSenderOffer, CounterOffer, ReadOffer, CloseNegotiation
  <1>4. ASSUME NEW c \in Candidates,
               \/ GraceLapses(c) \/ FundDeal(c) \/ EndDeal(c)
               \/ ReleaseExpiredReservation(c) \/ CancelPendingDeal(c)
        PROVE  LoadInv'
    BY <1>4, DealStepLoads, Zenon DEF ReleaseExpiredReservation, CancelPendingDeal
  <1>5. ASSUME NEW j \in Journeys,
               \/ PublishJourney(j) \/ BeginCancelJourney(j) \/ ListDeals(j)
               \/ CloseOffersOfJourney(j) \/ CancelJourneyDies(j)
        PROVE  deal' = deal
    BY <1>5, Zenon DEF PublishJourney, BeginCancelJourney, ListDeals, CloseOffersOfJourney,
                       CancelJourneyDies
  <1>6. ASSUME NEW j \in Journeys, NEW c \in Candidates, ReleaseForJourney(j, c)
        PROVE  LoadInv'
    <2>1. CASE Releasable(c)
      BY <1>6, <2>1, DealStepLoads, Zenon DEF ReleaseForJourney
    <2>2. CASE ~Releasable(c)
      BY <1>1, <1>6, <2>2, Zenon DEF ReleaseForJourney
    <2> QED BY <2>1, <2>2
  <1>7. CASE UNCHANGED vars
    BY <1>1, <1>7 DEF vars
  <1>8. ASSUME NEW c \in Candidates, AcceptOffer(c) PROVE LoadInv'
    BY <1>8, AcceptFindsRoom
  <1> QED BY <1>1, <1>2, <1>3, <1>4, <1>5, <1>6, <1>7, <1>8, Zenon DEF Next

LEMMA InitLoads == Init => LoadInv
  <1> SUFFICES ASSUME Init PROVE LoadInv
    OBVIOUS
  <1>1. ASSUME NEW c \in Candidates PROVE LateIsFunded(c) /\ ~OnTime(c)
    <2>1. deal[c] = NoDeal
      BY DEF Init
    <2> QED BY <2>1, NoDealIs, Zenon DEF LateIsFunded, OnTime, Active
  <1>2. ASSUME NEW l \in Legs PROVE SumFunctionOnSet(Weights, OnTimeOn(l)) <= Capacity[l]
    <2>1. OnTimeOn(l) = {}
      BY <1>1 DEF OnTimeOn
    <2>2. SumFunctionOnSet(Weights, {}) = 0
      BY SumOfNothing
    <2> QED BY <2>1, <2>2, LegsAre, SMT
  <1> QED BY <1>1, <1>2, Zenon DEF LoadInv

(* Without money that came late, everything active on a leg is on time.    *)
LEMMA LoadsExplain == LoadInv => OversoldOnlyByLateMoney
  <1> SUFFICES ASSUME LoadInv, NEW l \in Legs,
                      \A c \in Candidates : ~(l \in Covered[c] /\ deal[c].status = "funded"
                                                                /\ deal[c].late)
               PROVE  ~(Load(l) > Capacity[l])
    BY Zenon DEF OversoldOnlyByLateMoney
  <1>1. {c \in Candidates : l \in Covered[c] /\ Active(c)} = OnTimeOn(l)
    BY SMT DEF LoadInv, LateIsFunded, OnTimeOn, OnTime
  <1>2. Load(l) = SumFunctionOnSet(Weights, OnTimeOn(l))
    BY <1>1 DEF Load
  <1>3. SumFunctionOnSet(Weights, OnTimeOn(l)) <= Capacity[l]
    BY DEF LoadInv
  <1>4. SumFunctionOnSet(Weights, OnTimeOn(l)) \in Nat
    BY WeightsAre DEF OnTimeOn
  <1> QED BY <1>2, <1>3, <1>4, LegsAre, SMT

(* For any weights and capacities: a leg is oversold only where a late     *)
(* payment funded a reservation whose room had been given away             *)
(* (_accept_offer_locked, DealLegAllocation.active, fund_deal).            *)
THEOREM LegsCarryWhatTheyCan == Spec => []OversoldOnlyByLateMoney
  <1>1. Init => OneByOne /\ LoadInv
    BY InitHolds, InitLoads
  <1>2. (OneByOne /\ LoadInv) /\ [Next]_vars => (OneByOne /\ LoadInv)'
    BY StepKeeps, StepLoads
  <1>3. OneByOne /\ LoadInv => OversoldOnlyByLateMoney
    BY LoadsExplain
  <1> QED BY <1>1, <1>2, <1>3, PTL DEF Spec
=============================================================================
