----------------------------- MODULE Marketplace -----------------------------
(***************************************************************************)
(* Offers, reservations and Boosts: the write paths of                     *)
(* apps/matching/v1_services.py, with what apps/deals, apps/trips,         *)
(* apps/parcels and apps/boosts do to the same rows.  A candidate is one   *)
(* request on one journey; its row stands for the latest Match of the      *)
(* pair, that match's pending offer and the Deal it led to.  Every action  *)
(* is one transaction, cancel_journey being several.                       *)
(* The traveler's reward and its commission are fixed by the offer row, so *)
(* of the totals a party is shown only the Boost is kept; which of the two *)
(* parties acts, and whether an ended match expired or was cancelled, is   *)
(* left out, and an offer that is over is on no screen.                    *)
(***************************************************************************)
EXTENDS Naturals, FiniteSets, FiniteSetsExt

CONSTANTS
    Requests,
    Journeys,
    Candidates,     \* the pairs <<request, journey>> that are compatible
    Legs,
    Covered,        \* Covered[c]: the journey legs candidate c travels on
    Weight,         \* Weight[r]: what request r weighs
    Capacity,       \* Capacity[l]: what leg l can carry
    Boosts          \* the Boost amounts a sender may set, 0 among them

ASSUME MarketAssumption ==
    /\ Candidates \subseteq Requests \X Journeys
    /\ IsFiniteSet(Candidates)
    /\ Covered \in [Candidates -> SUBSET Legs]
    /\ Weight \in [Requests -> Nat \ {0}]
    /\ Capacity \in [Legs -> Nat]
    /\ Boosts \subseteq Nat
    /\ 0 \in Boosts

VARIABLES
    request,        \* ParcelRequest.status
    boost,          \* DeliveryRequest.boost_eur_cents
    journey,        \* Journey.status
    cancelling,     \* cancelling[j]: how far cancel_journey has got on j
    toRelease,      \* toRelease[j]: the Deals it has listed and not yet released
    match,          \* match[c]: Match.status; its offer is pending iff the match is
    shown,          \* shown[c]: the Boost on the acceptor's screen, if any
    deal            \* deal[c]: the Deal and its leg allocations

journeyVars == <<journey, cancelling, toRelease>>
offerVars == <<match, shown>>
vars == <<request, boost, journeyVars, offerVars, deal>>

Unseen == {}
NoDeal == [status |-> "none", boost |-> 0, lapsed |-> FALSE, late |-> FALSE]
Deal == [status: {"none", "payment_required", "funded", "released", "ended"},
         boost: Boosts,         \* DealTermsSnapshot.boost_amount_minor
         lapsed: BOOLEAN,       \* the allocations' expires_at has passed
         late: BOOLEAN]         \* it was funded after that

MarketTypeOK ==
    /\ request \in [Requests -> {"open", "matched", "expired", "cancelled", "closed"}]
    /\ boost \in [Requests -> Boosts]
    /\ journey \in [Journeys -> {"draft", "active", "cancelled"}]
    /\ cancelling \in [Journeys -> {"idle", "cancelled", "listed", "done"}]
    /\ toRelease \in [Journeys -> SUBSET Candidates]
    /\ match \in [Candidates -> {"none", "pending", "accepted", "over"}]
    /\ shown \in [Candidates -> SUBSET Boosts]
    /\ deal \in [Candidates -> Deal]

Init ==
    /\ request = [r \in Requests |-> "open"]
    /\ boost = [r \in Requests |-> 0]
    /\ journey = [j \in Journeys |-> "draft"]
    /\ cancelling = [j \in Journeys |-> "idle"]
    /\ toRelease = [j \in Journeys |-> {}]
    /\ match = [c \in Candidates |-> "none"]
    /\ shown = [c \in Candidates |-> Unseen]
    /\ deal = [c \in Candidates |-> NoDeal]

On(j) == {c \in Candidates : c[2] = j}
For(r) == {c \in Candidates : c[1] = r}
-----------------------------------------------------------------------------
(* DealLegAllocation.objects.active(): a reservation whose grace has       *)
(* passed no longer counts, released or not.                               *)
BugCountsFunded(c) == deal[c].status = "funded"
Active(c) ==
    \/ deal[c].status = "funded"
    \/ deal[c].status = "payment_required" /\ ~deal[c].lapsed

Weights == [c \in Candidates |-> Weight[c[1]]]
Load(l) == SumFunctionOnSet(Weights, {c \in Candidates : l \in Covered[c] /\ Active(c)})
HasRoom(c) == \A l \in Covered[c] : Load(l) + Weight[c[1]] <= Capacity[l]

(* What _validate_evaluation gates, under the locks of request and journey.*)
BugBooksAnyway(j) == journey[j] # "draft"
Bookable(j) == journey[j] = "active"
Available(r) == request[r] = "open"
Compatible(c) == Available(c[1]) /\ Bookable(c[2]) /\ HasRoom(c)

(* publish_journey, every verification gate passed. *)
PublishJourney(j) ==
    /\ journey[j] = "draft"
    /\ journey' = [journey EXCEPT ![j] = "active"]
    /\ UNCHANGED <<request, boost, cancelling, toRelease, offerVars, deal>>

(* create_sender_offer; one pending match per pair, so the sender proposes *)
(* again only once the last negotiation is over.                           *)
CreateSenderOffer(c) ==
    /\ Compatible(c)
    /\ match[c] # "pending"
    /\ match' = [match EXCEPT ![c] = "pending"]
    /\ shown' = [shown EXCEPT ![c] = Unseen]
    /\ UNCHANGED <<request, boost, journeyVars, deal>>

CounterOffer(c) ==
    /\ match[c] = "pending"
    /\ Compatible(c)
    /\ shown' = [shown EXCEPT ![c] = Unseen]
    /\ UNCHANGED <<request, boost, journeyVars, match, deal>>

(* The other party reads the offer: its totals include the Boost of now.   *)
ReadOffer(c) ==
    /\ match[c] = "pending"
    /\ shown' = [shown EXCEPT ![c] = {boost[c[1]]}]
    /\ UNCHANGED <<request, boost, journeyVars, match, deal>>

(* OfferDeclineView, OfferWithdrawView, MatchCancelView. *)
CloseNegotiation(c) ==
    /\ match[c] = "pending"
    /\ match' = [match EXCEPT ![c] = "over"]
    /\ shown' = [shown EXCEPT ![c] = Unseen]
    /\ UNCHANGED <<request, boost, journeyVars, deal>>

(* _confirm_committed_economics: what was read is what would be frozen; an *)
(* acceptor who read nothing may accept only an offer without a Boost.     *)
BugConfirmsOld(c) == shown[c] # Unseen \/ boost[c[1]] = 0
Confirmed(c) == shown[c] = {boost[c[1]]} \/ (shown[c] = Unseen /\ boost[c[1]] = 0)

BugCompeting(c) == {d \in On(c[2]) : d # c /\ match[d] = "pending"}
Competing(c) == {d \in For(c[1]) : d # c /\ match[d] = "pending"}

AcceptOffer(c) ==
    /\ match[c] = "pending"
    /\ Compatible(c)
    /\ Confirmed(c)
    /\ deal' = [deal EXCEPT ![c] = [NoDeal EXCEPT !.status = "payment_required",
                                                  !.boost = boost[c[1]]]]
    /\ match' = [d \in Candidates |-> IF d = c THEN "accepted"
                                      ELSE IF d \in Competing(c) THEN "over" ELSE match[d]]
    /\ request' = [request EXCEPT ![c[1]] = "matched"]
    /\ UNCHANGED <<boost, journeyVars, shown>>
-----------------------------------------------------------------------------
(* set_boost_intent. *)
BugEditsMatched(r) == request[r] \in {"open", "matched"}
Editable(r) == request[r] = "open"
SetBoostIntent(r, amount) ==
    /\ Editable(r)
    /\ amount # boost[r]
    /\ boost' = [boost EXCEPT ![r] = amount]
    /\ UNCHANGED <<request, journeyVars, offerVars, deal>>

(* cancel_delivery_request. *)
CancelDeliveryRequest(r) ==
    /\ request[r] = "open"
    /\ \A c \in For(r) : deal[c].status = "none"
    /\ request' = [request EXCEPT ![r] = "cancelled"]
    /\ boost' = [boost EXCEPT ![r] = 0]
    /\ match' = [c \in Candidates |-> IF c \in For(r) /\ match[c] = "pending"
                                      THEN "over" ELSE match[c]]
    /\ UNCHANGED <<journeyVars, shown, deal>>

(* handle_deposit_expiry_refund past the deadline; the negotiations stay.  *)
ExpireRequest(r) ==
    /\ request[r] = "open"
    /\ request' = [request EXCEPT ![r] = "expired"]
    /\ boost' = [boost EXCEPT ![r] = 0]
    /\ UNCHANGED <<journeyVars, offerVars, deal>>
-----------------------------------------------------------------------------
(* release_pending_deal_reservation, whoever calls it. *)
Releasable(c) == deal[c].status = "payment_required"

Release(c) ==
    /\ deal' = [deal EXCEPT ![c] = [NoDeal EXCEPT !.status = "released"]]
    /\ match' = [match EXCEPT ![c] = "over"]
    /\ request' = [request EXCEPT ![c[1]] = IF @ = "matched" THEN "open" ELSE @]
    /\ shown' = [shown EXCEPT ![c] = Unseen]
    /\ UNCHANGED boost

GraceLapses(c) ==
    /\ deal[c].status = "payment_required"
    /\ ~deal[c].lapsed
    /\ deal' = [deal EXCEPT ![c].lapsed = TRUE]
    /\ UNCHANGED <<request, boost, journeyVars, offerVars>>

(* The sweep, and the payment_grace_release job. *)
BugSkipsCancelled(c) == deal[c].lapsed /\ journey[c[2]] = "active"
Due(c) == deal[c].lapsed
ReleaseExpiredReservation(c) ==
    /\ Releasable(c)
    /\ Due(c)
    /\ Release(c)
    /\ UNCHANGED journeyVars

CancelPendingDeal(c) ==
    /\ Releasable(c)
    /\ Release(c)
    /\ UNCHANGED journeyVars

(* fund_deal: the allocations are still pending, lapsed or not. *)
FundDeal(c) ==
    /\ deal[c].status = "payment_required"
    /\ deal' = [deal EXCEPT ![c] = [status |-> "funded", boost |-> @.boost,
                                       lapsed |-> FALSE, late |-> @.lapsed]]
    /\ boost' = [boost EXCEPT ![c[1]] = 0]
    /\ UNCHANGED <<request, journeyVars, offerVars>>

(* The Deal runs its course; the request follows it and never reopens.     *)
EndDeal(c) ==
    /\ deal[c].status = "funded"
    /\ deal' = [deal EXCEPT ![c] = [NoDeal EXCEPT !.status = "ended"]]
    /\ request' = [request EXCEPT ![c[1]] = "closed"]
    /\ shown' = [shown EXCEPT ![c] = Unseen]
    /\ UNCHANGED <<boost, journeyVars, match>>
-----------------------------------------------------------------------------
(* cancel_journey: the status commits first; the pending Deals are listed  *)
(* after that and released one transaction at a time; then the offers are  *)
(* closed.  A process that dies halfway leaves the rest to the next call.  *)
BeginCancelJourney(j) ==
    /\ journey[j] # "draft"
    /\ cancelling[j] = "idle"
    /\ \A c \in On(j) : deal[c].status # "funded"
    /\ journey' = [journey EXCEPT ![j] = "cancelled"]
    /\ cancelling' = [cancelling EXCEPT ![j] = "cancelled"]
    /\ UNCHANGED <<request, boost, toRelease, offerVars, deal>>

ListDeals(j) ==
    /\ cancelling[j] = "cancelled"
    /\ cancelling' = [cancelling EXCEPT ![j] = "listed"]
    /\ toRelease' = [toRelease EXCEPT ![j] =
                        {c \in On(j) : deal[c].status = "payment_required"}]
    /\ UNCHANGED <<request, boost, journey, offerVars, deal>>

ReleaseForJourney(j, c) ==
    /\ cancelling[j] = "listed"
    /\ c \in toRelease[j]
    /\ toRelease' = [toRelease EXCEPT ![j] = @ \ {c}]
    /\ IF Releasable(c) THEN Release(c) ELSE UNCHANGED <<request, boost, offerVars, deal>>
    /\ UNCHANGED <<journey, cancelling>>

CloseOffersOfJourney(j) ==
    /\ cancelling[j] = "listed"
    /\ toRelease[j] = {}
    /\ cancelling' = [cancelling EXCEPT ![j] = "done"]
    /\ match' = [c \in Candidates |-> IF c \in On(j) /\ match[c] = "pending"
                                      THEN "over" ELSE match[c]]
    /\ UNCHANGED <<request, boost, journey, toRelease, shown, deal>>

CancelJourneyDies(j) ==
    /\ cancelling[j] \in {"cancelled", "listed"}
    /\ cancelling' = [cancelling EXCEPT ![j] = "idle"]
    /\ toRelease' = [toRelease EXCEPT ![j] = {}]
    /\ UNCHANGED <<request, boost, journey, offerVars, deal>>

Next ==
    \/ \E r \in Requests :
         \/ \E amount \in Boosts : SetBoostIntent(r, amount)
         \/ CancelDeliveryRequest(r) \/ ExpireRequest(r)
    \/ \E c \in Candidates :
         \/ CreateSenderOffer(c) \/ CounterOffer(c) \/ ReadOffer(c) \/ CloseNegotiation(c)
         \/ AcceptOffer(c) \/ GraceLapses(c) \/ ReleaseExpiredReservation(c)
         \/ CancelPendingDeal(c) \/ FundDeal(c) \/ EndDeal(c)
    \/ \E j \in Journeys :
         \/ PublishJourney(j) \/ BeginCancelJourney(j) \/ ListDeals(j)
         \/ \E c \in Candidates : ReleaseForJourney(j, c)
         \/ CloseOffersOfJourney(j) \/ CancelJourneyDies(j)

Spec == Init /\ [][Next]_vars

(* Time passes, and the sweep runs for as long as something is due. *)
Fairness ==
    \A c \in Candidates : WF_vars(GraceLapses(c)) /\ WF_vars(ReleaseExpiredReservation(c))
FairSpec == Spec /\ Fairness
-----------------------------------------------------------------------------
(* A leg carries more than it can only where money that came after the     *)
(* grace had lapsed funded a reservation that no longer counted            *)
(* (_accept_offer_locked, DealLegAllocation.active, fund_deal).            *)
OversoldOnlyByLateMoney ==
    \A l \in Legs : Load(l) > Capacity[l] =>
        \E c \in Candidates : l \in Covered[c] /\ deal[c].status = "funded" /\ deal[c].late

(* The promise in fund_deal's comment: funding never oversells a leg.      *)
LegNeverOversold == \A l \in Legs : Load(l) <= Capacity[l]

(* A request is matched exactly while one Deal on it is live, only one can *)
(* be, however many travelers are offered it, and once it is taken or      *)
(* withdrawn no offer on it is left to answer.                             *)
Live(c) == deal[c].status \in {"payment_required", "funded"}
TakenByOneDeal ==
    /\ \A r \in Requests :
        /\ request[r] = "matched" <=> \E c \in For(r) : Live(c)
        /\ \A c, d \in For(r) : Live(c) /\ Live(d) => c = d
    /\ \A c \in Candidates :
        request[c[1]] \in {"matched", "cancelled", "closed"} => match[c] # "pending"

(* The Boost of a Deal is the one its acceptor had read, and it is         *)
(* promised once: an unfunded Deal's Boost is still the one the request    *)
(* carries, so a release revives exactly it, and a funded Deal's has left  *)
(* the request.                                                            *)
BoostPromisedOnce ==
    \A c \in Candidates :
        /\ Live(c) => shown[c] = {deal[c].boost} \/ (shown[c] = Unseen /\ deal[c].boost = 0)
        /\ deal[c].status = "payment_required" => boost[c[1]] = deal[c].boost
        /\ deal[c].status = "funded" => boost[c[1]] = 0

(* cancel_journey leaves nothing behind: an acceptance in flight either    *)
(* shows up in its list or sees the cancelled status.                      *)
CancelledJourneyIsCleared ==
    \A j \in Journeys : cancelling[j] = "done" =>
        \A c \in On(j) : match[c] # "pending" /\ deal[c].status # "payment_required"

(* The message of cancel_journey: a journey with a funded Deal cannot be   *)
(* cancelled.                                                              *)
FundedJourneyStands ==
    \A c \in Candidates : deal[c].status = "funded" => journey[c[2]] # "cancelled"

(* No reservation holds a request for ever. *)
ReservationEnds ==
    \A c \in Candidates :
        deal[c].status = "payment_required" ~> deal[c].status # "payment_required"
=============================================================================
