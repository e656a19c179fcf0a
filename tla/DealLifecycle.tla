---------------------------- MODULE DealLifecycle ----------------------------
(***************************************************************************)
(* The funded Deal of apps/deals: the status machine of deals/lifecycle.py *)
(* and the rows lock_deal_lifecycle takes together with it.  Every writer  *)
(* of this part of the program enters through that lock, so each operation *)
(* of the modules built on this one is a single atomic step.               *)
(*                                                                         *)
(* The Deal starts funded.  Its statuses `picked_up' and                   *)
(* `delivery_confirmed' are written and overwritten inside one transaction *)
(* and are never seen by another, so they are not among the statuses here. *)
(***************************************************************************)
EXTENDS Integers, FiniteSets

CONSTANTS
    Buffer,        \* delivery_code_buffer_seconds
    Protection,    \* protection_window_seconds
    Floor,         \* funded_scheduled_arrival_floor_at, 0 when there is none
    MaxDisputes,   \* bound on the Dispute rows of the Deal
    LastHandover,  \* bound: no code is confirmed later than this
    MaxTime        \* bound on the clock

ASSUME LifecycleAssumption ==
    /\ Buffer \in Nat
    /\ Protection \in Nat
    /\ Floor \in Nat
    /\ MaxDisputes \in Nat
    /\ LastHandover \in Nat
    /\ MaxTime \in Nat

VARIABLES
    now,          \* timezone.now()
    status,       \* Deal.status
    recipient,    \* a DealRecipient row exists
    pickupAt,     \* Deal.pickup_confirmed_at
    released,     \* Deal.delivery_code_released_at is set
    deliveredAt,  \* Deal.delivery_confirmed_at
    noShow,       \* Deal.no_show_party is set
    dispute       \* dispute[d]: the Dispute rows

lifecycleVars == <<now, status, recipient, pickupAt, released, deliveredAt, noShow, dispute>>

NotYet     == -1
PrePickup  == {"funded", "pickup_ready"}
InCarriage == {"in_transit", "delivery_ready"}
Closed     == {"refunded", "partially_refunded"}
DealStatus == PrePickup \union InCarriage \union Closed
              \union {"protection_window", "disputed", "completed"}

DisputeIds    == 1..MaxDisputes
DisputeStatus == {"absent", "open", "awaiting_evidence", "under_review", "resolved", "closed"}
ActiveStatus  == {"open", "awaiting_evidence", "under_review"}
\* decided: the resolution columns are filled; they survive a later closing.
Dispute       == [status: DisputeStatus, byParty: BOOLEAN, decided: BOOLEAN]
NoDispute     == [status |-> "absent", byParty |-> FALSE, decided |-> FALSE]

ActiveDispute == \E d \in DisputeIds : dispute[d].status \in ActiveStatus

(* The stored instants, written once, from which every gate is computed.   *)
AvailableAt      == pickupAt + Buffer
ProtectionEndsAt == deliveredAt + Protection
ReleaseGateAt    == IF Floor > ProtectionEndsAt THEN Floor ELSE ProtectionEndsAt

Delivered == deliveredAt # NotYet

LifecycleTypeOK ==
    /\ now \in 0..MaxTime
    /\ status \in DealStatus
    /\ recipient \in BOOLEAN
    /\ pickupAt \in {NotYet} \union 0..MaxTime
    /\ released \in BOOLEAN
    /\ deliveredAt \in {NotYet} \union 0..MaxTime
    /\ noShow \in BOOLEAN
    /\ dispute \in [DisputeIds -> Dispute]

LifecycleInit ==
    /\ now = 0
    /\ status = "funded"
    /\ recipient = FALSE
    /\ pickupAt = NotYet
    /\ released = FALSE
    /\ deliveredAt = NotYet
    /\ noShow = FALSE
    /\ dispute = [d \in DisputeIds |-> NoDispute]
-----------------------------------------------------------------------------
(* The apply_* transitions.  Each is a conjunct of the operation that runs *)
(* it: it holds the transition's refusals and assigns the columns it saves.*)
ApplyPickupReady ==
    status' = IF status = "funded" /\ recipient' THEN "pickup_ready" ELSE status

ApplyPickupConfirmed ==
    /\ pickupAt = NotYet
    /\ status \in PrePickup
    /\ pickupAt' = now
    /\ status' = "in_transit"

ApplyDeliveryCodeReleased ==
    /\ ~released
    /\ pickupAt # NotYet
    /\ now >= AvailableAt
    /\ status \in InCarriage
    /\ released' = TRUE
    /\ status' = "delivery_ready"

ApplyDeliveryConfirmed ==
    /\ ~Delivered
    /\ status = "delivery_ready"
    /\ deliveredAt' = now
    /\ status' = "protection_window"

(* apply_completed, as _close_out guards it.                               *)
BugCloseOutEarlier ==
    status' = IF status = "delivery_ready" THEN "completed" ELSE status

CloseOut ==
    status' = IF status = "protection_window" THEN "completed" ELSE status

BugDisputeAnything == status' = "disputed"

ApplyDisputed ==
    /\ status \notin Closed
    /\ status' = "disputed"

ApplyDisputeResolved(target) == status' = target

(* The clock.                                                              *)
Tick ==
    /\ now < MaxTime
    /\ now' = now + 1
    /\ UNCHANGED <<status, recipient, pickupAt, released, deliveredAt, noShow, dispute>>
=============================================================================
