------------------------------- MODULE Handover -------------------------------
(***************************************************************************)
(* apps/handover: the pickup and the delivery code of one Deal, and the    *)
(* durable delivery_code_release job that ends the safety buffer.  A code  *)
(* is its latest row: a superseded row is never read again.  The secret    *)
(* itself is abstracted to whether a submission matches it.  Left out, as  *)
(* they only refuse: the party checks and the attempts-per-window limit.   *)
(***************************************************************************)
EXTENDS DealLifecycle

CONSTANTS
    MaxFailed,    \* max_failed_attempts
    MaxLockouts,  \* max_lockouts
    Lockout       \* attempt_lockout_seconds

ASSUME HandoverAssumption ==
    /\ MaxFailed \in Nat \ {0}
    /\ MaxLockouts \in Nat \ {0}
    /\ Lockout \in Nat

VARIABLES
    code,        \* code[k]: the latest DealHandoverCode row of kind k
    releaseJob   \* the row delivery_code_release:<deal>

handoverVars == <<code, releaseJob>>

Kinds     == {"pickup", "delivery"}
LiveState == {"buffered", "active"}
CodeState == {"absent", "used", "locked", "cancelled"} \union LiveState
JobState  == {"none", "armed", "done"}
\* mailed: the recipient's email for this very row is in the outbox.
Code == [state: CodeState, failed: 0..MaxFailed, lockouts: 0..MaxLockouts,
         lockedUntil: 0..(MaxTime + Lockout), mailed: BOOLEAN]

Fresh(s, m) == [state |-> s, failed |-> 0, lockouts |-> 0, lockedUntil |-> 0, mailed |-> m]
Live(k)     == code[k].state \in LiveState
SetCode(k, row) == code' = [code EXCEPT ![k] = row]

HandoverTypeOK ==
    /\ code \in [Kinds -> Code]
    /\ releaseJob \in JobState

(* fund_deal calls ensure_pickup_code: the pickup code is live at once.    *)
HandoverInit ==
    /\ code = [k \in Kinds |-> Fresh(IF k = "pickup" THEN "active" ELSE "absent", FALSE)]
    /\ releaseJob = "none"
-----------------------------------------------------------------------------
(* set_recipient: writes or replaces the row, then opens pickup.           *)
SetRecipient ==
    /\ pickupAt = NotYet
    /\ status \in PrePickup
    /\ recipient' = TRUE
    /\ ApplyPickupReady
    /\ UNCHANGED <<now, pickupAt, released, deliveredAt, noShow, dispute, handoverVars>>

(* What release_delivery_code and a late reveal_code both do: arm the code *)
(* if none is live, promote it, move the Deal, queue the recipient's mail. *)
Promoted ==
    IF Live("delivery")
    THEN [code["delivery"] EXCEPT !.state = "active", !.mailed = recipient]
    ELSE Fresh("active", recipient)

Promote ==
    /\ ApplyDeliveryCodeReleased
    /\ SetCode("delivery", Promoted)
    /\ UNCHANGED <<now, recipient, pickupAt, deliveredAt, noShow, dispute>>

(* The job's handler.  It may run again after its outcome was recorded (a  *)
(* requeued lease), so a finished job is no guard against running it.      *)
ReleaseJobActs ==
    /\ releaseJob # "none"
    /\ Promote
    /\ releaseJob' = "done"

BugEarlyFireDischarges ==
    /\ releaseJob = "armed"
    /\ releaseJob' = "done"
    /\ UNCHANGED <<lifecycleVars, code>>

ReleaseJobHasNothingToDo ==
    /\ releaseJob = "armed"
    /\ released \/ status \notin InCarriage
    /\ releaseJob' = "done"
    /\ UNCHANGED <<lifecycleVars, code>>

RunReleaseJob == ReleaseJobActs \/ ReleaseJobHasNothingToDo

(* reveal_code by the sender after the window, before any worker came.  A  *)
(* reveal in any other state reads and changes nothing.                    *)
RevealReleases ==
    /\ Promote
    /\ UNCHANGED releaseJob

(* rotate_code: supersede the live row, if any, and issue an active one.   *)
BugRotateAnyStatus(k) ==
    IF k = "pickup"
    THEN pickupAt = NotYet /\ status \in PrePickup
    ELSE ~Delivered /\ pickupAt # NotYet /\ now >= AvailableAt

MayRotate(k) ==
    IF k = "pickup"
    THEN pickupAt = NotYet /\ status \in PrePickup
    ELSE ~Delivered /\ status \in InCarriage /\ now >= AvailableAt

Rotate(k) ==
    /\ MayRotate(k)
    /\ SetCode(k, Fresh("active", k = "delivery" /\ recipient))
    /\ UNCHANGED <<lifecycleVars, releaseJob>>

(* submit_code: what the Deal must be, and what the code must be, before a *)
(* candidate is compared at all.                                           *)
DealAccepts(k) ==
    IF k = "pickup"
    THEN status = "pickup_ready" /\ pickupAt = NotYet
    ELSE status = "delivery_ready" /\ released /\ ~Delivered

Comparable(k) ==
    /\ DealAccepts(k)
    /\ code[k].state = "active"
    /\ code[k].lockedUntil <= now

(* _apply_failed_attempt: count, lock out for a while, lock for good.      *)
AfterFailure(row) ==
    LET lockouts == row.lockouts + 1
    IN  IF row.failed + 1 < MaxFailed THEN [row EXCEPT !.failed = row.failed + 1]
        ELSE IF lockouts >= MaxLockouts
             THEN [row EXCEPT !.failed = 0, !.lockouts = lockouts, !.state = "locked"]
             ELSE [row EXCEPT !.failed = 0, !.lockouts = lockouts,
                              !.lockedUntil = now + Lockout]

SubmitWrong(k) ==
    /\ Comparable(k)
    /\ SetCode(k, AfterFailure(code[k]))
    /\ UNCHANGED <<lifecycleVars, releaseJob>>

(* _apply_successful_submission, pickup: consume the code, start the       *)
(* buffer, create the delivery code buffered and promise its release.      *)
Used(row) == [row EXCEPT !.state = "used", !.failed = 0, !.lockedUntil = 0]

ConfirmPickup ==
    /\ now <= LastHandover
    /\ Comparable("pickup")
    /\ ApplyPickupConfirmed
    /\ code' = [pickup   |-> Used(code["pickup"]),
                delivery |-> IF Live("delivery") THEN code["delivery"]
                             ELSE Fresh("buffered", FALSE)]
    /\ releaseJob' = "armed"
    /\ UNCHANGED <<now, recipient, released, deliveredAt, noShow, dispute>>

(* Delivery: the step also arms the protection_expiry job, whose row       *)
(* belongs to PayoutRelease.                                               *)
ConfirmDelivery ==
    /\ now <= LastHandover
    /\ Comparable("delivery")
    /\ ApplyDeliveryConfirmed
    /\ SetCode("delivery", Used(code["delivery"]))
    /\ UNCHANGED <<now, recipient, pickupAt, released, noShow, dispute, releaseJob>>

(* _cancel_live_codes and _retire_live_codes.                              *)
BugRetireEveryCode ==
    code' = [k \in Kinds |-> [code[k] EXCEPT !.state = "cancelled"]]

RetireLiveCodes ==
    code' = [k \in Kinds |-> IF Live(k) THEN [code[k] EXCEPT !.state = "cancelled"]
                             ELSE code[k]]

HandoverNext ==
    \/ SetRecipient
    \/ RunReleaseJob
    \/ RevealReleases
    \/ \E k \in Kinds : Rotate(k) \/ SubmitWrong(k)
    \/ ConfirmPickup
=============================================================================
