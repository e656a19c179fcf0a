------------------------------ MODULE Ratings ------------------------------
(***************************************************************************)
(* The blind review of one delivered Deal: each party rates the other once *)
(* inside the review window; what a viewer may see is computed, and the    *)
(* rating_reveal job only stamps it.                                       *)
(***************************************************************************)
EXTENDS Naturals

CONSTANTS Window        \* rating_window_ends_at, from the confirmation

ASSUME WindowAssumption == Window \in Nat \ {0}

Roles == {"sender", "traveler"}
Other(role) == CHOOSE r \in Roles : r # role

VARIABLES
    clock,
    rating,     \* by rater_role: submitted, the stamp, and what its author knew
    ratable,    \* the Deal is in one of RATABLE_STATUSES
    knows,      \* who has been shown the counterparty's rating
    revealJob   \* the rating_reveal job; "started" once it has read the time

ratingsVars == <<clock, rating, ratable, knows, revealJob>>

NoRating == [submitted |-> FALSE, revealed |-> FALSE, informed |-> FALSE]

RatingsInit ==
    /\ clock = 0
    /\ rating = [r \in Roles |-> NoRating]
    /\ ratable = TRUE
    /\ knows = [r \in Roles |-> FALSE]
    /\ revealJob = "pending"

BothSidesSubmitted == \A r \in Roles : rating[r].submitted

(* _assert_window_open: the end itself is closed. *)
BugWindowEndIsOpen == ratable /\ clock <= Window
WindowOpen == ratable /\ clock < Window

(* is_revealed: computed, never read from revealed_at. *)
IsRevealed(at) == at >= Window \/ BothSidesSubmitted

(* submit_rating, under the Deal's lifecycle lock, which also dates it.    *)
(* The second side reveals both in the same transaction.                   *)
Submit(role) ==
    /\ WindowOpen
    /\ ~rating[role].submitted
    /\ LET second == rating[Other(role)].submitted
           row == [submitted |-> TRUE, revealed |-> second, informed |-> knows[role]]
       IN rating' = IF second
                    THEN [rating EXCEPT ![role] = row, ![Other(role)].revealed = TRUE]
                    ELSE [rating EXCEPT ![role] = row]
    /\ UNCHANGED <<clock, ratable, knows, revealJob>>

(* rating_state and received_ratings, at any time. *)
Look(role) ==
    /\ rating[Other(role)].submitted /\ IsRevealed(clock)
    /\ knows' = [knows EXCEPT ![role] = TRUE]
    /\ UNCHANGED <<clock, rating, ratable, revealJob>>

(* handle_rating_reveal is due at the window's end; it reads the time and  *)
(* then waits for the lock.                                                *)
BugJobDueAt == Window - 1
JobDueAt == Window
StartReveal ==
    /\ revealJob = "pending" /\ clock >= JobDueAt
    /\ revealJob' = "started"
    /\ UNCHANGED <<clock, rating, ratable, knows>>

(* reveal_ratings_for_deal; with no rows yet it has nothing left to do.    *)
Reveal ==
    /\ revealJob = "started"
    /\ rating' = [r \in Roles |->
                    IF rating[r].submitted /\ IsRevealed(JobDueAt)
                    THEN [rating[r] EXCEPT !.revealed = TRUE] ELSE rating[r]]
    /\ revealJob' = IF (\E r \in Roles : rating[r].submitted) /\ ~IsRevealed(JobDueAt)
                    THEN "pending" ELSE "succeeded"
    /\ UNCHANGED <<clock, ratable, knows>>

(* A full refund or a cancellation takes the Deal out of RATABLE_STATUSES. *)
BecomesUnratable ==
    /\ ratable /\ ratable' = FALSE
    /\ UNCHANGED <<clock, rating, knows, revealJob>>

Tick ==
    /\ clock < Window + 1 /\ clock' = clock + 1
    /\ UNCHANGED <<rating, ratable, knows, revealJob>>

RatingsNext ==
    \/ \E r \in Roles : Submit(r) \/ Look(r)
    \/ StartReveal \/ Reveal \/ BecomesUnratable \/ Tick

(* The clock and the worker loop; nobody has to rate or to look. *)
RatingsSpec ==
    /\ RatingsInit /\ [][RatingsNext]_ratingsVars
    /\ WF_ratingsVars(Tick) /\ WF_ratingsVars(StartReveal \/ Reveal)
-----------------------------------------------------------------------------
(* Nobody rates after having been shown the other side's rating: the       *)
(* window's end, two submissions at once and the job's run never overlap.  *)
RatedBlind == \A r \in Roles : ~rating[r].informed

(* The audit stamp is never missing for good: the job is not retired while *)
(* a rating can still arrive.                                              *)
EveryRatingIsStamped == \A r \in Roles : rating[r].submitted ~> rating[r].revealed
=============================================================================
