--------------------------- MODULE MCScheduledJobs ---------------------------
(* One job, two workers and one scheduler for TLC. *)
EXTENDS ScheduledJobs

CONSTANTS j1, w1, w2, s1

OneJob     == {j1}
TwoWorkers == {w1, w2}
OneScheduler == {s1}
=============================================================================
