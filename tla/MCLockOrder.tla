----------------------------- MODULE MCLockOrder -----------------------------
(* Two database sessions over two shipments on one journey. *)
EXTENDS LockOrder, TLC

CONSTANTS s1, s2
TwoSessions == {s1, s2}
Symmetry == Permutations(Sessions)
=============================================================================
