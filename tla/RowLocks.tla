------------------------------ MODULE RowLocks ------------------------------
(***************************************************************************)
(* PostgreSQL row locks as the services use them: a transaction takes the  *)
(* locks of its operation one by one, waits while another transaction      *)
(* holds a conflicting one, and keeps all of them until it ends.           *)
(***************************************************************************)
EXTENDS Naturals, Sequences, FiniteSets

CONSTANTS
    Sessions,     \* database connections: web requests, workers, operators
    Operations,   \* the transactions they may run
    Locks(_),     \* the locks of an operation, in the order it takes them
    Rank(_),      \* the place of a row in the documented order
    MaxRank,      \* its last place
    Idle          \* no operation

ASSUME IdleAssumption  == Idle \notin Operations
ASSUME LocksAssumption == \A o \in Operations : Len(Locks(o)) \in Nat
ASSUME RankAssumption  ==
    /\ MaxRank \in Nat
    /\ \A o \in Operations : \A i \in 1..Len(Locks(o)) : Rank(Locks(o)[i].row) \in 0..MaxRank

VARIABLES
    op,           \* session -> the operation it runs, or Idle
    taken         \* session -> how many of its locks it holds

vars == <<op, taken>>

Init == /\ op = [s \in Sessions |-> Idle]
        /\ taken = [s \in Sessions |-> 0]

(* FOR KEY SHARE, which a foreign key check takes, conflicts only with     *)
(* FOR UPDATE; the two updating modes conflict with each other.            *)
Conflicts(a, b) ==
    /\ a.row = b.row
    /\ "key share" \in {a.mode, b.mode} => "update" \in {a.mode, b.mode}

Running(s) == op[s] # Idle
Asking(s)  == Running(s) /\ taken[s] < Len(Locks(op[s]))
Wanted(s)  == Locks(op[s])[taken[s] + 1]
Held(s)    == IF Running(s) THEN {Locks(op[s])[i] : i \in 1..taken[s]} ELSE {}

WaitsFor(s, t) == /\ s # t
                  /\ Asking(s)
                  /\ \E l \in Held(t) : Conflicts(l, Wanted(s))

(* Sessions that all wait for one another: nothing but an abort frees them. *)
Stuck(group) == group # {} /\ \A s \in group : \E t \in group : WaitsFor(s, t)

TypeOK == /\ op \in [Sessions -> Operations \union {Idle}]
          /\ taken \in [Sessions -> Nat]
          /\ \A s \in Sessions : Running(s) => taken[s] <= Len(Locks(op[s]))

-----------------------------------------------------------------------------
Begin(s) ==
    /\ ~ Running(s)
    /\ \E o \in Operations : op' = [op EXCEPT ![s] = o]
    /\ taken' = [taken EXCEPT ![s] = 0]

Acquire(s) ==
    /\ Asking(s)
    /\ \A t \in Sessions : ~ WaitsFor(s, t)
    /\ taken' = [taken EXCEPT ![s] = @ + 1]
    /\ UNCHANGED op

End(s) ==
    /\ op' = [op EXCEPT ![s] = Idle]
    /\ taken' = [taken EXCEPT ![s] = 0]

(* At COMMIT all locks go. A transaction may also end early, at a refusal  *)
(* or an error, wherever it is not waiting.                                *)
Finish(s) == Running(s) /\ (\A t \in Sessions : ~ WaitsFor(s, t)) /\ End(s)

(* deadlock_timeout: the server aborts one of the waiting transactions.    *)
DeadlockVictim(s) ==
    /\ \E group \in SUBSET Sessions : s \in group /\ Stuck(group)
    /\ End(s)

Next == \E s \in Sessions : Begin(s) \/ Acquire(s) \/ Finish(s) \/ DeadlockVictim(s)

Spec == Init /\ [][Next]_vars

-----------------------------------------------------------------------------
(* A lock of some operation that can meet a conflicting one.               *)
Contended(l) == \E o \in Operations : \E i \in 1..Len(Locks(o)) : Conflicts(Locks(o)[i], l)

(* The operation takes what it can be made to wait for in the documented   *)
(* order of rows.                                                          *)
Canonical(o) ==
    \A j \in 1..Len(Locks(o)) : \A i \in 1..(j - 1) :
        Contended(Locks(o)[i]) /\ Contended(Locks(o)[j])
            => Rank(Locks(o)[i].row) < Rank(Locks(o)[j].row)

(* Whenever transactions wait for one another in a circle, one of them     *)
(* takes rows against the documented order.                                *)
CanonicalNeverStuck ==
    \A group \in SUBSET Sessions :
        Stuck(group) => \E s \in group : ~ Canonical(op[s])
=============================================================================
