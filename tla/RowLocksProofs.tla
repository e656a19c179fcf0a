--------------------------- MODULE RowLocksProofs ---------------------------
(***************************************************************************)
(* Why one order of rows is enough, for any transactions, any number of    *)
(* sessions and any table of conflicts that asks for the same row; and why *)
(* the one operation that goes back needs a partner to deadlock with.      *)
(***************************************************************************)
EXTENDS LockOrder, WellFoundedInduction, TLAPS

USE DEF Running

(* Every step keeps the types: a transaction never holds more locks than   *)
(* its operation has.                                                      *)
LEMMA TypeOKInvariant == Spec => []TypeOK
<1>1. Init => TypeOK
  BY DEF Init, TypeOK
<1>2. TypeOK /\ [Next]_vars => TypeOK'
  <2> SUFFICES ASSUME TypeOK, [Next]_vars PROVE TypeOK'
    OBVIOUS
  <2>1. CASE UNCHANGED vars
    BY <2>1 DEF TypeOK, vars
  <2>2. ASSUME NEW s \in Sessions, Begin(s) PROVE TypeOK'
    <3>1. PICK o \in Operations : op' = [op EXCEPT ![s] = o]
      BY <2>2 DEF Begin
    <3>2. taken' = [taken EXCEPT ![s] = 0]
      BY <2>2 DEF Begin
    <3>3. 0 \in Nat /\ \A n \in Nat : 0 <= n
      OBVIOUS
    <3>4. op' \in [Sessions -> Operations \union {Idle}]
      BY <3>1, Zenon DEF TypeOK
    <3>5. taken' \in [Sessions -> Nat]
      BY <3>2, <3>3, Zenon DEF TypeOK
    <3>6. ASSUME NEW t \in Sessions, op'[t] # Idle
          PROVE  taken'[t] <= Len(Locks(op'[t]))
      <4>1. CASE t = s
        <5>1. op'[t] = o /\ taken'[t] = 0
          BY <3>1, <3>2, <4>1, Zenon DEF TypeOK
        <5>2. Len(Locks(o)) \in Nat
          BY LocksAssumption, Zenon
        <5> QED
          BY <5>1, <5>2, <3>3, Zenon
      <4>2. CASE t # s
        <5>1. op'[t] = op[t] /\ taken'[t] = taken[t]
          BY <3>1, <3>2, <4>2, Zenon DEF TypeOK
        <5> QED
          BY <5>1, <3>6, Zenon DEF TypeOK
      <4> QED
        BY <4>1, <4>2, Zenon
    <3> QED
      BY <3>4, <3>5, <3>6, Zenon DEF TypeOK
  <2>3. ASSUME NEW s \in Sessions, Acquire(s) PROVE TypeOK'
    <3>1. taken' = [taken EXCEPT ![s] = taken[s] + 1] /\ op' = op
      BY <2>3 DEF Acquire
    <3>2. taken[s] \in Nat /\ op[s] # Idle /\ taken[s] < Len(Locks(op[s])) /\ op[s] \in Operations
      BY <2>3, Zenon DEF Acquire, Asking, TypeOK
    <3>3. Len(Locks(op[s])) \in Nat
      BY <3>2, LocksAssumption, Zenon
    <3>4. taken[s] + 1 \in Nat /\ taken[s] + 1 <= Len(Locks(op[s]))
      BY <3>2, <3>3
    <3>5. taken' \in [Sessions -> Nat]
      BY <3>1, <3>4, Zenon DEF TypeOK
    <3>6. ASSUME NEW t \in Sessions, op'[t] # Idle
          PROVE  taken'[t] <= Len(Locks(op'[t]))
      BY <3>1, <3>4, <3>6, Zenon DEF TypeOK
    <3> QED
      BY <3>1, <3>5, <3>6, Zenon DEF TypeOK
  <2>4. ASSUME NEW s \in Sessions, End(s) PROVE TypeOK'
    <3>1. op' = [op EXCEPT ![s] = Idle] /\ taken' = [taken EXCEPT ![s] = 0]
      BY <2>4 DEF End
    <3>2. 0 \in Nat
      OBVIOUS
    <3>3. ASSUME NEW t \in Sessions, op'[t] # Idle
          PROVE  taken'[t] <= Len(Locks(op'[t]))
      BY <3>1, <3>3, Zenon DEF TypeOK
    <3> QED
      BY <3>1, <3>2, <3>3, Zenon DEF TypeOK
  <2> QED
    BY <2>1, <2>2, <2>3, <2>4, Zenon DEF Next, Finish, DeadlockVictim
<1> QED
  BY <1>1, <1>2, PTL DEF Spec

(* A session that waits wants a lock another session holds, and both locks *)
(* are contended and of one row.                                           *)
LEMMA WaitingMeetsAHeldLock ==
    ASSUME TypeOK, NEW s \in Sessions, NEW t \in Sessions, WaitsFor(s, t)
    PROVE  /\ op[s] \in Operations /\ taken[s] + 1 \in 1..Len(Locks(op[s]))
           /\ Contended(Wanted(s))
           /\ op[t] \in Operations
           /\ \E i \in 1..taken[t] : /\ i \in 1..Len(Locks(op[t]))
                                     /\ Locks(op[t])[i].row = Wanted(s).row
                                     /\ Contended(Locks(op[t])[i])
<1>1. op[s] \in Operations /\ taken[s] \in Nat /\ taken[s] < Len(Locks(op[s]))
  BY Zenon DEF WaitsFor, Asking, TypeOK
<1>2. taken[s] + 1 \in 1..Len(Locks(op[s]))
  <2>1. Len(Locks(op[s])) \in Nat
    BY <1>1, LocksAssumption, Zenon
  <2> QED
    BY <1>1, <2>1
<1>3. PICK l \in Held(t) : Conflicts(l, Wanted(s))
  BY Zenon DEF WaitsFor
<1>4. op[t] # Idle /\ l \in {Locks(op[t])[i] : i \in 1..taken[t]}
  BY <1>3, Zenon DEF Held
<1>5. PICK i \in 1..taken[t] : l = Locks(op[t])[i]
  BY <1>4, Zenon
<1>6. op[t] \in Operations /\ taken[t] \in Nat /\ taken[t] <= Len(Locks(op[t]))
  BY <1>4, Zenon DEF TypeOK
<1>7. i \in 1..Len(Locks(op[t]))
  <2>1. Len(Locks(op[t])) \in Nat
    BY <1>6, LocksAssumption, Zenon
  <2> QED
    BY <1>5, <1>6, <2>1
<1>8. Conflicts(Wanted(s), l) /\ l.row = Wanted(s).row
  <2>1. l.row = Wanted(s).row /\ Wanted(s).row = l.row
    BY <1>3, Zenon DEF Conflicts
  <2>2. {l.mode, Wanted(s).mode} = {Wanted(s).mode, l.mode}
    BY Zenon
  <2> QED
    BY <1>3, <2>1, <2>2, Zenon DEF Conflicts
<1>9. Contended(Wanted(s))
  BY <1>3, <1>5, <1>6, <1>7, Zenon DEF Contended
<1>10. Contended(l)
  BY <1>1, <1>2, <1>8, Zenon DEF Contended, Wanted
<1> QED
  BY <1>1, <1>2, <1>5, <1>6, <1>7, <1>8, <1>9, <1>10, Zenon

(* A holder that takes rows in order and waits itself wants a later row    *)
(* than the one it makes the other session wait for.                       *)
LEMMA HolderWantsALaterRow ==
    ASSUME TypeOK, NEW s \in Sessions, NEW t \in Sessions, NEW u \in Sessions,
           WaitsFor(s, t), WaitsFor(t, u), Canonical(op[t])
    PROVE  Rank(Wanted(s).row) < Rank(Wanted(t).row)
<1>1. PICK i \in 1..taken[t] : /\ i \in 1..Len(Locks(op[t]))
                               /\ Locks(op[t])[i].row = Wanted(s).row
                               /\ Contended(Locks(op[t])[i])
  BY WaitingMeetsAHeldLock, Zenon
<1>2. taken[t] + 1 \in 1..Len(Locks(op[t])) /\ Contended(Wanted(t))
  BY WaitingMeetsAHeldLock, Zenon
<1>3. taken[t] \in Nat
  BY Zenon DEF TypeOK
<1>4. i \in 1..((taken[t] + 1) - 1)
  BY <1>1, <1>3
<1>5. Contended(Locks(op[t])[taken[t] + 1])
  BY <1>2, Zenon DEF Wanted
<1>6. Rank(Locks(op[t])[i].row) < Rank(Locks(op[t])[taken[t] + 1].row)
  BY <1>1, <1>2, <1>4, <1>5, Zenon DEF Canonical
<1> QED
  BY <1>1, <1>6, Zenon DEF Wanted

(* Where everybody a group waits for takes the rows it can wait for in one *)
(* order, the group is never stuck: the session that wants the last row    *)
(* waits for one that wants a later row still.                             *)
LEMMA OrderlyHoldersMove ==
    ASSUME TypeOK, NEW group \in SUBSET Sessions, Stuck(group),
           \A s, t \in group : WaitsFor(s, t) => Canonical(op[t])
    PROVE  FALSE
<1>1. group # {} /\ \A s \in group : \E t \in group : WaitsFor(s, t)
  BY Zenon DEF Stuck
<1>2. ASSUME NEW s \in group PROVE Rank(Wanted(s).row) \in 0..MaxRank
  <2>1. PICK t \in group : WaitsFor(s, t)
    BY <1>1, Zenon
  <2>2. op[s] \in Operations /\ taken[s] + 1 \in 1..Len(Locks(op[s]))
    BY <2>1, WaitingMeetsAHeldLock, Zenon
  <2> QED
    BY <2>2, RankAssumption, Zenon DEF Wanted
<1> DEFINE ToGo == {MaxRank - Rank(Wanted(s).row) : s \in group}
<1>3. ToGo \in SUBSET Nat
  <2>1. MaxRank \in Nat
    BY RankAssumption, Zenon
  <2>2. ASSUME NEW s \in group PROVE MaxRank - Rank(Wanted(s).row) \in Nat
    <3>1. Rank(Wanted(s).row) \in 0..MaxRank
      BY <1>2, Zenon
    <3> QED
      BY <2>1, <3>1
  <2> QED
    BY <2>2, Zenon
<1>4. ToGo # {}
  BY <1>1, Zenon
<1>5. PICK least \in ToGo : \A n \in ToGo : ~ (<<n, least>> \in OpToRel(<, Nat))
  BY <1>3, <1>4, NatLessThanWellFounded, WFMin, Zenon
<1>6. PICK s \in group : least = MaxRank - Rank(Wanted(s).row)
  BY <1>5, Zenon
<1>7. PICK t \in group : WaitsFor(s, t)
  BY <1>1, Zenon
<1>8. PICK u \in group : WaitsFor(t, u)
  BY <1>1, Zenon
<1>9. Rank(Wanted(s).row) < Rank(Wanted(t).row)
  <2>1. Canonical(op[t])
    BY <1>7, Zenon
  <2> QED
    BY <1>7, <1>8, <2>1, HolderWantsALaterRow, Zenon
<1> DEFINE next == MaxRank - Rank(Wanted(t).row)
<1>10. next \in Nat /\ least \in Nat /\ next < least
  <2>1. MaxRank \in Nat /\ Rank(Wanted(s).row) \in 0..MaxRank /\ Rank(Wanted(t).row) \in 0..MaxRank
    BY <1>2, RankAssumption, Zenon
  <2> QED
    BY <2>1, <1>6, <1>9
<1>11. next \in ToGo
  BY Zenon
<1>12. <<next, least>> \in OpToRel(<, Nat)
  <2> HIDE DEF next
  <2> QED
    BY <1>10 DEF OpToRel
<1> QED
  BY <1>5, <1>11, <1>12, Zenon

LEMMA CanonicalGroupsMove == TypeOK => CanonicalNeverStuck
<1> SUFFICES ASSUME TypeOK, NEW group \in SUBSET Sessions, Stuck(group),
                    \A s \in group : Canonical(op[s])
             PROVE  FALSE
  BY Zenon DEF CanonicalNeverStuck
<1>1. \A s, t \in group : WaitsFor(s, t) => Canonical(op[t])
  OBVIOUS
<1> QED
  BY <1>1, OrderlyHoldersMove, Zenon

(* Transactions that take the rows they can be made to wait for in one     *)
(* order never wait in a circle; a circle needs one that does not.         *)
THEOREM OrderedLocksNeverDeadlock == Spec => []CanonicalNeverStuck
<1>1. TypeOK => CanonicalNeverStuck
  BY CanonicalGroupsMove
<1> QED
  BY <1>1, TypeOKInvariant, PTL
-----------------------------------------------------------------------------
(* A dismissal that holds a row of its own already waits for the message.  *)
LEMMA DismissalWaitsForMail ==
    ASSUME TypeOK, DismissalEndsWithTheMail,
           NEW s \in Sessions, NEW t \in Sessions, NEW u \in Sessions,
           WaitsFor(s, t), WaitsFor(t, u), op[t].name = "resolve_failed_job"
    PROVE  Wanted(t).row[1] = "message"
<1>1. op[t] \in Operations /\ taken[t] + 1 \in 1..Len(Locks(op[t]))
  BY WaitingMeetsAHeldLock, Zenon
<1>2. PICK i \in 1..taken[t] : i \in 1..Len(Locks(op[t]))
  BY WaitingMeetsAHeldLock, Zenon
<1>3. Len(Locks(op[t])) = 2 /\ Locks(op[t])[2].row[1] = "message"
  BY <1>1, Zenon DEF DismissalEndsWithTheMail
<1>4. taken[t] \in Nat
  BY Zenon DEF TypeOK
<1>5. taken[t] + 1 = 2
  BY <1>1, <1>2, <1>3, <1>4
<1> QED
  BY <1>3, <1>5, Zenon DEF Wanted

(* Whoever makes others wait for a message and waits itself is about to    *)
(* lock another row: it is withdrawing that message.                       *)
LEMMA MailIsHeldByAWithdrawal ==
    ASSUME TypeOK, OnlyWithdrawalsGoOnFromMail,
           NEW s \in Sessions, NEW t \in Sessions, NEW u \in Sessions,
           WaitsFor(s, t), WaitsFor(t, u), Wanted(s).row[1] = "message"
    PROVE  op[t].name \in Withdrawals
<1>1. PICK i \in 1..taken[t] : /\ i \in 1..Len(Locks(op[t]))
                               /\ Locks(op[t])[i].row = Wanted(s).row
  BY WaitingMeetsAHeldLock, Zenon
<1>2. op[t] \in Operations /\ taken[t] + 1 \in 1..Len(Locks(op[t]))
  BY WaitingMeetsAHeldLock, Zenon
<1>3. Len(Locks(op[t])) \in Nat /\ taken[t] \in Nat
  BY <1>2, LocksAssumption, Zenon DEF TypeOK
<1>4. i < Len(Locks(op[t]))
  BY <1>1, <1>2, <1>3
<1>5. Locks(op[t])[i].row[1] = "message"
  BY <1>1, Zenon
<1> QED
  BY <1>1, <1>2, <1>4, <1>5, Zenon DEF OnlyWithdrawalsGoOnFromMail

(* Without a withdrawal nobody of a stuck group waits for a dismissal, and *)
(* the rest takes its rows in order.                                       *)
LEMMA CirclesAreMail == TypeOK /\ MailTable => OnlyMailWaitsInACircle
<1> SUFFICES ASSUME TypeOK, MailTable, NEW group \in SUBSET Sessions, Stuck(group)
             PROVE  /\ \E s \in group : op[s].name = "resolve_failed_job"
                    /\ \E s \in group : op[s].name \in Withdrawals
  BY Zenon DEF OnlyMailWaitsInACircle
<1> USE DEF MailTable
<1>1. \A s \in group : s \in Sessions /\ \E t \in group : WaitsFor(s, t)
  BY Zenon DEF Stuck
<1>2. \A s \in group : op[s] \in Operations
  BY <1>1, WaitingMeetsAHeldLock, Zenon
<1>3. \E s \in group : op[s].name = "resolve_failed_job"
  <2>1. PICK s \in group : ~ Canonical(op[s])
    BY CanonicalGroupsMove, Zenon DEF CanonicalNeverStuck
  <2> QED
    BY <1>2, <2>1, Zenon DEF OnlyDismissalGoesBack
<1>4. \E s \in group : op[s].name \in Withdrawals
  <2>1. PICK s \in group, t \in group : WaitsFor(s, t) /\ ~ Canonical(op[t])
    BY OrderlyHoldersMove, Zenon
  <2>2. op[t].name = "resolve_failed_job"
    BY <1>2, <2>1, Zenon DEF OnlyDismissalGoesBack
  <2>3. PICK u \in group : WaitsFor(t, u)
    BY <1>1, Zenon
  <2>4. Wanted(t).row[1] = "message"
    BY <1>1, <2>1, <2>2, <2>3, DismissalWaitsForMail, Zenon
  <2>5. PICK v \in group : WaitsFor(u, v)
    BY <1>1, Zenon
  <2>6. op[u].name \in Withdrawals
    BY <1>1, <2>3, <2>4, <2>5, MailIsHeldByAWithdrawal, Zenon
  <2> QED
    BY <2>6, Zenon
<1> QED
  BY <1>3, <1>4, Zenon

(* Over a table like the code's, a circle of waits has somebody who        *)
(* dismisses a mail's failed job and somebody who withdraws that mail, for *)
(* any number of connections, shipments and orders.                        *)
THEOREM OnlyMailDeadlocks == MailTable /\ Spec => []OnlyMailWaitsInACircle
<1> SUFFICES ASSUME MailTable PROVE Spec => []OnlyMailWaitsInACircle
  OBVIOUS
<1>1. TypeOK => OnlyMailWaitsInACircle
  BY CirclesAreMail
<1> QED
  BY <1>1, TypeOKInvariant, PTL
=============================================================================
