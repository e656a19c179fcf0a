-------------------------- MODULE StripeRailProofs --------------------------
(***************************************************************************)
(* What the automatic EUR rail promises, for any captures, award, number   *)
(* of attempts, bank payouts and readers.                                  *)
(*                                                                         *)
(* RailIInv is the invariant.  Its heart is that every row knows what      *)
(* Stripe can have done for it: a slice that is not answered keeps its     *)
(* key, so a fresh key that executed is answered by repetition             *)
(* (SliceSound); a bank payout that is out holds its disbursement's        *)
(* allocation (BankSound), of which there is one (OneActive); and an       *)
(* attempt that is tried again has released everything (Orderly), unless   *)
(* one of the named faults happened, which stay visible (Faulty).  The     *)
(* money follows by sums over captures and attempts (MoneySound): the      *)
(* greedy plan takes the award and never more than is available.           *)
(*                                                                         *)
(* One lemma per shape of step (SendKeeps, CallKeeps, BankKeeps and its    *)
(* form RunKeeps, BesideKeeps), one per action under it.                   *)
(***************************************************************************)
EXTENDS StripeRail, SumLemmas
-----------------------------------------------------------------------------
Said        == {"pending", "in_transit", "paid", "failed"}
Keys        == {"unused", "fresh", "stale"}
OpStatus    == {"none", "prepared", "committed", "unknown", "accepted", "failed"}
AttStatus   == {"none", "prepared", "dispatch_committed", "unknown", "accepted", "sent",
                "succeeded", "failed"}
OpRow       == [status: OpStatus, cents: Nat, key: Keys, done: Nat, late: BOOLEAN]
DisStatus   == Said \union {"none", "planned", "committed", "unknown", "returned"}
DisRow      == [status: DisStatus, attempt: Nat, active: BOOLEAN, op: OpStatus, key: Keys,
                known: BOOLEAN]
BankRow     == [status: Said \union {"none"}, made: Nat, paid: BOOLEAN]
PayoutRow   == [status: {"eligible", "scheduled", "processing", "sent", "paid", "failed"},
                blocked: BOOLEAN]
Answers     == {"none", "accepted", "rejected", "lost"}
Transfers   == [kind: {"transfer"}, n: Attempts, todo: SUBSET Sources, again: BOOLEAN,
                answer: Answers]
BankCalls   == [kind: {"bank"}, d: Disbursements, again: BOOLEAN, answer: {"none"}]
BankAnswers == [kind: {"bank"}, d: Disbursements, again: BOOLEAN, answer: Answers, says: Said]
ObserveCalls == [kind: {"observe"}, d: Disbursements, says: Said]

RailTables ==
    /\ payout \in PayoutRow
    /\ att \in [Attempts -> AttStatus]
    /\ op \in [Attempts -> [Sources -> OpRow]]
    /\ dis \in [Disbursements -> DisRow]
    /\ bank \in [Disbursements -> BankRow]
    /\ call \in {NoCall} \union Transfers \union BankCalls \union BankAnswers \union ObserveCalls
    /\ seen \in [Readers -> SUBSET (Disbursements \X Said)]
    /\ refunded \in [Sources -> Nat]

(* A slice: an answered key, and what Stripe can have done under it.       *)
SliceSound(o) ==
    /\ o.status = "none" => o.cents = 0
    /\ o.status \in {"none", "prepared"} => o.key = "unused" /\ o.done = 0 /\ ~o.late
    /\ o.status \in {"committed", "unknown"} => o.key # "unused"
    /\ ~o.late => o.done <= (IF o.status = "failed" THEN 0 ELSE 1)

(* An attempt and its slices.                                              *)
Banked(n) == att[n] \in {"accepted", "sent", "succeeded"}
AttemptSound(n) ==
    /\ att[n] = "none" => \A s \in Sources : op[n][s].status = "none"
    /\ att[n] = "prepared" => \A s \in Sources : op[n][s].status \in {"none", "prepared"}
    /\ att[n] \notin {"none", "prepared"} => \A s \in Sources : op[n][s].status # "prepared"
    /\ Banked(n) => \A s \in Sources : ~Outstanding(op[n][s])
    /\ att[n] = "failed" =>
           \/ \A s \in Sources : op[n][s].status # "accepted"
           \/ "slice" \in holds
           \/ \E s \in Sources : Outstanding(op[n][s])

(* A run that sends: what it was told is what Stripe did.                  *)
Sending(n, s) == call.kind = "transfer" /\ call.n = n /\ s \in call.todo
TransferSound ==
    call.kind = "transfer" =>
        /\ call.todo # {}
        /\ \A s \in call.todo : op[call.n][s].status \in {"committed", "unknown"}
        /\ call.answer = "rejected" => op[call.n][Slice].late \/ op[call.n][Slice].done = 0

ReadSound(d, says) ==
    /\ says = "paid" => bank[d].paid
    /\ says = "failed" => bank[d].status = "failed"

BankCallSound ==
    /\ call.kind = "bank" =>
        /\ dis[call.d].op \in {"committed", "unknown"}
        /\ ~call.again => dis[call.d].key = "fresh"
        /\ call.answer = "rejected" => bank[call.d].made = 0
        /\ call.answer = "accepted" => bank[call.d].made > 0 /\ ReadSound(call.d, call.says)
    /\ call.kind = "observe" => dis[call.d].known /\ ReadSound(call.d, call.says)

(* A disbursement and the bank payout Stripe made of it.                   *)
BankSound(d) ==
    /\ dis[d].status = "none" => dis[d] = NoDisbursement
    /\ dis[d].status = "planned" => dis[d].op = "prepared"
    /\ dis[d].op \in {"none", "prepared", "failed"} => bank[d].made = 0
    /\ dis[d].op \in {"committed", "unknown"} =>
           dis[d].active /\ dis[d].key # "unused" /\ dis[d].status \in {"committed", "unknown"}
    /\ dis[d].known => dis[d].op = "accepted" /\ bank[d].made > 0
    /\ dis[d].op = "accepted" /\ ~dis[d].active => bank[d].status = "failed"
    /\ bank[d].made <= 1
    /\ bank[d].made = 0 <=> bank[d].status = "none"
    /\ bank[d].made = 0 => ~bank[d].paid
    /\ bank[d].status = "paid" => bank[d].paid
    /\ dis[d].status # "none" => dis[d].attempt \in Attempts /\ Banked(dis[d].attempt)

ReadsSound ==
    \A r \in Readers : \A read \in seen[r] : dis[read[1]].known /\ ReadSound(read[1], read[2])

OneActive == \A d, e \in Disbursements : dis[d].active /\ dis[e].active => d = e

PaidOnce == payout.status = "paid" => \E d \in Disbursements : bank[d].paid

(* Money: what binds a capture and what an attempt instructs.              *)
Instructed(n) == SumFunctionOnSet([s \in Sources |-> op[n][s].cents], Sources)
MoneySound ==
    /\ \A s \in Sources : Available(s) >= 0
    /\ \A n \in Attempts : Instructed(n) <= Award

(* What lets a second attempt begin beside what a first one moved.         *)
Stranded(n, s) == att[n] = "failed" /\ op[n][s].status = "committed" /\ ~Sending(n, s)
Faulty ==
    \/ \E n \in Attempts, s \in Sources : op[n][s].late \/ Stranded(n, s)
    \/ \E d, e \in Disbursements : CameBack(d) /\ dis[e].op = "failed"

Undone(n) == att[n] = "failed" /\ \A s \in Sources : op[n][s].status \in {"none", "failed"}
Orderly ==
    /\ \A n, m \in Attempts : n < m /\ att[m] # "none" => Undone(n)
    /\ \A n \in Attempts : att[n] = "succeeded" => payout.status = "paid"

RailIInv ==
    /\ RailTables
    /\ \A n \in Attempts, s \in Sources : SliceSound(op[n][s])
    /\ \A n \in Attempts : AttemptSound(n)
    /\ TransferSound
    /\ BankCallSound
    /\ \A d \in Disbursements : BankSound(d)
    /\ ReadsSound
    /\ OneActive
    /\ PaidOnce
    /\ MoneySound
    /\ Faulty \/ Orderly
-----------------------------------------------------------------------------
LEMMA RangesAreFinite ==
    /\ IsFiniteSet(Sources) /\ Sources \in SUBSET Nat
    /\ IsFiniteSet(Attempts) /\ Attempts \in SUBSET Nat
    /\ IsFiniteSet(Disbursements)
    /\ \E k \in Nat : Sources = 1 .. k
  <1>1. PICK k \in Nat : Sources = 1 .. k
    BY RailAssumption DEF Sources
  <1>2. \A i, j \in Int : IsFiniteSet(i .. j)
    BY FS_Interval
  <1>3. MaxAttempts \in Nat /\ MaxDisbursements \in Nat
    BY RailAssumption
  <1> QED BY <1>1, <1>2, <1>3 DEF Attempts, Disbursements

(* A finite set of numbers has a least element.                            *)
LEMMA LeastIsIn ==
    ASSUME NEW S \in SUBSET Nat, IsFiniteSet(S), S # {}
    PROVE  Min(S) \in S
  <1> DEFINE Claim == {T \in SUBSET S : T # {} => \E x \in T : \A y \in T : x <= y}
  <1>1. {} \in Claim
    OBVIOUS
  <1>2. \A T \in SUBSET S : \A x \in S : T \in Claim /\ x \notin T => T \union {x} \in Claim
    <2> SUFFICES ASSUME NEW T \in Claim, NEW x \in S, x \notin T
                 PROVE  \E z \in T \union {x} : \A y \in T \union {x} : z <= y
      OBVIOUS
    <2>1. CASE T = {}
      BY <2>1
    <2>2. CASE T # {}
      <3>1. PICK z \in T : \A y \in T : z <= y
        BY <2>2
      <3>2. CASE z <= x
        BY <3>1, <3>2
      <3>3. CASE ~(z <= x)
        <4>1. \A y \in T \union {x} : x <= y
          BY <3>1, <3>3
        <4> QED BY <4>1
      <3> QED BY <3>2, <3>3
    <2> QED BY <2>1, <2>2
  <1>3. S \in Claim
    <2> HIDE DEF Claim
    <2> QED BY <1>1, <1>2, OneMoreElement, Zenon
  <1>4. \E x \in S : \A y \in S : x <= y
    BY <1>3
  <1> QED BY <1>4, Zenon DEF Min
-----------------------------------------------------------------------------
(* Money: what the greedy plan takes.                                      *)
LEMMA AvailableSums ==
    ASSUME \A s \in Sources : Available(s) \in Nat, NEW T \in SUBSET Sources
    PROVE  /\ AvailableOf(T) \in Nat
           /\ \A s \in Sources : s \notin T =>
                  AvailableOf(T \union {s}) = AvailableOf(T) + Available(s)
  <1> DEFINE f == [s \in Sources |-> Available(s)]
  <1>1. IsFiniteSet(T)
    BY RangesAreFinite, FS_Subset
  <1>2. \A s \in Sources : f[s] \in Nat /\ f[s] \in Int /\ f[s] = Available(s)
    OBVIOUS
  <1>3. AvailableOf(T) = SumFunctionOnSet(f, T)
    BY DEF AvailableOf
  <1>4. \A s \in Sources : AvailableOf(T \union {s}) = SumFunctionOnSet(f, T \union {s})
    BY DEF AvailableOf
  <1> HIDE DEF f
  <1>5. AvailableOf(T) \in Nat
    BY <1>1, <1>2, <1>3, SumIsNat
  <1>6. ASSUME NEW s \in Sources, s \notin T
        PROVE  AvailableOf(T \union {s}) = AvailableOf(T) + Available(s)
    <2>1. f[s] \in Int /\ (\A y \in T : f[y] \in Int) /\ f[s] = Available(s)
      BY <1>2
    <2>2. SumFunctionOnSet(f, T \union {s}) = SumFunctionOnSet(f, T) + f[s]
      BY <1>1, <1>6, <2>1, SumAddsOne
    <2> QED BY <1>3, <1>4, <2>1, <2>2
  <1> QED BY <1>5, <1>6

LEMMA TakeIsWithin ==
    ASSUME \A s \in Sources : Available(s) \in Nat, NEW s \in Sources
    PROVE  Take(s) \in Nat /\ Take(s) <= Available(s)
  <1>1. 1 .. s - 1 \in SUBSET Sources
    BY RangesAreFinite
  <1>2. AvailableOf(1 .. s - 1) \in Nat
    BY <1>1, AvailableSums
  <1>3. Award \in Nat /\ Available(s) \in Nat
    BY RailAssumption
  <1> QED BY <1>2, <1>3 DEF Take

LEMMA TakeIsTheAward ==
    ASSUME \A s \in Sources : Available(s) \in Nat
    PROVE  SumFunctionOnSet([s \in Sources |-> Take(s)], Sources) <= Award
  <1>1. PICK k \in Nat : Sources = 1 .. k
    BY RangesAreFinite
  <1>2. PICK f : f = [s \in Sources |-> Take(s)]
    OBVIOUS
  <1>3. \A s \in Sources : f[s] = Take(s) /\ f[s] \in Nat /\ f[s] \in Int
    BY <1>2, TakeIsWithin
  <1> DEFINE Least(a) == IF a <= Award THEN a ELSE Award
             Claim == {T \in SUBSET Sources :
                          \A i \in 0 .. k : T = 1 .. i =>
                              SumFunctionOnSet(f, T) = Least(AvailableOf(T))}
  <1>4. Hereditary(Claim, Sources)
    <2> SUFFICES ASSUME NEW T \in SUBSET Sources, \A U \in SUBSET T : U # T => U \in Claim,
                        NEW i \in 0 .. k, T = 1 .. i
                 PROVE  SumFunctionOnSet(f, T) = Least(AvailableOf(T))
      BY DEF Hereditary
    <2>1. Award \in Nat
      BY RailAssumption
    <2>2. CASE i = 0
      <3>1. T = {}
        BY <2>2
      <3>2. SumFunctionOnSet(f, T) = 0
        BY <3>1, SumOfNothing
      <3>3. AvailableOf(T) = 0
        BY <3>1, SumOfNothing DEF AvailableOf
      <3> QED BY <2>1, <3>2, <3>3
    <2>3. CASE i # 0
      <3>1. PICK U \in SUBSET T : U = 1 .. i - 1
        BY <2>3
      <3>2. U # T /\ i \in Sources /\ i \notin U /\ T = U \union {i} /\ i - 1 \in 0 .. k
        BY <1>1, <2>3, <3>1
      <3>3. SumFunctionOnSet(f, U) = Least(AvailableOf(U))
        BY <3>1, <3>2
      <3>4. AvailableOf(U) \in Nat /\ AvailableOf(T) = AvailableOf(U) + Available(i)
        BY <3>2, AvailableSums
      <3>5. SumFunctionOnSet(f, T) = SumFunctionOnSet(f, U) + f[i]
        <4>1. IsFiniteSet(U) /\ \A y \in U : f[y] \in Int
          BY <1>3, RangesAreFinite, FS_Subset
        <4>2. f[i] \in Int
          BY <1>3, <3>2
        <4> QED BY <3>2, <4>1, <4>2, SumAddsOne, Zenon
      <3>6. f[i] = Take(i) /\ Available(i) \in Nat
        BY <1>3, <3>2
      <3>7. Take(i) = LET needed == Award - AvailableOf(U)
                      IN IF needed <= 0 THEN 0
                         ELSE IF Available(i) < needed THEN Available(i) ELSE needed
        BY <3>1 DEF Take
      <3> QED BY <2>1, <3>3, <3>4, <3>5, <3>6, <3>7
    <2> QED BY <2>2, <2>3
  <1>5. Sources \in Claim
    <2> HIDE DEF Claim
    <2> QED BY <1>4, RangesAreFinite, SmallerSubsets, Zenon
  <1>6. SumFunctionOnSet(f, Sources) = Least(AvailableOf(Sources))
    BY <1>1, <1>5
  <1>7. AvailableOf(Sources) \in Nat /\ Award \in Nat
    BY AvailableSums, RailAssumption
  <1> QED BY <1>2, <1>6, <1>7

(* What binds a capture.                                                   *)
Bound(o) == IF Binding(o) THEN o.cents ELSE 0

LEMMA ReservedIsNat ==
    ASSUME op \in [Attempts -> [Sources -> OpRow]], NEW s \in Sources
    PROVE  /\ Reserved(s) \in Nat
           /\ \A n \in Attempts : Bound(op[n][s]) \in Nat
  <1>1. \A n \in Attempts : Bound(op[n][s]) \in Nat
    BY SMT DEF OpRow, Bound
  <1>2. PICK f : f = [n \in Attempts |-> Bound(op[n][s])]
    OBVIOUS
  <1>3. Reserved(s) = SumFunctionOnSet(f, Attempts)
    BY <1>2 DEF Reserved, Bound
  <1> QED BY <1>1, <1>2, <1>3, RangesAreFinite, SumIsNat

LEMMA AvailableIsNat ==
    ASSUME RailTables, MoneySound, NEW s \in Sources
    PROVE  Available(s) \in Nat
  <1>1. Reserved(s) \in Nat
    BY ReservedIsNat DEF RailTables
  <1>2. refunded[s] \in Nat /\ Captured[s] \in Nat
    BY RailAssumption DEF RailTables, Sources
  <1> QED BY <1>1, <1>2 DEF MoneySound, Available

(* A step that instructs nothing new and binds no further slice.           *)
LEMMA MoneyKept ==
    ASSUME RailTables, MoneySound, op' \in [Attempts -> [Sources -> OpRow]], refunded' = refunded,
           \A n \in Attempts, s \in Sources :
               op'[n][s].cents = op[n][s].cents /\ (Binding(op'[n][s]) => Binding(op[n][s]))
    PROVE  MoneySound'
  <1>1. ASSUME NEW s \in Sources PROVE Available(s)' >= 0
    <2>1. PICK f : f = [n \in Attempts |-> Bound(op[n][s])]
      OBVIOUS
    <2>2. PICK g : g = [n \in Attempts |-> Bound(op'[n][s])]
      OBVIOUS
    <2>3. Reserved(s) = SumFunctionOnSet(f, Attempts)
      BY <2>1 DEF Reserved, Bound
    <2>4. Reserved(s)' = SumFunctionOnSet(g, Attempts)
      BY <2>2 DEF Reserved, Bound
    <2>5. \A n \in Attempts : op[n][s] \in OpRow /\ op'[n][s] \in OpRow
      BY DEF RailTables
    <2>6. \A n \in Attempts : g[n] \in Int /\ f[n] \in Int /\ g[n] <= f[n]
      BY <2>1, <2>2, <2>5, SMT DEF OpRow, Bound
    <2>7. Reserved(s)' <= Reserved(s)
      <3>1. SumFunctionOnSet(g, Attempts) <= SumFunctionOnSet(f, Attempts)
        BY <2>6, RangesAreFinite, SumsCompare
      <3> QED BY <2>3, <2>4, <3>1
    <2>8. Reserved(s) \in Int /\ Reserved(s)' \in Int
      BY <2>3, <2>4, <2>6, RangesAreFinite, SumIsInt, Zenon
    <2>9. Captured[s] \in Int /\ refunded[s] \in Int
      BY RailAssumption DEF RailTables, Sources
    <2>10. Captured[s] - refunded[s] - Reserved(s) >= 0
      BY DEF MoneySound, Available
    <2> QED BY <2>7, <2>8, <2>9, <2>10 DEF Available
  <1>2. ASSUME NEW n \in Attempts PROVE Instructed(n)' <= Award
    <2>1. [s \in Sources |-> op'[n][s].cents] = [s \in Sources |-> op[n][s].cents]
      BY Zenon
    <2> QED BY <2>1 DEF MoneySound, Instructed
  <1> QED BY <1>1, <1>2 DEF MoneySound
-----------------------------------------------------------------------------
(* One slice that changes, one field at a time.                            *)
Slices == [Attempts -> [Sources -> OpRow]]
AtSlice(new, old, n, s) ==
    /\ new \in Slices
    /\ \A m \in Attempts, t \in Sources : m # n \/ t # s => new[m][t] = old[m][t]

WithStatus(f, n, s, v) == [f EXCEPT ![n][s].status = v]
WithKey(f, n, s, v) == [f EXCEPT ![n][s].key = v]
WithDone(f, n, s, v) == [f EXCEPT ![n][s].done = v]
WithLate(f, n, s, v) == [f EXCEPT ![n][s].late = v]

LEMMA StatusChanges ==
    ASSUME NEW f \in Slices, NEW n \in Attempts, NEW s \in Sources, NEW v \in OpStatus,
           NEW new, new = WithStatus(f, n, s, v)
    PROVE  /\ AtSlice(new, f, n, s) /\ new[n][s].status = v /\ new[n][s].cents = f[n][s].cents
           /\ new[n][s].key = f[n][s].key /\ new[n][s].done = f[n][s].done
           /\ new[n][s].late = f[n][s].late
  <1>1. f[n][s] \in OpRow
    BY DEF Slices
  <1> QED BY <1>1, SMT DEF OpRow, Slices, AtSlice, WithStatus

LEMMA KeyChanges ==
    ASSUME NEW f \in Slices, NEW n \in Attempts, NEW s \in Sources, NEW v \in Keys,
           NEW new, new = WithKey(f, n, s, v)
    PROVE  /\ AtSlice(new, f, n, s) /\ new[n][s].key = v /\ new[n][s].cents = f[n][s].cents
           /\ new[n][s].status = f[n][s].status /\ new[n][s].done = f[n][s].done
           /\ new[n][s].late = f[n][s].late
  <1>1. f[n][s] \in OpRow
    BY DEF Slices
  <1> QED BY <1>1, SMT DEF OpRow, Slices, AtSlice, WithKey

LEMMA DoneChanges ==
    ASSUME NEW f \in Slices, NEW n \in Attempts, NEW s \in Sources, NEW v \in Nat,
           NEW new, new = WithDone(f, n, s, v)
    PROVE  /\ AtSlice(new, f, n, s) /\ new[n][s].done = v /\ new[n][s].cents = f[n][s].cents
           /\ new[n][s].status = f[n][s].status /\ new[n][s].key = f[n][s].key
           /\ new[n][s].late = f[n][s].late
  <1>1. f[n][s] \in OpRow
    BY DEF Slices
  <1> QED BY <1>1, SMT DEF OpRow, Slices, AtSlice, WithDone

LEMMA LateChanges ==
    ASSUME NEW f \in Slices, NEW n \in Attempts, NEW s \in Sources, NEW v \in BOOLEAN,
           NEW new, new = WithLate(f, n, s, v)
    PROVE  /\ AtSlice(new, f, n, s) /\ new[n][s].late = v /\ new[n][s].cents = f[n][s].cents
           /\ new[n][s].status = f[n][s].status /\ new[n][s].key = f[n][s].key
           /\ new[n][s].done = f[n][s].done
  <1>1. f[n][s] \in OpRow
    BY DEF Slices
  <1> QED BY <1>1, SMT DEF OpRow, Slices, AtSlice, WithLate

LEMMA TwoChanges ==
    ASSUME NEW f, NEW g, NEW h, NEW n \in Attempts, NEW s \in Sources,
           AtSlice(g, f, n, s), AtSlice(h, g, n, s)
    PROVE  AtSlice(h, f, n, s)
  BY Zenon DEF AtSlice

(* What a run is doing.                                                    *)
LEMMA CallIs ==
    ASSUME RailTables
    PROVE  /\ call.kind \in {"none", "transfer", "bank", "observe"}
           /\ call.kind = "none" <=> call = NoCall
           /\ call.kind = "transfer" <=> call \in Transfers
           /\ call.kind = "bank" <=> call \in BankCalls \union BankAnswers
           /\ call.kind = "observe" <=> call \in ObserveCalls
  BY DEF RailTables, NoCall, Transfers, BankCalls, BankAnswers, ObserveCalls

LEMMA TransferIs ==
    ASSUME RailIInv, call.kind = "transfer"
    PROVE  /\ call \in Transfers /\ call.n \in Attempts /\ call.todo \in SUBSET Sources
           /\ call.again \in BOOLEAN /\ call.answer \in Answers
           /\ Slice \in call.todo /\ Slice \in Sources
           /\ op[call.n][Slice].status \in {"committed", "unknown"}
  <1>1. call \in Transfers
    BY CallIs DEF RailIInv
  <1>2. call.n \in Attempts /\ call.todo \in SUBSET Sources /\ call.again \in BOOLEAN
        /\ call.answer \in Answers
    BY <1>1 DEF Transfers
  <1>3. call.todo # {}
    BY DEF RailIInv, TransferSound
  <1>4. IsFiniteSet(call.todo) /\ call.todo \in SUBSET Nat
    BY <1>2, RangesAreFinite, FS_Subset
  <1>5. Slice \in call.todo
    BY <1>3, <1>4, LeastIsIn DEF Slice
  <1>6. op[call.n][Slice].status \in {"committed", "unknown"}
    BY <1>5 DEF RailIInv, TransferSound
  <1> QED BY <1>1, <1>2, <1>5, <1>6
-----------------------------------------------------------------------------
LEMMA FaultsStay ==
    ASSUME \A n \in Attempts, s \in Sources : op[n][s].late => op'[n][s].late,
           \A n \in Attempts, s \in Sources : Stranded(n, s) => Stranded(n, s)',
           \A d \in Disbursements : CameBack(d) => CameBack(d)',
           \A d \in Disbursements : dis[d].op = "failed" => dis'[d].op = "failed"
    PROVE  Faulty => Faulty'
  BY Zenon DEF Faulty

(* While a slice awaits its answer, its attempt is the last one.           *)
LEMMA OutstandingIsLast ==
    ASSUME RailIInv, Orderly, NEW n \in Attempts, NEW s \in Sources, Outstanding(op[n][s])
    PROVE  /\ ~Banked(n) /\ att[n] # "none"
           /\ \A m \in Attempts : n < m => att[m] = "none"
           /\ \A m \in Attempts : att[m] # "succeeded"
  <1>1. ~Banked(n) /\ att[n] # "none"
    BY DEF RailIInv, AttemptSound, Outstanding
  <1>2. ~Undone(n)
    BY DEF Undone, Outstanding
  <1>3. \A m \in Attempts : n < m => att[m] = "none"
    BY <1>2 DEF Orderly
  <1>4. ASSUME NEW m \in Attempts, att[m] = "succeeded" PROVE FALSE
    <2>1. CASE m < n
      <3>1. Undone(m)
        BY <1>1, <2>1 DEF Orderly
      <3> QED BY <1>4, <3>1 DEF Undone
    <2>2. CASE m = n
      BY <1>1, <1>4, <2>2 DEF Banked
    <2>3. CASE n < m
      BY <1>3, <1>4, <2>3
    <2> QED BY <2>1, <2>2, <2>3, RangesAreFinite
  <1> QED BY <1>1, <1>3, <1>4

(* A step of the run on the slice it is sending.                           *)
LEMMA SendKeeps ==
    ASSUME RailIInv, call.kind = "transfer",
           NEW n \in Attempts, n = call.n, NEW s \in Sources, s = Slice,
           UNCHANGED <<dis, bank, seen, refunded>>,
           AtSlice(op', op, n, s), op'[n][s].cents = op[n][s].cents, SliceSound(op'[n][s]),
           op[n][s].late => op'[n][s].late, op'[n][s].status \notin {"none", "prepared"},
           att' \in [Attempts -> AttStatus], \A m \in Attempts \ {n} : att'[m] = att[m],
           att'[n] \notin {"none", "prepared", "sent", "succeeded"},
           att'[n] = "accepted" => \A t \in Sources : ~Outstanding(op'[n][t]),
           att'[n] = "failed" => \/ \A t \in Sources : op'[n][t].status # "accepted"
                                 \/ "slice" \in holds'
                                 \/ \E t \in Sources : Outstanding(op'[n][t]),
           \A t \in Sources \ {s} : Stranded(n, t) => att'[n] = "failed",
           "slice" \in holds => "slice" \in holds',
           payout' \in PayoutRow, payout'.status = "paid" => payout.status = "paid",
           call' \in {NoCall} \union Transfers, TransferSound',
           \A m \in Attempts, t \in Sources : Sending(m, t)' => Sending(m, t)
    PROVE  RailIInv'
  <1>1. /\ op' \in Slices /\ att[n] \notin {"none", "prepared"} /\ ~Banked(n)
        /\ Outstanding(op[n][s])
        /\ \A m \in Attempts, t \in Sources : m # n \/ t # s => op'[m][t] = op[m][t]
    <2>1. op[n][s].status \in {"committed", "unknown"}
      BY TransferIs
    <2> QED BY <2>1 DEF AtSlice, RailIInv, AttemptSound, Outstanding
  <1>2. RailTables'
    BY <1>1 DEF RailIInv, RailTables, Slices
  <1>3. \A m \in Attempts, t \in Sources : SliceSound(op'[m][t])
    BY <1>1, Zenon DEF RailIInv
  <1>4. ASSUME NEW m \in Attempts PROVE AttemptSound(m)'
    <2>1. CASE m = n
      <3>1. \A t \in Sources : op'[n][t].status # "prepared"
        <4>1. AttemptSound(n)
          BY Zenon DEF RailIInv
        <4>2. \A t \in Sources : op[n][t].status # "prepared"
          BY <1>1, <4>1 DEF AttemptSound
        <4> QED BY <1>1, <4>2
      <3> QED BY <2>1, <3>1, Zenon DEF AttemptSound, Banked
    <2>2. CASE m # n
      <3>1. att'[m] = att[m] /\ \A t \in Sources : op'[m][t] = op[m][t]
        BY <1>1, <2>2
      <3>2. AttemptSound(m)
        BY Zenon DEF RailIInv
      <3>3. (\E t \in Sources : Outstanding(op[m][t])) => \E t \in Sources : Outstanding(op'[m][t])
        BY <3>1
      <3> QED BY <3>1, <3>2, <3>3 DEF AttemptSound, Banked
    <2> QED BY <2>1, <2>2
  <1>5. BankCallSound' /\ call'.kind \in {"none", "transfer"}
    BY DEF BankCallSound, NoCall, Transfers
  <1>6. ASSUME NEW d \in Disbursements PROVE BankSound(d)'
    <2>1. \A m \in Attempts : Banked(m) => Banked(m)'
      BY <1>1, Zenon DEF Banked
    <2> QED BY <2>1, Zenon DEF RailIInv, BankSound
  <1>7. ReadsSound' /\ OneActive' /\ PaidOnce'
    BY Zenon DEF RailIInv, ReadsSound, ReadSound, OneActive, PaidOnce
  <1>8. MoneySound'
    <2>1. \A m \in Attempts, t \in Sources :
              op'[m][t].cents = op[m][t].cents /\ (Binding(op'[m][t]) => Binding(op[m][t]))
      BY <1>1, Zenon DEF Binding, Outstanding
    <2> QED BY <1>1, <2>1, MoneyKept DEF RailIInv, Slices
  <1>9. ASSUME Faulty PROVE Faulty'
    <2>1. \A m \in Attempts, t \in Sources : op[m][t].late => op'[m][t].late
      BY <1>1, Zenon
    <2>2. ASSUME NEW m \in Attempts, NEW t \in Sources, Stranded(m, t) PROVE Stranded(m, t)'
      <3>1. m # n \/ t # s
        BY <2>2, TransferIs DEF Stranded, Sending
      <3>2. att'[m] = "failed"
        BY <2>2, <3>1, Zenon DEF Stranded
      <3> QED BY <1>1, <2>2, <3>1, <3>2, Zenon DEF Stranded
    <2>3. \A d \in Disbursements : CameBack(d) => CameBack(d)'
      BY Zenon DEF CameBack
    <2>4. \A d \in Disbursements : dis[d].op = "failed" => dis'[d].op = "failed"
      OBVIOUS
    <2> QED BY <1>9, <2>4, <2>1, <2>2, <2>3, FaultsStay, Zenon
  <1>10. ASSUME Orderly PROVE Orderly'
    <2>1. /\ \A m \in Attempts : n < m => att[m] = "none"
          /\ \A m \in Attempts : att[m] # "succeeded"
      BY <1>1, <1>10, OutstandingIsLast
    <2>2. ASSUME NEW k \in Attempts, NEW m \in Attempts, k < m, att'[m] # "none"
          PROVE  Undone(k)'
      <3>1. att[m] # "none"
        BY <1>1, <2>2, Zenon
      <3>2. k # n
        BY <2>1, <2>2, <3>1
      <3>3. Undone(k)
        BY <1>10, <2>2, <3>1, Zenon DEF Orderly
      <3> QED BY <1>1, <3>2, <3>3, Zenon DEF Undone
    <2>3. \A m \in Attempts : att'[m] # "succeeded"
      BY <2>1, Zenon
    <2> QED BY <2>2, <2>3 DEF Orderly
  <1>11. Faulty' \/ Orderly'
    <2>1. Faulty \/ Orderly
      BY Zenon DEF RailIInv
    <2> QED BY <1>9, <1>10, <2>1, Zenon
  <1> QED BY <1>2, <1>3, <1>4, <1>5, <1>6, <1>7, <1>8, <1>11, Zenon DEF RailIInv

(* A step that changes what a run does next and no table.                  *)
LEMMA CallKeeps ==
    ASSUME RailIInv, UNCHANGED <<payout, att, op, dis, bank, seen, holds, refunded>>,
           call' \in {NoCall} \union Transfers \union BankCalls \union BankAnswers
                        \union ObserveCalls,
           TransferSound', BankCallSound',
           \A n \in Attempts, s \in Sources :
               op[n][s].status = "committed" /\ Sending(n, s)' => Sending(n, s)
    PROVE  RailIInv'
  <1>1. RailTables'
    BY Zenon DEF RailIInv, RailTables
  <1>2. /\ \A n \in Attempts, s \in Sources : SliceSound(op'[n][s])
        /\ \A n \in Attempts : AttemptSound(n)'
        /\ \A d \in Disbursements : BankSound(d)'
    <2>1. \A n \in Attempts : AttemptSound(n)'
      BY DEF RailIInv, AttemptSound, Banked
    <2>2. \A d \in Disbursements : BankSound(d)'
      BY DEF RailIInv, BankSound, Banked
    <2> QED BY <2>1, <2>2 DEF RailIInv
  <1>3. ReadsSound' /\ OneActive' /\ PaidOnce'
    BY Zenon DEF RailIInv, ReadsSound, ReadSound, OneActive, PaidOnce
  <1>4. MoneySound'
    BY MoneyKept DEF RailIInv, RailTables
  <1>5. Faulty => Faulty'
    <2>1. ASSUME NEW m \in Attempts, NEW t \in Sources, Stranded(m, t) PROVE Stranded(m, t)'
      BY <2>1, Zenon DEF Stranded
    <2>2. \A d \in Disbursements : CameBack(d) => CameBack(d)'
      BY Zenon DEF CameBack
    <2>3. \A m \in Attempts, t \in Sources : op[m][t].late => op'[m][t].late
      BY Zenon
    <2>4. \A d \in Disbursements : dis[d].op = "failed" => dis'[d].op = "failed"
      OBVIOUS
    <2> QED BY <2>1, <2>2, <2>3, <2>4, FaultsStay, Zenon
  <1>6. Orderly => Orderly'
    BY Zenon DEF Orderly, Undone
  <1> QED BY <1>1, <1>2, <1>3, <1>4, <1>5, <1>6, Zenon DEF RailIInv
(* A step about one disbursement.                                          *)
LEMMA BankKeeps ==
    ASSUME RailIInv, UNCHANGED <<op, holds, refunded>>, NEW d \in Disbursements,
           dis' \in [Disbursements -> DisRow], bank' \in [Disbursements -> BankRow],
           \A e \in Disbursements \ {d} : dis'[e] = dis[e] /\ bank'[e] = bank[e],
           BankSound(d)',
           dis[d].known => dis'[d].known, bank[d].paid => bank'[d].paid,
           bank[d].status = "failed" => bank'[d].status = "failed",
           dis[d].op = "failed" => dis'[d].op = "failed",
           dis'[d].active => dis[d].active \/ \A e \in Disbursements : ~dis[e].active,
           payout' \in PayoutRow,
           payout'.status = "paid" => payout.status = "paid" \/ bank'[d].paid,
           att' \in [Attempts -> AttStatus],
           \A n \in Attempts : att'[n] = att[n] \/ (Banked(n) /\ Banked(n)'),
           seen' \in [Readers -> SUBSET (Disbursements \X Said)],
           \A r \in Readers : seen'[r] \in SUBSET seen[r],
           call' \in {NoCall} \union Transfers \union BankCalls \union BankAnswers
                        \union ObserveCalls,
           call'.kind = "transfer" => call' = call, BankCallSound',
           Orderly => Faulty' \/ \A n \in Attempts : att'[n] = "succeeded" => payout'.status = "paid"
    PROVE  RailIInv'
  <1>1. RailTables'
    BY Zenon DEF RailIInv, RailTables
  <1>2. \A n \in Attempts, s \in Sources : SliceSound(op'[n][s])
    BY Zenon DEF RailIInv
  <1>3. ASSUME NEW n \in Attempts PROVE AttemptSound(n)'
    <2>1. AttemptSound(n)
      BY Zenon DEF RailIInv
    <2>2. CASE att'[n] = att[n]
      BY <2>1, <2>2 DEF AttemptSound, Banked
    <2>3. CASE Banked(n) /\ Banked(n)'
      BY <2>1, <2>3 DEF AttemptSound, Banked, Outstanding
    <2> QED BY <2>2, <2>3
  <1>4. \A n \in Attempts : Banked(n) => Banked(n)'
    BY Zenon DEF Banked
  <1>5. ASSUME NEW e \in Disbursements PROVE BankSound(e)'
    <2>1. CASE e = d
      BY <2>1, Zenon
    <2>2. CASE e # d
      <3>1. dis'[e] = dis[e] /\ bank'[e] = bank[e] /\ BankSound(e)
        BY <2>2, Zenon DEF RailIInv
      <3> QED BY <1>4, <3>1 DEF BankSound
    <2> QED BY <2>1, <2>2
  <1>6. /\ \A e \in Disbursements : dis[e].known => dis'[e].known
        /\ \A e \in Disbursements : bank[e].paid => bank'[e].paid
        /\ \A e \in Disbursements : bank[e].status = "failed" => bank'[e].status = "failed"
        /\ \A e \in Disbursements : dis[e].op = "failed" => dis'[e].op = "failed"
    BY Zenon
  <1>7. ReadsSound'
    <2> SUFFICES ASSUME NEW r \in Readers, NEW read \in seen'[r]
                 PROVE  dis'[read[1]].known /\ ReadSound(read[1], read[2])'
      BY DEF ReadsSound
    <2>1. read \in seen[r] /\ read[1] \in Disbursements
      BY DEF RailIInv, RailTables
    <2>2. dis[read[1]].known /\ ReadSound(read[1], read[2])
      BY <2>1, Zenon DEF RailIInv, ReadsSound
    <2> QED BY <1>6, <2>1, <2>2, Zenon DEF ReadSound
  <1>8. OneActive'
    <2> SUFFICES ASSUME NEW e \in Disbursements, NEW f \in Disbursements,
                        dis'[e].active, dis'[f].active
                 PROVE  e = f
      BY DEF OneActive
    <2>1. dis[e].active \/ e = d
      BY Zenon
    <2>2. dis[f].active \/ f = d
      BY Zenon
    <2>3. OneActive
      BY DEF RailIInv
    <2> QED BY <2>1, <2>2, <2>3, Zenon DEF OneActive
  <1>9. PaidOnce'
    BY <1>6, Zenon DEF RailIInv, PaidOnce
  <1>10. MoneySound'
    BY MoneyKept DEF RailIInv, RailTables
  <1>11. TransferSound'
    <2>1. CASE call' = call
      BY <2>1 DEF RailIInv, TransferSound, Slice
    <2>2. CASE call'.kind # "transfer"
      BY <2>2 DEF TransferSound
    <2> QED BY <2>1, <2>2
  <1>12. ASSUME Faulty PROVE Faulty'
    <2>1. ASSUME NEW m \in Attempts, NEW t \in Sources, Stranded(m, t) PROVE Stranded(m, t)'
      <3>1. Sending(m, t)' => Sending(m, t)
        BY DEF Sending
      <3>2. att'[m] = "failed"
        BY <2>1 DEF Stranded, Banked
      <3> QED BY <2>1, <3>1, <3>2 DEF Stranded
    <2>2. \A e \in Disbursements : CameBack(e) => CameBack(e)'
      BY <1>6, Zenon DEF CameBack
    <2>3. \A m \in Attempts, t \in Sources : op[m][t].late => op'[m][t].late
      OBVIOUS
    <2> QED BY <1>6, <1>12, <2>1, <2>2, <2>3, FaultsStay, Zenon
  <1>13. ASSUME Orderly, \A n \in Attempts : att'[n] = "succeeded" => payout'.status = "paid"
         PROVE  Orderly'
    <2>1. ASSUME NEW k \in Attempts, NEW m \in Attempts, k < m, att'[m] # "none" PROVE Undone(k)'
      <3>1. att[m] # "none"
        BY <2>1 DEF Banked
      <3>2. Undone(k)
        BY <1>13, <2>1, <3>1 DEF Orderly
      <3>3. att'[k] = "failed"
        BY <3>2 DEF Undone, Banked
      <3> QED BY <3>2, <3>3 DEF Undone
    <2> QED BY <1>13, <2>1 DEF Orderly
  <1>14. Faulty' \/ Orderly'
    <2>1. Faulty \/ Orderly
      BY Zenon DEF RailIInv
    <2> QED BY <1>12, <1>13, <2>1, Zenon
  <1> QED BY <1>1, <1>2, <1>3, <1>5, <1>7, <1>8, <1>9, <1>10, <1>11, <1>14, Zenon DEF RailIInv
-----------------------------------------------------------------------------
(* Two fields of a slice at once.                                          *)
LEMMA AnswerChanges ==
    ASSUME op \in Slices, NEW n \in Attempts, NEW s \in Sources, NEW v \in OpStatus,
           op' = [op EXCEPT ![n][s].status = v, ![n][s].key = "unused"]
    PROVE  /\ AtSlice(op', op, n, s) /\ op'[n][s].status = v /\ op'[n][s].key = "unused"
           /\ op'[n][s].cents = op[n][s].cents /\ op'[n][s].done = op[n][s].done
           /\ op'[n][s].late = op[n][s].late
  <1>1. PICK once : once = WithStatus(op, n, s, v)
    OBVIOUS
  <1>2. op' = WithKey(once, n, s, "unused")
    BY <1>1 DEF WithStatus, WithKey
  <1>3. /\ AtSlice(once, op, n, s) /\ once[n][s].status = v
        /\ once[n][s].cents = op[n][s].cents
        /\ once[n][s].done = op[n][s].done /\ once[n][s].late = op[n][s].late
    BY <1>1, StatusChanges
  <1>4. once \in Slices /\ "unused" \in Keys
    BY <1>3 DEF AtSlice, Keys
  <1>5. /\ AtSlice(op', once, n, s) /\ op'[n][s].key = "unused"
        /\ op'[n][s].cents = once[n][s].cents /\ op'[n][s].status = once[n][s].status
        /\ op'[n][s].done = once[n][s].done /\ op'[n][s].late = once[n][s].late
    <2>1. PICK twice : twice = op'
      OBVIOUS
    <2>2. twice = WithKey(once, n, s, "unused")
      BY <1>2, <2>1
    <2>3. /\ AtSlice(twice, once, n, s) /\ twice[n][s].key = "unused"
          /\ twice[n][s].cents = once[n][s].cents /\ twice[n][s].status = once[n][s].status
          /\ twice[n][s].done = once[n][s].done
          /\ twice[n][s].late = once[n][s].late
      BY <1>4, <2>2, KeyChanges
    <2> QED BY <2>1, <2>3
  <1>6. AtSlice(op', op, n, s)
    BY <1>3, <1>5, TwoChanges, Zenon
  <1> QED BY <1>3, <1>5, <1>6, Zenon

LEMMA SendingChanges ==
    ASSUME op \in Slices, NEW n \in Attempts, NEW s \in Sources, NEW v \in Nat, NEW w \in BOOLEAN,
           NEW once, once = WithDone(op, n, s, v), op' = WithLate(once, n, s, w)
    PROVE  /\ AtSlice(op', op, n, s) /\ op'[n][s].done = v /\ op'[n][s].late = w
           /\ op'[n][s].cents = op[n][s].cents /\ op'[n][s].status = op[n][s].status
           /\ op'[n][s].key = op[n][s].key
  <1>1. /\ AtSlice(once, op, n, s) /\ once[n][s].done = v
        /\ once[n][s].cents = op[n][s].cents
        /\ once[n][s].status = op[n][s].status /\ once[n][s].key = op[n][s].key
    BY DoneChanges
  <1>2. once \in Slices
    BY <1>1 DEF AtSlice
  <1>3. /\ AtSlice(op', once, n, s) /\ op'[n][s].late = w
        /\ op'[n][s].cents = once[n][s].cents /\ op'[n][s].status = once[n][s].status
        /\ op'[n][s].key = once[n][s].key /\ op'[n][s].done = once[n][s].done
    <2>1. PICK twice : twice = op'
      OBVIOUS
    <2>2. twice = WithLate(once, n, s, w)
      BY <2>1
    <2>3. /\ AtSlice(twice, once, n, s) /\ twice[n][s].late = w
          /\ twice[n][s].cents = once[n][s].cents /\ twice[n][s].status = once[n][s].status
          /\ twice[n][s].done = once[n][s].done
          /\ twice[n][s].key = once[n][s].key
      BY <1>2, <2>2, LateChanges
    <2> QED BY <2>1, <2>3
  <1>4. AtSlice(op', op, n, s)
    BY <1>1, <1>3, TwoChanges, Zenon
  <1> QED BY <1>1, <1>3, <1>4, Zenon

(* After an answer the run goes on to its next slice, or ends.             *)
LEMMA NextSliceKeeps ==
    ASSUME RailIInv, call.kind = "transfer", NextSlice,
           NEW n \in Attempts, n = call.n, NEW s \in Sources, s = Slice,
           AtSlice(op', op, n, s)
    PROVE  /\ call' \in {NoCall} \union Transfers
           /\ TransferSound'
           /\ \A m \in Attempts, t \in Sources : Sending(m, t)' => Sending(m, t)
  <1>1. CASE call.todo = {Slice}
    <2>1. call' = NoCall
      BY <1>1 DEF NextSlice
    <2> QED BY <2>1 DEF NoCall, TransferSound, Sending
  <1>2. CASE call.todo # {Slice}
    <2>1. call' = [call EXCEPT !.todo = @ \ {Slice}, !.answer = "none"]
      BY <1>2 DEF NextSlice
    <2>2. call \in Transfers /\ Slice \in call.todo
      BY TransferIs
    <2>3. /\ call' \in Transfers /\ call'.kind = "transfer" /\ call'.n = n
          /\ call'.todo = call.todo \ {s} /\ call'.answer = "none"
      <3>1. PICK rest : rest = call.todo \ {Slice}
        OBVIOUS
      <3>2. rest \in SUBSET Sources
        BY <2>2, <3>1 DEF Transfers
      <3>3. call' = [call EXCEPT !.todo = rest, !.answer = "none"]
        BY <2>1, <3>1
      <3> QED BY <2>2, <3>1, <3>2, <3>3 DEF Transfers, Answers
    <2>4. \A t \in call'.todo : op'[call'.n][t].status \in {"committed", "unknown"}
      <3>1. \A t \in call.todo : op[n][t].status \in {"committed", "unknown"}
        BY DEF RailIInv, TransferSound
      <3>2. \A t \in Sources \ {s} : op'[n][t] = op[n][t]
        BY Zenon DEF AtSlice
      <3>3. call.todo \in SUBSET Sources
        BY TransferIs
      <3> QED BY <2>3, <3>1, <3>2, <3>3
    <2>5. call'.todo # {}
      BY <1>2, <2>2, <2>3
    <2> QED BY <2>3, <2>4, <2>5 DEF TransferSound, Sending
  <1> QED BY <1>1, <1>2
-----------------------------------------------------------------------------
(* The answers to a Transfer.                                              *)
LEMMA SendingIs ==
    ASSUME RailIInv, call.kind = "transfer", NEW n \in Attempts, n = call.n,
           NEW s \in Sources, s = Slice
    PROVE  /\ op \in Slices /\ op[n] \in [Sources -> OpRow] /\ op[n][s] \in OpRow
           /\ SliceSound(op[n][s]) /\ Outstanding(op[n][s])
           /\ op[n][s].status \in {"committed", "unknown"}
           /\ att[n] \in {"dispatch_committed", "unknown", "failed"}
           /\ att \in [Attempts -> AttStatus]
  <1>1. op \in Slices /\ op[n] \in [Sources -> OpRow] /\ op[n][s] \in OpRow
        /\ att \in [Attempts -> AttStatus]
    BY DEF RailIInv, RailTables, Slices
  <1>2. op[n][s].status \in {"committed", "unknown"}
    BY TransferIs
  <1>3. Outstanding(op[n][s])
    BY <1>2 DEF Outstanding
  <1>4. SliceSound(op[n][s]) /\ AttemptSound(n)
    BY DEF RailIInv
  <1>5. att[n] \in {"dispatch_committed", "unknown", "failed"}
    BY <1>1, <1>2, <1>3, <1>4 DEF AttemptSound, Banked, AttStatus
  <1> QED BY <1>1, <1>2, <1>3, <1>4, <1>5

LEMMA AcceptTransferKeeps ==
    ASSUME RailIInv, AcceptTransfer
    PROVE  RailIInv'
  <1>1. call.kind = "transfer" /\ NextSlice /\ UNCHANGED <<payout, dis, bank, seen, holds, refunded>>
    BY DEF AcceptTransfer, Answered
  <1>2. PICK n \in Attempts : n = call.n
    BY <1>1, TransferIs
  <1>3. PICK s \in Sources : s = Slice
    BY <1>1, TransferIs
  <1>4. /\ op \in Slices /\ SliceSound(op[n][s]) /\ op[n][s].status \in {"committed", "unknown"}
        /\ att[n] \in {"dispatch_committed", "unknown", "failed"}
        /\ att \in [Attempts -> AttStatus]
    BY <1>1, <1>2, <1>3, SendingIs
  <1>5. op' = [op EXCEPT ![n][s].status = "accepted", ![n][s].key = "unused"]
    BY <1>2, <1>3 DEF AcceptTransfer
  <1>6. /\ AtSlice(op', op, n, s) /\ op'[n][s].status = "accepted" /\ op'[n][s].key = "unused"
        /\ op'[n][s].cents = op[n][s].cents /\ op'[n][s].done = op[n][s].done
        /\ op'[n][s].late = op[n][s].late
    <2>1. "accepted" \in OpStatus
      BY DEF OpStatus
    <2> QED BY <1>4, <1>5, <2>1, AnswerChanges
  <1>7. SliceSound(op'[n][s]) /\ ~Outstanding(op'[n][s])
    BY <1>4, <1>6 DEF SliceSound, Outstanding
  <1>8. \A t \in Sources \ {s} : op'[n][t] = op[n][t]
    BY <1>6, Zenon DEF AtSlice
  <1>9. PICK last \in BOOLEAN : last <=> \A t \in Sources \ {s} : ~Outstanding(op[n][t])
    OBVIOUS
  <1>10. att' = [att EXCEPT ![n] = IF last THEN "accepted" ELSE att[n]]
    <2>1. att' = [att EXCEPT ![n] =
                IF (\A t \in Sources \ {s} : ~Outstanding(op[n][t]))
                    /\ att[n] \notin {"sent", "succeeded"}
                THEN "accepted" ELSE att[n]]
      BY <1>2, <1>3 DEF AcceptTransfer
    <2> QED BY <1>4, <1>9, <2>1
  <1>11. /\ att' \in [Attempts -> AttStatus] /\ \A m \in Attempts \ {n} : att'[m] = att[m]
         /\ att'[n] = IF last THEN "accepted" ELSE att[n]
    BY <1>4, <1>10 DEF AttStatus
  <1>12. /\ att'[n] \notin {"none", "prepared", "sent", "succeeded"}
         /\ att'[n] = "accepted" => \A t \in Sources : ~Outstanding(op'[n][t])
         /\ att'[n] = "failed" => \/ \A t \in Sources : op'[n][t].status # "accepted"
                                  \/ "slice" \in holds'
                                  \/ \E t \in Sources : Outstanding(op'[n][t])
    BY <1>4, <1>7, <1>8, <1>9, <1>11
  <1>13. \A t \in Sources \ {s} : Stranded(n, t) => att'[n] = "failed"
    <2> SUFFICES ASSUME NEW t \in Sources \ {s}, Stranded(n, t) PROVE att'[n] = "failed"
      OBVIOUS
    <2>1. Outstanding(op[n][t]) /\ att[n] = "failed"
      BY DEF Stranded, Outstanding
    <2> QED BY <1>9, <1>11, <2>1
  <1>14. /\ call' \in {NoCall} \union Transfers /\ TransferSound'
         /\ \A m \in Attempts, t \in Sources : Sending(m, t)' => Sending(m, t)
    BY <1>1, <1>2, <1>3, <1>6, NextSliceKeeps
  <1>15. /\ UNCHANGED <<dis, bank, seen, refunded>> /\ payout' \in PayoutRow
         /\ payout'.status = "paid" => payout.status = "paid"
         /\ "slice" \in holds => "slice" \in holds'
    BY <1>1 DEF RailIInv, RailTables
  <1>16. op'[n][s].status \notin {"none", "prepared"} /\ (op[n][s].late => op'[n][s].late)
    BY <1>6
  <1> QED BY <1>1, <1>2, <1>3, <1>6, <1>7, <1>11, <1>12, <1>13, <1>14, <1>15, <1>16, SendKeeps

LEMMA RejectTransferKeeps ==
    ASSUME RailIInv, RejectTransfer
    PROVE  RailIInv'
  <1>1. /\ call.kind = "transfer" /\ call.answer = "rejected" /\ NextSlice
        /\ UNCHANGED <<dis, bank, seen, refunded>> /\ payout' = [payout EXCEPT !.status = "failed"]
    BY DEF RejectTransfer, Refused, Becomes
  <1>2. PICK n \in Attempts : n = call.n
    BY <1>1, TransferIs
  <1>3. PICK s \in Sources : s = Slice
    BY <1>1, TransferIs
  <1>4. /\ op \in Slices /\ SliceSound(op[n][s]) /\ op[n][s].status \in {"committed", "unknown"}
        /\ att[n] \in {"dispatch_committed", "unknown", "failed"}
        /\ att \in [Attempts -> AttStatus]
    BY <1>1, <1>2, <1>3, SendingIs
  <1>5. op' = [op EXCEPT ![n][s].status = "failed", ![n][s].key = "unused"]
    BY <1>2, <1>3 DEF RejectTransfer
  <1>6. /\ AtSlice(op', op, n, s) /\ op'[n][s].status = "failed" /\ op'[n][s].key = "unused"
        /\ op'[n][s].cents = op[n][s].cents /\ op'[n][s].done = op[n][s].done
        /\ op'[n][s].late = op[n][s].late
    <2>1. "failed" \in OpStatus
      BY DEF OpStatus
    <2> QED BY <1>4, <1>5, <2>1, AnswerChanges
  <1>7. SliceSound(op'[n][s])
    <2>1. op[n][s].late \/ op[n][s].done = 0
      BY <1>1, <1>2, <1>3 DEF RailIInv, TransferSound
    <2> QED BY <1>4, <1>6, <2>1 DEF SliceSound
  <1>8. \A t \in Sources \ {s} : op'[n][t] = op[n][t]
    BY <1>6, Zenon DEF AtSlice
  <1>9. PICK partial \in BOOLEAN : partial <=> \E t \in Sources : op[n][t].status = "accepted"
    OBVIOUS
  <1>10. /\ holds' = IF partial THEN holds \union {"slice"} ELSE holds
         /\ att' = IF partial THEN att ELSE [att EXCEPT ![n] = "failed"]
    BY <1>2, <1>9 DEF RejectTransfer
  <1>11. /\ att' \in [Attempts -> AttStatus] /\ \A m \in Attempts \ {n} : att'[m] = att[m]
         /\ att'[n] = IF partial THEN att[n] ELSE "failed"
    BY <1>4, <1>10 DEF AttStatus
  <1>12. /\ att'[n] \notin {"none", "prepared", "sent", "succeeded", "accepted"}
         /\ att'[n] = "failed" => \/ \A t \in Sources : op'[n][t].status # "accepted"
                                  \/ "slice" \in holds'
                                  \/ \E t \in Sources : Outstanding(op'[n][t])
    BY <1>4, <1>6, <1>8, <1>9, <1>10, <1>11
  <1>13. \A t \in Sources \ {s} : Stranded(n, t) => att'[n] = "failed"
    BY <1>11 DEF Stranded
  <1>14. /\ call' \in {NoCall} \union Transfers /\ TransferSound'
         /\ \A m \in Attempts, t \in Sources : Sending(m, t)' => Sending(m, t)
    BY <1>1, <1>2, <1>3, <1>6, NextSliceKeeps
  <1>15. /\ payout' \in PayoutRow /\ payout'.status # "paid"
         /\ "slice" \in holds => "slice" \in holds'
    BY <1>1, <1>10 DEF RailIInv, RailTables, PayoutRow
  <1>16. op'[n][s].status \notin {"none", "prepared"} /\ (op[n][s].late => op'[n][s].late)
    BY <1>6
  <1>17. att'[n] \notin {"none", "prepared", "sent", "succeeded"}
         /\ (att'[n] = "accepted" => \A t \in Sources : ~Outstanding(op'[n][t]))
    BY <1>12
  <1>18. payout'.status = "paid" => payout.status = "paid"
    BY <1>15
  <1> QED BY <1>1, <1>2, <1>3, <1>6, <1>7, <1>11, <1>12, <1>13, <1>14, <1>15, <1>16, <1>17, <1>18,
             SendKeeps

LEMMA TransferUnknownKeeps ==
    ASSUME RailIInv, TransferUnknown
    PROVE  RailIInv'
  <1>1. call.kind = "transfer" /\ NextSlice /\ UNCHANGED <<payout, dis, bank, seen, holds, refunded>>
    BY DEF TransferUnknown, Answered
  <1>2. PICK n \in Attempts : n = call.n
    BY <1>1, TransferIs
  <1>3. PICK s \in Sources : s = Slice
    BY <1>1, TransferIs
  <1>4. /\ op \in Slices /\ SliceSound(op[n][s]) /\ op[n][s].status \in {"committed", "unknown"}
        /\ att[n] \in {"dispatch_committed", "unknown", "failed"}
        /\ att \in [Attempts -> AttStatus]
    BY <1>1, <1>2, <1>3, SendingIs
  <1>5. PICK after : after = op'
    OBVIOUS
  <1>6. /\ AtSlice(op', op, n, s) /\ op'[n][s].status = "unknown"
        /\ op'[n][s].key = op[n][s].key
        /\ op'[n][s].cents = op[n][s].cents /\ op'[n][s].done = op[n][s].done
        /\ op'[n][s].late = op[n][s].late
    <2>1. after = WithStatus(op, n, s, "unknown") /\ "unknown" \in OpStatus
      BY <1>2, <1>3, <1>5 DEF TransferUnknown, WithStatus, OpStatus
    <2>2. /\ AtSlice(after, op, n, s) /\ after[n][s].status = "unknown"
          /\ after[n][s].cents = op[n][s].cents
          /\ after[n][s].key = op[n][s].key /\ after[n][s].done = op[n][s].done
          /\ after[n][s].late = op[n][s].late
      BY <1>4, <2>1, StatusChanges
    <2> QED BY <1>5, <2>2
  <1>7. SliceSound(op'[n][s]) /\ Outstanding(op'[n][s])
    BY <1>4, <1>6 DEF SliceSound, Outstanding
  <1>8. att' = [att EXCEPT ![n] = IF att[n] = "dispatch_committed" THEN "unknown" ELSE att[n]]
    BY <1>2 DEF TransferUnknown
  <1>9. /\ att' \in [Attempts -> AttStatus] /\ \A m \in Attempts \ {n} : att'[m] = att[m]
        /\ att'[n] = IF att[n] = "dispatch_committed" THEN "unknown" ELSE att[n]
    BY <1>4, <1>8 DEF AttStatus
  <1>10. /\ att'[n] \notin {"none", "prepared", "sent", "succeeded"} /\ att'[n] # "accepted"
         /\ \E t \in Sources : Outstanding(op'[n][t])
         /\ \A t \in Sources \ {s} : Stranded(n, t) => att'[n] = "failed"
    BY <1>4, <1>7, <1>9 DEF Stranded
  <1>11. att'[n] = "accepted" => \A t \in Sources : ~Outstanding(op'[n][t])
    BY <1>10
  <1>12. att'[n] = "failed" => \/ \A t \in Sources : op'[n][t].status # "accepted"
                               \/ "slice" \in holds'
                               \/ \E t \in Sources : Outstanding(op'[n][t])
    BY <1>10
  <1>13. /\ call' \in {NoCall} \union Transfers /\ TransferSound'
         /\ \A m \in Attempts, t \in Sources : Sending(m, t)' => Sending(m, t)
    BY <1>1, <1>2, <1>3, <1>6, NextSliceKeeps
  <1>14. /\ UNCHANGED <<dis, bank, seen, refunded>> /\ payout' \in PayoutRow
         /\ payout'.status = "paid" => payout.status = "paid"
         /\ "slice" \in holds => "slice" \in holds'
    BY <1>1 DEF RailIInv, RailTables
  <1>15. op'[n][s].status \notin {"none", "prepared"} /\ (op[n][s].late => op'[n][s].late)
    BY <1>6
  <1> QED BY <1>1, <1>2, <1>3, <1>6, <1>7, <1>9, <1>10, <1>11, <1>12, <1>13, <1>14, <1>15, SendKeeps

LEMMA TransferKeeps ==
    ASSUME RailIInv, Transfer
    PROVE  RailIInv'
  <1>1. call.kind = "transfer" /\ UNCHANGED <<payout, att, dis, bank, seen, holds, refunded>>
    BY DEF Transfer, Asking
  <1>2. PICK n \in Attempts : n = call.n
    BY <1>1, TransferIs
  <1>3. PICK s \in Sources : s = Slice
    BY <1>1, TransferIs
  <1>4. /\ op \in Slices /\ op[n][s] \in OpRow /\ SliceSound(op[n][s]) /\ Outstanding(op[n][s])
        /\ op[n][s].status \in {"committed", "unknown"}
        /\ att[n] \in {"dispatch_committed", "unknown", "failed"}
        /\ att \in [Attempts -> AttStatus]
    BY <1>1, <1>2, <1>3, SendingIs
  <1>5. PICK known \in BOOLEAN : known <=> op[n][s].key = "fresh" /\ op[n][s].done > 0
    OBVIOUS
  <1>6. PICK executes \in BOOLEAN, answer \in {"accepted", "rejected", "lost"} :
            /\ known => ~executes
            /\ answer = "rejected" => ~executes /\ ~known
            /\ op' = [op EXCEPT ![n][s].done = IF executes THEN @ + 1 ELSE @,
                                ![n][s].late = @ \/ (~call.again /\ op[n][s].key = "stale")]
            /\ Says(answer)
    BY <1>2, <1>3, <1>5 DEF Transfer
  <1>7. PICK v \in Nat : v = IF executes THEN op[n][s].done + 1 ELSE op[n][s].done
    BY <1>4 DEF OpRow
  <1>8. PICK w \in BOOLEAN : w <=> op[n][s].late \/ (~call.again /\ op[n][s].key = "stale")
    OBVIOUS
  <1>9. op' = [op EXCEPT ![n][s].done = v, ![n][s].late = w]
    <2>1. op[n][s].late \in BOOLEAN
      BY <1>4 DEF OpRow
    <2>2. w = (op[n][s].late \/ (~call.again /\ op[n][s].key = "stale"))
      BY <1>8, <2>1
    <2> QED BY <1>4, <1>6, <1>7, <2>2 DEF Slices
  <1>10. PICK once : once = WithDone(op, n, s, v)
    OBVIOUS
  <1>11. op' = WithLate(once, n, s, w)
    BY <1>9, <1>10 DEF WithDone, WithLate
  <1>12. /\ AtSlice(op', op, n, s) /\ op'[n][s].done = v /\ op'[n][s].late = w
         /\ op'[n][s].cents = op[n][s].cents /\ op'[n][s].status = op[n][s].status
         /\ op'[n][s].key = op[n][s].key
    BY <1>4, <1>10, <1>11, SendingChanges
  <1>13. call.again => op[n][s].key = "fresh"
    BY <1>2, <1>3 DEF Transfer, Replays
  <1>14. /\ op[n][s].key \in {"fresh", "stale"}
         /\ op[n][s].done \in Nat
    BY <1>4 DEF SliceSound, OpRow, Keys
  <1>15. SliceSound(op'[n][s]) /\ Outstanding(op'[n][s])
    <2>1. ~w => v <= 1
      <3> SUFFICES ASSUME ~w PROVE v <= 1
        OBVIOUS
      <3>1. ~op[n][s].late /\ op[n][s].done <= 1
        BY <1>4, <1>8 DEF SliceSound
      <3>2. op[n][s].key = "fresh"
        BY <1>8, <1>13, <1>14
      <3>3. executes => op[n][s].done = 0
        BY <1>5, <1>6, <1>14, <3>2
      <3> QED BY <1>7, <3>1, <3>3
    <2> QED BY <1>4, <1>12, <2>1 DEF SliceSound, Outstanding
  <1>16. /\ call' \in Transfers /\ call'.kind = "transfer" /\ call'.n = call.n
         /\ call'.todo = call.todo /\ call'.answer = answer
    <2>1. call \in Transfers /\ answer \in Answers
      BY <1>1, <1>6, TransferIs DEF Answers
    <2>2. call' = [call EXCEPT !.answer = answer]
      BY <1>6 DEF Says
    <2> QED BY <2>1, <2>2 DEF Transfers
  <1>17. TransferSound'
    <2>1. Slice' = s
      BY <1>3, <1>16 DEF Slice
    <2>2. call'.todo # {}
      BY <1>1, <1>16 DEF RailIInv, TransferSound
    <2>3. \A t \in call'.todo : op'[call'.n][t].status \in {"committed", "unknown"}
      <3>1. \A t \in call.todo : t \in Sources /\ op[n][t].status \in {"committed", "unknown"}
        BY <1>1, <1>2, TransferIs DEF RailIInv, TransferSound
      <3>2. \A t \in Sources \ {s} : op'[n][t] = op[n][t]
        BY <1>12, Zenon DEF AtSlice
      <3> QED BY <1>2, <1>12, <1>16, <3>1, <3>2
    <2>4. call'.answer = "rejected" => op'[n][s].late \/ op'[n][s].done = 0
      <3> SUFFICES ASSUME answer = "rejected", ~w PROVE v = 0
        BY <1>12, <1>16
      <3>1. op[n][s].key = "fresh"
        BY <1>8, <1>13, <1>14
      <3> QED BY <1>5, <1>6, <1>7, <1>14, <3>1
    <2> QED BY <1>2, <1>16, <2>1, <2>2, <2>3, <2>4 DEF TransferSound
  <1>18. /\ call' \in {NoCall} \union Transfers
         /\ \A m \in Attempts, t \in Sources : Sending(m, t)' => Sending(m, t)
    BY <1>1, <1>16 DEF Sending
  <1>19. /\ UNCHANGED <<dis, bank, seen, refunded>> /\ payout' \in PayoutRow
         /\ payout'.status = "paid" => payout.status = "paid"
         /\ "slice" \in holds => "slice" \in holds'
         /\ att' \in [Attempts -> AttStatus] /\ \A m \in Attempts \ {n} : att'[m] = att[m]
    BY <1>1 DEF RailIInv, RailTables
  <1>20. op'[n][s].status \notin {"none", "prepared"} /\ (op[n][s].late => op'[n][s].late)
    BY <1>4, <1>8, <1>12
  <1>21. /\ att'[n] \notin {"none", "prepared", "sent", "succeeded"} /\ att'[n] # "accepted"
         /\ \E t \in Sources : Outstanding(op'[n][t])
         /\ \A t \in Sources \ {s} : Stranded(n, t) => att'[n] = "failed"
    BY <1>1, <1>4, <1>15 DEF Stranded
  <1>22. att'[n] = "accepted" => \A t \in Sources : ~Outstanding(op'[n][t])
    BY <1>21
  <1>23. att'[n] = "failed" => \/ \A t \in Sources : op'[n][t].status # "accepted"
                               \/ "slice" \in holds'
                               \/ \E t \in Sources : Outstanding(op'[n][t])
    BY <1>21
  <1> QED BY <1>1, <1>2, <1>3, <1>12, <1>15, <1>17, <1>18, <1>19, <1>20, <1>21, <1>22, <1>23,
             SendKeeps
-----------------------------------------------------------------------------
(* Steps that change only what a run does next.                            *)
LEMMA BankCallIs ==
    ASSUME RailIInv, call.kind = "bank"
    PROVE  /\ call.d \in Disbursements /\ call.again \in BOOLEAN /\ call.answer \in Answers
           /\ dis[call.d] \in DisRow /\ bank[call.d] \in BankRow
           /\ dis[call.d].op \in {"committed", "unknown"}
  <1>1. call \in BankCalls \union BankAnswers
    BY CallIs DEF RailIInv
  <1>2. call.d \in Disbursements /\ call.again \in BOOLEAN /\ call.answer \in Answers
    BY <1>1 DEF BankCalls, BankAnswers, Answers
  <1> QED BY <1>2 DEF RailIInv, RailTables, BankCallSound

LEMMA RunEnds ==
    ASSUME RailIInv, UNCHANGED <<payout, att, op, dis, bank, seen, holds, refunded>>,
           call' = NoCall
    PROVE  RailIInv'
  <1>1. /\ call' \in {NoCall} \union Transfers \union BankCalls \union BankAnswers
                        \union ObserveCalls
        /\ TransferSound' /\ BankCallSound'
    BY DEF NoCall, TransferSound, BankCallSound
  <1>2. \A n \in Attempts, s \in Sources :
            op[n][s].status = "committed" /\ Sending(n, s)' => Sending(n, s)
    BY DEF NoCall, Sending
  <1> QED BY <1>1, <1>2, CallKeeps

LEMMA RecoverTransfersKeeps ==
    ASSUME RailIInv, NEW n \in Attempts, RecoverTransfers(n)
    PROVE  RailIInv'
  <1>1. /\ UNCHANGED <<payout, att, op, dis, bank, seen, holds, refunded>>
        /\ UnknownOf(n) # {}
        /\ call' = [kind |-> "transfer", n |-> n, todo |-> UnknownOf(n), again |-> TRUE,
                    answer |-> "none"]
    BY DEF RecoverTransfers
  <1>2. call' \in Transfers
    BY <1>1 DEF Transfers, UnknownOf, Answers
  <1>3. TransferSound' /\ BankCallSound'
    BY <1>1 DEF TransferSound, BankCallSound, UnknownOf
  <1>4. \A m \in Attempts, s \in Sources :
            op[m][s].status = "committed" /\ Sending(m, s)' => Sending(m, s)
    BY <1>1 DEF Sending, UnknownOf
  <1> QED BY <1>1, <1>2, <1>3, <1>4, CallKeeps

LEMMA SearchTransferKeeps ==
    ASSUME RailIInv, SearchTransfer
    PROVE  RailIInv'
  <1>1. /\ UNCHANGED <<payout, att, op, dis, bank, seen, holds, refunded>>
        /\ call.kind = "transfer"
        /\ Says("accepted") \/ call' = NoCall
    BY DEF SearchTransfer, Asking
  <1>2. CASE call' = NoCall
    BY <1>1, <1>2, RunEnds
  <1>3. CASE Says("accepted")
    <2>1. call \in Transfers
      BY <1>1, TransferIs
    <2>2. /\ call' \in Transfers /\ call'.kind = "transfer" /\ call'.n = call.n
          /\ call'.todo = call.todo /\ call'.answer = "accepted"
      BY <1>3, <2>1 DEF Says, Transfers, Answers
    <2>3. TransferSound' /\ BankCallSound'
      BY <1>1, <2>2 DEF RailIInv, TransferSound, BankCallSound
    <2>4. \A m \in Attempts, s \in Sources :
              op[m][s].status = "committed" /\ Sending(m, s)' => Sending(m, s)
      BY <1>1, <2>2 DEF Sending
    <2> QED BY <1>1, <2>2, <2>3, <2>4, CallKeeps
  <1> QED BY <1>1, <1>2, <1>3

LEMMA RecoverBankPayoutKeeps ==
    ASSUME RailIInv, NEW d \in Disbursements, RecoverBankPayout(d)
    PROVE  RailIInv'
  <1>1. /\ UNCHANGED <<payout, att, op, dis, bank, seen, holds, refunded>>
        /\ dis[d].op = "unknown"
        /\ call' = [kind |-> "bank", d |-> d, again |-> TRUE, answer |-> "none"]
    BY DEF RecoverBankPayout
  <1>2. call' \in BankCalls /\ TransferSound' /\ BankCallSound'
    BY <1>1 DEF BankCalls, TransferSound, BankCallSound
  <1>3. \A m \in Attempts, s \in Sources :
            op[m][s].status = "committed" /\ Sending(m, s)' => Sending(m, s)
    BY <1>1 DEF Sending
  <1> QED BY <1>1, <1>2, <1>3, CallKeeps

LEMMA SearchBankPayoutKeeps ==
    ASSUME RailIInv, SearchBankPayout
    PROVE  RailIInv'
  <1>1. UNCHANGED <<payout, att, op, dis, bank, seen, holds, refunded>> /\ call.kind = "bank"
    BY DEF SearchBankPayout, Asking
  <1>2. PICK d \in Disbursements : d = call.d
    BY <1>1, BankCallIs
  <1>3. CASE bank[d].made = 0
    <2>1. call' = NoCall
      BY <1>2, <1>3 DEF SearchBankPayout
    <2> QED BY <1>1, <2>1, RunEnds
  <1>4. CASE bank[d].made # 0
    <2>1. call' = [kind |-> "bank", d |-> d, again |-> TRUE,
                   answer |-> "accepted", says |-> bank[d].status]
      BY <1>2, <1>4 DEF SearchBankPayout
    <2>2. BankSound(d) /\ bank[d] \in BankRow /\ dis[d].op \in {"committed", "unknown"}
      BY <1>1, <1>2, BankCallIs DEF RailIInv
    <2>3. bank[d].status \in Said /\ bank[d].made > 0 /\ (bank[d].status = "paid" => bank[d].paid)
      BY <1>4, <2>2 DEF BankSound, BankRow
    <2>4. call' \in BankAnswers /\ TransferSound'
      BY <2>1, <2>3 DEF BankAnswers, Answers, TransferSound
    <2>5. BankCallSound'
      BY <1>1, <2>1, <2>2, <2>3 DEF BankCallSound, ReadSound
    <2>6. \A m \in Attempts, s \in Sources :
              op[m][s].status = "committed" /\ Sending(m, s)' => Sending(m, s)
      BY <2>1 DEF Sending
    <2> QED BY <1>1, <2>4, <2>5, <2>6, CallKeeps
  <1> QED BY <1>3, <1>4
-----------------------------------------------------------------------------
(* One row of a disbursement, and one of Stripe's bank payouts.            *)
RowStatus(r, v) == [r EXCEPT !.status = v]
RowAttempt(r, v) == [r EXCEPT !.attempt = v]
RowActive(r, v) == [r EXCEPT !.active = v]
RowOp(r, v) == [r EXCEPT !.op = v]
RowKey(r, v) == [r EXCEPT !.key = v]
RowKnown(r, v) == [r EXCEPT !.known = v]

LEMMA RowStatusIs ==
    ASSUME NEW r \in DisRow, NEW v \in DisStatus, NEW q, q = RowStatus(r, v)
    PROVE  /\ q \in DisRow /\ q.status = v /\ q.attempt = r.attempt /\ q.active = r.active
           /\ q.op = r.op /\ q.key = r.key /\ q.known = r.known
  BY SMT DEF DisRow, RowStatus

LEMMA RowAttemptIs ==
    ASSUME NEW r \in DisRow, NEW v \in Nat, NEW q, q = RowAttempt(r, v)
    PROVE  /\ q \in DisRow /\ q.attempt = v /\ q.status = r.status /\ q.active = r.active
           /\ q.op = r.op /\ q.key = r.key /\ q.known = r.known
  BY SMT DEF DisRow, RowAttempt

LEMMA RowActiveIs ==
    ASSUME NEW r \in DisRow, NEW v \in BOOLEAN, NEW q, q = RowActive(r, v)
    PROVE  /\ q \in DisRow /\ q.active = v /\ q.status = r.status /\ q.attempt = r.attempt
           /\ q.op = r.op /\ q.key = r.key /\ q.known = r.known
  BY SMT DEF DisRow, RowActive

LEMMA RowOpIs ==
    ASSUME NEW r \in DisRow, NEW v \in OpStatus, NEW q, q = RowOp(r, v)
    PROVE  /\ q \in DisRow /\ q.op = v /\ q.status = r.status /\ q.attempt = r.attempt
           /\ q.active = r.active /\ q.key = r.key /\ q.known = r.known
  BY SMT DEF DisRow, RowOp

LEMMA RowKeyIs ==
    ASSUME NEW r \in DisRow, NEW v \in Keys, NEW q, q = RowKey(r, v)
    PROVE  /\ q \in DisRow /\ q.key = v /\ q.status = r.status /\ q.attempt = r.attempt
           /\ q.active = r.active /\ q.op = r.op /\ q.known = r.known
  BY SMT DEF DisRow, RowKey

LEMMA RowKnownIs ==
    ASSUME NEW r \in DisRow, NEW v \in BOOLEAN, NEW q, q = RowKnown(r, v)
    PROVE  /\ q \in DisRow /\ q.known = v /\ q.status = r.status /\ q.attempt = r.attempt
           /\ q.active = r.active /\ q.op = r.op /\ q.key = r.key
  BY SMT DEF DisRow, RowKnown

BankStatus(r, v) == [r EXCEPT !.status = v]
BankMade(r, v) == [r EXCEPT !.made = v]
BankPaid(r, v) == [r EXCEPT !.paid = v]

LEMMA BankStatusIs ==
    ASSUME NEW r \in BankRow, NEW v \in Said, NEW q, q = BankStatus(r, v)
    PROVE  q \in BankRow /\ q.status = v /\ q.made = r.made /\ q.paid = r.paid
  BY SMT DEF BankRow, BankStatus

LEMMA BankMadeIs ==
    ASSUME NEW r \in BankRow, NEW v \in Nat, NEW q, q = BankMade(r, v)
    PROVE  q \in BankRow /\ q.made = v /\ q.status = r.status /\ q.paid = r.paid
  BY SMT DEF BankRow, BankMade

LEMMA BankPaidIs ==
    ASSUME NEW r \in BankRow, NEW v \in BOOLEAN, NEW q, q = BankPaid(r, v)
    PROVE  q \in BankRow /\ q.paid = v /\ q.status = r.status /\ q.made = r.made
  BY SMT DEF BankRow, BankPaid

LEMMA RowChanges ==
    ASSUME RailIInv, NEW d \in Disbursements, NEW row \in DisRow, dis' = [dis EXCEPT ![d] = row]
    PROVE  /\ dis' \in [Disbursements -> DisRow] /\ dis'[d] = row
           /\ \A e \in Disbursements \ {d} : dis'[e] = dis[e]
  <1>1. dis \in [Disbursements -> DisRow]
    BY DEF RailIInv, RailTables
  <1> QED BY <1>1

LEMMA BankRowChanges ==
    ASSUME RailIInv, NEW d \in Disbursements, NEW row \in BankRow,
           bank' = [bank EXCEPT ![d] = row]
    PROVE  /\ bank' \in [Disbursements -> BankRow] /\ bank'[d] = row
           /\ \A e \in Disbursements \ {d} : bank'[e] = bank[e]
  <1>1. bank \in [Disbursements -> BankRow]
    BY DEF RailIInv, RailTables
  <1> QED BY <1>1

(* What the steps of the worker's own run keep.                            *)
LEMMA RunKeeps ==
    ASSUME RailIInv, UNCHANGED <<op, att, seen, holds, refunded>>, NEW d \in Disbursements,
           dis' \in [Disbursements -> DisRow], bank' \in [Disbursements -> BankRow],
           \A e \in Disbursements \ {d} : dis'[e] = dis[e] /\ bank'[e] = bank[e],
           BankSound(d)',
           dis[d].known => dis'[d].known, bank[d].paid => bank'[d].paid,
           bank[d].status = "failed" => bank'[d].status = "failed",
           dis[d].op = "failed" => dis'[d].op = "failed",
           dis'[d].active => dis[d].active \/ \A e \in Disbursements : ~dis[e].active,
           payout' \in PayoutRow,
           payout'.status = "paid" => payout.status = "paid",
           payout.status = "paid" => payout'.status = "paid" \/ (Orderly => Faulty'),
           call' \in {NoCall} \union Transfers \union BankCalls \union BankAnswers
                        \union ObserveCalls,
           call'.kind = "transfer" => call' = call, BankCallSound'
    PROVE  RailIInv'
  <1>1. /\ att' \in [Attempts -> AttStatus]
        /\ seen' \in [Readers -> SUBSET (Disbursements \X Said)]
        /\ \A r \in Readers : seen'[r] \in SUBSET seen[r]
        /\ \A n \in Attempts : att'[n] = att[n] \/ (Banked(n) /\ Banked(n)')
        /\ UNCHANGED <<op, holds, refunded>>
        /\ payout'.status = "paid" => payout.status = "paid" \/ bank'[d].paid
    BY DEF RailIInv, RailTables
  <1>2. Orderly => Faulty' \/ \A n \in Attempts : att'[n] = "succeeded" => payout'.status = "paid"
    BY DEF Orderly
  <1> QED BY <1>1, <1>2, BankKeeps

LEMMA DisbursementIs ==
    ASSUME RailIInv, NEW d \in Disbursements
    PROVE  /\ dis[d] \in DisRow /\ bank[d] \in BankRow /\ BankSound(d)
           /\ dis \in [Disbursements -> DisRow] /\ bank \in [Disbursements -> BankRow]
           /\ payout \in PayoutRow
  BY DEF RailIInv, RailTables

LEMMA PlanBankPayoutKeeps ==
    ASSUME RailIInv, NEW d \in Disbursements, PlanBankPayout(d)
    PROVE  RailIInv'
  <1>1. /\ UNCHANGED <<payout, att, op, bank, call, seen, holds, refunded>> /\ call = NoCall
        /\ \A e \in Disbursements : ~dis[e].active
        /\ dis[d].status = "none"
    BY DEF PlanBankPayout, Working, Busy, Disbursements
  <1>2. PICK n \in Attempts :
            /\ att[n] = "accepted"
            /\ dis' = [dis EXCEPT ![d] = [NoDisbursement EXCEPT
                        !.status = "planned", !.attempt = n, !.active = TRUE, !.op = "prepared"]]
    BY DEF PlanBankPayout
  <1>3. PICK yes \in BOOLEAN : yes = TRUE
    OBVIOUS
  <1>4. PICK first : first = RowStatus(dis[d], "planned")
    OBVIOUS
  <1>5. PICK second : second = RowAttempt(first, n)
    OBVIOUS
  <1>6. PICK third : third = RowActive(second, yes)
    OBVIOUS
  <1>7. PICK row : row = RowOp(third, "prepared")
    OBVIOUS
  <1>8. dis[d] = NoDisbursement /\ dis[d] \in DisRow
    BY <1>1, DisbursementIs DEF BankSound
  <1>9. dis' = [dis EXCEPT ![d] = row]
    BY <1>2, <1>3, <1>4, <1>5, <1>6, <1>7, <1>8 DEF RowStatus, RowAttempt, RowActive, RowOp
  <1>10. /\ row \in DisRow /\ row.status = "planned" /\ row.attempt = n /\ row.active
        /\ row.op = "prepared" /\ ~row.known
    <2>1. first \in DisRow /\ first.status = "planned" /\ first.known = dis[d].known
      BY <1>8, <1>4, RowStatusIs DEF DisStatus
    <2>2. /\ second \in DisRow /\ second.status = "planned" /\ second.attempt = n
          /\ second.known = dis[d].known
      BY <1>5, <2>1, RowAttemptIs DEF Attempts
    <2>3. /\ third \in DisRow /\ third.status = "planned" /\ third.attempt = n
          /\ third.active = yes /\ third.known = dis[d].known
      BY <1>6, <2>2, RowActiveIs
    <2>4. /\ row \in DisRow /\ row.status = "planned" /\ row.attempt = n
          /\ row.active = yes /\ row.known = dis[d].known /\ row.op = "prepared"
      BY <1>7, <2>3, RowOpIs DEF OpStatus
    <2>5. ~dis[d].known
      BY <1>8 DEF NoDisbursement
    <2> QED BY <1>3, <2>4, <2>5
  <1>11. /\ dis' \in [Disbursements -> DisRow] /\ dis'[d] = row
        /\ \A e \in Disbursements \ {d} : dis'[e] = dis[e]
    BY <1>10, <1>9, RowChanges
  <1>12. BankSound(d) /\ bank \in [Disbursements -> BankRow] /\ payout \in PayoutRow
    BY DisbursementIs
  <1>13. bank[d].made = 0 /\ ~bank[d].paid /\ dis[d].op = "none" /\ ~dis[d].known
    BY <1>1, <1>12 DEF BankSound, NoDisbursement
  <1>14. BankSound(d)'
    <2>1. /\ bank'[d].made = 0 /\ ~bank'[d].paid /\ bank'[d].status = "none" /\ bank'[d].made <= 1
          /\ Banked(n)'
      BY <1>1, <1>2, <1>12, <1>13 DEF BankSound, Banked
    <2> QED BY <1>10, <1>11, <2>1 DEF BankSound
  <1>15. call' = NoCall /\ BankCallSound' /\ call'.kind # "transfer"
    BY <1>1 DEF BankCallSound, NoCall
  <1> QED BY <1>1, <1>11, <1>12, <1>13, <1>14, <1>15, RunKeeps

LEMMA CommitBankPayoutKeeps ==
    ASSUME RailIInv, NEW d \in Disbursements, CommitBankPayout(d)
    PROVE  RailIInv'
  <1>1. /\ UNCHANGED <<payout, att, op, bank, seen, holds, refunded>>
        /\ dis[d].active /\ dis[d].status = "planned"
        /\ call' = [kind |-> "bank", d |-> d, again |-> FALSE, answer |-> "none"]
    BY DEF CommitBankPayout
  <1>2. PICK first : first = RowStatus(dis[d], "committed")
    OBVIOUS
  <1>3. PICK second : second = RowOp(first, "committed")
    OBVIOUS
  <1>4. PICK row : row = RowKey(second, "fresh")
    OBVIOUS
  <1>5. dis' = [dis EXCEPT ![d] = row]
    BY <1>2, <1>3, <1>4 DEF CommitBankPayout, RowStatus, RowOp, RowKey
  <1>6. dis[d] \in DisRow /\ BankSound(d) /\ bank \in [Disbursements -> BankRow] /\ payout \in PayoutRow
    BY DisbursementIs
  <1>7. /\ row \in DisRow /\ row.status = "committed" /\ row.op = "committed" /\ row.key = "fresh"
        /\ row.attempt = dis[d].attempt /\ row.active = dis[d].active /\ row.known = dis[d].known
    <2>1. /\ first \in DisRow /\ first.status = "committed" /\ first.attempt = dis[d].attempt
          /\ first.active = dis[d].active /\ first.known = dis[d].known
      BY <1>2, <1>6, RowStatusIs DEF DisStatus
    <2>2. /\ second \in DisRow /\ second.status = "committed" /\ second.op = "committed"
          /\ second.attempt = dis[d].attempt
          /\ second.active = dis[d].active /\ second.known = dis[d].known
      BY <1>3, <2>1, RowOpIs DEF OpStatus
    <2> QED BY <1>4, <2>2, RowKeyIs DEF Keys
  <1>8. /\ dis' \in [Disbursements -> DisRow] /\ dis'[d] = row
        /\ \A e \in Disbursements \ {d} : dis'[e] = dis[e]
    BY <1>5, <1>7, RowChanges
  <1>9. /\ dis[d].op = "prepared" /\ ~dis[d].known /\ bank[d].made = 0
        /\ dis[d].attempt \in Attempts /\ Banked(dis[d].attempt)
    BY <1>1, <1>6 DEF BankSound
  <1>10. BankSound(d)'
    <2>1. PICK n \in Attempts : n = dis[d].attempt
      BY <1>9
    <2>2. bank'[d] = bank[d] /\ Banked(n)'
      BY <1>1, <1>9, <2>1 DEF Banked
    <2> QED BY <2>1, <1>1, <1>6, <1>7, <1>8, <1>9, <2>2 DEF BankSound
  <1>11. call' \in BankCalls /\ BankCallSound' /\ call'.kind # "transfer"
    BY <1>1, <1>7, <1>8 DEF BankCallSound, BankCalls
  <1> QED BY <1>1, <1>6, <1>8, <1>9, <1>10, <1>11, RunKeeps

LEMMA AcceptBankPayoutKeeps ==
    ASSUME RailIInv, AcceptBankPayout
    PROVE  RailIInv'
  <1>1. /\ UNCHANGED <<att, op, bank, seen, holds, refunded>>
        /\ call.kind = "bank" /\ call.answer = "accepted"
    BY DEF AcceptBankPayout, Answered
  <1>2. PICK d \in Disbursements : d = call.d
    BY <1>1, BankCallIs
  <1>3. CASE ~MayBecome("processing")
    <2>1. call' = NoCall /\ UNCHANGED <<payout, att, op, dis, bank, seen, holds, refunded>>
      BY <1>1, <1>3 DEF AcceptBankPayout
    <2> QED BY <2>1, RunEnds
  <1>4. CASE MayBecome("processing")
    <2>1. PICK yes \in BOOLEAN : yes = TRUE
      OBVIOUS
    <2>2. PICK first : first = RowOp(dis[d], "accepted")
      OBVIOUS
    <2>3. PICK second : second = RowKnown(first, yes)
      OBVIOUS
    <2>4. PICK row : row = RowKey(second, "unused")
      OBVIOUS
    <2>5. dis' = [dis EXCEPT ![d] = row]
      BY <1>2, <1>4, <2>1, <2>2, <2>3, <2>4 DEF AcceptBankPayout, RowOp, RowKnown, RowKey
    <2>6. /\ dis[d] \in DisRow /\ BankSound(d) /\ bank \in [Disbursements -> BankRow]
          /\ payout \in PayoutRow /\ dis[d].op \in {"committed", "unknown"}
      BY <1>1, <1>2, DisbursementIs, BankCallIs
    <2>7. /\ row \in DisRow /\ row.op = "accepted" /\ row.known
          /\ row.status = dis[d].status
          /\ row.attempt = dis[d].attempt /\ row.active = dis[d].active
      <3>1. /\ first \in DisRow /\ first.op = "accepted" /\ first.status = dis[d].status
            /\ first.attempt = dis[d].attempt /\ first.active = dis[d].active
        BY <2>2, <2>6, RowOpIs DEF OpStatus
      <3>2. /\ second \in DisRow /\ second.op = "accepted" /\ second.known = yes
            /\ second.status = dis[d].status
            /\ second.attempt = dis[d].attempt /\ second.active = dis[d].active
        BY <2>3, <3>1, RowKnownIs
      <3>3. /\ row \in DisRow /\ row.op = "accepted" /\ row.known = yes
            /\ row.status = dis[d].status
            /\ row.attempt = dis[d].attempt /\ row.active = dis[d].active
        BY <2>4, <3>2, RowKeyIs DEF Keys
      <3> QED BY <2>1, <3>3
    <2>8. /\ dis' \in [Disbursements -> DisRow] /\ dis'[d] = row
          /\ \A e \in Disbursements \ {d} : dis'[e] = dis[e]
      BY <2>5, <2>7, RowChanges
    <2>9. bank[d].made > 0 /\ ReadSound(d, call.says)
      BY <1>1, <1>2 DEF RailIInv, BankCallSound
    <2>10. /\ dis[d].active /\ dis[d].status \in {"committed", "unknown"}
           /\ dis[d].attempt \in Attempts /\ Banked(dis[d].attempt)
      BY <2>6 DEF BankSound
    <2>11. BankSound(d)'
      <3>1. PICK n \in Attempts : n = dis[d].attempt
        BY <2>10
      <3>2. bank'[d] = bank[d] /\ Banked(n)'
        BY <1>1, <2>10, <3>1 DEF Banked
      <3> QED BY <3>1, <2>6, <2>7, <2>8, <2>9, <2>10, <3>2 DEF BankSound
    <2>12. /\ payout' \in PayoutRow /\ payout'.status # "paid" /\ payout.status # "paid"
      BY <1>4, <2>6 DEF AcceptBankPayout, Becomes, MayBecome, Transitions, PayoutRow
    <2>13. call' = [kind |-> "observe", d |-> d, says |-> call.says]
      BY <1>2, <1>4 DEF AcceptBankPayout
    <2>14. call.says \in Said
      <3>1. call \in BankCalls \union BankAnswers
        BY <1>1, CallIs DEF RailIInv
      <3>2. call \notin BankCalls
        BY <1>1 DEF BankCalls
      <3> QED BY <3>1, <3>2 DEF BankAnswers
    <2>15. call' \in ObserveCalls /\ BankCallSound' /\ call'.kind # "transfer"
      <3>1. PICK says \in Said : says = call.says
        BY <2>14
      <3>2. ReadSound(d, says)'
        BY <1>1, <2>9, <3>1 DEF ReadSound
      <3> QED BY <3>1, <2>7, <2>8, <2>13, <2>14, <3>2 DEF BankCallSound, ObserveCalls
    <2> QED BY <1>1, <2>6, <2>7, <2>8, <2>10, <2>11, <2>12, <2>15, RunKeeps
  <1> QED BY <1>3, <1>4

LEMMA BankPayoutUnknownKeeps ==
    ASSUME RailIInv, BankPayoutUnknown
    PROVE  RailIInv'
  <1>1. /\ UNCHANGED <<payout, att, op, bank, seen, holds, refunded>>
        /\ call.kind = "bank" /\ call' = NoCall
    BY DEF BankPayoutUnknown, Answered
  <1>2. PICK d \in Disbursements : d = call.d
    BY <1>1, BankCallIs
  <1>3. PICK first : first = RowOp(dis[d], "unknown")
    OBVIOUS
  <1>4. PICK row : row = RowStatus(first, "unknown")
    OBVIOUS
  <1>5. dis' = [dis EXCEPT ![d] = row]
    BY <1>2, <1>3, <1>4 DEF BankPayoutUnknown, RowOp, RowStatus
  <1>6. /\ dis[d] \in DisRow /\ BankSound(d) /\ bank \in [Disbursements -> BankRow]
        /\ payout \in PayoutRow /\ dis[d].op \in {"committed", "unknown"}
    BY <1>1, <1>2, DisbursementIs, BankCallIs
  <1>7. /\ row \in DisRow /\ row.op = "unknown" /\ row.status = "unknown"
        /\ row.key = dis[d].key /\ row.known = dis[d].known
        /\ row.attempt = dis[d].attempt /\ row.active = dis[d].active
    <2>1. /\ first \in DisRow /\ first.op = "unknown"
          /\ first.key = dis[d].key /\ first.known = dis[d].known
          /\ first.attempt = dis[d].attempt /\ first.active = dis[d].active
      BY <1>3, <1>6, RowOpIs DEF OpStatus
    <2> QED BY <1>4, <2>1, RowStatusIs DEF DisStatus
  <1>8. /\ dis' \in [Disbursements -> DisRow] /\ dis'[d] = row
        /\ \A e \in Disbursements \ {d} : dis'[e] = dis[e]
    BY <1>5, <1>7, RowChanges
  <1>9. /\ dis[d].active /\ dis[d].key # "unused" /\ ~dis[d].known
        /\ dis[d].attempt \in Attempts /\ Banked(dis[d].attempt)
    BY <1>6 DEF BankSound
  <1>10. BankSound(d)'
    <2>1. PICK n \in Attempts : n = dis[d].attempt
      BY <1>9
    <2>2. bank'[d] = bank[d] /\ Banked(n)'
      BY <1>1, <1>9, <2>1 DEF Banked
    <2> QED BY <2>1, <1>6, <1>7, <1>8, <1>9, <2>2 DEF BankSound
  <1>11. BankCallSound' /\ call'.kind # "transfer"
    BY <1>1 DEF BankCallSound, NoCall
  <1> QED BY <1>1, <1>6, <1>8, <1>9, <1>10, <1>11, RunKeeps

(* A refusal that finds the Payout paid finds what made it so come back.   *)
LEMMA RefusalAfterPaid ==
    ASSUME RailIInv, payout.status = "paid", NEW d \in Disbursements, dis[d].active,
           bank[d].made = 0, bank' = bank, dis'[d].op = "failed"
    PROVE  Faulty'
  <1>1. PICK e \in Disbursements : bank[e].paid
    BY DEF RailIInv, PaidOnce
  <1>2. BankSound(d) /\ BankSound(e)
    BY DEF RailIInv
  <1>3. bank[e].made # 0 /\ e # d
    BY <1>1, <1>2 DEF BankSound
  <1>4. ~dis[e].active
    BY <1>3, Zenon DEF RailIInv, OneActive
  <1>5. dis[e].op = "accepted"
    <2>1. dis[e].op \in OpStatus
      BY DisbursementIs DEF DisRow
    <2> QED BY <1>2, <1>3, <1>4, <2>1 DEF BankSound, OpStatus
  <1>6. bank[e].status = "failed"
    BY <1>2, <1>4, <1>5 DEF BankSound
  <1>7. CameBack(e)'
    BY <1>1, <1>6 DEF CameBack
  <1> QED BY <1>7 DEF Faulty

LEMMA RejectBankPayoutKeeps ==
    ASSUME RailIInv, RejectBankPayout
    PROVE  RailIInv'
  <1>1. /\ UNCHANGED <<att, op, bank, seen, holds, refunded>>
        /\ call.kind = "bank" /\ call.answer = "rejected" /\ call' = NoCall
        /\ payout' = [payout EXCEPT !.status = "failed"]
    BY DEF RejectBankPayout, Answered, Becomes
  <1>2. PICK d \in Disbursements : d = call.d
    BY <1>1, BankCallIs
  <1>3. PICK no \in BOOLEAN : no = FALSE
    OBVIOUS
  <1>4. PICK first : first = RowOp(dis[d], "failed")
    OBVIOUS
  <1>5. PICK second : second = RowStatus(first, "failed")
    OBVIOUS
  <1>6. PICK third : third = RowActive(second, no)
    OBVIOUS
  <1>7. PICK row : row = RowKey(third, "unused")
    OBVIOUS
  <1>8. dis' = [dis EXCEPT ![d] = row]
    BY <1>2, <1>3, <1>4, <1>5, <1>6, <1>7 DEF RejectBankPayout, RowOp, RowStatus, RowActive, RowKey
  <1>9. /\ dis[d] \in DisRow /\ BankSound(d) /\ bank \in [Disbursements -> BankRow]
        /\ payout \in PayoutRow /\ dis[d].op \in {"committed", "unknown"}
    BY <1>1, <1>2, DisbursementIs, BankCallIs
  <1>10. /\ row \in DisRow /\ row.op = "failed" /\ row.status = "failed" /\ ~row.active
         /\ row.attempt = dis[d].attempt /\ row.known = dis[d].known
    <2>1. /\ first \in DisRow /\ first.op = "failed"
          /\ first.attempt = dis[d].attempt /\ first.known = dis[d].known
      BY <1>4, <1>9, RowOpIs DEF OpStatus
    <2>2. /\ second \in DisRow /\ second.op = "failed" /\ second.status = "failed"
          /\ second.attempt = dis[d].attempt /\ second.known = dis[d].known
      BY <1>5, <2>1, RowStatusIs DEF DisStatus, Said
    <2>3. /\ third \in DisRow /\ third.op = "failed" /\ third.status = "failed"
          /\ third.active = no
          /\ third.attempt = dis[d].attempt /\ third.known = dis[d].known
      BY <1>6, <2>2, RowActiveIs
    <2>4. /\ row \in DisRow /\ row.op = "failed" /\ row.status = "failed" /\ row.active = no
          /\ row.attempt = dis[d].attempt /\ row.known = dis[d].known
      BY <1>7, <2>3, RowKeyIs DEF Keys
    <2> QED BY <1>3, <2>4
  <1>11. /\ dis' \in [Disbursements -> DisRow] /\ dis'[d] = row
         /\ \A e \in Disbursements \ {d} : dis'[e] = dis[e]
    BY <1>8, <1>10, RowChanges
  <1>12. bank[d].made = 0
    BY <1>1, <1>2 DEF RailIInv, BankCallSound
  <1>13. PICK n \in Attempts : n = dis[d].attempt /\ Banked(n)
    BY <1>9 DEF BankSound
  <1>14. BankSound(d)'
    <2>1. bank'[d] = bank[d] /\ Banked(n)' /\ ~dis[d].known
      BY <1>1, <1>9, <1>13 DEF Banked, BankSound
    <2> QED BY <1>9, <1>10, <1>11, <1>12, <1>13, <2>1 DEF BankSound
  <1>15. BankCallSound' /\ call'.kind # "transfer"
    BY <1>1 DEF BankCallSound, NoCall
  <1>16. payout' \in PayoutRow /\ payout'.status # "paid"
    BY <1>1, <1>9 DEF PayoutRow
  <1>17. payout.status = "paid" => Faulty'
    <2>1. dis[d].active
      BY <1>9 DEF BankSound
    <2> QED BY <1>1, <1>10, <1>11, <1>12, <2>1, RefusalAfterPaid
  <1>18. dis[d].op # "failed" /\ ~dis[d].known /\ ~dis'[d].active
    BY <1>9, <1>10, <1>11 DEF BankSound
  <1> QED BY <1>1, <1>9, <1>11, <1>14, <1>15, <1>16, <1>17, <1>18, RunKeeps

LEMMA BankPayoutKeeps ==
    ASSUME RailIInv, BankPayout
    PROVE  RailIInv'
  <1>1. UNCHANGED <<payout, att, op, dis, seen, holds, refunded>> /\ call.kind = "bank"
    BY DEF BankPayout, Asking
  <1>2. PICK d \in Disbursements : d = call.d
    BY <1>1, BankCallIs
  <1>3. PICK known \in BOOLEAN : known <=> dis[d].key = "fresh" /\ bank[d].made > 0
    OBVIOUS
  <1>4. PICK executes \in BOOLEAN, answer \in {"accepted", "rejected", "lost"} :
            /\ known => ~executes
            /\ answer = "accepted" => executes \/ known
            /\ answer = "rejected" => ~executes /\ ~known
            /\ bank' = IF executes
                       THEN [bank EXCEPT ![d].status = "pending", ![d].made = @ + 1]
                       ELSE bank
            /\ call' = [kind |-> "bank", d |-> d, again |-> call.again,
                        answer |-> answer, says |-> "pending"]
    BY <1>2, <1>3 DEF BankPayout
  <1>5. /\ dis[d] \in DisRow /\ bank[d] \in BankRow /\ BankSound(d)
        /\ dis \in [Disbursements -> DisRow] /\ bank \in [Disbursements -> BankRow]
        /\ payout \in PayoutRow /\ dis[d].op \in {"committed", "unknown"}
        /\ call.again \in BOOLEAN
    BY <1>1, <1>2, DisbursementIs, BankCallIs
  <1>6. dis[d].key = "fresh"
    BY <1>1, <1>2 DEF BankPayout, Replays, RailIInv, BankCallSound
  <1>7. executes => bank[d].made = 0 /\ bank[d].status = "none" /\ ~bank[d].paid
    BY <1>3, <1>4, <1>5, <1>6 DEF BankSound, BankRow
  <1>8. PICK count \in Nat : count = bank[d].made + 1
    BY <1>5 DEF BankRow
  <1>9. PICK first : first = BankStatus(bank[d], "pending")
    OBVIOUS
  <1>10. PICK sent : sent = BankMade(first, count)
    OBVIOUS
  <1>11. executes => bank' = [bank EXCEPT ![d] = sent]
    <2> SUFFICES ASSUME executes PROVE bank' = [bank EXCEPT ![d] = sent]
      OBVIOUS
    <2>1. bank' = [bank EXCEPT ![d].status = "pending", ![d].made = bank[d].made + 1]
      BY <1>4, <1>5
    <2>2. bank' = [bank EXCEPT ![d].status = "pending", ![d].made = count]
      BY <1>8, <2>1
    <2> QED BY <1>5, <1>9, <1>10, <2>2 DEF BankStatus, BankMade
  <1>12. sent \in BankRow /\ sent.status = "pending" /\ sent.made = count /\ sent.paid = bank[d].paid
    <2>1. first \in BankRow /\ first.status = "pending" /\ first.paid = bank[d].paid
      BY <1>5, <1>9, BankStatusIs DEF Said
    <2> QED BY <1>10, <2>1, BankMadeIs
  <1>13. PICK row \in BankRow : row = IF executes THEN sent ELSE bank[d]
    BY <1>5, <1>12
  <1>14. /\ bank' \in [Disbursements -> BankRow] /\ bank'[d] = row
         /\ \A e \in Disbursements \ {d} : bank'[e] = bank[e]
    BY <1>4, <1>5, <1>11, <1>13
  <1>15. /\ row.made <= 1 /\ (row.made = 0 <=> row.status = "none")
         /\ (row.made = 0 => ~row.paid) /\ (row.status = "paid" => row.paid)
         /\ (executes \/ known => row.made > 0)
         /\ (~executes /\ ~known => row.made = 0)
         /\ (bank[d].paid => row.paid)
         /\ (bank[d].status = "failed" => row.status = "failed")
    <2>1. CASE executes
      BY <1>7, <1>8, <1>12, <1>13, <2>1
    <2>2. CASE ~executes
      <3>1. bank[d].made \in Nat
        BY <1>5 DEF BankRow
      <3> QED BY <1>3, <1>5, <1>6, <1>13, <2>2, <3>1 DEF BankSound
    <2> QED BY <2>1, <2>2
  <1>16. PICK n \in Attempts : n = dis[d].attempt /\ Banked(n)
    BY <1>5 DEF BankSound
  <1>17. BankSound(d)'
    <2>1. Banked(n)' /\ dis'[d] = dis[d] /\ ~dis[d].known
      BY <1>1, <1>5, <1>16 DEF Banked, BankSound
    <2> QED BY <1>5, <1>14, <1>15, <1>16, <2>1 DEF BankSound
  <1>18. call' \in BankAnswers /\ call'.kind # "transfer"
    BY <1>4, <1>5 DEF BankAnswers, Answers, Said
  <1>19. BankCallSound'
    BY <1>1, <1>4, <1>5, <1>6, <1>14, <1>15 DEF BankCallSound, ReadSound
  <1>20. \A e \in Disbursements \ {d} : dis'[e] = dis[e] /\ bank'[e] = bank[e]
    BY <1>1, <1>14
  <1> QED BY <1>1, <1>5, <1>14, <1>15, <1>17, <1>18, <1>19, <1>20, RunKeeps

LEMMA RetryBankPayoutKeeps ==
    ASSUME RailIInv, RetryBankPayout
    PROVE  RailIInv'
  <1>1. /\ UNCHANGED <<att, op, dis, bank, call, seen, holds, refunded>>
        /\ payout.status = "failed" /\ payout' = [status |-> "processing", blocked |-> FALSE]
    BY DEF RetryBankPayout
  <1>2. PICK d \in Disbursements : TRUE
    BY RailAssumption DEF Disbursements
  <1>3. /\ dis \in [Disbursements -> DisRow] /\ bank \in [Disbursements -> BankRow]
        /\ BankSound(d)
    BY DisbursementIs
  <1>4. BankSound(d)'
    BY <1>1, <1>3 DEF BankSound, Banked
  <1>5. payout' \in PayoutRow /\ payout'.status # "paid"
    BY <1>1 DEF PayoutRow
  <1>6. call' \in {NoCall} \union Transfers \union BankCalls \union BankAnswers
                        \union ObserveCalls
    BY <1>1, Zenon DEF RailIInv, RailTables
  <1>7. BankCallSound'
    <2>1. BankCallSound
      BY DEF RailIInv
    <2> QED BY <1>1, <2>1 DEF BankCallSound, ReadSound
  <1> QED BY <1>1, <1>3, <1>4, <1>5, <1>6, <1>7, RunKeeps

LEMMA BankMovesKeeps ==
    ASSUME RailIInv, NEW d \in Disbursements, BankMoves(d)
    PROVE  RailIInv'
  <1>1. UNCHANGED <<payout, att, op, dis, call, seen, holds, refunded>>
    BY DEF BankMoves
  <1>2. PICK to \in {"in_transit", "paid", "failed"} :
            /\ bank[d].status \in {"pending", "in_transit", "paid"}
            /\ bank' = [bank EXCEPT ![d].status = to, ![d].paid = @ \/ to = "paid"]
    BY DEF BankMoves
  <1>3. /\ dis[d] \in DisRow /\ bank[d] \in BankRow /\ BankSound(d)
        /\ dis \in [Disbursements -> DisRow] /\ bank \in [Disbursements -> BankRow]
        /\ payout \in PayoutRow
    BY DisbursementIs
  <1>4. PICK paid \in BOOLEAN : paid <=> bank[d].paid \/ to = "paid"
    OBVIOUS
  <1>5. PICK first : first = BankStatus(bank[d], to)
    OBVIOUS
  <1>6. PICK row : row = BankPaid(first, paid)
    OBVIOUS
  <1>7. bank' = [bank EXCEPT ![d] = row]
    <2>1. bank[d].paid \in BOOLEAN
      BY <1>3 DEF BankRow
    <2>2. paid = (bank[d].paid \/ to = "paid")
      BY <1>4, <2>1
    <2>3. bank' = [bank EXCEPT ![d].status = to, ![d].paid = paid]
      BY <1>2, <1>3, <2>2
    <2> QED BY <1>3, <1>5, <1>6, <2>3 DEF BankStatus, BankPaid
  <1>8. row \in BankRow /\ row.status = to /\ row.paid = paid /\ row.made = bank[d].made
    <2>1. first \in BankRow /\ first.status = to /\ first.made = bank[d].made
      BY <1>3, <1>5, BankStatusIs DEF Said
    <2> QED BY <1>6, <2>1, BankPaidIs
  <1>9. /\ bank' \in [Disbursements -> BankRow] /\ bank'[d] = row
        /\ \A e \in Disbursements \ {d} : bank'[e] = bank[e]
    BY <1>7, <1>8, BankRowChanges
  <1>10. /\ bank[d].made # 0 /\ (bank[d].paid => row.paid) /\ bank[d].status # "failed"
         /\ (row.status = "paid" => row.paid) /\ row.status # "none"
    BY <1>2, <1>3, <1>4, <1>8 DEF BankSound
  <1>11. BankSound(d)'
    <2>1. dis'[d] = dis[d] /\ \A n \in Attempts : Banked(n) => Banked(n)'
      BY <1>1 DEF Banked
    <2> QED BY <1>3, <1>8, <1>9, <1>10, <2>1 DEF BankSound
  <1>12. call' \in {NoCall} \union Transfers \union BankCalls \union BankAnswers
                        \union ObserveCalls
    BY <1>1, Zenon DEF RailIInv, RailTables
  <1>13. BankCallSound'
    <2>1. BankCallSound
      BY DEF RailIInv
    <2>2. \A e \in Disbursements :
              /\ bank'[e].made = bank[e].made
              /\ bank[e].paid => bank'[e].paid
              /\ bank[e].status = "failed" => bank'[e].status = "failed"
      BY <1>8, <1>9, <1>10
    <2>3. \A e \in Disbursements, says \in Said : ReadSound(e, says) => ReadSound(e, says)'
      BY <2>2 DEF ReadSound
    <2>4. CASE call.kind = "bank"
      <3>1. call.d \in Disbursements
        BY <2>4, BankCallIs
      <3>2. call.answer = "accepted" => call.says \in Said
        <4>1. call \in BankCalls \union BankAnswers
          BY <2>4, CallIs DEF RailIInv
        <4> QED BY <4>1 DEF BankCalls, BankAnswers
      <3> QED BY <1>1, <2>1, <2>2, <2>3, <2>4, <3>1, <3>2 DEF BankCallSound
    <2>5. CASE call.kind = "observe"
      <3>1. call.d \in Disbursements /\ call.says \in Said
        BY <2>5, CallIs DEF RailIInv, ObserveCalls
      <3> QED BY <1>1, <2>1, <2>3, <2>5, <3>1 DEF BankCallSound
    <2>6. CASE call.kind \notin {"bank", "observe"}
      BY <1>1, <2>6 DEF BankCallSound
    <2> QED BY <2>4, <2>5, <2>6
  <1>14. \A e \in Disbursements \ {d} : dis'[e] = dis[e] /\ bank'[e] = bank[e]
    BY <1>1, <1>9
  <1> QED BY <1>1, <1>3, <1>9, <1>10, <1>11, <1>12, <1>13, <1>14, RunKeeps
-----------------------------------------------------------------------------
(* Readings, and the age of keys.                                          *)
LEMMA ObservedDisbursement ==
    ASSUME RailIInv, NEW d \in Disbursements, NEW says \in Said,
           dis' = [dis EXCEPT
               ![d].status = IF says = "failed" /\ @ = "paid" THEN "returned" ELSE says,
               ![d].active = @ /\ says # "failed"]
    PROVE  /\ dis' \in [Disbursements -> DisRow]
           /\ \A e \in Disbursements \ {d} : dis'[e] = dis[e]
           /\ dis'[d].attempt = dis[d].attempt /\ dis'[d].op = dis[d].op
           /\ dis'[d].key = dis[d].key /\ dis'[d].known = dis[d].known
           /\ dis'[d].status \notin {"none", "planned"}
           /\ dis'[d].active => dis[d].active
           /\ dis[d].active /\ ~dis'[d].active => says = "failed"
  <1>1. dis[d] \in DisRow /\ dis \in [Disbursements -> DisRow]
    BY DisbursementIs
  <1>2. PICK shown \in DisStatus :
            shown = IF says = "failed" /\ dis[d].status = "paid" THEN "returned" ELSE says
    BY DEF DisStatus, Said
  <1>3. PICK active \in BOOLEAN : active <=> dis[d].active /\ says # "failed"
    OBVIOUS
  <1>4. PICK first : first = RowStatus(dis[d], shown)
    OBVIOUS
  <1>5. PICK second : second = RowActive(first, active)
    OBVIOUS
  <1>6. dis' = [dis EXCEPT ![d] = second]
    <2>1. dis[d].active \in BOOLEAN
      BY <1>1 DEF DisRow
    <2>2. active = (dis[d].active /\ says # "failed")
      BY <1>3, <2>1
    <2>3. dis' = [dis EXCEPT ![d].status = shown, ![d].active = active]
      BY <1>1, <1>2, <2>2
    <2> QED BY <1>1, <1>4, <1>5, <2>3 DEF RowStatus, RowActive
  <1>7. /\ second \in DisRow /\ second.status = shown /\ second.active = active
        /\ second.attempt = dis[d].attempt /\ second.op = dis[d].op
        /\ second.key = dis[d].key /\ second.known = dis[d].known
    <2>1. /\ first \in DisRow /\ first.status = shown /\ first.attempt = dis[d].attempt
          /\ first.op = dis[d].op /\ first.key = dis[d].key /\ first.known = dis[d].known
      BY <1>1, <1>4, RowStatusIs
    <2> QED BY <1>5, <2>1, RowActiveIs
  <1>8. /\ dis' \in [Disbursements -> DisRow] /\ dis'[d] = second
        /\ \A e \in Disbursements \ {d} : dis'[e] = dis[e]
    BY <1>6, <1>7, RowChanges
  <1> QED BY <1>2, <1>3, <1>7, <1>8 DEF Said

LEMMA ObserveKeeps ==
    ASSUME RailIInv, NEW d \in Disbursements, NEW says \in Said, dis[d].known,
           ReadSound(d, says), Observe(d, says), UNCHANGED <<op, bank, holds, refunded>>,
           seen' \in [Readers -> SUBSET (Disbursements \X Said)],
           \A r \in Readers : seen'[r] \in SUBSET seen[r],
           call' = call \/ call' = NoCall
    PROVE  RailIInv'
  <1>1. /\ dis[d] \in DisRow /\ bank[d] \in BankRow /\ BankSound(d)
        /\ dis \in [Disbursements -> DisRow] /\ bank \in [Disbursements -> BankRow]
        /\ payout \in PayoutRow
    BY DisbursementIs
  <1>2. dis[d].op = "accepted" /\ bank[d].made > 0 /\ dis[d].status # "none"
    BY <1>1 DEF BankSound, NoDisbursement
  <1>3. PICK n \in Attempts : n = dis[d].attempt /\ Banked(n)
    BY <1>1, <1>2 DEF BankSound
  <1>4. PICK to \in {"none", "paid", "failed", "sent"} : to = PayoutSide(says)
    BY DEF PayoutSide, Said
  <1>5. PICK moves \in BOOLEAN : moves <=> to # "none" /\ payout.status # to
    OBVIOUS
  <1>6. att \in [Attempts -> AttStatus] /\ AttemptSide(n, says) \in AttStatus
    <2>1. att \in [Attempts -> AttStatus]
      BY DEF RailIInv, RailTables
    <2> QED BY <2>1 DEF AttemptSide, AttStatus, Said
  <1>7. PICK applied \in BOOLEAN : applied <=> ~(moves /\ ~MayBecome(to))
    OBVIOUS
  <1>8. /\ ~applied => UNCHANGED <<dis, payout, att>>
        /\ applied =>
            /\ dis' = [dis EXCEPT
                   ![d].status = IF says = "failed" /\ @ = "paid" THEN "returned" ELSE says,
                   ![d].active = @ /\ says # "failed"]
            /\ payout' = IF moves THEN [status |-> to, blocked |-> payout.blocked \/ to = "failed"]
                         ELSE payout
            /\ att' = IF moves THEN [att EXCEPT ![n] = AttemptSide(n, says)] ELSE att
    BY <1>3, <1>4, <1>5, <1>7, Zenon DEF Observe
  <1>9. applied =>
             /\ dis' \in [Disbursements -> DisRow]
             /\ \A e \in Disbursements \ {d} : dis'[e] = dis[e]
             /\ dis'[d].attempt = dis[d].attempt /\ dis'[d].op = dis[d].op
             /\ dis'[d].key = dis[d].key /\ dis'[d].known = dis[d].known
             /\ dis'[d].status \notin {"none", "planned"}
             /\ dis'[d].active => dis[d].active
             /\ dis[d].active /\ ~dis'[d].active => says = "failed"
    BY <1>8, ObservedDisbursement
  <1>10. PICK row \in DisRow : row = dis'[d]
    BY <1>1, <1>8, <1>9
  <1>11. /\ dis' \in [Disbursements -> DisRow] /\ dis'[d] = row
         /\ \A e \in Disbursements \ {d} : dis'[e] = dis[e]
    BY <1>1, <1>8, <1>9, <1>10
  <1>12. /\ row.op = "accepted" /\ row.key = dis[d].key /\ row.known /\ row.attempt = n
         /\ row.status \notin {"none", "planned"}
         /\ row.active => dis[d].active
         /\ dis[d].active /\ ~row.active => says = "failed"
    <2>1. dis[d].status # "planned"
      BY <1>1, <1>2 DEF BankSound
    <2> QED BY <1>2, <1>3, <1>8, <1>9, <1>10, <2>1
  <1>13. /\ payout' \in PayoutRow
         /\ payout' # payout => applied /\ moves /\ payout'.status = to
    BY <1>1, <1>5, <1>8 DEF PayoutRow
  <1>14. payout'.status = "paid" => payout.status = "paid" \/ bank'[d].paid
    <2>1. to = "paid" => says = "paid"
      BY <1>4 DEF PayoutSide
    <2> QED BY <1>13, <2>1 DEF ReadSound
  <1>15. /\ att' \in [Attempts -> AttStatus] /\ \A m \in Attempts \ {n} : att'[m] = att[m]
         /\ att'[n] = IF applied /\ moves THEN AttemptSide(n, says) ELSE att[n]
    BY <1>6, <1>8
  <1>16. Banked(n)'
    BY <1>3, <1>15 DEF Banked, AttemptSide
  <1>17. \A m \in Attempts : att'[m] = att[m] \/ (Banked(m) /\ Banked(m)')
    BY <1>3, <1>15, <1>16
  <1>18. BankSound(d)'
    <2>1. ~row.active => bank[d].status = "failed"
      BY <1>1, <1>2, <1>12 DEF BankSound, ReadSound
    <2> QED BY <1>1, <1>2, <1>3, <1>11, <1>12, <1>16, <2>1 DEF BankSound
  <1>19. Orderly => Faulty' \/ \A m \in Attempts : att'[m] = "succeeded" => payout'.status = "paid"
    <2> SUFFICES ASSUME Orderly, NEW m \in Attempts, att'[m] = "succeeded"
                 PROVE  payout'.status = "paid"
      OBVIOUS
    <2>1. CASE ~(applied /\ moves)
      <3>1. payout' = payout /\ att'[m] = att[m]
        BY <1>13, <1>15, <2>1
      <3> QED BY <3>1 DEF Orderly
    <2>2. CASE applied /\ moves
      <3>1. m = n
        <4>1. CASE m < n
          BY <1>3, <1>15, <2>2, <4>1 DEF Orderly, Undone, Banked
        <4>2. CASE n < m
          BY <1>3, <1>15, <2>2, <4>2 DEF Orderly, Undone, Banked
        <4> QED BY <4>1, <4>2 DEF Attempts
      <3>2. payout'.status = to
        BY <1>1, <1>8, <2>2
      <3>3. CASE says = "paid"
        BY <1>4, <3>2, <3>3 DEF PayoutSide
      <3>4. CASE says # "paid"
        <4>1. att[n] = "succeeded" /\ to = "sent"
          BY <1>3, <1>4, <1>5, <1>15, <2>2, <3>1, <3>4 DEF AttemptSide, PayoutSide, Said
        <4>2. payout.status = "paid"
          BY <4>1 DEF Orderly
        <4>3. ~MayBecome("sent")
          BY <4>2 DEF MayBecome, Transitions
        <4> QED BY <1>7, <2>2, <4>1, <4>3
      <3> QED BY <3>3, <3>4
    <2> QED BY <2>1, <2>2
  (* The run.                                                              *)
  <1>20. /\ call' \in {NoCall} \union Transfers \union BankCalls \union BankAnswers
                        \union ObserveCalls
         /\ call'.kind = "transfer" => call' = call
    BY DEF RailIInv, RailTables, NoCall
  <1>21. BankCallSound'
    <2>1. CASE call' = NoCall
      BY <2>1 DEF NoCall, BankCallSound
    <2>2. CASE call' = call
      <3>1. BankCallSound
        BY DEF RailIInv
      <3>2. \A e \in Disbursements :
                dis'[e].op = dis[e].op /\ dis'[e].key = dis[e].key /\ (dis[e].known => dis'[e].known)
        BY <1>2, <1>11, <1>12
      <3>3. CASE call.kind = "bank"
        <4>1. call.d \in Disbursements
          BY <3>3, BankCallIs
        <4> QED BY <2>2, <3>1, <3>2, <3>3, <4>1 DEF BankCallSound, ReadSound
      <3>4. CASE call.kind = "observe"
        <4>1. call.d \in Disbursements
          BY <3>4, CallIs DEF RailIInv, ObserveCalls
        <4> QED BY <2>2, <3>1, <3>2, <3>4, <4>1 DEF BankCallSound, ReadSound
      <3>5. CASE call.kind \notin {"bank", "observe"}
        BY <2>2, <3>5 DEF BankCallSound
      <3> QED BY <3>3, <3>4, <3>5
    <2> QED BY <2>1, <2>2
  <1>22. /\ \A e \in Disbursements \ {d} : dis'[e] = dis[e] /\ bank'[e] = bank[e]
         /\ dis[d].known => dis'[d].known
         /\ dis[d].op = "failed" => dis'[d].op = "failed"
         /\ dis'[d].active => dis[d].active \/ \A e \in Disbursements : ~dis[e].active
         /\ bank[d].paid => bank'[d].paid
         /\ bank[d].status = "failed" => bank'[d].status = "failed"
         /\ bank' \in [Disbursements -> BankRow]
    BY <1>1, <1>2, <1>11, <1>12
  <1> QED BY <1>11, <1>13, <1>14, <1>15, <1>17, <1>18, <1>19, <1>20, <1>21, <1>22, BankKeeps

LEMMA ObserveAnswerKeeps ==
    ASSUME RailIInv, ObserveAnswer
    PROVE  RailIInv'
  <1>1. /\ call.kind = "observe" /\ Observe(call.d, call.says) /\ call' = NoCall
        /\ UNCHANGED <<op, bank, seen, holds, refunded>>
    BY DEF ObserveAnswer
  <1>2. call.d \in Disbursements /\ call.says \in Said
    BY <1>1, CallIs DEF RailIInv, ObserveCalls
  <1>3. dis[call.d].known /\ ReadSound(call.d, call.says)
    BY <1>1 DEF RailIInv, BankCallSound
  <1>4. PICK d \in Disbursements, says \in Said : d = call.d /\ says = call.says
    BY <1>2
  <1>5. /\ seen' \in [Readers -> SUBSET (Disbursements \X Said)]
        /\ \A r \in Readers : seen'[r] \in SUBSET seen[r]
    BY <1>1 DEF RailIInv, RailTables
  <1> QED BY <1>1, <1>3, <1>4, <1>5, ObserveKeeps

LEMMA ApplyReadKeeps ==
    ASSUME RailIInv, NEW r \in Readers, ApplyRead(r)
    PROVE  RailIInv'
  <1>1. seen \in [Readers -> SUBSET (Disbursements \X Said)]
    BY DEF RailIInv, RailTables
  <1>2. PICK read \in seen[r] : Observe(read[1], read[2])
    BY DEF ApplyRead
  <1>3. /\ seen' = [seen EXCEPT ![r] = {}]
        /\ UNCHANGED <<op, bank, call, holds, refunded>>
    BY DEF ApplyRead
  <1>4. PICK d \in Disbursements, says \in Said : d = read[1] /\ says = read[2]
    BY <1>1, <1>2
  <1>5. dis[d].known /\ ReadSound(d, says) /\ Observe(d, says)
    BY <1>2, <1>4 DEF RailIInv, ReadsSound
  <1>6. /\ seen' \in [Readers -> SUBSET (Disbursements \X Said)]
        /\ \A q \in Readers : seen'[q] \in SUBSET seen[q]
    BY <1>1, <1>3
  <1> QED BY <1>3, <1>4, <1>5, <1>6, ObserveKeeps

(* Steps beside the worker's run.                                          *)
LEMMA BesideKeeps ==
    ASSUME RailIInv, UNCHANGED <<payout, att, op, dis, bank, call>>,
           "slice" \in holds => "slice" \in holds',
           seen' \in [Readers -> SUBSET (Disbursements \X Said)], ReadsSound',
           refunded' \in [Sources -> Nat], MoneySound'
    PROVE  RailIInv'
  <1>1. RailTables'
    BY Zenon DEF RailIInv, RailTables
  <1>2. \A n \in Attempts : AttemptSound(n)'
    BY DEF RailIInv, AttemptSound, Banked
  <1>3. TransferSound'
    BY DEF RailIInv, TransferSound, Slice
  <1>4. BankCallSound'
    BY DEF RailIInv, BankCallSound, ReadSound
  <1>5. \A d \in Disbursements : BankSound(d)'
    BY DEF RailIInv, BankSound, Banked
  <1>6. (\A n \in Attempts, s \in Sources : SliceSound(op'[n][s])) /\ OneActive' /\ PaidOnce'
    BY DEF RailIInv, OneActive, PaidOnce
  <1>7. Faulty' \/ Orderly'
    <2>1. Faulty => Faulty'
      <3>1. \A n \in Attempts, s \in Sources : Stranded(n, s) => Stranded(n, s)'
        BY DEF Stranded, Sending
      <3>2. \A d \in Disbursements : CameBack(d) => CameBack(d)'
        BY DEF CameBack
      <3>3. /\ \A m \in Attempts, t \in Sources : op[m][t].late => op'[m][t].late
            /\ \A d \in Disbursements : dis[d].op = "failed" => dis'[d].op = "failed"
        OBVIOUS
      <3> QED BY <3>1, <3>2, <3>3, FaultsStay, Zenon
    <2>2. Orderly => Orderly'
      BY DEF Orderly, Undone
    <2> QED BY <2>1, <2>2 DEF RailIInv
  <1> QED BY <1>1, <1>2, <1>3, <1>4, <1>5, <1>6, <1>7, Zenon DEF RailIInv

LEMMA SameMoney ==
    ASSUME RailIInv, UNCHANGED <<op, refunded>>
    PROVE  MoneySound' /\ refunded' \in [Sources -> Nat]
  BY MoneyKept DEF RailIInv, RailTables

LEMMA RetrieveKeeps ==
    ASSUME RailIInv, NEW r \in Readers, NEW d \in Disbursements, Retrieve(r, d)
    PROVE  RailIInv'
  <1>1. /\ UNCHANGED <<payout, att, op, dis, bank, call, holds, refunded>>
        /\ dis[d].known /\ seen' = [seen EXCEPT ![r] = {<<d, bank[d].status>>}]
    BY DEF Retrieve
  <1>2. bank[d] \in BankRow /\ BankSound(d)
    BY DisbursementIs
  <1>3. PICK says \in Said : says = bank[d].status
    BY <1>1, <1>2 DEF BankSound, BankRow
  <1>4. ReadSound(d, says)'
    BY <1>1, <1>2, <1>3 DEF ReadSound, BankSound
  <1>5. /\ seen \in [Readers -> SUBSET (Disbursements \X Said)]
        /\ seen' = [seen EXCEPT ![r] = {<<d, says>>}]
    BY <1>1, <1>3 DEF RailIInv, RailTables
  <1>6. seen' \in [Readers -> SUBSET (Disbursements \X Said)]
    BY <1>5
  <1>7. ReadsSound'
    <2> SUFFICES ASSUME NEW q \in Readers, NEW read \in seen'[q]
                 PROVE  dis'[read[1]].known /\ ReadSound(read[1], read[2])'
      BY DEF ReadsSound
    <2>1. CASE read \in seen[q]
      BY <1>1, <2>1 DEF RailIInv, ReadsSound, ReadSound
    <2>2. CASE read \notin seen[q]
      <3>1. read = <<d, says>>
        BY <1>5, <2>2
      <3> QED BY <1>1, <1>4, <3>1
    <2> QED BY <2>1, <2>2
  <1>8. MoneySound' /\ refunded' \in [Sources -> Nat]
    BY <1>1, SameMoney
  <1> QED BY <1>1, <1>6, <1>7, <1>8, BesideKeeps

LEMMA HoldsKeep ==
    ASSUME RailIInv, OpenHold \/ ClearHold \/ \E d \in Disbursements : UnexpectedPayoutEvent(d)
    PROVE  RailIInv'
  <1>1. /\ UNCHANGED <<payout, att, op, dis, bank, call, seen, refunded>>
        /\ "slice" \in holds => "slice" \in holds'
    BY DEF OpenHold, ClearHold, UnexpectedPayoutEvent
  <1>2. seen' \in [Readers -> SUBSET (Disbursements \X Said)] /\ ReadsSound'
    BY <1>1 DEF RailIInv, RailTables, ReadsSound, ReadSound
  <1>3. MoneySound' /\ refunded' \in [Sources -> Nat]
    BY <1>1, SameMoney
  <1> QED BY <1>1, <1>2, <1>3, BesideKeeps

LEMMA RefundKeeps ==
    ASSUME RailIInv, NEW s \in Sources, Refund(s)
    PROVE  RailIInv'
  <1>1. /\ UNCHANGED <<payout, att, op, dis, bank, call, seen, holds>>
        /\ Available(s) >= 1 /\ refunded' = [refunded EXCEPT ![s] = @ + 1]
    BY DEF Refund
  <1>2. refunded \in [Sources -> Nat]
    BY DEF RailIInv, RailTables
  <1>3. refunded' \in [Sources -> Nat]
    BY <1>1, <1>2
  <1>4. seen' \in [Readers -> SUBSET (Disbursements \X Said)] /\ ReadsSound'
    BY <1>1 DEF RailIInv, RailTables, ReadsSound, ReadSound
  <1>5. MoneySound'
    <2>1. ASSUME NEW t \in Sources PROVE Available(t)' >= 0
      <3>1. Reserved(t)' = Reserved(t)
        BY <1>1 DEF Reserved, Binding
      <3>2. Reserved(t) \in Nat
        BY ReservedIsNat DEF RailIInv, RailTables
      <3>3. Captured[t] \in Nat
        BY RailAssumption DEF Sources
      <3>4. Captured[t] - refunded[t] - Reserved(t) >= 0
        BY DEF RailIInv, MoneySound, Available
      <3>5. t = s => Captured[s] - refunded[s] - Reserved(s) >= 1
        BY <1>1 DEF Available
      <3> QED BY <1>1, <1>2, <3>1, <3>2, <3>3, <3>4, <3>5 DEF Available
    <2>2. \A n \in Attempts : Instructed(n)' = Instructed(n)
      BY <1>1 DEF Instructed
    <2> QED BY <2>1, <2>2 DEF RailIInv, MoneySound
  <1> QED BY <1>1, <1>3, <1>4, <1>5, BesideKeeps

LEMMA KeyExpiresKeeps ==
    ASSUME RailIInv, KeyExpires
    PROVE  RailIInv'
  <1>1. call = NoCall /\ UNCHANGED <<payout, att, bank, call, seen, holds, refunded>>
    BY DEF KeyExpires
  <1>2. ASSUME NEW n \in Attempts, NEW s \in Sources, op[n][s].key = "fresh",
               Outstanding(op[n][s]), op' = [op EXCEPT ![n][s].key = "stale"], UNCHANGED dis
        PROVE  RailIInv'
    <2>1. op \in Slices
      BY DEF RailIInv, RailTables, Slices
    <2>2. PICK after : after = op'
      OBVIOUS
    <2>3. after = WithKey(op, n, s, "stale")
      BY <1>2, <2>2 DEF WithKey
    <2>4. /\ AtSlice(after, op, n, s) /\ after[n][s].key = "stale"
          /\ after[n][s].cents = op[n][s].cents
          /\ after[n][s].status = op[n][s].status /\ after[n][s].done = op[n][s].done
          /\ after[n][s].late = op[n][s].late
      BY <2>1, <2>3, KeyChanges DEF Keys
    <2>5. /\ op' \in Slices
          /\ \A m \in Attempts, t \in Sources :
                /\ op'[m][t].cents = op[m][t].cents /\ op'[m][t].status = op[m][t].status
                /\ op'[m][t].done = op[m][t].done /\ op'[m][t].late = op[m][t].late
                /\ op'[m][t].key = op[m][t].key
                     \/ (op'[m][t].key = "stale" /\ op[m][t].key = "fresh")
      <3>1. op' \in Slices /\ \A m \in Attempts, t \in Sources : m # n \/ t # s => op'[m][t] = op[m][t]
        BY <2>2, <2>4 DEF AtSlice
      <3>2. /\ op'[n][s].key = "stale" /\ op'[n][s].cents = op[n][s].cents
            /\ op'[n][s].status = op[n][s].status /\ op'[n][s].done = op[n][s].done
            /\ op'[n][s].late = op[n][s].late
        BY <2>2, <2>4
      <3> QED BY <1>2, <3>1, <3>2, Zenon
    <2>6. RailTables'
      BY <1>1, <1>2, <2>5 DEF RailIInv, RailTables, Slices
    <2>7. \A m \in Attempts, t \in Sources : SliceSound(op'[m][t])
      BY <2>5 DEF RailIInv, SliceSound
    <2>8. \A m \in Attempts : AttemptSound(m)'
      BY <1>1, <2>5 DEF RailIInv, AttemptSound, Banked, Outstanding
    <2>9. TransferSound' /\ BankCallSound'
      BY <1>1 DEF NoCall, TransferSound, BankCallSound
    <2>10. (\A d \in Disbursements : BankSound(d)') /\ OneActive' /\ PaidOnce' /\ ReadsSound'
      BY <1>1, <1>2 DEF RailIInv, BankSound, Banked, OneActive, PaidOnce, ReadsSound, ReadSound
    <2>11. MoneySound'
      BY <1>1, <2>5, MoneyKept DEF RailIInv, Slices, Binding
    <2>12. Faulty' \/ Orderly'
      <3>1. Faulty => Faulty'
        BY <1>1, <1>2, <2>5 DEF Faulty, Stranded, Sending, CameBack
      <3>2. Orderly => Orderly'
        BY <1>1, <2>5 DEF Orderly, Undone
      <3> QED BY <3>1, <3>2 DEF RailIInv
    <2> QED BY <2>6, <2>7, <2>8, <2>9, <2>10, <2>11, <2>12, Zenon DEF RailIInv
  <1>3. ASSUME NEW d \in Disbursements, dis[d].key = "fresh", dis[d].op \in {"committed", "unknown"},
               dis' = [dis EXCEPT ![d].key = "stale"], UNCHANGED op
        PROVE  RailIInv'
    <2>1. PICK row : row = RowKey(dis[d], "stale")
      OBVIOUS
    <2>2. dis' = [dis EXCEPT ![d] = row]
      BY <1>3, <2>1 DEF RowKey
    <2>3. dis[d] \in DisRow /\ BankSound(d) /\ bank \in [Disbursements -> BankRow] /\ payout \in PayoutRow
      BY DisbursementIs
    <2>4. /\ row \in DisRow /\ row.key = "stale" /\ row.status = dis[d].status
          /\ row.attempt = dis[d].attempt /\ row.active = dis[d].active /\ row.op = dis[d].op
          /\ row.known = dis[d].known
      BY <2>1, <2>3, RowKeyIs DEF Keys
    <2>5. /\ dis' \in [Disbursements -> DisRow] /\ dis'[d] = row
          /\ \A e \in Disbursements \ {d} : dis'[e] = dis[e]
      BY <2>2, <2>4, RowChanges
    <2>6. PICK n \in Attempts : n = dis[d].attempt /\ Banked(n)
      BY <1>3, <2>3 DEF BankSound
    <2>7. BankSound(d)'
      <3>1. Banked(n)' /\ bank'[d] = bank[d]
        BY <1>1, <2>6 DEF Banked
      <3> QED BY <1>3, <2>3, <2>4, <2>5, <2>6, <3>1 DEF BankSound
    <2>8. BankCallSound' /\ call'.kind # "transfer"
      BY <1>1 DEF BankCallSound, NoCall
    <2> QED BY <1>1, <1>3, <2>3, <2>4, <2>5, <2>7, <2>8, RunKeeps
  <1> QED BY <1>2, <1>3 DEF KeyExpires
-----------------------------------------------------------------------------
(* The transactions that start an attempt and release it to Stripe.        *)
SliceStatus(r, v) == [r EXCEPT !.status = v]
SliceKey(r, v) == [r EXCEPT !.key = v]

LEMMA SliceStatusIs ==
    ASSUME NEW r \in OpRow, NEW v \in OpStatus, NEW q, q = SliceStatus(r, v)
    PROVE  /\ q \in OpRow /\ q.status = v /\ q.key = r.key /\ q.cents = r.cents
           /\ q.done = r.done /\ q.late = r.late
  BY SMT DEF OpRow, SliceStatus

LEMMA SliceKeyIs ==
    ASSUME NEW r \in OpRow, NEW v \in Keys, NEW q, q = SliceKey(r, v)
    PROVE  /\ q \in OpRow /\ q.key = v /\ q.status = r.status /\ q.cents = r.cents
           /\ q.done = r.done /\ q.late = r.late
  BY SMT DEF OpRow, SliceKey

SentRow(r) == [r EXCEPT !.status = IF @ = "prepared" THEN "committed" ELSE @,
                        !.key = IF @ = "unused" THEN "fresh" ELSE @]

LEMMA SentRowIs ==
    ASSUME NEW r \in OpRow
    PROVE  /\ SentRow(r) \in OpRow
           /\ SentRow(r).status = IF r.status = "prepared" THEN "committed" ELSE r.status
           /\ SentRow(r).key = IF r.key = "unused" THEN "fresh" ELSE r.key
           /\ SentRow(r).cents = r.cents /\ SentRow(r).done = r.done
           /\ SentRow(r).late = r.late
  <1>1. PICK status \in OpStatus : status = IF r.status = "prepared" THEN "committed" ELSE r.status
    BY DEF OpRow, OpStatus
  <1>2. PICK key \in Keys : key = IF r.key = "unused" THEN "fresh" ELSE r.key
    BY DEF OpRow, Keys
  <1>3. PICK once : once = SliceStatus(r, status)
    OBVIOUS
  <1>4. PICK twice : twice = SliceKey(once, key)
    OBVIOUS
  <1>5. /\ once \in OpRow /\ once.status = status /\ once.key = r.key /\ once.cents = r.cents
        /\ once.done = r.done /\ once.late = r.late
    BY <1>3, SliceStatusIs
  <1>6. /\ twice \in OpRow /\ twice.status = status /\ twice.key = key /\ twice.cents = r.cents
        /\ twice.done = r.done /\ twice.late = r.late
    BY <1>4, <1>5, SliceKeyIs
  <1>7. SentRow(r) = twice
    BY <1>1, <1>2, <1>3, <1>4 DEF SentRow, SliceStatus, SliceKey
  <1> QED BY <1>1, <1>2, <1>6, <1>7

LEMMA CommittedSlices ==
    ASSUME op \in Slices, NEW n \in Attempts, NEW todo \in SUBSET Sources,
           op' = [op EXCEPT ![n] = [s \in Sources |->
                    IF s \in todo
                    THEN [op[n][s] EXCEPT !.status = IF @ = "prepared" THEN "committed" ELSE @,
                                          !.key = IF @ = "unused" THEN "fresh" ELSE @]
                    ELSE op[n][s]]]
    PROVE  /\ op' \in Slices
           /\ \A m \in Attempts \ {n} : op'[m] = op[m]
           /\ \A s \in Sources \ todo : op'[n][s] = op[n][s]
           /\ \A s \in todo :
                 /\ op'[n][s].status = IF op[n][s].status = "prepared" THEN "committed"
                                       ELSE op[n][s].status
                 /\ op'[n][s].key = IF op[n][s].key = "unused" THEN "fresh" ELSE op[n][s].key
                 /\ op'[n][s].cents = op[n][s].cents /\ op'[n][s].done = op[n][s].done
                 /\ op'[n][s].late = op[n][s].late
  <1>1. \A s \in Sources : op[n][s] \in OpRow
    BY DEF Slices
  <1>2. PICK rows : rows = [s \in Sources |-> IF s \in todo THEN SentRow(op[n][s]) ELSE op[n][s]]
    OBVIOUS
  <1>3. op' = [op EXCEPT ![n] = rows]
    BY <1>2, Zenon DEF SentRow
  <1>4. rows \in [Sources -> OpRow]
    BY <1>1, <1>2, SentRowIs
  <1>5. /\ op' \in Slices /\ op'[n] = rows
        /\ \A m \in Attempts \ {n} : op'[m] = op[m]
    BY <1>3, <1>4 DEF Slices
  <1>6. \A s \in todo : op'[n][s] = SentRow(op[n][s])
    BY <1>2, <1>5
  <1>7. \A s \in Sources \ todo : op'[n][s] = op[n][s]
    BY <1>2, <1>5
  <1>8. ASSUME NEW s \in todo
        PROVE  /\ op'[n][s].status = IF op[n][s].status = "prepared" THEN "committed"
                                     ELSE op[n][s].status
               /\ op'[n][s].key = IF op[n][s].key = "unused" THEN "fresh" ELSE op[n][s].key
               /\ op'[n][s].cents = op[n][s].cents /\ op'[n][s].done = op[n][s].done
               /\ op'[n][s].late = op[n][s].late
    <2>1. PICK r \in OpRow : r = op[n][s]
      BY <1>1
    <2>2. op'[n][s] = SentRow(r)
      BY <1>6, <2>1
    <2>3. PICK sent : sent = SentRow(r)
      OBVIOUS
    <2>4. /\ sent.status = IF r.status = "prepared" THEN "committed" ELSE r.status
          /\ sent.key = IF r.key = "unused" THEN "fresh" ELSE r.key
          /\ sent.cents = r.cents /\ sent.done = r.done /\ sent.late = r.late
      BY <2>3, SentRowIs
    <2> QED BY <2>1, <2>2, <2>3, <2>4
  <1> QED BY <1>5, <1>7, <1>8, Zenon

LEMMA CommitKeeps ==
    ASSUME RailIInv, NEW n \in Attempts, Commit(n)
    PROVE  RailIInv'
  <1>1. PICK todo \in SUBSET Sources : todo = {s \in Sources : Outstanding(op[n][s])}
    OBVIOUS
  <1>2. /\ UNCHANGED <<dis, bank, seen, holds, refunded>>
        /\ Working /\ att[n] \in {"prepared", "dispatch_committed", "unknown"}
        /\ att' = [att EXCEPT ![n] = IF @ = "prepared" THEN "dispatch_committed" ELSE @]
        /\ payout' = IF payout.status \in {"scheduled", "failed"}
                     THEN [payout EXCEPT !.status = "processing"] ELSE payout
        /\ call' = IF todo = {} THEN NoCall
                   ELSE [kind |-> "transfer", n |-> n, todo |-> todo, again |-> FALSE,
                         answer |-> "none"]
    BY <1>1 DEF Commit
  <1>3. op \in Slices /\ att \in [Attempts -> AttStatus] /\ payout \in PayoutRow
    BY DEF RailIInv, RailTables, Slices
  <1>4. /\ op' \in Slices
        /\ \A m \in Attempts \ {n} : op'[m] = op[m]
        /\ \A s \in Sources \ todo : op'[n][s] = op[n][s]
        /\ \A s \in todo :
              /\ op'[n][s].status = IF op[n][s].status = "prepared" THEN "committed"
                                    ELSE op[n][s].status
              /\ op'[n][s].key = IF op[n][s].key = "unused" THEN "fresh" ELSE op[n][s].key
              /\ op'[n][s].cents = op[n][s].cents /\ op'[n][s].done = op[n][s].done
              /\ op'[n][s].late = op[n][s].late
    <2>1. op' = [op EXCEPT ![n] = [s \in Sources |->
                    IF s \in todo
                    THEN [op[n][s] EXCEPT !.status = IF @ = "prepared" THEN "committed" ELSE @,
                                          !.key = IF @ = "unused" THEN "fresh" ELSE @]
                    ELSE op[n][s]]]
      BY <1>1 DEF Commit
    <2> QED BY <1>3, <2>1, CommittedSlices
  <1>5. /\ att' \in [Attempts -> AttStatus] /\ att'[n] \in {"dispatch_committed", "unknown"}
        /\ \A m \in Attempts \ {n} : att'[m] = att[m]
    BY <1>2, <1>3 DEF AttStatus
  <1>6. /\ payout' \in PayoutRow /\ payout'.status # "paid" /\ payout.status # "paid"
        /\ call = NoCall
    BY <1>2, <1>3 DEF Working, Dispatchable, PayoutRow
  <1>7. \A s \in todo : /\ op[n][s].status \in {"prepared", "committed", "unknown"}
                        /\ op'[n][s].status \in {"committed", "unknown"}
                        /\ SliceSound(op[n][s])
                        /\ Outstanding(op[n][s])
    <2>1. \A s \in Sources : op[n][s].status \in OpStatus
      BY <1>3 DEF Slices, OpRow
    <2> QED BY <1>1, <1>4, <2>1 DEF OpStatus, Outstanding, RailIInv
  <1>8. call' \in {NoCall} \union Transfers /\ call'.kind \notin {"bank", "observe"}
    BY <1>2 DEF Transfers, Answers, NoCall
  <1>9. RailTables'
    BY <1>2, <1>4, <1>5, <1>6, <1>8 DEF RailIInv, RailTables, Slices
  <1>10. ASSUME NEW m \in Attempts, NEW s \in Sources PROVE SliceSound(op'[m][s])
    <2>1. SliceSound(op[m][s])
      BY DEF RailIInv
    <2>2. CASE m = n /\ s \in todo
      BY <1>4, <1>7, <2>1, <2>2 DEF SliceSound
    <2>3. CASE m # n \/ s \notin todo
      BY <1>4, <2>1, <2>3
    <2> QED BY <2>2, <2>3
  <1>11. ASSUME NEW m \in Attempts PROVE AttemptSound(m)'
    <2>1. AttemptSound(m)
      BY DEF RailIInv
    <2>2. CASE m = n
      <3>1. \A s \in Sources : op'[n][s].status # "prepared"
        BY <1>1, <1>4, <1>7 DEF Outstanding
      <3> QED BY <1>5, <2>2, <3>1 DEF AttemptSound, Banked
    <2>3. CASE m # n
      BY <1>2, <1>4, <1>5, <2>1, <2>3 DEF AttemptSound, Banked
    <2> QED BY <2>2, <2>3
  <1>12. TransferSound' /\ BankCallSound'
    BY <1>2, <1>7, <1>8 DEF TransferSound, BankCallSound, NoCall
  <1>13. (\A d \in Disbursements : BankSound(d)') /\ OneActive' /\ PaidOnce' /\ ReadsSound'
    <2>1. \A m \in Attempts : Banked(m) => Banked(m)'
      BY <1>2, <1>5 DEF Banked
    <2>2. ASSUME NEW d \in Disbursements PROVE BankSound(d)'
      BY <1>2, <2>1 DEF RailIInv, BankSound
    <2> QED BY <1>2, <1>6, <2>2 DEF RailIInv, OneActive, PaidOnce, ReadsSound, ReadSound
  <1>14. MoneySound'
    <2>1. \A m \in Attempts, s \in Sources :
              op'[m][s].cents = op[m][s].cents /\ (Binding(op'[m][s]) => Binding(op[m][s]))
      BY <1>4, <1>7 DEF Binding, Outstanding
    <2> QED BY <1>2, <1>4, <2>1, MoneyKept DEF RailIInv, Slices
  <1>15. Faulty => Faulty'
    <2>1. ASSUME NEW m \in Attempts, NEW s \in Sources, Stranded(m, s) PROVE Stranded(m, s)'
      <3>1. m # n /\ att'[m] = "failed" /\ op'[m][s].status = "committed"
        BY <1>2, <1>4, <1>5, <2>1 DEF Stranded
      <3>2. ~Sending(m, s)'
        BY <1>2, <3>1 DEF Sending, NoCall
      <3> QED BY <3>1, <3>2 DEF Stranded
    <2>2. \A m \in Attempts, s \in Sources : op[m][s].late => op'[m][s].late
      BY <1>4
    <2>3. /\ \A d \in Disbursements : CameBack(d) => CameBack(d)'
          /\ \A d \in Disbursements : dis[d].op = "failed" => dis'[d].op = "failed"
      BY <1>2 DEF CameBack
    <2> QED BY <2>1, <2>2, <2>3, FaultsStay, Zenon
  <1>16. Orderly => Orderly'
    <2> SUFFICES ASSUME Orderly PROVE Orderly'
      OBVIOUS
    <2>1. ASSUME NEW k \in Attempts, NEW m \in Attempts, k < m, att'[m] # "none" PROVE Undone(k)'
      <3>1. att[m] # "none"
        BY <1>2, <1>5, <2>1
      <3>2. Undone(k)
        BY <2>1, <3>1 DEF Orderly
      <3>3. k # n
        BY <1>2, <3>2 DEF Undone
      <3> QED BY <1>4, <1>5, <3>2, <3>3 DEF Undone
    <2>2. \A m \in Attempts : att'[m] # "succeeded"
      BY <1>5, <1>6 DEF Orderly
    <2> QED BY <2>1, <2>2 DEF Orderly
  <1>17. Faulty' \/ Orderly'
    BY <1>15, <1>16 DEF RailIInv
  <1> QED BY <1>9, <1>10, <1>11, <1>12, <1>13, <1>14, <1>17, Zenon DEF RailIInv

(* A new attempt takes from each capture no more than is available there.  *)
LEMMA ReservedGrows ==
    ASSUME RailIInv, NEW n \in Attempts, op' \in Slices, refunded' = refunded,
           \A m \in Attempts \ {n} : op'[m] = op[m],
           \A s \in Sources : op[n][s].status = "none",
           \A s \in Sources : op'[n][s].cents = Take(s)
    PROVE  MoneySound'
  <1>1. \A s \in Sources : Available(s) \in Nat
    BY AvailableIsNat DEF RailIInv
  <1>2. ASSUME NEW s \in Sources PROVE Available(s)' >= 0
    <2>1. PICK f : f = [m \in Attempts |-> Bound(op[m][s])]
      OBVIOUS
    <2>2. PICK g : g = [m \in Attempts |-> Bound(op'[m][s])]
      OBVIOUS
    <2>3. Reserved(s) = SumFunctionOnSet(f, Attempts)
      BY <2>1 DEF Reserved, Bound
    <2>4. Reserved(s)' = SumFunctionOnSet(g, Attempts)
      BY <2>2 DEF Reserved, Bound
    <2>5. op \in Slices
      BY DEF RailIInv, RailTables, Slices
    <2>6. \A m \in Attempts : f[m] \in Int /\ g[m] \in Int
      <3>1. \A m \in Attempts : op[m][s] \in OpRow /\ op'[m][s] \in OpRow
        BY <2>5 DEF Slices
      <3> QED BY <2>1, <2>2, <3>1, SMT DEF OpRow, Bound
    <2>7. f[n] = 0 /\ g[n] <= Take(s)
      <3>1. Take(s) \in Nat
        BY <1>1, TakeIsWithin
      <3> QED BY <2>1, <2>2, <3>1 DEF Bound, Binding
    <2>8. IsFiniteSet(Attempts) /\ IsFiniteSet(Attempts \ {n})
      BY RangesAreFinite, FS_Subset
    <2>9. SumFunctionOnSet(f, Attempts) = f[n] + SumFunctionOnSet(f, Attempts \ {n})
      BY <2>6, <2>8, SumTakesOne, Zenon
    <2>10. SumFunctionOnSet(g, Attempts) = g[n] + SumFunctionOnSet(g, Attempts \ {n})
      BY <2>6, <2>8, SumTakesOne, Zenon
    <2>11. SumFunctionOnSet(g, Attempts \ {n}) = SumFunctionOnSet(f, Attempts \ {n})
      <3>1. \A m \in Attempts \ {n} : f[m] \in Int /\ g[m] = f[m]
        BY <2>1, <2>2, <2>6
      <3> QED BY <2>8, <3>1, SumsAgree, Zenon
    <2>12. SumFunctionOnSet(f, Attempts \ {n}) \in Int
      BY <2>6, <2>8, SumIsInt
    <2>13. Take(s) \in Nat /\ Take(s) <= Available(s)
      BY <1>1, TakeIsWithin
    <2>14. Captured[s] \in Int /\ refunded[s] \in Int
      BY RailAssumption DEF RailIInv, RailTables, Sources
    <2> QED BY <2>3, <2>4, <2>6, <2>7, <2>9, <2>10, <2>11, <2>12, <2>13, <2>14 DEF Available
  <1>3. ASSUME NEW m \in Attempts PROVE Instructed(m)' <= Award
    <2>1. CASE m = n
      <3>1. [s \in Sources |-> op'[n][s].cents] = [s \in Sources |-> Take(s)]
        BY Zenon
      <3> QED BY <1>1, <2>1, <3>1, TakeIsTheAward DEF Instructed
    <2>2. CASE m # n
      <3>1. [s \in Sources |-> op'[m][s].cents] = [s \in Sources |-> op[m][s].cents]
        BY <2>2
      <3> QED BY <3>1 DEF RailIInv, MoneySound, Instructed
    <2> QED BY <2>1, <2>2
  <1> QED BY <1>2, <1>3 DEF MoneySound

LEMMA SliceFields ==
    ASSUME NEW cents \in Nat, NEW no \in BOOLEAN, NEW row,
           row = [status |-> "prepared", cents |-> cents, key |-> "unused", done |-> 0, late |-> no]
    PROVE  /\ row \in OpRow /\ row.status = "prepared" /\ row.cents = cents
           /\ row.key = "unused" /\ row.done = 0 /\ row.late = no
  BY SMT DEF OpRow, OpStatus, Keys

PlannedRow(cents) == [NoOp EXCEPT !.status = "prepared", !.cents = cents]

LEMMA PlannedRowIs ==
    ASSUME NEW cents \in Nat
    PROVE  /\ PlannedRow(cents) \in OpRow /\ PlannedRow(cents).status = "prepared"
           /\ PlannedRow(cents).cents = cents /\ PlannedRow(cents).key = "unused"
           /\ PlannedRow(cents).done = 0 /\ ~PlannedRow(cents).late
  <1>1. PICK no \in BOOLEAN : no = FALSE
    OBVIOUS
  <1>2. PICK row : row = [status |-> "prepared", cents |-> cents, key |-> "unused", done |-> 0,
                          late |-> no]
    OBVIOUS
  <1>3. PlannedRow(cents) = row
    <2>1. PICK planned : planned = PlannedRow(cents)
      OBVIOUS
    <2>2. planned = [NoOp EXCEPT !.status = "prepared", !.cents = cents]
      BY <2>1 DEF PlannedRow
    <2>3. planned = [status |-> "prepared", cents |-> cents, key |-> "unused",
                     done |-> 0, late |-> FALSE]
      BY <2>2 DEF NoOp
    <2> QED BY <1>1, <1>2, <2>1, <2>3, Zenon
  <1>4. /\ row \in OpRow /\ row.status = "prepared" /\ row.cents = cents
        /\ row.key = "unused" /\ row.done = 0 /\ row.late = no
    BY <1>2, SliceFields
  <1> QED BY <1>1, <1>3, <1>4

LEMMA PlannedSlices ==
    ASSUME op \in Slices, NEW n \in Attempts, \A s \in Sources : Take(s) \in Nat,
           op' = [op EXCEPT ![n] = [s \in Sources |->
                    IF Take(s) = 0 THEN NoOp
                    ELSE [NoOp EXCEPT !.status = "prepared", !.cents = Take(s)]]]
    PROVE  /\ op' \in Slices
           /\ \A m \in Attempts \ {n} : op'[m] = op[m]
           /\ \A s \in Sources :
                 /\ op'[n][s].status = IF Take(s) = 0 THEN "none" ELSE "prepared"
                 /\ op'[n][s].cents = Take(s) /\ op'[n][s].key = "unused"
                 /\ op'[n][s].done = 0 /\ ~op'[n][s].late
  <1>1. NoOp \in OpRow
    BY DEF NoOp, OpRow, OpStatus, Keys
  <1>2. PICK rows : rows = [s \in Sources |-> IF Take(s) = 0 THEN NoOp ELSE PlannedRow(Take(s))]
    OBVIOUS
  <1>3. op' = [op EXCEPT ![n] = rows]
    BY <1>2, Zenon DEF PlannedRow
  <1>4. rows \in [Sources -> OpRow]
    BY <1>1, <1>2, PlannedRowIs
  <1>5. /\ op' \in Slices /\ op'[n] = rows
        /\ \A m \in Attempts \ {n} : op'[m] = op[m]
    BY <1>3, <1>4 DEF Slices
  <1>6. /\ NoOp.status = "none" /\ NoOp.cents = 0 /\ NoOp.key = "unused" /\ NoOp.done = 0 /\ ~NoOp.late
    BY DEF NoOp
  <1>7. ASSUME NEW s \in Sources
        PROVE  /\ op'[n][s].status = IF Take(s) = 0 THEN "none" ELSE "prepared"
               /\ op'[n][s].cents = Take(s) /\ op'[n][s].key = "unused"
               /\ op'[n][s].done = 0 /\ ~op'[n][s].late
    <2>1. CASE Take(s) = 0
      <3>1. op'[n][s] = NoOp
        BY <1>2, <1>5, <2>1
      <3> QED BY <1>6, <2>1, <3>1
    <2>2. CASE Take(s) # 0
      <3>1. PICK cents \in Nat : cents = Take(s)
        OBVIOUS
      <3>2. op'[n][s] = PlannedRow(cents)
        BY <1>2, <1>5, <2>2, <3>1
      <3> QED BY <2>2, <3>1, <3>2, PlannedRowIs
    <2> QED BY <2>1, <2>2
  <1> QED BY <1>5, <1>7

LEMMA ReserveKeeps ==
    ASSUME RailIInv, NEW n \in Attempts, Reserve(n)
    PROVE  RailIInv'
  <1>1. /\ UNCHANGED <<dis, bank, call, seen, holds, refunded>>
        /\ call = NoCall /\ holds = {} /\ NothingUnknown
        /\ \A m \in Attempts : ~Live(att[m]) /\ (att[m] = "none" <=> m >= n)
        /\ MayBecome("scheduled")
        /\ att' = [att EXCEPT ![n] = "prepared"]
        /\ payout' = [payout EXCEPT !.status = "scheduled"]
    BY DEF Reserve, Working, Dispatchable, Becomes
  <1>2. op \in Slices /\ att \in [Attempts -> AttStatus] /\ payout \in PayoutRow
    BY DEF RailIInv, RailTables, Slices
  <1>3. \A s \in Sources : Available(s) \in Nat /\ Take(s) \in Nat
    BY AvailableIsNat, TakeIsWithin DEF RailIInv
  <1>4. /\ op' \in Slices
        /\ \A m \in Attempts \ {n} : op'[m] = op[m]
        /\ \A s \in Sources :
              /\ op'[n][s].status = IF Take(s) = 0 THEN "none" ELSE "prepared"
              /\ op'[n][s].cents = Take(s) /\ op'[n][s].key = "unused"
              /\ op'[n][s].done = 0 /\ ~op'[n][s].late
    <2>1. op' = [op EXCEPT ![n] = [s \in Sources |->
                    IF Take(s) = 0 THEN NoOp
                    ELSE [NoOp EXCEPT !.status = "prepared", !.cents = Take(s)]]]
      BY DEF Reserve
    <2> QED BY <1>2, <1>3, <2>1, PlannedSlices
  <1>5. /\ att[n] = "none"
        /\ att' \in [Attempts -> AttStatus] /\ att'[n] = "prepared"
        /\ \A m \in Attempts \ {n} : att'[m] = att[m]
    BY <1>1, <1>2 DEF AttStatus, Attempts
  <1>6. \A s \in Sources : op[n][s].status = "none" /\ ~op[n][s].late
    BY <1>5 DEF RailIInv, AttemptSound, SliceSound
  <1>7. payout' \in PayoutRow /\ payout'.status # "paid" /\ payout.status # "paid"
    BY <1>1, <1>2 DEF MayBecome, Transitions, PayoutRow
  <1>8. RailTables'
    BY <1>1, <1>4, <1>5, <1>7 DEF RailIInv, RailTables, Slices
  <1>9. ASSUME NEW m \in Attempts, NEW s \in Sources PROVE SliceSound(op'[m][s])
    <2>1. CASE m = n
      BY <1>4, <2>1 DEF SliceSound
    <2>2. CASE m # n
      BY <1>4, <2>2 DEF RailIInv
    <2> QED BY <2>1, <2>2
  <1>10. ASSUME NEW m \in Attempts PROVE AttemptSound(m)'
    <2>1. CASE m = n
      BY <1>4, <1>5, <2>1 DEF AttemptSound, Banked
    <2>2. CASE m # n
      BY <1>1, <1>4, <1>5, <2>2 DEF RailIInv, AttemptSound, Banked
    <2> QED BY <2>1, <2>2
  <1>11. TransferSound' /\ BankCallSound'
    BY <1>1 DEF NoCall, TransferSound, BankCallSound
  <1>12. (\A d \in Disbursements : BankSound(d)') /\ OneActive' /\ PaidOnce' /\ ReadsSound'
    <2>1. \A m \in Attempts : Banked(m) => Banked(m)'
      BY <1>5 DEF Banked
    <2>2. ASSUME NEW d \in Disbursements PROVE BankSound(d)'
      BY <1>1, <2>1 DEF RailIInv, BankSound
    <2> QED BY <1>1, <1>7, <2>2 DEF RailIInv, OneActive, PaidOnce, ReadsSound, ReadSound
  <1>13. MoneySound'
    BY <1>1, <1>4, <1>6, ReservedGrows
  <1>14. Faulty => Faulty'
    <2>1. ASSUME NEW m \in Attempts, NEW s \in Sources, Stranded(m, s) PROVE Stranded(m, s)'
      BY <1>1, <1>4, <1>5, <2>1 DEF Stranded, Sending
    <2>2. \A m \in Attempts, s \in Sources : op[m][s].late => op'[m][s].late
      BY <1>4, <1>6
    <2>3. /\ \A d \in Disbursements : CameBack(d) => CameBack(d)'
          /\ \A d \in Disbursements : dis[d].op = "failed" => dis'[d].op = "failed"
      BY <1>1 DEF CameBack
    <2> QED BY <2>1, <2>2, <2>3, FaultsStay, Zenon
  <1>15. Orderly => Faulty' \/ Orderly'
    <2> SUFFICES ASSUME Orderly, ~Faulty PROVE Orderly'
      BY <1>14
    <2>1. \A m \in Attempts : att[m] # "succeeded"
      BY <1>7 DEF Orderly
    <2>2. ASSUME NEW k \in Attempts, k < n PROVE Undone(k)
      <3>1. att[k] = "failed"
        <4>1. att[k] # "none" /\ ~Live(att[k]) /\ att[k] \in AttStatus
          BY <1>1, <1>2, <2>2 DEF Attempts
        <4> QED BY <2>1, <4>1 DEF Live, AttStatus
      <3>2. \A s \in Sources : op[k][s].status \in {"none", "accepted", "failed"}
        <4> SUFFICES ASSUME NEW s \in Sources PROVE op[k][s].status \in {"none", "accepted", "failed"}
          OBVIOUS
        <4>1. op[k][s].status \in OpStatus
          BY <1>2 DEF Slices, OpRow
        <4>2. op[k][s].status # "prepared"
          BY <3>1 DEF RailIInv, AttemptSound
        <4>3. op[k][s].status # "unknown"
          BY <1>1 DEF NothingUnknown, UnknownOf
        <4>4. op[k][s].status # "committed"
          BY <1>1, <3>1 DEF Faulty, Stranded, Sending, NoCall
        <4> QED BY <4>1, <4>2, <4>3, <4>4 DEF OpStatus
      <3>3. \A s \in Sources : op[k][s].status # "accepted"
        BY <1>1, <3>1, <3>2 DEF RailIInv, AttemptSound, Outstanding
      <3> QED BY <3>1, <3>2, <3>3 DEF Undone
    <2>3. ASSUME NEW k \in Attempts, NEW m \in Attempts, k < m, att'[m] # "none" PROVE Undone(k)'
      <3>1. k < n
        BY <1>1, <1>5, <2>3 DEF Attempts
      <3>2. Undone(k) /\ k # n
        BY <2>2, <3>1 DEF Attempts
      <3> QED BY <1>4, <1>5, <3>2 DEF Undone
    <2>4. \A m \in Attempts : att'[m] # "succeeded"
      BY <1>5, <2>1
    <2> QED BY <2>3, <2>4 DEF Orderly
  <1>16. Faulty' \/ Orderly'
    BY <1>14, <1>15 DEF RailIInv
  <1> QED BY <1>8, <1>9, <1>10, <1>11, <1>12, <1>13, <1>16, Zenon DEF RailIInv
-----------------------------------------------------------------------------
LEMMA DeferralKeeps ==
    ASSUME RailIInv, RecoveryDeferred \/ Crash
    PROVE  RailIInv'
  <1>1. UNCHANGED <<payout, att, op, dis, bank, seen, holds, refunded>> /\ call' = NoCall
    BY DEF RecoveryDeferred, Crash
  <1> QED BY <1>1, RunEnds

LEMMA SumOfLittle ==
    ASSUME NEW S, IsFiniteSet(S), NEW f, \A x \in S : f[x] \in Int /\ f[x] <= 0
    PROVE  SumFunctionOnSet(f, S) <= 0
  <1> DEFINE Claim == {T \in SUBSET S : SumFunctionOnSet(f, T) <= 0}
  <1>1. {} \in Claim
    BY SumOfNothing
  <1>2. ASSUME NEW T \in SUBSET S, NEW x \in S, T \in Claim, x \notin T
        PROVE  T \union {x} \in Claim
    <2>1. IsFiniteSet(T) /\ f[x] \in Int /\ \A y \in T : f[y] \in Int
      BY FS_Subset
    <2>2. SumFunctionOnSet(f, T \union {x}) = SumFunctionOnSet(f, T) + f[x]
      BY <1>2, <2>1, SumAddsOne, Zenon
    <2>3. SumFunctionOnSet(f, T) \in Int
      BY <2>1, SumIsInt, Zenon
    <2> QED BY <1>2, <2>1, <2>2, <2>3
  <1> HIDE DEF Claim
  <1>3. \A T \in SUBSET S : T \in Claim
    BY <1>1, <1>2, OneMoreElement, Zenon
  <1> QED BY <1>3 DEF Claim

LEMMA SumOfZeros ==
    ASSUME NEW S, IsFiniteSet(S), NEW f, \A x \in S : f[x] = 0
    PROVE  SumFunctionOnSet(f, S) <= 0
  <1>1. \A x \in S : f[x] \in Int /\ f[x] <= 0
    OBVIOUS
  <1> QED BY <1>1, SumOfLittle, Zenon

LEMMA RailStarts == Init => RailIInv
  <1> SUFFICES ASSUME Init PROVE RailIInv
    OBVIOUS
  <1>1. /\ payout = [status |-> "eligible", blocked |-> FALSE]
        /\ att = [n \in Attempts |-> "none"]
        /\ op = [n \in Attempts |-> [s \in Sources |-> NoOp]]
        /\ dis = [d \in Disbursements |-> NoDisbursement]
        /\ bank = [d \in Disbursements |-> NoBankPayout]
        /\ call = NoCall /\ seen = [r \in Readers |-> {}]
        /\ refunded = [s \in Sources |-> 0]
    BY DEF Init
  <1>2. NoOp \in OpRow /\ NoOp.status = "none" /\ NoOp.cents = 0 /\ SliceSound(NoOp)
    BY DEF NoOp, OpRow, OpStatus, Keys, SliceSound
  <1>3. NoDisbursement \in DisRow /\ NoBankPayout \in BankRow
    BY DEF NoDisbursement, NoBankPayout, DisRow, BankRow, DisStatus, OpStatus, Keys
  <1>4. RailTables
    BY <1>1, <1>2, <1>3 DEF RailTables, PayoutRow, AttStatus
  <1>5. (\A n \in Attempts, s \in Sources : SliceSound(op[n][s]))
        /\ \A n \in Attempts : AttemptSound(n)
    BY <1>1, <1>2 DEF AttemptSound, Banked
  <1>6. TransferSound /\ BankCallSound /\ ReadsSound /\ PaidOnce
    BY <1>1 DEF TransferSound, BankCallSound, ReadsSound, PaidOnce, NoCall
  <1>7. (\A d \in Disbursements : BankSound(d)) /\ OneActive
    BY <1>1 DEF BankSound, OneActive, NoDisbursement, NoBankPayout
  <1>8. MoneySound
    <2>1. ASSUME NEW s \in Sources PROVE Available(s) >= 0
      <3>1. PICK f : f = [n \in Attempts |-> Bound(op[n][s])]
        OBVIOUS
      <3>2. Reserved(s) = SumFunctionOnSet(f, Attempts)
        BY <3>1 DEF Reserved, Bound
      <3>3. PICK g : g = [n \in Attempts |-> 0]
        OBVIOUS
      <3>4. \A n \in Attempts : f[n] = 0
        BY <1>1, <1>2, <3>1 DEF Bound
      <3>5. SumFunctionOnSet(f, Attempts) <= 0
        BY <3>4, RangesAreFinite, SumOfZeros
      <3>6. SumFunctionOnSet(f, Attempts) \in Int
        <4>1. \A n \in Attempts : f[n] \in Int
          BY <3>4
        <4> QED BY <4>1, RangesAreFinite, SumIsInt, Zenon
      <3>7. Captured[s] \in Nat /\ refunded[s] = 0
        BY <1>1, RailAssumption DEF Sources
      <3> QED BY <3>2, <3>5, <3>6, <3>7 DEF Available
    <2>2. ASSUME NEW n \in Attempts PROVE Instructed(n) <= Award
      <3>1. PICK f : f = [s \in Sources |-> op[n][s].cents]
        OBVIOUS
      <3>2. \A s \in Sources : f[s] = 0
        BY <1>1, <1>2, <3>1
      <3>3. SumFunctionOnSet(f, Sources) <= 0
        BY <3>2, RangesAreFinite, SumOfZeros
      <3>4. SumFunctionOnSet(f, Sources) \in Int /\ Award \in Nat
        BY <3>2, RangesAreFinite, SumIsInt, RailAssumption
      <3> QED BY <3>1, <3>3, <3>4 DEF Instructed
    <2> QED BY <2>1, <2>2 DEF MoneySound
  <1>9. Orderly
    BY <1>1 DEF Orderly
  <1> QED BY <1>4, <1>5, <1>6, <1>7, <1>8, <1>9, Zenon DEF RailIInv

LEMMA RailSteps == RailIInv /\ [Next]_vars => RailIInv'
  <1> SUFFICES ASSUME RailIInv, [Next]_vars PROVE RailIInv'
    OBVIOUS
  <1>1. CASE Execute
    BY <1>1, ReserveKeeps, CommitKeeps, RecoverTransfersKeeps, PlanBankPayoutKeeps,
       CommitBankPayoutKeeps, RecoverBankPayoutKeeps, TransferKeeps, SearchTransferKeeps,
       AcceptTransferKeeps, RejectTransferKeeps, TransferUnknownKeeps, DeferralKeeps,
       BankPayoutKeeps, SearchBankPayoutKeeps, AcceptBankPayoutKeeps, RejectBankPayoutKeeps,
       BankPayoutUnknownKeeps, ObserveAnswerKeeps, Zenon DEF Execute
  <1>2. CASE \E r \in Readers : ApplyRead(r) \/ \E d \in Disbursements : Retrieve(r, d)
    BY <1>2, ApplyReadKeeps, RetrieveKeeps, Zenon
  <1>3. CASE \E d \in Disbursements : UnexpectedPayoutEvent(d) \/ BankMoves(d)
    BY <1>3, HoldsKeep, BankMovesKeeps, Zenon
  <1>4. CASE \E s \in Sources : Refund(s)
    BY <1>4, RefundKeeps, Zenon
  <1>5. CASE OpenHold \/ ClearHold
    BY <1>5, HoldsKeep, Zenon
  <1>6. CASE RetryBankPayout \/ KeyExpires \/ Crash
    BY <1>6, RetryBankPayoutKeeps, KeyExpiresKeeps, DeferralKeeps, Zenon
  <1>7. CASE UNCHANGED vars
    <2>1. UNCHANGED <<payout, att, op, dis, bank, call, seen, holds, refunded>>
      BY <1>7 DEF vars
    <2>2. /\ seen' \in [Readers -> SUBSET (Disbursements \X Said)] /\ ReadsSound'
          /\ MoneySound' /\ refunded' \in [Sources -> Nat]
      BY <2>1, SameMoney DEF RailIInv, RailTables, ReadsSound, ReadSound
    <2> QED BY <2>1, <2>2, BesideKeeps
  <1> QED BY <1>1, <1>2, <1>3, <1>4, <1>5, <1>6, <1>7, Zenon DEF Next

LEMMA RailInvariant == Spec => []RailIInv
  BY RailStarts, RailSteps, PTL DEF Spec
-----------------------------------------------------------------------------
(* What the invariant says of the money.                                   *)
LEMMA MovedIsBound ==
    ASSUME NEW o \in OpRow, SliceSound(o), ~o.late
    PROVE  /\ o.cents * o.done \in Nat /\ o.cents * o.done <= o.cents
           /\ o.cents * o.done <= Bound(o)
           /\ o.status \in {"none", "failed"} => o.cents * o.done = 0
  <1>1. o.cents \in Nat /\ o.done \in Nat
    BY DEF OpRow
  <1>2. CASE o.done = 0
    <2>1. o.cents * o.done = 0
      BY <1>1, <1>2
    <2> QED BY <1>1, <2>1 DEF Bound
  <1>3. CASE o.done # 0
    <2>1. o.done = 1 /\ o.status \notin {"none", "failed"}
      BY <1>1, <1>3 DEF SliceSound
    <2>2. o.cents * o.done = o.cents
      BY <1>1, <2>1
    <2> QED BY <1>1, <2>1, <2>2 DEF Bound, Binding
  <1> QED BY <1>2, <1>3

LEMMA NothingLate ==
    ASSUME RailIInv, NEW n \in Attempts, NEW s \in Sources, ~op[n][s].late
    PROVE  /\ Moved(n, s) \in Nat /\ Moved(n, s) <= op[n][s].cents
           /\ Moved(n, s) <= Bound(op[n][s])
           /\ op[n][s].status \in {"none", "failed"} => Moved(n, s) = 0
           /\ Bound(op[n][s]) \in Nat /\ op[n][s].cents \in Nat
  <1>1. op[n][s] \in OpRow /\ SliceSound(op[n][s])
    BY DEF RailIInv, RailTables
  <1>2. op[n][s].cents \in Nat
    BY <1>1 DEF OpRow
  <1>3. Bound(op[n][s]) \in Nat
    BY <1>2 DEF Bound
  <1> QED BY <1>1, <1>2, <1>3, MovedIsBound DEF Moved

LEMMA SpentOnce == RailIInv => CaptureSpentOnce
  <1> SUFFICES ASSUME RailIInv, NEW s \in Sources, \A n \in Attempts : ~op[n][s].late
               PROVE  refunded[s] + TransferredFrom(s) <= Captured[s]
    BY DEF CaptureSpentOnce, Late
  <1>1. PICK f : f = [n \in Attempts |-> Moved(n, s)]
    OBVIOUS
  <1>2. PICK g : g = [n \in Attempts |-> Bound(op[n][s])]
    OBVIOUS
  <1>3. TransferredFrom(s) = SumFunctionOnSet(f, Attempts)
    BY <1>1 DEF TransferredFrom
  <1>4. Reserved(s) = SumFunctionOnSet(g, Attempts)
    BY <1>2 DEF Reserved, Bound
  <1>5. \A n \in Attempts : f[n] \in Int /\ g[n] \in Int /\ f[n] <= g[n]
    BY <1>1, <1>2, NothingLate
  <1>6. SumFunctionOnSet(f, Attempts) <= SumFunctionOnSet(g, Attempts)
    BY <1>5, RangesAreFinite, SumsCompare, Zenon
  <1>7. SumFunctionOnSet(f, Attempts) \in Int /\ SumFunctionOnSet(g, Attempts) \in Int
    BY <1>5, RangesAreFinite, SumIsInt
  <1>8. Captured[s] - refunded[s] - Reserved(s) >= 0
    BY DEF RailIInv, MoneySound, Available
  <1>9. Captured[s] \in Int /\ refunded[s] \in Int
    BY RailAssumption DEF RailIInv, RailTables, Sources
  <1> QED BY <1>3, <1>4, <1>6, <1>7, <1>8, <1>9

(* An attempt moves no more than it was planned for, an undone one nothing. *)
LEMMA AttemptMoves ==
    ASSUME RailIInv, NEW n \in Attempts, \A s \in Sources : ~op[n][s].late
    PROVE  /\ TransferredOf(n) \in Int /\ TransferredOf(n) <= Award
           /\ (\A s \in Sources : op[n][s].status \in {"none", "failed"}) => TransferredOf(n) <= 0
  <1>1. PICK f : f = [s \in Sources |-> Moved(n, s)]
    OBVIOUS
  <1>2. PICK g : g = [s \in Sources |-> op[n][s].cents]
    OBVIOUS
  <1>3. TransferredOf(n) = SumFunctionOnSet(f, Sources)
    BY <1>1 DEF TransferredOf
  <1>4. Instructed(n) = SumFunctionOnSet(g, Sources)
    BY <1>2 DEF Instructed
  <1>5. \A s \in Sources : f[s] \in Int /\ g[s] \in Int /\ f[s] <= g[s]
    BY <1>1, <1>2, NothingLate
  <1>6. SumFunctionOnSet(f, Sources) <= SumFunctionOnSet(g, Sources)
    BY <1>5, RangesAreFinite, SumsCompare, Zenon
  <1>7. SumFunctionOnSet(f, Sources) \in Int /\ SumFunctionOnSet(g, Sources) \in Int
    BY <1>5, RangesAreFinite, SumIsInt
  <1>8. SumFunctionOnSet(g, Sources) <= Award /\ Award \in Int
    BY <1>4, RailAssumption DEF RailIInv, MoneySound
  <1>9. (\A s \in Sources : op[n][s].status \in {"none", "failed"})
            => SumFunctionOnSet(f, Sources) <= 0
    <2> SUFFICES ASSUME \A s \in Sources : op[n][s].status \in {"none", "failed"}
                 PROVE  SumFunctionOnSet(f, Sources) <= 0
      OBVIOUS
    <2>1. \A s \in Sources : f[s] = 0
      BY <1>1, NothingLate
    <2> QED BY <2>1, RangesAreFinite, SumOfZeros
  <1> QED BY <1>3, <1>6, <1>7, <1>8, <1>9

LEMMA OneAttemptMoves ==
    ASSUME RailIInv, Orderly, \A n \in Attempts, s \in Sources : ~op[n][s].late
    PROVE  Transferred <= Award
  <1>1. PICK f : f = [n \in Attempts |-> TransferredOf(n)]
    OBVIOUS
  <1>2. Transferred = SumFunctionOnSet(f, Attempts)
    BY <1>1 DEF Transferred
  <1>3. \A n \in Attempts : f[n] \in Int /\ f[n] <= Award
    BY <1>1, AttemptMoves
  <1>4. Award \in Nat
    BY RailAssumption
  <1>5. ASSUME NEW n \in Attempts, NEW m \in Attempts, n < m PROVE f[n] <= 0 \/ f[m] <= 0
    <2>1. CASE att[m] = "none"
      <3>1. \A s \in Sources : op[m][s].status = "none"
        BY <2>1 DEF RailIInv, AttemptSound
      <3> QED BY <1>1, <3>1, AttemptMoves
    <2>2. CASE att[m] # "none"
      <3>1. \A s \in Sources : op[n][s].status \in {"none", "failed"}
        BY <1>5, <2>2 DEF Orderly, Undone
      <3> QED BY <1>1, <3>1, AttemptMoves
    <2> QED BY <2>1, <2>2
  <1>6. CASE \A n \in Attempts : f[n] <= 0
    <2>1. SumFunctionOnSet(f, Attempts) <= 0
      BY <1>3, <1>6, RangesAreFinite, SumOfLittle
    <2>2. SumFunctionOnSet(f, Attempts) \in Int
      BY <1>3, RangesAreFinite, SumIsInt
    <2> QED BY <1>2, <1>4, <2>1, <2>2
  <1>7. ASSUME NEW n \in Attempts, ~(f[n] <= 0) PROVE Transferred <= Award
    <2>1. IsFiniteSet(Attempts) /\ IsFiniteSet(Attempts \ {n})
      BY RangesAreFinite, FS_Subset
    <2>2. \A m \in Attempts \ {n} : f[m] <= 0
      <3> SUFFICES ASSUME NEW m \in Attempts \ {n} PROVE f[m] <= 0
        OBVIOUS
      <3>1. m < n \/ n < m
        BY DEF Attempts
      <3> QED BY <1>5, <1>7, <3>1
    <2>3. SumFunctionOnSet(f, Attempts) = f[n] + SumFunctionOnSet(f, Attempts \ {n})
      BY <1>3, <2>1, SumTakesOne, Zenon
    <2>4. SumFunctionOnSet(f, Attempts \ {n}) <= 0
      BY <1>3, <2>1, <2>2, SumOfLittle
    <2>5. SumFunctionOnSet(f, Attempts \ {n}) \in Int
      BY <1>3, <2>1, SumIsInt
    <2> QED BY <1>2, <1>3, <1>4, <2>3, <2>4, <2>5
  <1> QED BY <1>6, <1>7

LEMMA ExceededByFault == RailIInv => AwardExceededOnlyByFault
  <1> SUFFICES ASSUME RailIInv, Transferred > Award,
                      \A n \in Attempts, s \in Sources :
                          ~op[n][s].late /\ ~(att[n] = "failed" /\ op[n][s].status = "committed"),
                      \A d, e \in Disbursements : ~(CameBack(d) /\ dis[e].op = "failed")
               PROVE  FALSE
    BY DEF AwardExceededOnlyByFault, Late
  <1>1. ~Faulty
    BY DEF Faulty, Stranded
  <1>2. Orderly
    BY <1>1 DEF RailIInv
  <1>3. Transferred <= Award
    BY <1>2, OneAttemptMoves
  <1>4. Transferred \in Int /\ Award \in Int
    <2>1. PICK f : f = [n \in Attempts |-> TransferredOf(n)]
      OBVIOUS
    <2>2. \A n \in Attempts : f[n] \in Int
      BY <2>1, AttemptMoves
    <2>3. Transferred = SumFunctionOnSet(f, Attempts)
      BY <2>1 DEF Transferred
    <2>4. SumFunctionOnSet(f, Attempts) \in Int
      BY <2>2, RangesAreFinite, SumIsInt, Zenon
    <2> QED BY <2>3, <2>4, RailAssumption
  <1> QED BY <1>3, <1>4

LEMMA PaidAtMostOnce == RailIInv => BankPaidOnce
  <1> SUFFICES ASSUME RailIInv PROVE BankPaidOnce
    OBVIOUS
  <1>1. ASSUME NEW d \in Disbursements, AtBank(d) PROVE dis[d].active
    <2>1. BankSound(d) /\ dis[d] \in DisRow
      BY DisbursementIs
    <2>2. bank[d].made # 0 /\ bank[d].status # "failed"
      BY <1>1, <2>1 DEF AtBank, BankSound
    <2>3. dis[d].op \in {"committed", "unknown", "accepted"}
      BY <2>1, <2>2 DEF BankSound, DisRow, OpStatus
    <2> QED BY <2>1, <2>2, <2>3 DEF BankSound
  <1>2. PICK some : some = {d \in Disbursements : AtBank(d)}
    OBVIOUS
  <1>3. \A d, e \in some : d = e
    BY <1>1, <1>2 DEF RailIInv, OneActive
  <1>4. Cardinality(some) <= 1
    <2>1. CASE some = {}
      BY <2>1, FS_EmptySet
    <2>2. CASE some # {}
      <3>1. PICK d : some = {d}
        BY <1>3, <2>2
      <3> QED BY <3>1, FS_Singleton
    <2> QED BY <2>1, <2>2
  <1>5. \A d \in Disbursements : bank[d].made <= 1
    BY DEF RailIInv, BankSound
  <1>6. payout.status = "paid" => \E d \in Disbursements : bank[d].paid
    BY DEF RailIInv, PaidOnce
  <1> QED BY <1>2, <1>4, <1>5, <1>6 DEF BankPaidOnce

LEMMA SlicesOnce == RailIInv => TransferredOnce
  <1> SUFFICES ASSUME RailIInv, NEW n \in Attempts, NEW s \in Sources, ~op[n][s].late
               PROVE  ~(op[n][s].done > (IF op[n][s].status = "failed" THEN 0 ELSE 1))
    BY DEF TransferredOnce, Late
  <1>1. SliceSound(op[n][s]) /\ op[n][s] \in OpRow
    BY DEF RailIInv, RailTables
  <1>2. op[n][s].done \in Nat
    BY <1>1 DEF OpRow
  <1> QED BY <1>1, <1>2 DEF SliceSound
-----------------------------------------------------------------------------
(* A slice is transferred once and a refused slice never, for any captures, *)
(* award, number of attempts and readers: unless a dead worker's committed *)
(* operation was sent again past its key's window                          *)
(* (_recover_unknown_transfer, apply_transfer_rejected).                   *)
THEOREM EachSliceIsTransferredOnce == Spec => []TransferredOnce
  <1>1. RailIInv => TransferredOnce
    BY SlicesOnce
  <1> QED BY <1>1, RailInvariant, PTL

(* No cent of a capture is both refunded and transferred                   *)
(* (create_refund, source_available_cents).                                *)
THEOREM NoCentIsSpentTwice == Spec => []CaptureSpentOnce
  <1>1. RailIInv => CaptureSpentOnce
    BY SpentOnce
  <1> QED BY <1>1, RailInvariant, PTL

(* The award bounds all that was ever transferred, unless one of the named *)
(* faults let a second attempt begin beside what the first one moved.      *)
THEOREM AwardIsTheBound == Spec => []AwardExceededOnlyByFault
  <1>1. RailIInv => AwardExceededOnlyByFault
    BY ExceededByFault
  <1> QED BY <1>1, RailInvariant, PTL

(* One bank payout at a time, each made once, and "paid" is never said of  *)
(* a Payout no bank paid (_plan_bank_payout, _apply_payout_side).          *)
THEOREM BankPaysOnce == Spec => []BankPaidOnce
  <1>1. RailIInv => BankPaidOnce
    BY PaidAtMostOnce
  <1> QED BY <1>1, RailInvariant, PTL
=============================================================================
