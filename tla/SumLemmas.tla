----------------------------- MODULE SumLemmas -----------------------------
(***************************************************************************)
(* What the sum of a function over a finite set does: SumFunctionOnSet, in *)
(* which the models add up payments, loads and transfers.  The library     *)
(* defines it by a recursive function that takes out whatever element      *)
(* CHOOSE picks; here it is shown that any element may be taken out, by    *)
(* induction over the subsets of a finite set, which follows from the      *)
(* well-foundedness of strict inclusion.                                   *)
(***************************************************************************)
EXTENDS FiniteSetsExt, FiniteSetTheorems, TLAPS

(* Among finite subsets there is a smallest one.                           *)
Smallest(T, Some) == T \in Some /\ \A U \in Some : U \subseteq T => U = T

LEMMA SmallestSubset ==
    ASSUME NEW S, IsFiniteSet(S), NEW Some \in SUBSET (SUBSET S), Some # {}
    PROVE  \E T : Smallest(T, Some)
  <1>1. IsWellFoundedOn(StrictSubsetOrdering(S), FiniteSubsetsOf(S))
    BY FS_StrictSubsetOrderingWellFounded, Zenon
  <1>2. FiniteSubsetsOf(S) = SUBSET S
    BY FS_FiniteSubsetsOfFinite, Zenon
  <1>3. PICK T \in Some : \A U \in Some : ~ (<<U, T>> \in StrictSubsetOrdering(S))
    BY <1>1, <1>2, WFMin, Zenon
  <1>4. ASSUME NEW U \in Some, U \subseteq T PROVE U = T
    BY <1>3, <1>4 DEF StrictSubsetOrdering
  <1> QED BY <1>4 DEF Smallest

(* Induction over the subsets of a finite set, from all smaller ones, with *)
(* the set of those for which the claim holds.                             *)
Hereditary(Claim, S) ==
    \A T \in SUBSET S : (\A U \in SUBSET T : U # T => U \in Claim) => T \in Claim

LEMMA SmallerSubsets ==
    ASSUME NEW S, IsFiniteSet(S), NEW Claim, Hereditary(Claim, S)
    PROVE  \A T \in SUBSET S : T \in Claim
  <1> DEFINE Left == {T \in SUBSET S : T \notin Claim}
  <1>1. SUFFICES ASSUME Left # {} PROVE FALSE
    OBVIOUS
  <1>2. Left \in SUBSET (SUBSET S)
    OBVIOUS
  <1> HIDE DEF Left
  <1>3. PICK T : Smallest(T, Left)
    BY <1>1, <1>2, SmallestSubset, Zenon
  <1> USE DEF Left
  <1>4. ASSUME NEW U \in SUBSET T, U # T PROVE U \in Claim
    BY <1>3, <1>4 DEF Smallest
  <1> QED BY <1>3, <1>4 DEF Smallest, Hereditary

(* The same, one element at a time.                                        *)
LEMMA OneMoreElement ==
    ASSUME NEW S, IsFiniteSet(S), NEW Claim, {} \in Claim,
           \A T \in SUBSET S : \A x \in S : T \in Claim /\ x \notin T => T \union {x} \in Claim
    PROVE  \A T \in SUBSET S : T \in Claim
  <1>1. ASSUME NEW T \in SUBSET S, \A U \in SUBSET T : U # T => U \in Claim
        PROVE  T \in Claim
    <2>1. CASE T = {}
      BY <2>1
    <2>2. ASSUME NEW x \in T PROVE T \in Claim
      <3>1. T \ {x} \in SUBSET T /\ T \ {x} # T /\ T \ {x} \in SUBSET S /\ x \in S
        BY <2>2
      <3>2. (T \ {x}) \union {x} \in Claim
        BY <1>1, <3>1
      <3>3. (T \ {x}) \union {x} = T
        BY <2>2
      <3> QED BY <3>2, <3>3
    <2> QED BY <2>1, <2>2
  <1> QED BY <1>1, SmallerSubsets, Zenon DEF Hereditary

(* One total per subset, in which any element may be taken out first.      *)
Additive(F, f, S) ==
    /\ F \in [SUBSET S -> Int]
    /\ F[{}] = 0
    /\ \A T \in SUBSET S : \A x \in T : F[T] = f[x] + F[T \ {x}]

LEMMA AdditiveExists ==
    ASSUME NEW S, IsFiniteSet(S), NEW f, \A x \in S : f[x] \in Int
    PROVE  \E F : Additive(F, f, S)
  <1> DEFINE Claim == {T \in SUBSET S : \E F : Additive(F, f, T)}
  <1>1. {} \in Claim
    <2>1. Additive([T \in SUBSET {} |-> 0], f, {})
      BY DEF Additive
    <2> QED BY <2>1
  <1>2. ASSUME NEW T \in SUBSET S, NEW y \in S, T \in Claim, y \notin T
        PROVE  T \union {y} \in Claim
    <2>1. PICK F : Additive(F, f, T)
      BY <1>2
    <2> DEFINE G == [U \in SUBSET (T \union {y}) |->
                        IF y \in U THEN f[y] + F[U \ {y}] ELSE F[U]]
    <2>2. f[y] \in Int
      BY <1>2
    <2>3. \A U \in SUBSET (T \union {y}) : U \ {y} \in SUBSET T /\ F[U \ {y}] \in Int
      BY <2>1, SMT DEF Additive
    <2>4. \A U \in SUBSET (T \union {y}) : y \notin U => U \in SUBSET T /\ F[U] \in Int
      BY <2>1, SMT DEF Additive
    <2>5. G \in [SUBSET (T \union {y}) -> Int]
      BY <2>2, <2>3, <2>4, SMT
    <2>6. G[{}] = 0
      BY <2>1, SMT DEF Additive
    <2>7. ASSUME NEW U \in SUBSET (T \union {y}), NEW x \in U
          PROVE  G[U] = f[x] + G[U \ {x}]
      <3>1. CASE y \notin U
        <4>1. U \in SUBSET T /\ U \ {x} \in SUBSET (T \union {y}) /\ y \notin U \ {x}
          BY <2>4, <3>1, SMT
        <4>2. F[U] = f[x] + F[U \ {x}]
          BY <2>1, <4>1 DEF Additive
        <4> QED BY <3>1, <4>1, <4>2
      <3>2. CASE x = y
        <4>1. U \ {x} \in SUBSET (T \union {y}) /\ y \notin U \ {x} /\ y \in U
          BY <2>7, <3>2, SMT
        <4> QED BY <3>2, <4>1
      <3>3. CASE y \in U /\ x # y
        <4>1. U \ {x} \in SUBSET (T \union {y}) /\ y \in U \ {x}
          BY <2>7, <3>3, SMT
        <4>2. U \ {y} \in SUBSET T /\ x \in U \ {y}
          BY <2>7, <3>3, SMT
        <4>3. F[U \ {y}] = f[x] + F[(U \ {y}) \ {x}]
          BY <2>1, <4>2 DEF Additive
        <4>4. (U \ {y}) \ {x} = (U \ {x}) \ {y}
          OBVIOUS
        <4>5. G[U] = f[y] + F[U \ {y}]
          BY <3>3
        <4>6. G[U \ {x}] = f[y] + F[(U \ {x}) \ {y}]
          BY <4>1
        <4> HIDE DEF G
        <4>7. x \in S
          BY <1>2, <2>7, SMT
        <4>8. f[x] \in Int /\ F[(U \ {x}) \ {y}] \in Int
          BY <2>3, <4>1, <4>7
        <4> DEFINE left == F[(U \ {x}) \ {y}]
        <4>9. f[y] + (f[x] + left) = f[x] + (f[y] + left)
          BY <2>2, <4>8, SMT
        <4>10. F[U \ {y}] = f[x] + left
          BY <4>3, <4>4, Zenon
        <4>11. G[U] = f[y] + (f[x] + left) /\ G[U \ {x}] = f[y] + left
          BY <4>5, <4>6, <4>10, Zenon
        <4> HIDE DEF left
        <4> QED BY <4>9, <4>11, Zenon
      <3> QED BY <3>1, <3>2, <3>3
    <2> HIDE DEF G
    <2>8. Additive(G, f, T \union {y})
      BY <2>5, <2>6, <2>7 DEF Additive
    <2> QED BY <1>2, <2>8
  <1> HIDE DEF Claim
  <1>3. \A T \in SUBSET S : T \in Claim
    BY <1>1, <1>2, OneMoreElement, Zenon
  <1>4. S \in Claim
    BY <1>3
  <1> QED BY <1>4 DEF Claim

Picked(T) == CHOOSE x \in T : TRUE
IsFold(F, f, S) == F = [T \in SUBSET S |-> IF T = {} THEN 0 ELSE f[Picked(T)] + F[T \ {Picked(T)}]]

LEMMA SumIsAFold ==
    ASSUME NEW f, NEW S
    PROVE  SumFunctionOnSet(f, S) = (CHOOSE F : IsFold(F, f, S))[S]
  BY DEF SumFunctionOnSet, FoldFunctionOnSet, MapThenFoldSet, IsFold, Picked

LEMMA FoldIsAdditive ==
    ASSUME NEW S, IsFiniteSet(S), NEW f, NEW F, Additive(F, f, S)
    PROVE  SumFunctionOnSet(f, S) = F[S]
  <1>1. IsFold(F, f, S)
    <2>1. ASSUME NEW T \in SUBSET S, T # {} PROVE F[T] = f[Picked(T)] + F[T \ {Picked(T)}]
      <3>1. Picked(T) \in T
        BY <2>1, Zenon DEF Picked
      <3> QED BY <2>1, <3>1, Zenon DEF Additive
    <2>2. F = [T \in SUBSET S |-> F[T]]
      BY DEF Additive
    <2> DEFINE Body(T) == IF T = {} THEN 0 ELSE f[Picked(T)] + F[T \ {Picked(T)}]
    <2>3. \A T \in SUBSET S : F[T] = Body(T)
      BY <2>1, Zenon DEF Additive
    <2>4. F = [T \in SUBSET S |-> Body(T)]
      BY <2>2, <2>3, Zenon
    <2> QED BY <2>4 DEF IsFold
  <1> DEFINE H == CHOOSE G : IsFold(G, f, S)
  <1>2. IsFold(H, f, S)
    BY <1>1, Zenon
  <1> HIDE DEF H
  <1> DEFINE Claim == {T \in SUBSET S : H[T] = F[T]}
  <1>3. \A T \in SUBSET S : H[T] = IF T = {} THEN 0 ELSE f[Picked(T)] + H[T \ {Picked(T)}]
    BY <1>2, Zenon DEF IsFold
  <1>4. \A T \in SUBSET S : F[T] = IF T = {} THEN 0 ELSE f[Picked(T)] + F[T \ {Picked(T)}]
    BY <1>1, Zenon DEF IsFold
  <1>5. ASSUME NEW T \in SUBSET S, \A U \in SUBSET T : U # T => U \in Claim
        PROVE  T \in Claim
    <2>1. CASE T = {}
      BY <1>3, <1>4, <2>1, Zenon
    <2>2. CASE T # {}
      <3>1. Picked(T) \in T
        BY <2>2, Zenon DEF Picked
      <3>2. T \ {Picked(T)} \in SUBSET T /\ T \ {Picked(T)} # T
        BY <3>1
      <3>3. H[T \ {Picked(T)}] = F[T \ {Picked(T)}]
        BY <1>5, <3>2
      <3>4. H[T] = F[T]
        BY <1>3, <1>4, <2>2, <3>3, Zenon
      <3> QED BY <3>4
    <2> QED BY <2>1, <2>2
  <1> HIDE DEF Claim
  <1>6. S \in Claim
    BY <1>5, SmallerSubsets, Zenon DEF Hereditary
  <1>7. H[S] = F[S]
    BY <1>6 DEF Claim
  <1> QED BY <1>7, SumIsAFold DEF H
-----------------------------------------------------------------------------
(* What a sum over a finite set is: nothing of nothing, and any element    *)
(* may be taken out first.                                                 *)
SumsOf(F, f, S) ==
    /\ Additive(F, f, S)
    /\ \A T \in SUBSET S : SumFunctionOnSet(f, T) = F[T]

LEMMA SumsAreAdditive ==
    ASSUME NEW S, IsFiniteSet(S), NEW f, \A x \in S : f[x] \in Int
    PROVE  \E F : SumsOf(F, f, S)
  <1>1. PICK F : Additive(F, f, S)
    BY AdditiveExists, Zenon
  <1>2. ASSUME NEW T \in SUBSET S PROVE SumFunctionOnSet(f, T) = F[T]
    <2>1. IsFiniteSet(T)
      BY FS_Subset
    <2> DEFINE G == [U \in SUBSET T |-> F[U]]
    <2>2. \A U \in SUBSET T : U \in SUBSET S /\ G[U] = F[U] /\ F[U] \in Int
      BY <1>1 DEF Additive
    <2>3. G \in [SUBSET T -> Int]
      BY <2>2
    <2> HIDE DEF G
    <2>4. G[{}] = 0
      BY <1>1, <2>2 DEF Additive
    <2>5. ASSUME NEW U \in SUBSET T, NEW x \in U PROVE G[U] = f[x] + G[U \ {x}]
      <3>1. U \ {x} \in SUBSET T /\ U \in SUBSET S
        BY <2>5
      <3>2. F[U] = f[x] + F[U \ {x}]
        BY <1>1, <2>5, <3>1, Zenon DEF Additive
      <3> QED BY <2>2, <3>1, <3>2, Zenon
    <2>6. Additive(G, f, T)
      BY <2>3, <2>4, <2>5, Zenon DEF Additive
    <2>7. SumFunctionOnSet(f, T) = G[T]
      BY <2>1, <2>6, FoldIsAdditive, Zenon
    <2> QED BY <2>2, <2>7
  <1> QED BY <1>1, <1>2 DEF SumsOf

LEMMA SumOfNothing ==
    ASSUME NEW f
    PROVE  SumFunctionOnSet(f, {}) = 0
  <1>1. IsFiniteSet({})
    BY FS_EmptySet
  <1>2. PICK F : SumsOf(F, f, {})
    BY <1>1, SumsAreAdditive
  <1> QED BY <1>2 DEF SumsOf, Additive

LEMMA SumIsInt ==
    ASSUME NEW S, IsFiniteSet(S), NEW f, \A x \in S : f[x] \in Int
    PROVE  SumFunctionOnSet(f, S) \in Int
  <1>1. PICK F : SumsOf(F, f, S)
    BY SumsAreAdditive, Zenon
  <1> QED BY <1>1 DEF SumsOf, Additive

LEMMA SumTakesOne ==
    ASSUME NEW S, IsFiniteSet(S), NEW f, \A x \in S : f[x] \in Int, NEW x \in S
    PROVE  SumFunctionOnSet(f, S) = f[x] + SumFunctionOnSet(f, S \ {x})
  <1>1. PICK F : SumsOf(F, f, S)
    BY SumsAreAdditive, Zenon
  <1>2. S \in SUBSET S /\ S \ {x} \in SUBSET S
    OBVIOUS
  <1> QED BY <1>1, <1>2, Zenon DEF SumsOf, Additive

LEMMA SumAddsOne ==
    ASSUME NEW S, IsFiniteSet(S), NEW x, x \notin S,
           NEW f, f[x] \in Int, \A y \in S : f[y] \in Int
    PROVE  SumFunctionOnSet(f, S \union {x}) = SumFunctionOnSet(f, S) + f[x]
  <1>1. IsFiniteSet(S \union {x})
    BY FS_AddElement
  <1>2. (S \union {x}) \ {x} = S /\ x \in S \union {x} /\ \A y \in S \union {x} : f[y] \in Int
    OBVIOUS
  <1>3. SumFunctionOnSet(f, S \union {x}) = f[x] + SumFunctionOnSet(f, (S \union {x}) \ {x})
    BY <1>1, <1>2, SumTakesOne, Zenon
  <1>4. SumFunctionOnSet(f, S) \in Int
    BY SumIsInt, Zenon
  <1>5. f[x] + SumFunctionOnSet(f, S) = SumFunctionOnSet(f, S) + f[x]
    BY <1>4, SMT
  <1> QED BY <1>2, <1>3, <1>5, Zenon

(* Two functions that agree on the set, or one that is never larger.       *)
LEMMA SumsCompare ==
    ASSUME NEW S, IsFiniteSet(S), NEW f, NEW g,
           \A x \in S : f[x] \in Int /\ g[x] \in Int /\ f[x] <= g[x]
    PROVE  SumFunctionOnSet(f, S) <= SumFunctionOnSet(g, S)
  <1>1. PICK F : SumsOf(F, f, S)
    BY SumsAreAdditive, Zenon
  <1>2. PICK G : SumsOf(G, g, S)
    BY SumsAreAdditive, Zenon
  <1> DEFINE Claim == {T \in SUBSET S : F[T] <= G[T]}
  <1>3. {} \in Claim
    BY <1>1, <1>2 DEF SumsOf, Additive
  <1>4. ASSUME NEW T \in SUBSET S, NEW x \in S, T \in Claim, x \notin T
        PROVE  T \union {x} \in Claim
    <2>1. /\ T \union {x} \in SUBSET S /\ x \in T \union {x}
          /\ (T \union {x}) \ {x} = T
      BY <1>4
    <2>2. F[T \union {x}] = f[x] + F[T] /\ G[T \union {x}] = g[x] + G[T]
      BY <1>1, <1>2, <2>1 DEF SumsOf, Additive
    <2>3. F[T] \in Int /\ G[T] \in Int /\ f[x] \in Int /\ g[x] \in Int /\ f[x] <= g[x] /\ F[T] <= G[T]
      BY <1>1, <1>2, <1>4 DEF SumsOf, Additive
    <2>4. f[x] + F[T] <= g[x] + G[T]
      BY <2>3
    <2> QED BY <2>1, <2>2, <2>4
  <1> HIDE DEF Claim
  <1>5. S \in Claim
    BY <1>3, <1>4, OneMoreElement, Zenon
  <1> QED BY <1>1, <1>2, <1>5 DEF SumsOf, Claim

LEMMA SumsAgree ==
    ASSUME NEW S, IsFiniteSet(S), NEW f, NEW g,
           \A x \in S : f[x] \in Int /\ g[x] = f[x]
    PROVE  SumFunctionOnSet(g, S) = SumFunctionOnSet(f, S)
  <1>1. /\ \A x \in S : f[x] \in Int /\ g[x] \in Int /\ f[x] <= g[x]
        /\ \A x \in S : g[x] \in Int /\ f[x] \in Int /\ g[x] <= f[x]
    OBVIOUS
  <1>2. SumFunctionOnSet(f, S) <= SumFunctionOnSet(g, S)
    BY <1>1, SumsCompare, Zenon
  <1>3. SumFunctionOnSet(g, S) <= SumFunctionOnSet(f, S)
    BY <1>1, SumsCompare, Zenon
  <1>4. SumFunctionOnSet(f, S) \in Int /\ SumFunctionOnSet(g, S) \in Int
    BY <1>1, SumIsInt, Zenon
  <1> QED BY <1>2, <1>3, <1>4, SMT

(* Of natural numbers: a larger set has a larger sum.                      *)
LEMMA SumIsNat ==
    ASSUME NEW S, IsFiniteSet(S), NEW f, \A x \in S : f[x] \in Nat
    PROVE  SumFunctionOnSet(f, S) \in Nat
  <1> DEFINE zero == [x \in S |-> 0]
  <1>1. \A x \in S : f[x] \in Int /\ zero[x] \in Int /\ zero[x] <= f[x] /\ zero[x] = 0
    BY SMT
  <1> HIDE DEF zero
  <1>2. SumFunctionOnSet(zero, S) <= SumFunctionOnSet(f, S)
    BY <1>1, SumsCompare, Zenon
  <1>3. PICK F : SumsOf(F, zero, S)
    BY <1>1, SumsAreAdditive, Zenon
  <1> DEFINE Claim == {T \in SUBSET S : F[T] = 0}
  <1>4. {} \in Claim
    BY <1>3 DEF SumsOf, Additive
  <1>5. ASSUME NEW T \in SUBSET S, NEW x \in S, T \in Claim, x \notin T
        PROVE  T \union {x} \in Claim
    <2>1. /\ T \union {x} \in SUBSET S /\ x \in T \union {x}
          /\ (T \union {x}) \ {x} = T
      BY <1>5
    <2>2. F[T \union {x}] = zero[x] + F[T]
      BY <1>3, <2>1 DEF SumsOf, Additive
    <2> QED BY <1>1, <1>5, <2>1, <2>2
  <1> HIDE DEF Claim
  <1>6. S \in Claim
    BY <1>4, <1>5, OneMoreElement, Zenon
  <1>7. SumFunctionOnSet(zero, S) = 0
    BY <1>3, <1>6 DEF SumsOf, Claim
  <1>8. SumFunctionOnSet(f, S) \in Int
    BY <1>1, SumIsInt, Zenon
  <1> QED BY <1>2, <1>7, <1>8, SMT

LEMMA SumOfSubset ==
    ASSUME NEW S, IsFiniteSet(S), NEW T \in SUBSET S, NEW f, \A x \in S : f[x] \in Nat
    PROVE  SumFunctionOnSet(f, T) <= SumFunctionOnSet(f, S)
  <1>1. PICK F : SumsOf(F, f, S)
    BY SumsAreAdditive, SMT
  <1> DEFINE Claim == {U \in SUBSET S : F[T] <= F[U \union T]}
  <1>2. {} \in Claim
    BY <1>1 DEF SumsOf, Additive
  <1>3. ASSUME NEW U \in SUBSET S, NEW x \in S, U \in Claim, x \notin U
        PROVE  U \union {x} \in Claim
    <2>1. CASE x \in T
      <3>1. (U \union {x}) \union T = U \union T /\ U \union {x} \in SUBSET S
        BY <2>1
      <3> QED BY <1>3, <3>1
    <2>2. CASE x \notin T
      <3>1. /\ (U \union {x}) \union T \in SUBSET S /\ x \in (U \union {x}) \union T
            /\ ((U \union {x}) \union T) \ {x} = U \union T
            /\ U \union {x} \in SUBSET S /\ U \union T \in SUBSET S
        BY <1>3, <2>2
      <3>2. F[(U \union {x}) \union T] = f[x] + F[U \union T]
        BY <1>1, <3>1 DEF SumsOf, Additive
      <3>3. F[U \union T] \in Int /\ F[T] \in Int /\ f[x] \in Nat /\ F[T] <= F[U \union T]
        BY <1>1, <1>3, <3>1 DEF SumsOf, Additive
      <3>4. F[T] <= f[x] + F[U \union T]
        BY <3>3
      <3> QED BY <3>1, <3>2, <3>4
    <2> QED BY <2>1, <2>2
  <1> HIDE DEF Claim
  <1>4. S \in Claim
    BY <1>2, <1>3, OneMoreElement, Zenon
  <1>5. S \union T = S
    OBVIOUS
  <1> QED BY <1>1, <1>4, <1>5 DEF SumsOf, Claim
=============================================================================
