------------------------------- MODULE RoundLemmas -------------------------------
(***************************************************************************)
(* Induction and iteration in a first-order form: what the proofs about    *)
(* the dependency rounds of Membership and StartAndStop share.             *)
(***************************************************************************)
EXTENDS Integers, FiniteSets, FiniteSetTheorems, WellFoundedInduction, TLAPS

\* Every nonempty set of naturals has a least member.
LEMMA LeastNat ==
  ASSUME NEW T \in SUBSET Nat, T # {}
  PROVE  \E n \in T : \A m \in T : n <= m
  <1>1. PICK n \in T : \A m \in T : ~ (<<m, n>> \in OpToRel(<, Nat))
    BY NatLessThanWellFounded, WFMin
  <1>2. \A m \in T : ~ (m < n)
    BY <1>1 DEF OpToRel
  <1> QED
    BY <1>2

\* Induction over an interval, for a set of its members.
LEMMA IntervalInduction ==
  ASSUME NEW N \in Nat, NEW T, 0 \in T, \A n \in 0 .. N - 1 : n \in T => n + 1 \in T
  PROVE  \A n \in 0 .. N : n \in T
  <1> SUFFICES ASSUME NEW k \in 0 .. N, k \notin T PROVE FALSE
    OBVIOUS
  <1> DEFINE Bad == {n \in 0 .. N : n \notin T}
  <1>1. Bad \in SUBSET Nat /\ Bad # {}
    OBVIOUS
  <1>2. PICK n \in Bad : \A m \in Bad : n <= m
    BY <1>1, LeastNat
  <1>3. n # 0 /\ n - 1 \in 0 .. N - 1 /\ n - 1 \notin Bad
    BY <1>2
  <1>4. n - 1 \in T
    BY <1>3
  <1>5. (n - 1) + 1 \in T
    BY <1>3, <1>4
  <1> QED
    BY <1>2, <1>5

\* g holds what 0 to N rounds of F make of x.
Iterates(g, N, F, x) ==
    DOMAIN g = 0 .. N /\ g[0] = x /\ \A n \in 1 .. N : g[n] = F[g[n - 1]]

\* Where a step function can be applied again and again, N rounds of it exist.
LEMMA IterationExists ==
  ASSUME NEW T, NEW F \in [T -> T], NEW x \in T, NEW N \in Nat
  PROVE  \E g : g \in [0 .. N -> T] /\ Iterates(g, N, F, x)
  <1> DEFINE Rounds(n, g) ==
               g \in [0 .. n -> T] /\ g[0] = x /\ \A m \in 1 .. n : g[m] = F[g[m - 1]]
             Good == {n \in 0 .. N : \E g : Rounds(n, g)}
  <1>1. 0 \in Good
    <2>1. Rounds(0, [n \in 0 .. 0 |-> x])
      OBVIOUS
    <2> HIDE DEF Rounds
    <2> QED
      BY <2>1
  <1>2. ASSUME NEW n \in 0 .. N - 1, n \in Good
        PROVE  n + 1 \in Good
    <2>1. PICK g : Rounds(n, g)
      BY <1>2
    <2> DEFINE h == [m \in 0 .. n + 1 |-> IF m = n + 1 THEN F[g[n]] ELSE g[m]]
    <2>2. h \in [0 .. n + 1 -> T]
      BY <2>1
    <2>3. h[0] = x /\ \A m \in 1 .. n + 1 : h[m] = F[h[m - 1]]
      BY <2>1
    <2>4. Rounds(n + 1, h)
      BY <2>2, <2>3
    <2> HIDE DEF h, Rounds
    <2> QED
      BY <2>4
  <1>3. N \in Good
    <2> HIDE DEF Good
    <2> QED
      BY <1>1, <1>2, IntervalInduction
  <1> QED
    BY <1>3 DEF Iterates

\* A round over the subsets of X that adds nothing.
TakesAway(F, X) ==
    F \in [SUBSET X -> SUBSET X] /\ \A S \in SUBSET X : F[S] \subseteq S

\* Rounds that only take away come to rest, at the latest after as many rounds as
\* there are members.
LEMMA RoundsComeToRest ==
  ASSUME NEW X, IsFiniteSet(X), NEW N \in Nat, Cardinality(X) <= N,
         NEW F, TakesAway(F, X), NEW g \in [0 .. N -> SUBSET X], NEW x, Iterates(g, N, F, x)
  PROVE  F[g[N]] = g[N]
  <1> USE DEF TakesAway
  <1> DEFINE T == {n \in 0 .. N : F[g[n]] = g[n] \/ Cardinality(g[n]) <= N - n}
  <1>1. ASSUME NEW S \in SUBSET X
        PROVE  IsFiniteSet(S) /\ Cardinality(S) \in Nat /\ Cardinality(S) <= Cardinality(X)
    BY FS_Subset, FS_CardinalityType
  <1>2. Cardinality(X) \in Nat
    BY FS_CardinalityType
  <1>3. 0 \in T
    <2>1. g[0] \in SUBSET X
      OBVIOUS
    <2> QED
      BY <1>1, <1>2, <2>1
  <1>4. ASSUME NEW n \in 0 .. N - 1, n \in T
        PROVE  n + 1 \in T
    <2>1. g[n] \in SUBSET X /\ g[n + 1] = F[g[n]] /\ g[n + 1] \subseteq g[n]
      BY DEF Iterates
    <2>2. CASE F[g[n]] = g[n]
      BY <2>1, <2>2
    <2>3. CASE F[g[n]] # g[n] /\ Cardinality(g[n]) <= N - n
      <3>1. Cardinality(g[n + 1]) <= Cardinality(g[n])
            /\ Cardinality(g[n + 1]) # Cardinality(g[n])
        BY <1>1, <2>1, <2>3, FS_Subset
      <3>2. Cardinality(g[n + 1]) \in Nat /\ Cardinality(g[n]) \in Nat
        BY <1>1, <2>1
      <3> QED
        BY <2>3, <3>1, <3>2
    <2> QED
      BY <1>4, <2>2, <2>3
  <1>5. N \in T
    <2> HIDE DEF T
    <2>1. \A n \in 0 .. N : n \in T
      BY <1>3, <1>4, IntervalInduction
    <2> QED
      BY <2>1
  <1>6. CASE Cardinality(g[N]) <= 0
    <2>1. g[N] \in SUBSET X
      OBVIOUS
    <2>2. g[N] = {}
      BY <1>1, <1>6, <2>1, FS_EmptySet
    <2> QED
      BY <2>1, <2>2
  <1> QED
    BY <1>5, <1>6

\* What supports itself is never taken away.
LEMMA RoundsKeep ==
  ASSUME NEW X, NEW N \in Nat, NEW F \in [SUBSET X -> SUBSET X],
         \A S, U \in SUBSET X : S \subseteq U => F[S] \subseteq F[U],
         NEW g \in [0 .. N -> SUBSET X], NEW x, Iterates(g, N, F, x),
         NEW C \in SUBSET X, C \subseteq F[C], C \subseteq g[0]
  PROVE  \A n \in 0 .. N : C \subseteq g[n]
  <1> DEFINE T == {n \in 0 .. N : C \subseteq g[n]}
  <1>1. 0 \in T
    OBVIOUS
  <1>2. ASSUME NEW n \in 0 .. N - 1, n \in T
        PROVE  n + 1 \in T
    <2>1. g[n] \in SUBSET X /\ g[n + 1] = F[g[n]] /\ C \subseteq g[n]
      BY <1>2 DEF Iterates
    <2> QED
      BY <2>1
  <1> HIDE DEF T
  <1>3. \A n \in 0 .. N : n \in T
    BY <1>1, <1>2, IntervalInduction
  <1> QED
    BY <1>3 DEF T

================================================================================
