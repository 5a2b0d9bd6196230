------------------------- MODULE MembershipOrderProofs -------------------------
(***************************************************************************)
(* The order of the dependency graph in Membership, for any finite set of  *)
(* entries under any names and dependencies: what topoSort computes, that  *)
(* a registration keeps the graph free of cycles, and that a start takes   *)
(* the dependencies first and a stop the dependents.                       *)
(***************************************************************************)
EXTENDS MembershipProofs, RoundLemmas

USE DEF regVars, flagVars, runVars, callVars

N == Cardinality(Entries)

LEMMA EntriesCounted == IsFiniteSet(Entries) /\ N \in Nat
  BY MembershipAssumption, FS_CardinalityType DEF N

\* One round of topoSort over S.
Supported(S) == {e \in S : \E d \in S : Name[d] \in Deps(e)}
Round == [S \in SUBSET Entries |-> Supported(S)]

LEMMA RoundType ==
  /\ Round \in [SUBSET Entries -> SUBSET Entries]
  /\ \A S \in SUBSET Entries : Round[S] \subseteq S
  /\ \A S, U \in SUBSET Entries : S \subseteq U => Round[S] \subseteq Round[U]
  BY DEF Round, Supported

\* What the recursion of topoSort computes.
LEMMA RestRounds ==
  ASSUME NEW S \in SUBSET Entries
  PROVE  Rest[S] \in [0 .. N -> SUBSET Entries] /\ Iterates(Rest[S], N, Round, S)
  <1> DEFINE Coded(g) == [n \in 0 .. N |->
                            IF n = 0 THEN S
                            ELSE LET left == g[n - 1] IN
                                 {e \in left : \E d \in left : Name[d] \in Deps(e)}]
             Sets == SUBSET Entries
  <1> USE EntriesCounted
  <1>1. \E g : g \in [0 .. N -> Sets] /\ Iterates(g, N, Round, S)
    <2>1. Round \in [Sets -> Sets] /\ S \in Sets
      BY RoundType
    <2> HIDE DEF Sets
    <2> QED
      BY <2>1, IterationExists
  <1>2. PICK g : g \in [0 .. N -> Sets] /\ Iterates(g, N, Round, S)
    BY <1>1
  <1>3. Rest[S] = CHOOSE h : h = Coded(h)
    BY DEF Rest, N
  <1>4. ASSUME NEW h, NEW n \in 0 .. N, n # 0, h[n - 1] \in Sets
        PROVE  Coded(h)[n] = Round[h[n - 1]]
    BY <1>4 DEF Round, Supported
  <1>5. g = Coded(g)
    <2>1. ASSUME NEW n \in 0 .. N, n # 0
          PROVE  Coded(g)[n] = g[n]
      <3>1. g[n - 1] \in Sets /\ g[n] = Round[g[n - 1]]
        BY <1>2, <2>1 DEF Iterates
      <3> HIDE DEF Coded
      <3> QED
        BY <1>4, <2>1, <3>1
    <2> QED
      BY <1>2, <2>1 DEF Iterates
  <1> HIDE DEF Coded
  <1>6. Rest[S] = Coded(Rest[S])
    BY <1>3, <1>5
  <1> DEFINE R == Rest[S]
             Typed == {n \in 0 .. N : R[n] \in Sets}
  <1>7. R = Coded(R)
    BY <1>6
  <1> HIDE DEF R
  <1>8. R[0] = S /\ DOMAIN R = 0 .. N
    BY <1>7 DEF Coded
  <1>9. ASSUME NEW n \in 0 .. N, n # 0, R[n - 1] \in Sets
        PROVE  R[n] = Round[R[n - 1]]
    BY <1>4, <1>7, <1>9
  <1>10. \A n \in 0 .. N : R[n] \in Sets
    <2>1. 0 \in Typed
      BY <1>8
    <2>2. ASSUME NEW n \in 0 .. N - 1, n \in Typed
          PROVE  n + 1 \in Typed
      <3>1. n + 1 \in 0 .. N /\ n + 1 # 0 /\ R[(n + 1) - 1] \in Sets /\ R[n] \in Sets
        BY <2>2
      <3>2. R[n + 1] = Round[R[n]]
        BY <1>9, <3>1
      <3> QED
        BY <3>1, <3>2, RoundType
    <2> HIDE DEF Typed
    <2>3. \A n \in 0 .. N : n \in Typed
      BY <2>1, <2>2, IntervalInduction
    <2> QED
      BY <2>3 DEF Typed
  <1>11. R \in [0 .. N -> Sets]
    BY <1>7, <1>10 DEF Coded
  <1>12. \A n \in 1 .. N : R[n] = Round[R[n - 1]]
    BY <1>9, <1>10
  <1> QED
    BY <1>8, <1>11, <1>12 DEF R, Iterates

\* A round keeps what has an edge into what the rounds before it have left.
LEMMA RestSteps ==
  ASSUME NEW S \in SUBSET Entries
  PROVE  /\ Rest[S][0] = S
         /\ \A n \in 0 .. N : Rest[S][n] \in SUBSET S
         /\ \A n \in 0 .. N - 1 : Rest[S][n + 1] = Supported(Rest[S][n])
  <1> DEFINE g == Rest[S]
             T == {n \in 0 .. N : g[n] \in SUBSET S}
  <1>1. g \in [0 .. N -> SUBSET Entries] /\ Iterates(g, N, Round, S)
    BY RestRounds
  <1> USE EntriesCounted
  <1> HIDE DEF g
  <1>2. ASSUME NEW n \in 0 .. N - 1
        PROVE  g[n + 1] = Supported(g[n])
    <2>1. g[n] \in SUBSET Entries /\ n + 1 \in 1 .. N /\ (n + 1) - 1 = n
      BY <1>1
    <2>2. g[n + 1] = Round[g[n]]
      BY <1>1, <2>1 DEF Iterates
    <2> QED
      BY <2>1, <2>2 DEF Round
  <1>3. 0 \in T
    BY <1>1 DEF Iterates
  <1>4. ASSUME NEW n \in 0 .. N - 1, n \in T
        PROVE  n + 1 \in T
    BY <1>2, <1>4 DEF Supported
  <1>5. \A n \in 0 .. N : n \in T
    <2> HIDE DEF T
    <2> QED
      BY <1>3, <1>4, IntervalInduction
  <1>6. g[0] = S
    BY <1>1 DEF Iterates
  <1> QED
    BY <1>2, <1>5, <1>6 DEF g

\* A set of entries that depend on each other in circles: no round empties it.
Circular(C) == C # {} /\ \A e \in C : \E d \in C : Name[d] \in Deps(e)

\* topoSort refuses a set for the circles in it, and for nothing else.
LEMMA CyclicMeans ==
  ASSUME NEW S \in SUBSET Entries
  PROVE  Cyclic(S) <=> \E C \in SUBSET S : Circular(C)
  <1> USE EntriesCounted, RoundType
  <1>1. ASSUME Cyclic(S)
        PROVE  \E C \in SUBSET S : Circular(C)
    <2> DEFINE C == Rest[S][N]
    <2>1. Round[C] = C
      <3> DEFINE g == Rest[S]
      <3>1. IsFiniteSet(Entries) /\ N \in Nat /\ Cardinality(Entries) <= N
        BY EntriesCounted DEF N
      <3>4. TakesAway(Round, Entries)
        BY RoundType DEF TakesAway
      <3>2. g \in [0 .. N -> SUBSET Entries] /\ Iterates(g, N, Round, S)
        BY RestRounds
      <3> HIDE DEF g
      <3>3. Round[g[N]] = g[N]
        BY ONLY <3>1, <3>2, <3>4, RoundsComeToRest
      <3> QED
        BY <3>3 DEF g
    <2>4. C \in SUBSET S
      BY RestSteps
    <2>2. C \in SUBSET Entries /\ C # {}
      BY <1>1, <2>4 DEF Cyclic, N
    <2> HIDE DEF C
    <2>5. Circular(C)
      BY <2>1, <2>2 DEF Circular, Round, Supported
    <2> QED
      BY <2>4, <2>5
  <1>2. ASSUME NEW C \in SUBSET S, Circular(C)
        PROVE  Cyclic(S)
    <2>1. C \in SUBSET Entries /\ C \subseteq Round[C] /\ C # {}
      BY <1>2 DEF Circular, Round, Supported
    <2>2. C \subseteq Rest[S][0]
      BY RestSteps
    <2>3. \A n \in 0 .. N : C \subseteq Rest[S][n]
      <3> DEFINE g == Rest[S]
      <3>1. g \in [0 .. N -> SUBSET Entries] /\ Iterates(g, N, Round, S) /\ C \subseteq g[0]
        BY <2>2, RestRounds
      <3> HIDE DEF g
      <3>2. \A n \in 0 .. N : C \subseteq g[n]
        BY <2>1, <3>1, RoundType, RoundsKeep
      <3> QED
        BY <3>2 DEF g
    <2> QED
      BY <2>1, <2>3 DEF Cyclic, N
  <1> QED
    BY <1>1, <1>2

LEMMA PartAcyclic ==
  ASSUME NEW U \in SUBSET Entries, NEW S \in SUBSET U, ~Cyclic(U)
  PROVE  ~Cyclic(S)
  BY CyclicMeans

\* What an entry depends on is on a lower level than the entry.
LEMMA LevelsRise ==
  ASSUME NEW S \in SUBSET Entries, ~Cyclic(S), NEW d \in S, NEW e \in S, Name[d] \in Deps(e)
  PROVE  Level(S, d) < Level(S, e)
  <1> USE EntriesCounted, RestSteps
  <1> DEFINE In(x) == {n \in 1 .. N : x \in Rest[S][n]}
  <1>1. ASSUME NEW n \in 0 .. N - 1, d \in Rest[S][n], e \in Rest[S][n]
        PROVE  e \in Rest[S][n + 1]
    <2>1. Rest[S][n + 1] = Supported(Rest[S][n])
      OBVIOUS
    <2> QED
      BY <1>1, <2>1 DEF Supported
  <1>2. \A n \in 0 .. N : d \in Rest[S][n] => e \in Rest[S][n]
    <2> DEFINE T == {n \in 0 .. N : d \in Rest[S][n] => e \in Rest[S][n]}
    <2>1. 0 \in T
      OBVIOUS
    <2>2. ASSUME NEW n \in 0 .. N - 1, n \in T
          PROVE  n + 1 \in T
      <3>1. Rest[S][n + 1] = Supported(Rest[S][n])
        OBVIOUS
      <3>2. Rest[S][n + 1] \subseteq Rest[S][n]
        BY <3>1 DEF Supported
      <3> QED
        BY <1>1, <2>2, <3>2
    <2> HIDE DEF T
    <2>3. \A n \in 0 .. N : n \in T
      BY <2>1, <2>2, IntervalInduction
    <2> QED
      BY <2>3 DEF T
  <1>3. In(d) \subseteq In(e)
    BY <1>2
  <1>4. PICK m \in 0 .. N : d \notin Rest[S][m] /\ \A n \in 0 .. N : d \notin Rest[S][n] => m <= n
    <2> DEFINE Out == {n \in 0 .. N : d \notin Rest[S][n]}
    <2>1. N \in Out
      BY DEF Cyclic, N
    <2>2. Out \in SUBSET Nat /\ Out # {}
      BY <2>1
    <2> HIDE DEF Out
    <2>3. PICK m \in Out : \A n \in Out : m <= n
      BY <2>2, LeastNat
    <2> QED
      BY <2>3 DEF Out
  <1>5. m # 0 /\ m - 1 \in 0 .. N - 1 /\ d \in Rest[S][m - 1]
    BY <1>4
  <1>6. e \in Rest[S][(m - 1) + 1]
    BY <1>1, <1>2, <1>5
  <1>7. m \in In(e) /\ m \notin In(d)
    BY <1>4, <1>5, <1>6
  <1>8. IsFiniteSet(1 .. N)
    <2>1. 1 \in Int /\ N \in Int
      OBVIOUS
    <2> QED
      BY <2>1, FS_Interval
  <1>9. IsFiniteSet(In(e)) /\ IsFiniteSet(In(d))
    BY <1>8, FS_Subset
  <1> HIDE DEF In
  <1>10. /\ Cardinality(In(d)) \in Nat /\ Cardinality(In(e)) \in Nat
         /\ Cardinality(In(d)) <= Cardinality(In(e))
         /\ Cardinality(In(d)) # Cardinality(In(e))
    BY <1>3, <1>7, <1>9, FS_Subset, FS_CardinalityType
  <1>11. Level(S, d) = Cardinality(In(d)) /\ Level(S, e) = Cardinality(In(e))
    BY DEF Level, Levels, In, N
  <1> QED
    BY <1>10, <1>11

LEMMA LevelType ==
  ASSUME NEW S \in SUBSET Entries, NEW e \in S
  PROVE  Level(S, e) \in 0 .. N
  <1> USE EntriesCounted
  <1> DEFINE In == {n \in 1 .. N : e \in Rest[S][n]}
  <1>1. IsFiniteSet(1 .. N) /\ Cardinality(1 .. N) = N
    BY FS_Interval
  <1>2. In \in SUBSET (1 .. N)
    OBVIOUS
  <1>3. Level(S, e) = Cardinality(In)
    BY DEF Level, Levels, N
  <1> HIDE DEF In
  <1>4. Cardinality(In) \in Nat /\ Cardinality(In) <= N
    BY <1>1, <1>2, FS_Subset, FS_CardinalityType
  <1> QED
    BY <1>3, <1>4

-----------------------------------------------------------------------------
(* What the walk of dependsOnRecursive reaches. *)

\* Reach over the entries U.
ReachIn(U, e) ==
    LET R[n \in 0 .. Cardinality(Entries)] ==
          IF n = 0 THEN Deps(e)
          ELSE LET near == R[n - 1] IN
               near \cup UNION {Deps(d) : d \in {x \in U : Name[x] \in near}}
    IN  R[Cardinality(Entries)]

LEMMA ReachIs == \A e : Reach(e) = ReachIn(registered, e)
  BY DEF Reach, ReachIn

\* Every name anybody depends on, the entries of U that Z names, and one round.
Needed == UNION {Deps(d) : d \in Entries}
Named(U, Z) == {x \in U : Name[x] \in Z}
Nearer(U) == [Z \in SUBSET Needed |-> Z \cup UNION {Deps(d) : d \in Named(U, Z)}]
Closed(U, Z) == \A d \in Named(U, Z) : Deps(d) \subseteq Z

LEMMA NearerType ==
  ASSUME NEW U \in SUBSET Entries
  PROVE  Nearer(U) \in [SUBSET Needed -> SUBSET Needed]
  BY DEF Nearer, Needed, Named

LEMMA ReachRounds ==
  ASSUME NEW U \in SUBSET Entries, NEW e \in Entries
  PROVE  \E g : /\ g \in [0 .. N -> SUBSET Needed] /\ Iterates(g, N, Nearer(U), Deps(e))
                /\ ReachIn(U, e) = g[N]
  <1> DEFINE Coded(g) == [n \in 0 .. N |->
                            IF n = 0 THEN Deps(e)
                            ELSE LET near == g[n - 1] IN
                                 near \cup UNION {Deps(d) : d \in {x \in U : Name[x] \in near}}]
             Sets == SUBSET Needed
             F == Nearer(U)
             S == Deps(e)
  <1> USE EntriesCounted
  <1>0. F \in [Sets -> Sets] /\ S \in Sets
    BY NearerType DEF Needed
  <1>1. \E g : g \in [0 .. N -> Sets] /\ Iterates(g, N, F, S)
    <2> HIDE DEF Sets, F, S
    <2> QED
      BY <1>0, IterationExists
  <1>2. PICK g : g \in [0 .. N -> Sets] /\ Iterates(g, N, F, S)
    BY <1>1
  <1> DEFINE R == CHOOSE h : h = Coded(h)
  <1>3. ReachIn(U, e) = R[N]
    BY DEF ReachIn, N
  <1>4. ASSUME NEW h, NEW n \in 0 .. N, n # 0, h[n - 1] \in Sets
        PROVE  Coded(h)[n] = F[h[n - 1]]
    BY <1>4 DEF Nearer, Named
  <1> HIDE DEF F
  <1>5. g = Coded(g)
    <2>1. ASSUME NEW n \in 0 .. N, n # 0
          PROVE  Coded(g)[n] = g[n]
      <3>1. g[n - 1] \in Sets /\ g[n] = F[g[n - 1]]
        BY <1>2, <2>1 DEF Iterates
      <3> HIDE DEF Coded
      <3> QED
        BY <1>4, <2>1, <3>1
    <2> QED
      BY <1>2, <2>1 DEF Iterates
  <1> HIDE DEF Coded
  <1>6. R = Coded(R)
    BY <1>5
  <1> DEFINE Typed == {n \in 0 .. N : R[n] \in Sets}
  <1> HIDE DEF R
  <1>8. R[0] = S /\ DOMAIN R = 0 .. N
    BY <1>6 DEF Coded
  <1>9. ASSUME NEW n \in 0 .. N, n # 0, R[n - 1] \in Sets
        PROVE  R[n] = F[R[n - 1]]
    BY <1>4, <1>6, <1>9
  <1>10. \A n \in 0 .. N : R[n] \in Sets
    <2>1. 0 \in Typed
      BY <1>0, <1>8
    <2>2. ASSUME NEW n \in 0 .. N - 1, n \in Typed
          PROVE  n + 1 \in Typed
      <3>1. n + 1 \in 0 .. N /\ n + 1 # 0 /\ R[(n + 1) - 1] \in Sets /\ R[n] \in Sets
        BY <2>2
      <3>2. R[n + 1] = F[R[n]]
        BY <1>9, <3>1
      <3> QED
        BY <1>0, <3>1, <3>2
    <2> HIDE DEF Typed
    <2>3. \A n \in 0 .. N : n \in Typed
      BY <2>1, <2>2, IntervalInduction
    <2> QED
      BY <2>3 DEF Typed
  <1>11. R \in [0 .. N -> Sets]
    BY <1>6, <1>10 DEF Coded
  <1>12. \A n \in 1 .. N : R[n] = F[R[n - 1]]
    BY <1>9, <1>10
  <1>13. Iterates(R, N, F, S)
    BY <1>8, <1>12 DEF Iterates
  <1> QED
    BY <1>3, <1>11, <1>13 DEF F

\* The walk takes in the dependencies of all it reaches.
LEMMA ReachClosed ==
  ASSUME NEW U \in SUBSET Entries, NEW e \in Entries
  PROVE  Deps(e) \subseteq ReachIn(U, e) /\ Closed(U, ReachIn(U, e))
  <1>1. PICK g : /\ g \in [0 .. N -> SUBSET Needed] /\ Iterates(g, N, Nearer(U), Deps(e))
                 /\ ReachIn(U, e) = g[N]
    BY ReachRounds
  <1> USE EntriesCounted
  <1>2. ASSUME NEW n \in 0 .. N - 1
        PROVE  g[n + 1] = g[n] \cup UNION {Deps(d) : d \in Named(U, g[n])}
    <2>1. g[n] \in SUBSET Needed /\ n + 1 \in 1 .. N /\ (n + 1) - 1 = n
      BY <1>1
    <2>2. g[n + 1] = Nearer(U)[g[n]]
      BY <1>1, <2>1 DEF Iterates
    <2> QED
      BY <2>1, <2>2 DEF Nearer
  <1>3. \A Z : IsFiniteSet(Named(U, Z)) /\ Cardinality(Named(U, Z)) \in 0 .. N
    <2> SUFFICES ASSUME NEW Z
                 PROVE  IsFiniteSet(Named(U, Z)) /\ Cardinality(Named(U, Z)) \in 0 .. N
      OBVIOUS
    <2>1. Named(U, Z) \in SUBSET Entries
      BY DEF Named
    <2> QED
      BY <2>1, FS_Subset, FS_CardinalityType DEF N
  <1> DEFINE T == {n \in 0 .. N : /\ Deps(e) \subseteq g[n]
                                  /\ Closed(U, g[n]) \/ Cardinality(Named(U, g[n])) >= n + 1}
  <1>4. 0 \in T
    <2>1. g[0] = Deps(e)
      BY <1>1 DEF Iterates
    <2>2. Named(U, g[0]) = {} => Closed(U, g[0])
      BY DEF Closed
    <2>3. Named(U, g[0]) # {} => Cardinality(Named(U, g[0])) >= 1
      BY <1>3, FS_EmptySet
    <2> QED
      BY <2>1, <2>2, <2>3
  <1>5. ASSUME NEW n \in 0 .. N - 1, n \in T
        PROVE  n + 1 \in T
    <2>1. Deps(e) \subseteq g[n + 1] /\ Named(U, g[n]) \subseteq Named(U, g[n + 1])
      BY <1>2, <1>5 DEF Named
    <2>2. CASE Closed(U, g[n])
      <3>1. g[n + 1] = g[n]
        BY <1>2, <2>2 DEF Closed
      <3> QED
        BY <2>1, <2>2, <3>1
    <2>3. CASE Named(U, g[n + 1]) = Named(U, g[n])
      <3>1. Closed(U, g[n + 1])
        BY <1>2, <2>3 DEF Closed
      <3> QED
        BY <2>1, <3>1
    <2>4. CASE /\ Cardinality(Named(U, g[n])) >= n + 1
               /\ Named(U, g[n + 1]) # Named(U, g[n])
      <3>1. /\ Cardinality(Named(U, g[n])) <= Cardinality(Named(U, g[n + 1]))
            /\ Cardinality(Named(U, g[n])) # Cardinality(Named(U, g[n + 1]))
        BY <1>3, <2>1, <2>4, FS_Subset
      <3>2. Cardinality(Named(U, g[n + 1])) >= (n + 1) + 1
        BY <1>3, <2>4, <3>1
      <3> QED
        BY <2>1, <3>2
    <2> QED
      BY <1>5, <2>2, <2>3, <2>4
  <1>6. N \in T
    <2> HIDE DEF T
    <2>1. \A n \in 0 .. N : n \in T
      BY <1>4, <1>5, IntervalInduction
    <2> QED
      BY <2>1
  <1>7. ~ (Cardinality(Named(U, g[N])) >= N + 1)
    BY <1>3
  <1> QED
    BY <1>1, <1>6, <1>7

\* And no more than it must.
LEMMA ReachLeast ==
  ASSUME NEW U \in SUBSET Entries, NEW e \in Entries,
         NEW Z, Deps(e) \subseteq Z, Closed(U, Z)
  PROVE  ReachIn(U, e) \subseteq Z
  <1>1. PICK g : /\ g \in [0 .. N -> SUBSET Needed] /\ Iterates(g, N, Nearer(U), Deps(e))
                 /\ ReachIn(U, e) = g[N]
    BY ReachRounds
  <1> USE EntriesCounted
  <1> DEFINE T == {n \in 0 .. N : g[n] \subseteq Z}
  <1>2. 0 \in T
    BY <1>1 DEF Iterates
  <1>3. ASSUME NEW n \in 0 .. N - 1, n \in T
        PROVE  n + 1 \in T
    <2>1. g[n] \in SUBSET Needed /\ n + 1 \in 1 .. N /\ (n + 1) - 1 = n /\ g[n] \subseteq Z
      BY <1>1, <1>3
    <2>2. g[n + 1] = Nearer(U)[g[n]]
      BY <1>1, <2>1 DEF Iterates
    <2>3. g[n + 1] = g[n] \cup UNION {Deps(d) : d \in Named(U, g[n])}
      BY <2>1, <2>2 DEF Nearer
    <2>4. \A d \in Named(U, g[n]) : Deps(d) \subseteq Z
      BY <2>1 DEF Closed, Named
    <2> QED
      BY <2>1, <2>3, <2>4
  <1>4. \A n \in 0 .. N : n \in T
    <2> HIDE DEF T
    <2> QED
      BY <1>2, <1>3, IntervalInduction
  <1> QED
    BY <1>1, <1>4

LEMMA ReachMonotone ==
  ASSUME NEW U \in SUBSET Entries, NEW V \in SUBSET U, NEW e \in Entries
  PROVE  ReachIn(V, e) \subseteq ReachIn(U, e)
  <1>1. Closed(V, ReachIn(U, e)) /\ Deps(e) \subseteq ReachIn(U, e)
    BY ReachClosed DEF Closed, Named
  <1> QED
    BY <1>1, ReachLeast

\* An entry that cannot reach itself closes no circle.
LEMMA AddAcyclic ==
  ASSUME NEW U \in SUBSET Entries, NEW e \in Entries, ~Cyclic(U), Name[e] \notin ReachIn(U, e)
  PROVE  ~Cyclic(U \cup {e})
  <1> SUFFICES ASSUME Cyclic(U \cup {e}) PROVE FALSE
    OBVIOUS
  <1>1. PICK C \in SUBSET (U \cup {e}) : Circular(C)
    BY CyclicMeans
  <1> DEFINE D == {x \in C \cap U : Name[x] \in ReachIn(U, e)}
  <1>2. Deps(e) \subseteq ReachIn(U, e) /\ Closed(U, ReachIn(U, e))
    BY ReachClosed
  <1>3. ~ \E K \in SUBSET U : Circular(K)
    BY CyclicMeans
  <1>4. e \in C
    BY <1>1, <1>3
  <1>5. D # {}
    <2>1. PICK d \in C : Name[d] \in Deps(e)
      BY <1>1, <1>4 DEF Circular
    <2>2. d \in U /\ Name[d] \in ReachIn(U, e)
      BY <1>2, <2>1
    <2> QED
      BY <2>1, <2>2
  <1>6. ASSUME NEW x \in D
        PROVE  \E d \in D : Name[d] \in Deps(x)
    <2>1. PICK d \in C : Name[d] \in Deps(x)
      BY <1>1 DEF Circular
    <2>2. Name[d] \in ReachIn(U, e)
      BY <1>2, <2>1 DEF Closed, Named
    <2> QED
      BY <2>1, <2>2
  <1>7. Circular(D)
    BY <1>5, <1>6 DEF Circular
  <1> QED
    BY <1>3, <1>7

-----------------------------------------------------------------------------
(* Whose turn it is. *)

\* A call that keeps inside a set it can sort.
Sorted(c) == call[c].todo \cup call[c].started \subseteq call[c].set /\ ~Cyclic(call[c].set)

LEMMA NothingAcyclic == ~Cyclic({}) /\ NoCall.set = {} /\ NoCall.todo = {} /\ NoCall.started = {}
  BY CyclicMeans DEF Circular, NoCall

\* What an entry of a sorted set needs of it is on a lower level.
LEMMA NeedsAreLower ==
  ASSUME NEW S \in SUBSET Entries, ~Cyclic(S), NEW e \in S, NEW d \in Needs(S, e)
  PROVE  d \in S /\ Level(S, d) < Level(S, e)
  <1> DEFINE C == {x \in S : Level(S, x) < Level(S, e)}
  <1>1. \A x \in S : Level(S, x) \in Nat
    BY LevelType, EntriesCounted
  <1>2. ASSUME NEW x \in C \cup {e}, NEW y \in S, Name[y] \in Deps(x)
        PROVE  y \in C
    <2>1. Level(S, y) < Level(S, x)
      BY <1>2, LevelsRise
    <2>2. x = e \/ Level(S, x) < Level(S, e)
      OBVIOUS
    <2> QED
      BY <1>1, <2>1, <2>2
  <1>3. C \in SUBSET S
    OBVIOUS
  <1>4. d \in S /\ d \in C
    <2> HIDE DEF C
    <2> QED
      BY <1>2, <1>3 DEF Needs
  <1> QED
    BY <1>4

LEMMA FirstNeedsNothing ==
  ASSUME TypeOK, NEW c \in Callers, Sorted(c), NEW e \in FirstLevel(call[c])
  PROVE  e \in call[c].todo /\ call[c].todo \cap Needs(call[c].set, e) = {}
  <1> DEFINE S == call[c].set
  <1>1. /\ e \in call[c].todo /\ \A d \in call[c].todo : Level(S, e) <= Level(S, d)
        /\ call[c].todo \subseteq S /\ ~Cyclic(S)
    BY DEF FirstLevel, Sorted
  <1>2. S \in SUBSET Entries
    BY DEF TypeOK, CallRecords
  <1> HIDE DEF S
  <1>3. ASSUME NEW d \in call[c].todo, d \in Needs(S, e)
        PROVE  FALSE
    <2>1. Level(S, d) < Level(S, e) /\ Level(S, e) <= Level(S, d)
      BY <1>1, <1>2, <1>3, NeedsAreLower
    <2>2. Level(S, d) \in Nat /\ Level(S, e) \in Nat
      BY <1>1, <1>2, LevelType, EntriesCounted
    <2> QED
      BY <2>1, <2>2
  <1> QED
    BY <1>1, <1>3 DEF S

LEMMA NextHasNoDependent ==
  ASSUME TypeOK, NEW c \in Callers, Sorted(c), NEW e \in StopNext(call[c])
  PROVE  e \in call[c].todo /\ \A d \in call[c].todo : Name[e] \notin Hard[d]
  <1> DEFINE S == call[c].set
  <1>1. call[c].todo \subseteq S /\ ~Cyclic(S) /\ e \in call[c].todo
    BY DEF StopNext, Sorted
  <1>2. S \in SUBSET Entries
    BY DEF TypeOK, CallRecords
  <1>3. CASE call[c].kind \in {"stop", "unregister"}
    BY <1>1, <1>3 DEF StopNext
  <1>4. CASE call[c].kind \notin {"stop", "unregister"}
    <2>1. \A d \in call[c].todo : Level(S, e) >= Level(S, d)
      BY <1>1, <1>4 DEF StopNext
    <2> HIDE DEF S
    <2>2. ASSUME NEW d \in call[c].todo, Name[e] \in Hard[d]
          PROVE  FALSE
      <3>1. Level(S, e) < Level(S, d) /\ Level(S, e) >= Level(S, d)
        BY <1>1, <1>2, <2>1, <2>2, LevelsRise DEF Deps
      <3>2. Level(S, d) \in Nat /\ Level(S, e) \in Nat
        BY <1>1, <1>2, LevelType, EntriesCounted
      <3> QED
        BY <3>1, <3>2
    <2> QED
      BY <1>1, <2>2
  <1> QED
    BY <1>3, <1>4

-----------------------------------------------------------------------------
(* What a call carries with it from step to step. *)

Carried(c) ==
    /\ call'[c].set = call[c].set
    /\ call'[c].todo \cup call'[c].started \subseteq call[c].todo \cup call[c].started

LEMMA OutcomeCarries ==
  ASSUME TypeOK, NEW c \in Callers, NEW e \in call[c].todo, Started(c, e) \/ Failed(c)
  PROVE  Carried(c) /\ Others(c) /\ call'[c].entry = None /\ pc'[c] \in {"start", "rollback"}
  <1>1. call[c] \in CallRecords /\ e \in Entries
    BY DEF TypeOK, CallRecords
  <1>2. CASE Started(c, e)
    <2> DEFINE k == [call[c] EXCEPT !.entry = None, !.todo = @ \ {e}, !.started = @ \cup {e}]
    <2>1. k \in CallRecords
      BY <1>1 DEF CallRecords
    <2>2. /\ k.entry = None /\ k.set = call[c].set /\ k.todo = call[c].todo \ {e}
          /\ k.started = call[c].started \cup {e}
      BY <1>1 DEF CallRecords
    <2>3. Begin(c, "start", k)
      BY <1>2 DEF Started
    <2> HIDE DEF k
    <2>4. call'[c] = k /\ pc'[c] = "start" /\ Others(c)
      BY <2>1, <2>3, BeginMove DEF Pcs
    <2> QED
      BY <2>2, <2>4 DEF Carried
  <1>3. CASE Failed(c)
    <2> DEFINE k == [call[c] EXCEPT !.entry = None, !.todo = call[c].started]
    <2>1. k \in CallRecords
      BY <1>1 DEF CallRecords
    <2>2. /\ k.entry = None /\ k.set = call[c].set /\ k.todo = call[c].started
          /\ k.started = call[c].started
      BY <1>1 DEF CallRecords
    <2>3. Begin(c, "rollback", k)
      BY <1>3 DEF Failed
    <2> HIDE DEF k
    <2>4. call'[c] = k /\ pc'[c] = "rollback" /\ Others(c)
      BY <2>1, <2>3, BeginMove DEF Pcs
    <2> QED
      BY <2>2, <2>4 DEF Carried
  <1> QED
    BY <1>2, <1>3

\* Only StartEntry and LaunchGate lead to a launch, and only BeginStop to a stop.
LEMMA ProceedCarries ==
  ASSUME Inv, NEW c \in Callers, Proceed(c)
  PROVE  /\ Others(c)
         /\ call'[c] = NoCall \/ Carried(c)
         /\ \/ StartEntry(c) \/ LaunchGate(c) \/ BeginStop(c)
            \/ pc'[c] \notin {"launch", "gate"} /\ call'[c].entry = None
            \/ pc'[c] = "release"
         /\ pc'[c] # "commit"
  <1>1. TypeOK
    BY DEF Inv
  <1>2. ASSUME CommitRegister(c) \/ FinishStart(c) \/ Release(c)
        PROVE  Others(c) /\ call'[c] = NoCall /\ pc'[c] = "idle" /\ call'[c].entry = None
    <2>1. Return(c)
      BY <1>2 DEF CommitRegister, FinishStart, Release
    <2> QED
      BY <1>1, <2>1, ReturnMove DEF NoCall
  <1>3. ASSUME RefuseEntry(c) \/ Launch(c) \/ EndGate(c)
        PROVE  Carried(c) /\ Others(c) /\ call'[c].entry = None
               /\ pc'[c] \in {"start", "rollback"}
    <2>1. PICK e \in call[c].todo : Started(c, e) \/ Failed(c)
      <3>1. CASE RefuseEntry(c)
        BY <3>1 DEF RefuseEntry, FirstLevel
      <3>2. CASE Launch(c) \/ EndGate(c)
        BY <3>2, Launching DEF Launch, EndGate
      <3> QED
        BY <1>3, <3>1, <3>2
    <2> QED
      BY <1>1, <2>1, OutcomeCarries
  <1>4. ASSUME StartEntry(c)
        PROVE  Others(c) /\ Carried(c) /\ pc'[c] = "launch"
    <2>1. PICK e \in FirstLevel(call[c]) : Begin(c, "launch", [call[c] EXCEPT !.entry = e])
      BY <1>4 DEF StartEntry
    <2> DEFINE k == [call[c] EXCEPT !.entry = e]
    <2>2. k \in CallRecords /\ k.set = call[c].set /\ k.todo = call[c].todo
          /\ k.started = call[c].started
      BY <1>1 DEF TypeOK, CallRecords, FirstLevel
    <2>3. Begin(c, "launch", k)
      BY <2>1
    <2> HIDE DEF k
    <2> QED
      BY <1>1, <2>2, <2>3, BeginMove DEF Carried, Pcs
  <1>5. ASSUME LaunchGate(c) \/ Remove(c) \/ KeepRegistered(c)
        PROVE  /\ Others(c) /\ Carried(c) /\ pc'[c] \in {"gate", "release"}
               /\ LaunchGate(c) \/ pc'[c] = "release"
    BY <1>1, <1>5, GotoMove DEF LaunchGate, Remove, KeepRegistered, Carried, Pcs
  <1>6. ASSUME SkipEntry(c)
        PROVE  /\ Others(c) /\ Carried(c) /\ call'[c].entry = None
               /\ pc'[c] \in {"stop", "rollback"}
    <2>1. PICK e \in StopNext(call[c]) : call' = [call EXCEPT ![c].todo = @ \ {e}]
      BY <1>6 DEF SkipEntry
    <2>2. /\ e \in Entries /\ UNCHANGED pc /\ pc[c] = "stop" /\ call[c].entry = None
      BY <1>1, <1>6, StopNextType DEF SkipEntry
    <2>3. /\ call'[c].entry = None /\ call'[c].todo = call[c].todo \ {e}
          /\ SameClaim(c) /\ Others(c)
      BY <1>1, <2>1, <2>2, SkipMove
    <2>4. call'[c].set = call[c].set /\ call'[c].started = call[c].started
      BY <2>3 DEF SameClaim
    <2>5. Carried(c)
      BY <2>3, <2>4 DEF Carried
    <2>6. pc'[c] \in {"stop", "rollback"}
      BY <2>2
    <2> QED
      BY <2>3, <2>5, <2>6
  <1>7. ASSUME BeginStop(c)
        PROVE  Others(c) /\ Carried(c) /\ pc'[c] \in {"stop", "rollback"}
    <2>1. PICK e \in StopNext(call[c]) : call' = [call EXCEPT ![c].entry = e]
      BY <1>7 DEF BeginStop
    <2>2. e \in Entries /\ UNCHANGED pc /\ pc[c] \in {"stop", "rollback"}
      BY <1>1, <1>7, StopNextType DEF BeginStop
    <2>3. call'[c].todo = call[c].todo /\ SameClaim(c) /\ Others(c)
      BY <1>1, <2>1, <2>2, TakeMove
    <2>4. Carried(c)
      BY <2>3 DEF Carried, SameClaim
    <2>5. pc'[c] \in {"stop", "rollback"}
      BY <2>2
    <2> QED
      BY <2>3, <2>4, <2>5
  <1>8. ASSUME EndStop(c) \/ GiveUpStop(c)
        PROVE  /\ Others(c) /\ Carried(c) /\ call'[c].entry = None
               /\ pc'[c] \in {"stop", "rollback"}
    <2> DEFINE e == call[c].entry
    <2>1. /\ call' = [call EXCEPT ![c].entry = None, ![c].todo = @ \ {e}]
          /\ UNCHANGED pc /\ pc[c] \in {"stop", "rollback"}
      BY <1>8 DEF EndStop, GiveUpStop
    <2> HIDE DEF e
    <2>2. /\ call'[c].entry = None /\ call'[c].todo = call[c].todo \ {e}
          /\ SameClaim(c) /\ Others(c)
      BY <1>1, <2>1, DoneMove
    <2>3. call'[c].set = call[c].set /\ call'[c].started = call[c].started
      BY <2>2 DEF SameClaim
    <2>4. Carried(c)
      BY <2>2, <2>3 DEF Carried
    <2>5. pc'[c] \in {"stop", "rollback"}
      BY <2>1
    <2> QED
      BY <2>2, <2>4, <2>5
  <1> QED
    BY <1>2, <1>3, <1>4, <1>5, <1>6, <1>7, <1>8 DEF Proceed

\* A call comes in with a set of registered entries.
Came(c, k) ==
    /\ call'[c] = k /\ Others(c) /\ k.started = {} /\ k.todo \subseteq k.set
    /\ k.set \in SUBSET registered /\ UNCHANGED registered

LEMMA ComesIn ==
  ASSUME TypeOK, NEW c \in Callers, NEW p \in Pcs, NEW k \in CallRecords, Begin(c, p, k),
         k.started = {}, k.todo \subseteq k.set, k.set \in SUBSET registered,
         UNCHANGED registered
  PROVE  Came(c, k) /\ pc'[c] = p
  BY BeginMove DEF Came

LEMMA RegistrarComesIn ==
  ASSUME Inv, NEW c \in Registrars, Register(c)
  PROVE  \E k \in CallRecords : /\ Came(c, k) /\ k.set = {} /\ pc'[c] = "commit"
                                /\ k.entry \in Entries /\ Name[k.entry] \notin Reach(k.entry)
  <1>1. PICK e \in Entries \ (registered \cup removed) :
          /\ Name[e] \notin Reach(e)
          /\ Begin(c, "commit", [NoCall EXCEPT !.kind = "register", !.entry = e])
    BY DEF Register, Acceptable
  <1> DEFINE k == [NoCall EXCEPT !.kind = "register", !.entry = e]
  <1>2. k \in CallRecords /\ k.entry = e /\ k.set = {} /\ k.todo = {} /\ k.started = {}
    BY DEF NoCall, CallRecords
  <1>3. Begin(c, "commit", k)
    BY <1>1
  <1> HIDE DEF k
  <1>4. Came(c, k) /\ pc'[c] = "commit"
    BY <1>2, <1>3, Roles, ComesIn DEF Inv, Register, Pcs
  <1> QED
    BY <1>1, <1>2, <1>4

LEMMA StarterComesIn ==
  ASSUME Inv, NEW c \in Starters, StartService(c) \/ StartGroup(c)
  PROVE  \E k \in CallRecords : /\ Came(c, k) /\ k.entry = None /\ pc'[c] = "start"
                                /\ ~Cyclic(k.set) \/ \E e \in registered : k.set = {e}
  <1>1. CASE StartService(c)
    <2>1. PICK e \in registered :
            Begin(c, "start", [NoCall EXCEPT !.kind = "start", !.target = e,
                                 !.set = {e}, !.reserved = {e}, !.todo = {e}])
      BY <1>1 DEF StartService
    <2> DEFINE k == [NoCall EXCEPT !.kind = "start", !.target = e,
                                   !.set = {e}, !.reserved = {e}, !.todo = {e}]
    <2>2. e \in Entries
      BY DEF Inv, TypeOK
    <2>3. /\ k \in CallRecords /\ k.entry = None /\ k.set = {e} /\ k.todo = {e}
          /\ k.started = {}
      BY <2>2 DEF NoCall, CallRecords
    <2>4. Begin(c, "start", k)
      BY <2>1
    <2> HIDE DEF k
    <2>5. Came(c, k) /\ pc'[c] = "start"
      BY <1>1, <2>3, <2>4, Roles, ComesIn DEF Inv, StartService, Pcs
    <2> QED
      BY <2>3, <2>5
  <1>2. CASE StartGroup(c)
    <2> DEFINE members == Grouped \cap registered
               mine    == {e \in members : Startable(e)}
               k       == [NoCall EXCEPT !.kind = "startgroup", !.set = members,
                                         !.reserved = mine, !.todo = mine]
    <2>1. ~Cyclic(members) /\ Begin(c, "start", k)
      BY <1>2 DEF StartGroup
    <2>2. members \in SUBSET registered /\ mine \in SUBSET members /\ members \in SUBSET Entries
      BY DEF Inv, TypeOK
    <2> HIDE DEF members, mine
    <2>3. /\ k \in CallRecords /\ k.entry = None /\ k.set = members /\ k.todo = mine
          /\ k.started = {}
      BY <2>2 DEF NoCall, CallRecords
    <2> HIDE DEF k
    <2>4. Came(c, k) /\ pc'[c] = "start"
      BY <1>2, <2>1, <2>2, <2>3, Roles, ComesIn DEF Inv, StartGroup, Pcs
    <2> QED
      BY <2>1, <2>3, <2>4
  <1> QED
    BY <1>1, <1>2

LEMMA StopperSets ==
  ASSUME Inv, NEW c \in Stoppers, NEW S \in SUBSET registered, UNCHANGED registered,
         NEW k, Begin(c, "stop", k), k \in CallRecords,
         k.entry = None, k.set = S, k.todo = S, k.started = {}
  PROVE  \E r \in CallRecords : Came(c, r) /\ r.entry = None /\ pc'[c] = "stop"
  <1>1. Came(c, k) /\ pc'[c] = "stop"
    BY Roles, ComesIn DEF Inv, Pcs
  <1> QED
    BY <1>1

LEMMA StopperComesIn ==
  ASSUME Inv, NEW c \in Stoppers, TearDown(c) \/ StopGroup(c) \/ UnregisterGroup(c)
  PROVE  \E k \in CallRecords : Came(c, k) /\ k.entry = None /\ pc'[c] = "stop"
  <1> DEFINE Comes == \E k \in CallRecords : Came(c, k) /\ k.entry = None /\ pc'[c] = "stop"
  <1>1. ASSUME TearDown(c)
        PROVE  Comes
    <2>1. PICK kind \in {"stop", "unregister"}, m \in Modes, e \in registered :
            LET S == IF m = "cascade" THEN WithDependents({e}) ELSE {e} IN
            Begin(c, "stop", [NoCall EXCEPT !.kind = kind,
                                !.target = e, !.set = S, !.reserved = S, !.todo = S])
      BY <1>1 DEF TearDown
    <2> DEFINE S == IF m = "cascade" THEN WithDependents({e}) ELSE {e}
               k == [NoCall EXCEPT !.kind = kind, !.target = e, !.set = S,
                                   !.reserved = S, !.todo = S]
    <2>2. S \in SUBSET registered
      BY DependentsRegistered
    <2>3. UNCHANGED registered /\ Begin(c, "stop", k)
      BY <1>1, <2>1 DEF TearDown
    <2>4. e \in Entries /\ S \in SUBSET Entries
      BY <2>2 DEF Inv, TypeOK
    <2> HIDE DEF S
    <2>5. k \in CallRecords /\ k.entry = None /\ k.set = S /\ k.todo = S /\ k.started = {}
      BY <2>4 DEF NoCall, CallRecords
    <2> HIDE DEF k
    <2> QED
      BY <2>2, <2>3, <2>5, StopperSets
  <1>2. ASSUME StopGroup(c)
        PROVE  Comes
    <2> DEFINE S == {e \in (Grouped \cap registered) \ Gates : ~Reserved(e)}
               k == [NoCall EXCEPT !.kind = "stopgroup", !.set = S, !.reserved = S, !.todo = S]
    <2>1. UNCHANGED registered /\ Begin(c, "stop", k)
      BY <1>2 DEF StopGroup
    <2>2. S \in SUBSET registered
      OBVIOUS
    <2>3. S \in SUBSET Entries
      BY DEF Inv, TypeOK
    <2> HIDE DEF S
    <2>4. k \in CallRecords /\ k.entry = None /\ k.set = S /\ k.todo = S /\ k.started = {}
      BY <2>3 DEF NoCall, CallRecords
    <2> HIDE DEF k
    <2> QED
      BY <2>1, <2>2, <2>4, StopperSets
  <1>3. ASSUME UnregisterGroup(c)
        PROVE  Comes
    <2> DEFINE members == Grouped \cap registered
    <2>1. PICK m \in Modes :
            LET S == IF m = "cascade" THEN WithDependents(members) ELSE members IN
            Begin(c, "stop", [NoCall EXCEPT !.kind = "unregistergroup", !.set = S,
                                            !.reserved = S, !.todo = S])
      BY <1>3 DEF UnregisterGroup
    <2> DEFINE S == IF m = "cascade" THEN WithDependents(members) ELSE members
               k == [NoCall EXCEPT !.kind = "unregistergroup", !.set = S,
                                   !.reserved = S, !.todo = S]
    <2>2. S \in SUBSET registered
      BY DependentsRegistered
    <2>3. UNCHANGED registered /\ Begin(c, "stop", k)
      BY <1>3, <2>1 DEF UnregisterGroup
    <2>4. S \in SUBSET Entries
      BY <2>2 DEF Inv, TypeOK
    <2> HIDE DEF S
    <2>5. k \in CallRecords /\ k.entry = None /\ k.set = S /\ k.todo = S /\ k.started = {}
      BY <2>4 DEF NoCall, CallRecords
    <2> HIDE DEF k
    <2> QED
      BY <2>2, <2>3, <2>5, StopperSets
  <1> QED
    BY <1>1, <1>2, <1>3

-----------------------------------------------------------------------------
(* The orders of the starts, however the registrars race. *)

LaunchedAcyclic == ~Cyclic(Launched)

\* Nobody depends on its own name, and a starter keeps inside a set it can sort
\* and has nothing left to start for later that the entry in hand needs.
StartOrder(c) ==
    /\ Sorted(c)
    /\ pc[c] \in {"launch", "gate"} =>
         call[c].todo \cap Needs(call[c].set, call[c].entry) = {}

SelfFree ==
    /\ \A e \in registered : Name[e] \notin Deps(e)
    /\ \A c \in Registrars : pc[c] = "commit" =>
         Name[call[c].entry] \notin Deps(call[c].entry)

StartInv == Inv /\ SelfFree /\ \A c \in Starters : StartOrder(c)

LEMMA SingleAcyclic ==
  ASSUME NEW e \in Entries, Name[e] \notin Deps(e)
  PROVE  ~Cyclic({e})
  BY CyclicMeans DEF Circular

LEMMA StartInvInit ==
  ASSUME LaunchedAcyclic
  PROVE  Init => StartInv
  <1> SUFFICES ASSUME Init PROVE StartInv
    OBVIOUS
  <1>1. Inv /\ registered = Launched /\ \A c \in Callers : pc[c] = "idle" /\ call[c] = NoCall
    BY InvInit DEF Init
  <1>2. ASSUME NEW e \in registered
        PROVE  Name[e] \notin Deps(e)
    <2>1. {e} \in SUBSET registered /\ registered \in SUBSET Entries
      BY <1>1 DEF Inv, TypeOK
    <2> QED
      BY <1>1, <2>1, CyclicMeans DEF LaunchedAcyclic, Circular
  <1>3. SelfFree
    BY <1>1, <1>2, Roles DEF SelfFree
  <1>4. \A c \in Starters : StartOrder(c)
    BY <1>1, Roles, NothingAcyclic DEF StartOrder, Sorted
  <1> QED
    BY <1>1, <1>3, <1>4 DEF StartInv

\* A step of somebody else.
LEMMA StartOrderFrame ==
  ASSUME \A c \in Starters : StartOrder(c), NEW d \in Callers, Others(d),
         d \in Starters => StartOrder(d)'
  PROVE  \A c \in Starters : StartOrder(c)'
  BY Roles DEF StartOrder, Sorted, Others

LEMMA SelfFreeFrame ==
  ASSUME SelfFree, NEW d \in Callers, Others(d), registered' \subseteq registered,
         pc'[d] = "commit" => Name[call'[d].entry] \notin Deps(call'[d].entry)
  PROVE  SelfFree'
  BY Roles DEF SelfFree, Others

LEMMA ClaimKeepsStartInv ==
  ASSUME StartInv, NEW c \in Callers, Claim(c), Inv'
  PROVE  StartInv'
  <1>0. Inv
    BY DEF StartInv
  <1>1. CASE c \in Registrars /\ Register(c)
    <2>1. PICK k \in CallRecords : Came(c, k) /\ k.entry \in Entries
                                     /\ Name[k.entry] \notin Reach(k.entry)
      BY <1>0, <1>1, RegistrarComesIn
    <2>2. Name[k.entry] \notin Deps(k.entry)
      <3>1. registered \in SUBSET Entries
        BY <1>0 DEF Inv, TypeOK
      <3> QED
        BY <2>1, <3>1, ReachIs, ReachClosed
    <2>3. SelfFree'
      BY <2>1, <2>2, SelfFreeFrame DEF Came, StartInv
    <2>4. \A d \in Starters : StartOrder(d)'
      BY <1>1, <2>1, Roles, StartOrderFrame DEF Came, StartInv
    <2> QED
      BY <2>3, <2>4 DEF StartInv
  <1>2. CASE c \in Starters /\ (StartService(c) \/ StartGroup(c))
    <2>1. PICK k \in CallRecords : /\ Came(c, k) /\ k.entry = None /\ pc'[c] = "start"
                                   /\ ~Cyclic(k.set) \/ \E e \in registered : k.set = {e}
      BY <1>0, <1>2, StarterComesIn
    <2>2. registered \in SUBSET Entries
      BY <1>0 DEF Inv, TypeOK
    <2>3. ~Cyclic(k.set)
      BY <2>1, <2>2, SingleAcyclic DEF StartInv, SelfFree
    <2>4. StartOrder(c)'
      BY <2>1, <2>3 DEF StartOrder, Sorted, Came
    <2>5. SelfFree'
      BY <2>1, SelfFreeFrame DEF Came, StartInv
    <2>6. \A d \in Starters : StartOrder(d)'
      BY <2>1, <2>4, StartOrderFrame DEF Came, StartInv
    <2> QED
      BY <2>5, <2>6 DEF StartInv
  <1>3. CASE c \in Stoppers /\ (TearDown(c) \/ StopGroup(c) \/ UnregisterGroup(c))
    <2>1. PICK k \in CallRecords : Came(c, k) /\ pc'[c] = "stop"
      BY <1>0, <1>3, StopperComesIn
    <2>2. SelfFree'
      BY <2>1, SelfFreeFrame DEF Came, StartInv
    <2>3. \A d \in Starters : StartOrder(d)'
      BY <1>3, <2>1, Roles, StartOrderFrame DEF Came, StartInv
    <2> QED
      BY <2>2, <2>3 DEF StartInv
  <1> QED
    BY <1>1, <1>2, <1>3 DEF Claim

LEMMA SortedCarried ==
  ASSUME TypeOK, NEW c \in Callers, Sorted(c), call'[c] = NoCall \/ Carried(c)
  PROVE  Sorted(c)'
  BY NothingAcyclic DEF Sorted, Carried

LEMMA ProceedRegisters ==
  ASSUME NEW c \in Callers, Proceed(c), ~CommitRegister(c)
  PROVE  registered' \subseteq registered
  BY DEF Proceed, RefuseEntry, StartEntry, Launch, LaunchGate, EndGate, FinishStart, SkipEntry,
     BeginStop, EndStop, GiveUpStop, Remove, KeepRegistered, Release

LEMMA ProceedKeepsStartInv ==
  ASSUME StartInv, NEW c \in Callers, Proceed(c), Inv'
  PROVE  StartInv'
  <1>0. Inv /\ TypeOK
    BY DEF StartInv, Inv
  <1>1. /\ Others(c)
        /\ call'[c] = NoCall \/ Carried(c)
        /\ \/ StartEntry(c) \/ LaunchGate(c) \/ BeginStop(c)
           \/ pc'[c] \notin {"launch", "gate"}
        /\ pc'[c] # "commit"
    BY <1>0, ProceedCarries
  <1>2. SelfFree'
    <2>1. CASE CommitRegister(c)
      <3>1. c \in Registrars /\ pc[c] = "commit"
        BY <1>0, <2>1 DEF Inv, Shape, CallShape, CommitRegister
      <3>2. registered' \subseteq registered \cup {call[c].entry}
        BY <2>1 DEF CommitRegister
      <3> QED
        BY <1>1, <3>1, <3>2, Roles DEF StartInv, SelfFree, Others
    <2>2. CASE ~CommitRegister(c)
      BY <1>1, <2>2, ProceedRegisters, SelfFreeFrame DEF StartInv
    <2> QED
      BY <2>1, <2>2
  <1>3. ASSUME c \in Starters
        PROVE  StartOrder(c)'
    <2>1. Sorted(c) /\ Sorted(c)'
      BY <1>0, <1>1, <1>3, SortedCarried DEF StartInv, StartOrder
    <2>2. CASE StartEntry(c)
      <3>1. PICK e \in FirstLevel(call[c]) : Begin(c, "launch", [call[c] EXCEPT !.entry = e])
        BY <2>2 DEF StartEntry
      <3> DEFINE k == [call[c] EXCEPT !.entry = e]
      <3>2. e \in call[c].todo /\ call[c].todo \cap Needs(call[c].set, e) = {}
        BY <1>0, <2>1, FirstNeedsNothing
      <3>3. /\ k \in CallRecords /\ k.todo = call[c].todo /\ k.set = call[c].set
            /\ k.entry = e
        BY <1>0, <3>2 DEF TypeOK, CallRecords
      <3>4. Begin(c, "launch", k)
        BY <3>1
      <3> HIDE DEF k
      <3>5. call'[c] = k
        BY <1>0, <3>3, <3>4, BeginMove DEF Pcs
      <3> QED
        BY <2>1, <3>2, <3>3, <3>5 DEF StartOrder
    <2>3. CASE LaunchGate(c)
      <3>1. call' = call /\ pc[c] = "launch"
        BY <2>3 DEF LaunchGate
      <3> QED
        BY <1>3, <2>1, <3>1 DEF StartInv, StartOrder
    <2>4. CASE BeginStop(c)
      <3>1. pc'[c] \notin {"launch", "gate"}
        BY <2>4 DEF BeginStop
      <3> QED
        BY <2>1, <3>1 DEF StartOrder
    <2>5. CASE pc'[c] \notin {"launch", "gate"}
      BY <2>1, <2>5 DEF StartOrder
    <2> QED
      BY <1>1, <2>2, <2>3, <2>4, <2>5
  <1>4. \A d \in Starters : StartOrder(d)'
    BY <1>1, <1>3, StartOrderFrame DEF StartInv
  <1> QED
    BY <1>2, <1>4 DEF StartInv

LEMMA StartInvNext == StartInv /\ [Next]_vars => StartInv'
  <1> SUFFICES ASSUME StartInv, [Next]_vars PROVE StartInv'
    OBVIOUS
  <1>1. Inv'
    BY InvNext DEF StartInv
  <1>2. ASSUME (\E e \in Entries : Exit(e)) \/ UNCHANGED vars
        PROVE  StartInv'
    <2>1. UNCHANGED <<registered, pc, call>>
      BY <1>2 DEF Exit, vars
    <2> QED
      BY <1>1, <2>1 DEF StartInv, SelfFree, StartOrder, Sorted
  <1> QED
    BY <1>1, <1>2, ClaimKeepsStartInv, ProceedKeepsStartInv DEF Next

\* Whatever registrars, stoppers and other starters do meanwhile, a group start
\* leaves no dependency, hard or soft, that it is to start for later than the
\* member that needs it, directly or through a member that is running already and
\* keeps its place: of src/groups.go:9 and src/graph.go:77-82.
THEOREM StartOrderCorrect ==
  ASSUME LaunchedAcyclic
  PROVE  Spec => []OrderedStart
  <1>1. Init => StartInv
    BY StartInvInit
  <1>2. StartInv => OrderedStart
    BY DEF StartInv, StartOrder, OrderedStart
  <1> QED
    BY <1>1, <1>2, StartInvNext, PTL DEF Spec

-----------------------------------------------------------------------------
(* One registrar: the registry can always be sorted, and with it every set *)
(* a call works on.                                                        *)

SingleRegistrar == \A a, b \in Registrars : a = b

AcyclicInv ==
    /\ Inv /\ Acyclic
    /\ \A c \in Registrars : pc[c] = "commit" =>
         Name[call[c].entry] \notin ReachIn(registered, call[c].entry)

\* Taking up an entry, a teardown leaves nothing that depends on it for later.
StopOrder(c) ==
    /\ Sorted(c)
    /\ pc[c] \in {"stop", "rollback"} /\ call[c].entry # None =>
         \A d \in call[c].todo : Name[call[c].entry] \notin Hard[d]

StopInv == AcyclicInv /\ \A c \in Callers : StopOrder(c)

LEMMA StopInvInit ==
  ASSUME LaunchedAcyclic
  PROVE  Init => StopInv
  <1> SUFFICES ASSUME Init PROVE StopInv
    OBVIOUS
  <1>1. Inv /\ registered = Launched /\ \A c \in Callers : pc[c] = "idle" /\ call[c] = NoCall
    BY InvInit DEF Init
  <1> QED
    BY <1>1, Roles, NothingAcyclic DEF StopInv, AcyclicInv, Acyclic, LaunchedAcyclic,
       StopOrder, Sorted

LEMMA AcyclicFrame ==
  ASSUME AcyclicInv, Inv', NEW d \in Callers, Others(d), registered' \subseteq registered,
         pc'[d] = "commit" =>
           Name[call'[d].entry] \notin ReachIn(registered', call'[d].entry)
  PROVE  AcyclicInv'
  <1>1. registered \in SUBSET Entries
    BY DEF AcyclicInv, Inv, TypeOK
  <1>2. Acyclic'
    BY <1>1, PartAcyclic DEF AcyclicInv, Acyclic
  <1>3. ASSUME NEW c \in Registrars, pc'[c] = "commit"
        PROVE  Name[call'[c].entry] \notin ReachIn(registered', call'[c].entry)
    <2>1. CASE c = d
      BY <1>3, <2>1
    <2>2. CASE c # d
      <3>1. pc[c] = "commit" /\ call'[c] = call[c] /\ call[c].entry \in Entries
        BY <1>3, <2>2, Roles DEF Others, AcyclicInv, Inv, Shape, CallShape
      <3>2. Name[call[c].entry] \notin ReachIn(registered, call[c].entry)
        BY <1>3, <3>1 DEF AcyclicInv
      <3>3. ReachIn(registered', call[c].entry) \subseteq ReachIn(registered, call[c].entry)
        BY <1>1, <3>1, ReachMonotone
      <3> QED
        BY <3>1, <3>2, <3>3
    <2> QED
      BY <2>1, <2>2
  <1> QED
    BY <1>2, <1>3 DEF AcyclicInv

\* A step of somebody else.
LEMMA StopOrderFrame ==
  ASSUME \A c \in Callers : StopOrder(c), NEW d \in Callers, Others(d), StopOrder(d)'
  PROVE  \A c \in Callers : StopOrder(c)'
  BY DEF StopOrder, Sorted, Others

LEMMA ClaimKeepsStopInv ==
  ASSUME StopInv, NEW c \in Callers, Claim(c), Inv'
  PROVE  StopInv'
  <1>0. Inv /\ AcyclicInv /\ registered \in SUBSET Entries /\ ~Cyclic(registered)
    BY DEF StopInv, AcyclicInv, Inv, TypeOK, Acyclic
  <1>1. PICK k \in CallRecords :
          /\ Came(c, k)
          /\ k.entry = None \/ pc'[c] = "commit"
          /\ pc'[c] = "commit" =>
               k.entry \in Entries /\ Name[k.entry] \notin ReachIn(registered, k.entry)
    <2>1. CASE c \in Registrars /\ Register(c)
      BY <1>0, <2>1, RegistrarComesIn, ReachIs
    <2>2. CASE c \in Starters /\ (StartService(c) \/ StartGroup(c))
      <3>1. PICK k \in CallRecords : Came(c, k) /\ k.entry = None /\ pc'[c] = "start"
        BY <1>0, <2>2, StarterComesIn
      <3> QED
        BY <3>1
    <2>3. CASE c \in Stoppers /\ (TearDown(c) \/ StopGroup(c) \/ UnregisterGroup(c))
      <3>1. PICK k \in CallRecords : Came(c, k) /\ k.entry = None /\ pc'[c] = "stop"
        BY <1>0, <2>3, StopperComesIn
      <3> QED
        BY <3>1
    <2> QED
      BY <2>1, <2>2, <2>3 DEF Claim
  <1>2. AcyclicInv'
    BY <1>0, <1>1, AcyclicFrame DEF Came
  <1>3. ~Cyclic(k.set)
    BY <1>0, <1>1, PartAcyclic DEF Came
  <1>4. StopOrder(c)'
    BY <1>1, <1>3 DEF StopOrder, Sorted, Came
  <1> QED
    BY <1>1, <1>2, <1>4, StopOrderFrame DEF StopInv, Came

LEMMA CommitKeepsAcyclic ==
  ASSUME SingleRegistrar, StopInv, NEW c \in Callers, CommitRegister(c), Inv', Others(c),
         pc'[c] # "commit"
  PROVE  AcyclicInv'
  <1> DEFINE e == call[c].entry
  <1>1. /\ c \in Registrars /\ pc[c] = "commit" /\ e \in Entries
        /\ Inv /\ registered \in SUBSET Entries /\ ~Cyclic(registered)
        /\ Name[e] \notin ReachIn(registered, e)
    BY DEF StopInv, AcyclicInv, Acyclic, Inv, TypeOK, Shape, CallShape, CommitRegister
  <1>2. registered' = registered \/ registered' = registered \cup {e}
    BY DEF CommitRegister
  <1> HIDE DEF e
  <1>3. Acyclic'
    BY <1>1, <1>2, AddAcyclic DEF Acyclic
  <1>4. \A d \in Registrars : pc'[d] # "commit"
    BY <1>1 DEF SingleRegistrar
  <1> QED
    BY <1>3, <1>4 DEF AcyclicInv

LEMMA ProceedKeepsStopInv ==
  ASSUME SingleRegistrar, StopInv, NEW c \in Callers, Proceed(c), Inv'
  PROVE  StopInv'
  <1>0. Inv /\ TypeOK
    BY DEF StopInv, AcyclicInv, Inv
  <1>1. /\ Others(c)
        /\ call'[c] = NoCall \/ Carried(c)
        /\ \/ StartEntry(c) \/ LaunchGate(c) \/ BeginStop(c)
           \/ call'[c].entry = None
           \/ pc'[c] = "release"
        /\ pc'[c] # "commit"
    BY <1>0, ProceedCarries
  <1>2. AcyclicInv'
    <2>1. CASE CommitRegister(c)
      BY <1>1, <2>1, CommitKeepsAcyclic
    <2>2. CASE ~CommitRegister(c)
      BY <1>1, <2>2, ProceedRegisters, AcyclicFrame DEF StopInv
    <2> QED
      BY <2>1, <2>2
  <1>3. Sorted(c) /\ Sorted(c)'
    BY <1>0, <1>1, SortedCarried DEF StopInv, StopOrder
  <1>4. StopOrder(c)'
    <2>1. CASE StartEntry(c) \/ LaunchGate(c)
      <3>1. pc'[c] \in {"launch", "gate"}
        BY <1>0, <2>1 DEF StartEntry, LaunchGate, Begin, Goto, TypeOK
      <3> QED
        BY <1>3, <3>1 DEF StopOrder
    <2>2. CASE BeginStop(c)
      <3>1. PICK e \in StopNext(call[c]) : call' = [call EXCEPT ![c].entry = e]
        BY <2>2 DEF BeginStop
      <3>2. e \in call[c].todo /\ \A d \in call[c].todo : Name[e] \notin Hard[d]
        BY <1>0, <1>3, NextHasNoDependent
      <3>3. call'[c].entry = e /\ call'[c].todo = call[c].todo
        <4>1. e \in Entries /\ UNCHANGED pc
          BY <1>0, <2>2, StopNextType DEF BeginStop
        <4> QED
          BY <1>0, <3>1, <4>1, TakeMove
      <3> QED
        BY <1>3, <3>2, <3>3 DEF StopOrder
    <2>3. CASE call'[c].entry = None \/ pc'[c] = "release"
      BY <1>3, <2>3 DEF StopOrder
    <2> QED
      BY <1>1, <2>1, <2>2, <2>3
  <1> QED
    BY <1>1, <1>2, <1>4, StopOrderFrame DEF StopInv

LEMMA StopInvNext ==
  ASSUME SingleRegistrar
  PROVE  StopInv /\ [Next]_vars => StopInv'
  <1> SUFFICES ASSUME StopInv, [Next]_vars PROVE StopInv'
    OBVIOUS
  <1>1. Inv'
    BY InvNext DEF StopInv, AcyclicInv
  <1>2. ASSUME (\E e \in Entries : Exit(e)) \/ UNCHANGED vars
        PROVE  StopInv'
    <2>1. UNCHANGED <<registered, pc, call>>
      BY <1>2 DEF Exit, vars
    <2> QED
      BY <1>1, <2>1 DEF StopInv, AcyclicInv, Acyclic, StopOrder, Sorted
  <1> QED
    BY <1>1, <1>2, ClaimKeepsStopInv, ProceedKeepsStopInv DEF Next

LEMMA StopInvAlways ==
  ASSUME SingleRegistrar, LaunchedAcyclic
  PROVE  Spec => []StopInv
  <1>1. Init => StopInv
    BY StopInvInit
  <1> QED
    BY <1>1, StopInvNext, PTL DEF Spec

\* With one goroutine that registers, the registry can be sorted at any time,
\* however entries come, go and come back under other dependencies: the check a
\* registration made without the lock still holds when it commits, of
\* src/register.go:150-189 and src/graph.go:139-141.
THEOREM RegistryAcyclic ==
  ASSUME SingleRegistrar, LaunchedAcyclic
  PROVE  Spec => []Acyclic
  <1>1. StopInv => Acyclic
    BY DEF StopInv, AcyclicInv
  <1> QED
    BY <1>1, StopInvAlways, PTL

\* With one goroutine that starts and one that registers, a call that stops
\* several entries begins with none whose hard dependents among them are still
\* up: of src/membership.go:496-498 and src/groups.go:226-227.
THEOREM StopOrderCorrect ==
  ASSUME SingleRegistrar, LaunchedAcyclic, SingleStarter
  PROVE  Spec => []OrderedStop
  <1>1. StopInv /\ Inv2 => OrderedStop
    <2> SUFFICES ASSUME StopInv, Inv2, NEW c \in Callers,
                        pc[c] \in {"stop", "rollback"}, call[c].entry # None,
                        NEW d \in IF pc[c] = "stop" THEN call[c].reserved ELSE call[c].started,
                        Name[call[c].entry] \in Hard[d]
                 PROVE  status[d] \notin Active
      BY DEF OrderedStop
    <2>1. d \notin call[c].todo
      BY DEF StopInv, StopOrder
    <2>2. d \in Down(c)
      <3>1. pc[c] = "stop" => call[c].set = call[c].reserved
        BY DEF Inv2, Inv, Shape, CallShape
      <3> QED
        BY <2>1, <3>1 DEF Down
    <2> QED
      BY <2>2 DEF Inv2, StaysDown, TeardownHolds
  <1> QED
    BY <1>1, StopInvAlways, Inv2Always, PTL

================================================================================
