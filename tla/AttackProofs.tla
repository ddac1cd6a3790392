---------------------------- MODULE AttackProofs ----------------------------
(* Theorems about Attack, with Retrieval and Consensus in it. *)
EXTENDS Attack, TLAPS, FiniteSetTheorems, WellFoundedInduction

-----------------------------------------------------------------------------
(* Numbers and finite sets. *)
\* A set of natural numbers has a least one.
LEMMA LeastNatural ==
    ASSUME NEW T, T \subseteq Nat, T # {}
    PROVE  \E m \in T: \A k \in T: m <= k
<1>1. PICK m \in T: \A k \in T: ~(<<k, m>> \in OpToRel(<, Nat))
  BY NatLessThanWellFounded, WFMin
<1>2. ASSUME NEW k \in T PROVE m <= k
  <2>1. k \in Nat /\ m \in Nat
    OBVIOUS
  <2>2. <<k, m>> \notin {ss \in Nat \X Nat: ss[1] < ss[2]}
    BY <1>1, Zenon DEF OpToRel
  <2>3. ~(<<k, m>>[1] < <<k, m>>[2])
    BY <2>1, <2>2
  <2> QED
    BY <2>1, <2>3
<1> QED
  BY <1>2

\* A part of a finite set that lacks one of its elements is smaller.
LEMMA PartIsSmaller ==
    ASSUME NEW S, IsFiniteSet(S), NEW T, T \subseteq S, NEW x \in S, x \notin T
    PROVE  IsFiniteSet(T) /\ Cardinality(T) \in Nat /\ Cardinality(T) < Cardinality(S)
<1>1. IsFiniteSet(T) /\ Cardinality(T) <= Cardinality(S) /\ Cardinality(T) # Cardinality(S)
  BY FS_Subset
<1> QED
  BY <1>1, FS_CardinalityType

\* Of finitely many things with a number one has the greatest.
LEMMA Greatest ==
    ASSUME NEW S, IsFiniteSet(S), S # {}, NEW f \in [S -> Int]
    PROVE  \E x \in S: \A y \in S: f[y] <= f[x]
<1> DEFINE Above(x) == {y \in S: f[y] > f[x]}
           T == {Cardinality(Above(x)): x \in S}
<1>1. ASSUME NEW x \in S PROVE IsFiniteSet(Above(x)) /\ Cardinality(Above(x)) \in Nat
  BY FS_Subset, FS_CardinalityType
<1>2. PICK m \in T: \A k \in T: m <= k
  <2>1. T \subseteq Nat /\ T # {}
    BY <1>1
  <2> QED
    BY <2>1, LeastNatural
<1>3. PICK x \in S: m = Cardinality(Above(x))
  OBVIOUS
<1>4. ASSUME NEW y \in S, ~(f[y] <= f[x]) PROVE FALSE
  <2>1. Above(y) \subseteq Above(x) /\ y \in Above(x) /\ y \notin Above(y)
    BY <1>4
  <2>2. Cardinality(Above(y)) < Cardinality(Above(x))
    BY <1>1, <2>1, PartIsSmaller
  <2>3. Cardinality(Above(x)) <= Cardinality(Above(y))
    BY <1>2, <1>3
  <2>4. Cardinality(Above(x)) \in Nat /\ Cardinality(Above(y)) \in Nat
    BY <1>1
  <2> HIDE DEF Above
  <2> QED
    BY <2>2, <2>3, <2>4
<1> QED
  BY <1>4

-----------------------------------------------------------------------------
(* Sums over finite sets.  MapThenSumSet is defined by recursion over the subsets of the *)
(* set; that there is such a function, and that the order does not matter, is shown by   *)
(* looking at a smallest set for which it fails.                                         *)

\* The element the sum takes first.
Pick(s) == CHOOSE x \in s: TRUE

\* g is the recursive function behind the sum of f over S.
Sums(g, f, S) ==
    g = [s \in SUBSET S |-> IF s = {} THEN 0 ELSE f[Pick(s)] + g[s \ {Pick(s)}]]

\* The sum of f over S.
Total(f, S) == (CHOOSE g: Sums(g, f, S))[S]

\* Among sets of finite sets one has the fewest elements.
LEMMA Smallest ==
    ASSUME NEW B, B # {}, \A s \in B: IsFiniteSet(s)
    PROVE  \E s \in B: \A t: IsFiniteSet(s) /\ t \subseteq s /\ t # s => t \notin B
<1> DEFINE T == {Cardinality(s): s \in B}
<1>1. T \subseteq Nat /\ T # {}
  BY FS_CardinalityType
<1>2. PICK m \in T: \A k \in T: m <= k
  BY <1>1, LeastNatural
<1>3. PICK s \in B: m = Cardinality(s)
  OBVIOUS
<1>4. ASSUME NEW t, t \subseteq s, t # s, t \in B PROVE FALSE
  <2>1. PICK x \in s: x \notin t
    BY <1>4
  <2>2. Cardinality(t) < Cardinality(s) /\ Cardinality(t) \in Nat
    BY <1>4, <2>1, PartIsSmaller
  <2>3. Cardinality(s) <= Cardinality(t)
    BY <1>2, <1>3, <1>4
  <2>4. Cardinality(s) \in Nat
    BY FS_CardinalityType
  <2> QED
    BY <2>2, <2>3, <2>4
<1> QED
  BY <1>4

\* What is picked of a set is in it.
LEMMA PickIn == ASSUME NEW s, s # {} PROVE Pick(s) \in s
BY DEF Pick

\* There is one such function at most: two would differ at a smallest set.
LEMMA SumsUnique ==
    ASSUME NEW S, IsFiniteSet(S), NEW f, NEW g, NEW h, Sums(g, f, S), Sums(h, f, S)
    PROVE  g = h
<1> DEFINE B == {s \in SUBSET S: g[s] # h[s]}
<1>1. ASSUME B # {} PROVE FALSE
  <2>1. \A s \in B: IsFiniteSet(s)
    BY FS_Subset
  <2>2. PICK s \in B: \A t: IsFiniteSet(s) /\ t \subseteq s /\ t # s => t \notin B
    <3> HIDE DEF B
    <3> QED
      BY <1>1, <2>1, Smallest
  <2>3. s \in SUBSET S /\ IsFiniteSet(s) /\ g[s] # h[s]
    BY <2>1
  <2>4. CASE s = {}
    BY <2>3, <2>4 DEF Sums
  <2>5. CASE s # {}
    <3>1. Pick(s) \in s /\ s \ {Pick(s)} \subseteq s /\ s \ {Pick(s)} # s
      BY <2>5, PickIn
    <3>2. g[s \ {Pick(s)}] = h[s \ {Pick(s)}]
      BY <2>2, <2>3, <3>1
    <3>3. /\ g[s] = f[Pick(s)] + g[s \ {Pick(s)}]
          /\ h[s] = f[Pick(s)] + h[s \ {Pick(s)}]
      BY <2>3, <2>5 DEF Sums
    <3> QED
      BY <2>3, <3>2, <3>3
  <2> QED
    BY <2>4, <2>5
<1>2. \A s \in SUBSET S: g[s] = h[s]
  BY <1>1
<1>3. /\ g = [s \in SUBSET S |-> g[s]]
      /\ h = [s \in SUBSET S |-> h[s]]
  BY DEF Sums
<1> QED
  BY <1>2, <1>3

\* The function of a set, seen on a part of it, is the function of the part.
LEMMA SumsRestrict ==
    ASSUME NEW S, NEW T, T \subseteq S, NEW f, NEW g, Sums(g, f, S)
    PROVE  Sums([s \in SUBSET T |-> g[s]], f, T)
<1> DEFINE h == [s \in SUBSET T |-> g[s]]
<1>1. ASSUME NEW s \in SUBSET T
      PROVE  h[s] = IF s = {} THEN 0 ELSE f[Pick(s)] + h[s \ {Pick(s)}]
  <2>1. s \in SUBSET S /\ s \ {Pick(s)} \in SUBSET T
    OBVIOUS
  <2>2. g[s] = IF s = {} THEN 0 ELSE f[Pick(s)] + g[s \ {Pick(s)}]
    BY <2>1 DEF Sums
  <2> QED
    BY <2>1, <2>2
<1>2. h = [s \in SUBSET T |-> h[s]]
  OBVIOUS
<1> HIDE DEF h
<1>3. Sums(h, f, T)
  BY <1>1, <1>2, Zenon DEF Sums
<1> QED
  BY <1>3 DEF h

\* There is one: a smallest set without would have it, from its parts.
LEMMA SumsExists ==
    ASSUME NEW S, IsFiniteSet(S), NEW f
    PROVE  \E g: Sums(g, f, S)
<1> DEFINE B == {T \in SUBSET S: ~ \E g: Sums(g, f, T)}
<1>1. ASSUME B # {} PROVE FALSE
  <2>1. \A T \in B: IsFiniteSet(T)
    BY FS_Subset
  <2>2. PICK T \in B: \A t: IsFiniteSet(T) /\ t \subseteq T /\ t # T => t \notin B
    <3> HIDE DEF B
    <3> QED
      BY <1>1, <2>1, Smallest
  <2>3. T \subseteq S /\ IsFiniteSet(T) /\ ~ \E g: Sums(g, f, T)
    BY <2>1
  <2> DEFINE G(s) == CHOOSE g: Sums(g, f, s)
             g == [s \in SUBSET T |->
                      IF s = {} THEN 0 ELSE f[Pick(s)] + Total(f, s \ {Pick(s)})]
  <2>4. ASSUME NEW s, s \subseteq T, s # T PROVE Sums(G(s), f, s)
    <3>1. \E k: Sums(k, f, s)
      BY <2>2, <2>3, <2>4
    <3> QED
      BY <3>1
  <2>5. ASSUME NEW s, s \subseteq T, s # T, NEW w, w \subseteq s PROVE G(s)[w] = Total(f, w)
    <3>1. Sums([x \in SUBSET w |-> G(s)[x]], f, w)
      <4>1. Sums(G(s), f, s)
        BY <2>4, <2>5
      <4>2. w \subseteq s
        BY <2>5
      <4> HIDE DEF G, g, B
      <4> QED
        BY <4>1, <4>2, SumsRestrict
    <3>2. Sums(G(w), f, w) /\ IsFiniteSet(w)
      <4>1. w \subseteq T /\ w # T
        BY <2>5
      <4> QED
        BY <2>3, <2>4, <4>1, FS_Subset
    <3>3. G(w) = [x \in SUBSET w |-> G(s)[x]]
      BY <3>1, <3>2, SumsUnique
    <3>4. G(w)[w] = G(s)[w]
      <4>1. w \in SUBSET w
        OBVIOUS
      <4> HIDE DEF G
      <4> QED
        BY <3>3, <4>1
    <3> QED
      BY <3>4 DEF Total
  <2>6. ASSUME NEW u, u \subseteq T, u # T PROVE g[u] = Total(f, u)
    <3>1. Sums(G(u), f, u)
      BY <2>4, <2>6
    <3>2. G(u)[u] = IF u = {} THEN 0 ELSE f[Pick(u)] + G(u)[u \ {Pick(u)}]
      <4>1. u \in SUBSET u
        OBVIOUS
      <4> HIDE DEF G
      <4> QED
        BY <3>1, <4>1 DEF Sums
    <3>3. G(u)[u] = Total(f, u) /\ G(u)[u \ {Pick(u)}] = Total(f, u \ {Pick(u)})
      BY <2>5, <2>6
    <3> HIDE DEF G
    <3>4. g[u] = IF u = {} THEN 0 ELSE f[Pick(u)] + Total(f, u \ {Pick(u)})
      BY <2>6
    <3> QED
      BY <3>2, <3>3, <3>4
  <2>7. ASSUME NEW s \in SUBSET T
        PROVE  g[s] = IF s = {} THEN 0 ELSE f[Pick(s)] + g[s \ {Pick(s)}]
    <3>1. CASE s = {}
      BY <3>1
    <3>2. CASE s # {}
      <4>1. s \ {Pick(s)} \subseteq T /\ s \ {Pick(s)} # T
        BY <3>2, PickIn
      <4>2. g[s \ {Pick(s)}] = Total(f, s \ {Pick(s)})
        <5> HIDE DEF g
        <5> QED
          BY <2>6, <4>1
      <4>3. g[s] = f[Pick(s)] + Total(f, s \ {Pick(s)})
        BY <3>2
      <4> HIDE DEF g
      <4> QED
        BY <3>2, <4>2, <4>3
    <3> QED
      BY <3>1, <3>2
  <2>8. g = [s \in SUBSET T |-> g[s]]
    OBVIOUS
  <2> HIDE DEF g
  <2>9. Sums(g, f, T)
    BY <2>7, <2>8, Zenon DEF Sums
  <2> QED
    BY <2>3, <2>9
<1>2. S \in SUBSET S
  OBVIOUS
<1> QED
  BY <1>1, <1>2

\* How a sum unfolds.
LEMMA TotalUnfolds ==
    ASSUME NEW S, IsFiniteSet(S), NEW f
    PROVE  Total(f, S) = IF S = {} THEN 0 ELSE f[Pick(S)] + Total(f, S \ {Pick(S)})
<1> DEFINE G(s) == CHOOSE g: Sums(g, f, s)
           R == S \ {Pick(S)}
<1>1. Sums(G(S), f, S)
  BY SumsExists
<1>2. IsFiniteSet(R) /\ R \subseteq S
  BY FS_Subset
<1>3. Sums(G(R), f, R)
  BY <1>2, SumsExists
<1>4. Sums([x \in SUBSET R |-> G(S)[x]], f, R)
  BY <1>1, <1>2, SumsRestrict
<1>5. G(R) = [x \in SUBSET R |-> G(S)[x]]
  BY <1>2, <1>3, <1>4, SumsUnique
<1>6. G(R)[R] = G(S)[R]
  <2>1. R \in SUBSET R
    OBVIOUS
  <2> HIDE DEF G, R
  <2> QED
    BY <1>5, <2>1
<1>7. G(S)[S] = IF S = {} THEN 0 ELSE f[Pick(S)] + G(S)[R]
  <2>1. S \in SUBSET S
    OBVIOUS
  <2> HIDE DEF G
  <2> QED
    BY <1>1, <2>1 DEF Sums
<1> QED
  BY <1>6, <1>7 DEF Total

\* A sum of natural numbers is one, and does not depend on the order.
LEMMA TotalAdds ==
    ASSUME NEW U, IsFiniteSet(U), NEW f \in [U -> Nat]
    PROVE  /\ \A S \in SUBSET U: Total(f, S) \in Nat
           /\ \A S \in SUBSET U: \A x \in U \ S: Total(f, S \cup {x}) = f[x] + Total(f, S)
<1>1. \A S \in SUBSET U: IsFiniteSet(S)
  BY FS_Subset
<1>2. \A S \in SUBSET U: Total(f, S) \in Nat
  <2> DEFINE B == {S \in SUBSET U: Total(f, S) \notin Nat}
  <2>1. ASSUME B # {} PROVE FALSE
    <3>1. PICK S \in B: \A t: IsFiniteSet(S) /\ t \subseteq S /\ t # S => t \notin B
      <4>1. \A s \in B: IsFiniteSet(s)
        BY <1>1
      <4> HIDE DEF B
      <4> QED
        BY <2>1, <4>1, Smallest
    <3>2. S \in SUBSET U /\ IsFiniteSet(S) /\ Total(f, S) \notin Nat
      BY <1>1
    <3>3. S # {}
      BY <3>2, TotalUnfolds
    <3>4. Pick(S) \in S /\ S \ {Pick(S)} \subseteq S /\ S \ {Pick(S)} # S
      BY <3>3, PickIn
    <3>5. Total(f, S \ {Pick(S)}) \in Nat
      BY <3>1, <3>2, <3>4
    <3>6. Total(f, S) = f[Pick(S)] + Total(f, S \ {Pick(S)})
      BY <3>2, <3>3, TotalUnfolds
    <3>7. f[Pick(S)] \in Nat
      BY <3>2, <3>4
    <3> QED
      BY <3>2, <3>5, <3>6, <3>7
  <2> QED
    BY <2>1
<1>3. \A S \in SUBSET U: \A x \in U \ S: Total(f, S \cup {x}) = f[x] + Total(f, S)
  <2> DEFINE Adds(S) == \A x \in U \ S: Total(f, S \cup {x}) = f[x] + Total(f, S)
             B == {S \in SUBSET U: ~Adds(S)}
  <2>1. ASSUME B # {} PROVE FALSE
    <3>1. PICK S \in B: \A t: IsFiniteSet(S) /\ t \subseteq S /\ t # S => t \notin B
      <4>1. \A s \in B: IsFiniteSet(s)
        BY <1>1
      <4> HIDE DEF B
      <4> QED
        BY <2>1, <4>1, Smallest
    <3>2. S \in SUBSET U /\ IsFiniteSet(S)
      BY <1>1
    <3>3. PICK x \in U \ S: Total(f, S \cup {x}) # f[x] + Total(f, S)
      OBVIOUS
    <3> DEFINE p == Pick(S \cup {x})
    <3>4. IsFiniteSet(S \cup {x}) /\ S \cup {x} # {} /\ p \in S \cup {x}
      <4> HIDE DEF B, Adds
      <4>1. IsFiniteSet(S \cup {x})
        BY <3>2, FS_AddElement
      <4>2. S \cup {x} # {}
        OBVIOUS
      <4> QED
        BY <4>1, <4>2, PickIn
    <3>5. Total(f, S \cup {x}) = f[p] + Total(f, (S \cup {x}) \ {p})
      BY <3>4, TotalUnfolds
    <3> HIDE DEF p
    <3>6. p # x
      <4>1. CASE p = x
        <5>1. (S \cup {x}) \ {p} = S
          BY <3>3, <4>1
        <5> QED
          BY <3>3, <3>5, <4>1, <5>1
      <4> QED
        BY <4>1
    <3> DEFINE R == S \ {p}
    <3>7. p \in S /\ R \subseteq S /\ R # S /\ (S \cup {x}) \ {p} = R \cup {x} /\ S = R \cup {p}
      BY <3>4, <3>6
    <3>8. R \in SUBSET U /\ x \in U \ R /\ p \in U \ R
      BY <3>2, <3>3, <3>7
    <3>9. Adds(R)
      BY <3>1, <3>2, <3>7, <3>8
    <3> HIDE DEF R
    <3>10. Total(f, R \cup {x}) = f[x] + Total(f, R) /\ Total(f, R \cup {p}) = f[p] + Total(f, R)
      BY <3>8, <3>9
    <3>11. f[x] \in Nat /\ f[p] \in Nat /\ Total(f, R) \in Nat
      BY <1>2, <3>8
    <3> QED
      BY <3>3, <3>5, <3>7, <3>10, <3>11
  <2> QED
    BY <2>1
<1> QED
  BY <1>2, <1>3

\* The sum of the library is this one.
LEMMA SumIsTotal == ASSUME NEW f, NEW S PROVE MapThenSumSet(LAMBDA i: f[i], S) = Total(f, S)
BY DEF MapThenSumSet, MapThenFoldSet, Total, Sums, Pick

-----------------------------------------------------------------------------
(* The inductive invariant. *)

\* Of the retrieval: what is shown is no longer pending, the tokens are those of what is
\* shown, and an item that is not flagged is shown when no flagged one is left, within the
\* budget.
RetrievalInv ==
    /\ flagged \subseteq Items /\ evidence \subseteq Items /\ pending \subseteq Items \cup Late
    /\ evidence \cap pending = {}
    /\ flagged \ pending \subseteq evidence
    /\ used = Total(Tokens, evidence)
    /\ evidence \ flagged # {} => pending \cap flagged = {} /\ used <= Budget
    /\ stage = "search" => evidence = {}

\* What the variables hold in each phase.
PhaseInv ==
    /\ attribute \in {"age", "income", "occupation"} \cup Geo
    /\ n \in Ensembles
    /\ answers \in Seq(Guesses) /\ Len(answers) <= n
    /\ level \in Nat
    /\ queue \subseteq Picks /\ shared \subseteq Picks \ queue
    /\ phase \in {"runs", "scan", "cluster", "done"}
    /\ phase # "done" => consensus = <<>>
    /\ phase \in {"runs", "scan"} => clusters = <<>> /\ shared = {} /\ queue = {} /\ at = 1
    /\ phase \in {"scan", "cluster"} => n > 1 /\ Len(answers) = n
    /\ phase = "scan" => attribute \in Geo

\* The clusters are disjoint, each with its leader, and hold what left the queue.
ClusterInv ==
    /\ clusters \in Seq([leader: Nat, members: SUBSET Nat])
    /\ \A c \in DOMAIN clusters:
           /\ clusters[c].leader \in clusters[c].members
           /\ clusters[c].members \subseteq Picks \ (queue \cup shared)
    /\ \A c, d \in DOMAIN clusters: c # d => clusters[c].members \cap clusters[d].members = {}
    /\ phase = "cluster" =>
           /\ at \in 1..(Len(clusters) + 1)
           /\ attribute \notin Geo =>
                  \A i \in Picks \ queue: \E c \in DOMAIN clusters: i \in clusters[c].members

\* An answer agrees with the leader of its cluster and with that of no earlier one; the
\* first of the queue with none it was compared with.
AgreeInv ==
    attribute \in {"age", "income"} /\ phase = "cluster" =>
        /\ \A c \in DOMAIN clusters: \A i \in clusters[c].members:
               /\ Agree(clusters[c].leader, i)
               /\ \A d \in 1..(c - 1): ~Agree(clusters[d].leader, i)
        /\ queue # {} => \A d \in 1..(at - 1): ~Agree(clusters[d].leader, First)

\* No place was shared by half of the runs at the levels passed over; at the level chosen
\* one is.
LevelInv ==
    attribute \in Geo =>
        /\ phase = "scan" => level <= Finest[attribute]
        /\ phase \in {"scan", "cluster"} =>
               \A d \in (level + 1)..Finest[attribute]: \A i \in Picks: ~Half(Group(i, d))
        /\ phase = "cluster" =>
               Half(shared) /\ \E i \in Picks: shared = Group(i, level)

ConsensusInv == PhaseInv /\ ClusterInv /\ AgreeInv /\ LevelInv

-----------------------------------------------------------------------------
(* The retrieval. *)

\* The items are finitely many, and their tokens natural numbers.
LEMMA ItemFacts ==
    /\ IsFiniteSet(Items \cup Late)
    /\ Tokens \in [Items \cup Late -> Nat]
    /\ Budget \in Nat
BY RetrievalItemsAssumption, TokensAssumption, BudgetAssumption

\* Nothing is shown before the searches.
LEMMA RetrievalStarts == Init => RetrievalInv
<1> SUFFICES ASSUME Init PROVE RetrievalInv
  OBVIOUS
<1>1. Total(Tokens, {}) = 0
  BY FS_EmptySet, TotalUnfolds
<1> QED
  BY <1>1 DEF Init, RetrievalInit, RetrievalInv

\* Every step keeps the invariant of the retrieval.
LEMMA RetrievalKept == RetrievalInv /\ [Next]_vars => RetrievalInv'
<1> SUFFICES ASSUME RetrievalInv, [Next]_vars PROVE RetrievalInv'
  OBVIOUS
<1> USE DEF RetrievalInv
<1>1. CASE Search
  <2>1. evidence = {} /\ evidence' = {} /\ used' = used /\ stage' # "search"
    BY <1>1 DEF Search, Find
  <2>2. flagged' \subseteq Items /\ flagged' \subseteq pending' /\ pending' \subseteq Items \cup Late
    BY <1>1 DEF Search, Find, Hits
  <2> QED
    BY <2>1, <2>2
<1>2. CASE Select
  <2>1. PICK i \in Items \cup Late: Consider(i)
    BY <1>2 DEF Select
  <2>2. stage' # "search" /\ flagged' = flagged
    BY <1>2, <2>1 DEF Select, Consider
  <2>3. /\ i \in pending /\ i \notin evidence /\ pending' = pending \ {i}
        /\ i \in flagged \/ pending \cap flagged = {}
    BY <2>1 DEF Consider, NextId
  <2>4. CASE i \in Items /\ (i \in flagged \/ used + Tokens[i] <= Budget)
    <3>1. used' = used + Tokens[i] /\ evidence' = evidence \cup {i}
      BY <2>1, <2>4 DEF Consider
    <3>2. /\ Total(Tokens, evidence) \in Nat
          /\ Total(Tokens, evidence \cup {i}) = Tokens[i] + Total(Tokens, evidence)
      BY <2>3, ItemFacts, TotalAdds
    <3>3. Tokens[i] \in Nat
      BY ItemFacts
    <3>4. used' = Total(Tokens, evidence')
      BY <3>1, <3>2, <3>3
    <3>5. evidence' \ flagged # {} => pending' \cap flagged = {} /\ used' <= Budget
      BY <2>3, <2>4, <3>1
    <3> QED
      BY <2>2, <2>3, <2>4, <3>1, <3>4, <3>5
  <2>5. CASE ~(i \in Items /\ (i \in flagged \/ used + Tokens[i] <= Budget))
    <3>1. used' = used /\ evidence' = evidence /\ i \notin flagged
      BY <2>1, <2>5 DEF Consider
    <3> QED
      BY <2>2, <2>3, <3>1
  <2> QED
    BY <2>4, <2>5
<1>3. CASE UNCHANGED retrievalVars /\ (stage' = stage \/ stage' # "search")
  BY <1>3 DEF retrievalVars
<1>4. CASE Prompt \/ Infer \/ LeaveOut \/ Persist \/ Fail
  BY <1>3, <1>4 DEF Prompt, Infer, LeaveOut, Persist, Fail
<1>5. CASE UNCHANGED vars
  BY <1>3, <1>5 DEF vars
<1> QED
  BY <1>1, <1>2, <1>4, <1>5 DEF Next

\* What is shown is read, within the budget but for the flagged items.
LEMMA RetrievalGives == RetrievalInv => SelectionKept
<1>1. MapThenSumSet(LAMBDA i: Tokens[i], evidence) = Total(Tokens, evidence)
  BY SumIsTotal
<1> QED
  BY <1>1 DEF RetrievalInv, SelectionKept

\* Everything shown was read with its text, flagged items are not ranked out, and only
\* they exceed the token budget (retriever.py).
THEOREM SelectionHolds == Spec => []SelectionKept
<1>1. Init => RetrievalInv
  BY RetrievalStarts
<1>2. RetrievalInv /\ [Next]_vars => RetrievalInv'
  BY RetrievalKept
<1>3. RetrievalInv => SelectionKept
  BY RetrievalGives
<1> QED
  BY <1>1, <1>2, <1>3, PTL DEF Spec

-----------------------------------------------------------------------------
(* The operators of the consensus. *)

\* Of finitely many runs with a number, one is the first of those with the greatest.
LEMMA FirstGreatest ==
    ASSUME NEW S, IsFiniteSet(S), S # {}, S \subseteq Nat, NEW f \in [S -> Int]
    PROVE  \E i \in S: \A j \in S: f[j] < f[i] \/ (f[j] = f[i] /\ i <= j)
<1>1. PICK x \in S: \A y \in S: f[y] <= f[x]
  BY Greatest
<1> DEFINE T == {y \in S: f[y] = f[x]}
<1>2. PICK i \in T: \A j \in T: i <= j
  <2>1. T \subseteq Nat /\ T # {}
    OBVIOUS
  <2> HIDE DEF T
  <2> QED
    BY <2>1, LeastNatural
<1>3. ASSUME NEW j \in S PROVE f[j] < f[i] \/ (f[j] = f[i] /\ i <= j)
  <2>1. f[j] \in Int /\ f[x] \in Int /\ f[j] <= f[x] /\ f[i] = f[x]
    BY <1>1, <1>2
  <2> HIDE DEF T
  <2>2. CASE f[j] = f[x]
    BY <1>2, <2>1, <2>2 DEF T
  <2>3. CASE f[j] # f[x]
    BY <2>1, <2>3
  <2> QED
    BY <2>2, <2>3
<1> QED
  BY <1>2, <1>3

\* In a strict order of 1..m there is one with k - 1 before it for each k of 1..m, and
\* what is before another has fewer before it.
LEMMA RankExists ==
    ASSUME NEW m \in Nat, NEW R,
           \A c \in 1..m: <<c, c>> \notin R,
           \A c, d, e \in 1..m: <<c, d>> \in R /\ <<d, e>> \in R => <<c, e>> \in R,
           \A c, d \in 1..m: c # d => <<c, d>> \in R \/ <<d, c>> \in R
    PROVE  /\ \A k \in 1..m: \E c \in 1..m: Cardinality({d \in 1..m: <<d, c>> \in R}) = k - 1
           /\ \A c, d \in 1..m: <<c, d>> \in R =>
                  Cardinality({e \in 1..m: <<e, c>> \in R}) < Cardinality({e \in 1..m: <<e, d>> \in R})
<1> DEFINE S == 1..m
           Down(c) == {d \in S: <<d, c>> \in R}
           T == 0..(m - 1)
           f == [c \in S |-> Cardinality(Down(c))]
<1>1. IsFiniteSet(S) /\ Cardinality(S) = m
  BY FS_Interval
<1>2. ASSUME NEW c \in S PROVE IsFiniteSet(Down(c)) /\ Cardinality(Down(c)) \in T
  <2>1. Down(c) \subseteq S /\ c \notin Down(c)
    OBVIOUS
  <2> HIDE DEF Down, S
  <2> QED
    BY <1>1, <2>1, PartIsSmaller
<1>3. ASSUME NEW c \in S, NEW d \in S, <<c, d>> \in R
      PROVE  Cardinality(Down(c)) < Cardinality(Down(d))
  <2>1. Down(c) \subseteq Down(d) /\ c \in Down(d) /\ c \notin Down(c)
    BY <1>3
  <2> HIDE DEF Down
  <2> QED
    BY <1>2, <2>1, PartIsSmaller
<1>4. \A c, d \in S: Cardinality(Down(c)) = Cardinality(Down(d)) => c = d
  <2> SUFFICES ASSUME NEW c \in S, NEW d \in S, Cardinality(Down(c)) = Cardinality(Down(d)), c # d
               PROVE  FALSE
    OBVIOUS
  <2>1. <<c, d>> \in R \/ <<d, c>> \in R
    OBVIOUS
  <2> HIDE DEF Down
  <2> QED
    BY <1>2, <1>3, <2>1
<1> HIDE DEF Down, S
<1>5. f \in Injection(S, T)
  BY <1>2, <1>4 DEF Injection, IsInjective
<1>6. IsFiniteSet(T) /\ Cardinality(T) = m
  BY FS_Interval
<1>7. f \in Surjection(S, T)
  <2> HIDE DEF f, T
  <2>1. Cardinality(S) = Cardinality(T) <=> f \in Surjection(S, T)
    BY <1>5, <1>6, FS_Injection
  <2> QED
    BY <1>1, <1>6, <2>1
<1>8. ASSUME NEW k \in 1..m PROVE \E c \in S: Cardinality(Down(c)) = k - 1
  <2>1. k - 1 \in T
    OBVIOUS
  <2>2. \E c \in S: f[c] = k - 1
    <3> HIDE DEF f, T
    <3> QED
      BY <1>7, <2>1 DEF Surjection
  <2> QED
    BY <2>2
<1>9. \A k \in 1..m: \E c \in S: Cardinality(Down(c)) = k - 1
  BY <1>8
<1> QED
  BY <1>3, <1>9 DEF S, Down

\* The runs are finitely many, not more than n, and what they answered are guesses.
LEMMA PickFacts ==
    ASSUME PhaseInv
    PROVE  /\ n \in Nat \ {0}
           /\ IsFiniteSet(Picks) /\ Picks \subseteq Nat
           /\ Cardinality(Picks) \in Nat /\ Cardinality(Picks) <= n
           /\ \A i \in Picks: answers[i].stated \in Nat /\ answers[i].value \in Values
<1>1. n \in Nat \ {0} /\ answers \in Seq(Guesses) /\ Len(answers) <= n
  BY EnsemblesAssumption DEF PhaseInv
<1>2. Len(answers) \in Nat /\ DOMAIN answers = 1..Len(answers)
  BY <1>1
<1>3. IsFiniteSet(DOMAIN answers) /\ Cardinality(DOMAIN answers) = Len(answers)
  <2>1. \A k \in Nat: IsFiniteSet(1..k) /\ Cardinality(1..k) = k
    BY FS_Interval
  <2> QED
    BY <1>2, <2>1, Zenon
<1>4. Picks \subseteq DOMAIN answers
  BY DEF Picks
<1>5. IsFiniteSet(Picks) /\ Cardinality(Picks) \in Nat /\ Cardinality(Picks) <= Len(answers)
  BY <1>3, <1>4, FS_Subset, FS_CardinalityType
<1>6. ASSUME NEW i \in Picks PROVE answers[i].stated \in Nat /\ answers[i].value \in Values
  <2>1. answers[i] \in Guesses /\ answers[i] # NoGuess
    BY <1>1, <1>4, <1>6 DEF Picks
  <2>2. answers[i] \in [value: Values, stated: 0..MaxStated]
    BY <2>1 DEF Guesses, Statements
  <2>3. MaxStated \in Nat
    BY AgesAssumption
  <2> QED
    BY <2>2, <2>3
<1> QED
  BY <1>1, <1>2, <1>4, <1>5, <1>6

\* A part of the runs.
LEMMA PartFacts ==
    ASSUME PhaseInv, NEW S, S \subseteq Picks
    PROVE  IsFiniteSet(S) /\ Cardinality(S) \in Nat /\ Cardinality(S) <= Cardinality(Picks)
BY PickFacts, FS_Subset, FS_CardinalityType

\* What the members of a cluster state together is a number.
LEMMA StatedIsNatural ==
    ASSUME PhaseInv, NEW members, members \subseteq Picks
    PROVE  Stated(members) \in Nat
<1> DEFINE f == [i \in members |-> answers[i].stated]
           Is(g) == g = [s \in SUBSET members |->
                            IF s = {} THEN 0
                            ELSE answers[CHOOSE x \in s: TRUE].stated + g[s \ {CHOOSE x \in s: TRUE}]]
           G == CHOOSE g: Is(g)
<1>1. IsFiniteSet(members) /\ f \in [members -> Nat]
  BY PickFacts, PartFacts
<1>2. Stated(members) = G[members]
  BY DEF Stated, MapThenSumSet, MapThenFoldSet
<1>3. ASSUME NEW g PROVE Is(g) <=> Sums(g, f, members)
  <2>1. ASSUME NEW s \in SUBSET members, s # {} PROVE f[Pick(s)] = answers[Pick(s)].stated
    <3>1. Pick(s) \in members
      BY <2>1, PickIn
    <3> QED
      BY <3>1
  <2>2. [s \in SUBSET members |->
            IF s = {} THEN 0 ELSE answers[Pick(s)].stated + g[s \ {Pick(s)}]]
        = [s \in SUBSET members |-> IF s = {} THEN 0 ELSE f[Pick(s)] + g[s \ {Pick(s)}]]
    <3> HIDE DEF f
    <3> QED
      BY <2>1
  <2> HIDE DEF f
  <2> QED
    BY <2>2 DEF Sums, Pick
<1> HIDE DEF Is, f
<1>4. Sums(G, f, members)
  <2>1. \E g: Is(g)
    BY <1>1, <1>3, SumsExists
  <2>2. Is(G)
    BY <2>1
  <2> QED
    BY <1>3, <2>2
<1>5. Sums(CHOOSE g: Sums(g, f, members), f, members)
  BY <1>1, SumsExists
<1> HIDE DEF G
<1>6. G[members] = Total(f, members)
  BY <1>1, <1>4, <1>5, SumsUnique DEF Total
<1>7. Total(f, members) \in Nat
  BY <1>1, TotalAdds
<1> QED
  BY <1>2, <1>6, <1>7

\* The largest group of a level is one, and none is larger.
LEMMA LargestFacts ==
    ASSUME PhaseInv, Picks # {}, NEW d
    PROVE  /\ \E i \in Picks: Largest(d) = Group(i, d)
           /\ \A j \in Picks: Cardinality(Group(j, d)) <= Cardinality(Largest(d))
<1> DEFINE f == [i \in Picks |-> Cardinality(Group(i, d))]
           IsLargest(i) == \A j \in Picks:
               \/ Cardinality(Group(j, d)) < Cardinality(Group(i, d))
               \/ Cardinality(Group(j, d)) = Cardinality(Group(i, d)) /\ i <= j
           i0 == CHOOSE i \in Picks: IsLargest(i)
<1>1. \A i \in Picks: Cardinality(Group(i, d)) \in Nat
  <2>1. \A i \in Picks: Group(i, d) \subseteq Picks
    BY DEF Group
  <2> QED
    BY <2>1, PartFacts
<1>2. \E i \in Picks: IsLargest(i)
  <2>1. f \in [Picks -> Int]
    BY <1>1
  <2>2. PICK i \in Picks: \A j \in Picks: f[j] < f[i] \/ (f[j] = f[i] /\ i <= j)
    <3> HIDE DEF f
    <3> QED
      BY <2>1, FirstGreatest, PickFacts
  <2>3. IsLargest(i)
    BY <2>2
  <2> QED
    BY <2>3
<1>3. i0 \in Picks /\ IsLargest(i0)
  <2> HIDE DEF IsLargest
  <2> QED
    BY <1>2
<1>4. Largest(d) = Group(i0, d)
  BY DEF Largest
<1>5. \A j \in Picks: Cardinality(Group(j, d)) <= Cardinality(Group(i0, d))
  <2> HIDE DEF i0
  <2> QED
    BY <1>1, <1>3
<1> QED
  BY <1>3, <1>4, <1>5

\* At a level that is passed over no place has half of the runs.
LEMMA PassedOverFacts ==
    ASSUME PhaseInv, NEW d, PassedOver(d), NEW i \in Picks
    PROVE  ~Half(Group(i, d))
<1>1. ~Half(Largest(d)) /\ Picks # {}
  BY DEF PassedOver
<1>2. Cardinality(Group(i, d)) <= Cardinality(Largest(d))
  BY <1>1, LargestFacts
<1>3. Group(i, d) \subseteq Picks /\ Largest(d) \subseteq Picks
  BY <1>1, LargestFacts DEF Group
<1>4. Cardinality(Group(i, d)) \in Nat /\ Cardinality(Largest(d)) \in Nat
  BY <1>3, PartFacts
<1> QED
  BY <1>1, <1>2, <1>4, PickFacts DEF Half

\* A group speaks through one of its members.
LEMMA RepresentativeFacts ==
    ASSUME PhaseInv, NEW S, S \subseteq Picks, S # {}
    PROVE  Representative(S) \in S
<1> DEFINE f == [i \in S |-> answers[i].stated]
           Speaks(i) == \A j \in S:
               \/ answers[j].stated < answers[i].stated
               \/ answers[j].stated = answers[i].stated /\ i <= j
<1>1. f \in [S -> Int] /\ S \subseteq Nat /\ IsFiniteSet(S)
  BY PickFacts, PartFacts
<1>2. PICK i \in S: \A j \in S: f[j] < f[i] \/ (f[j] = f[i] /\ i <= j)
  <2> HIDE DEF f
  <2> QED
    BY <1>1, FirstGreatest
<1>3. Speaks(i)
  BY <1>2
<1>4. Representative(S) = CHOOSE x \in S: Speaks(x)
  BY DEF Representative
<1> HIDE DEF Speaks
<1> QED
  BY <1>3, <1>4

\* The queue is taken in the order of the runs.
LEMMA FirstFacts == ASSUME PhaseInv, queue # {} PROVE First \in queue
<1>1. queue \subseteq Nat
  BY PickFacts DEF PhaseInv
<1>2. \E i \in queue: \A j \in queue: i <= j
  BY <1>1, LeastNatural
<1> QED
  BY <1>2 DEF First

\* The members of a cluster are runs that answered.
LEMMA MemberFacts ==
    ASSUME PhaseInv, ClusterInv, NEW c \in DOMAIN clusters
    PROVE  /\ clusters[c].members \subseteq Picks /\ clusters[c].members # {}
           /\ Cardinality(clusters[c].members) \in Nat
           /\ Stated(clusters[c].members) \in Nat
<1>1. clusters[c].members \subseteq Picks /\ clusters[c].members # {}
  BY DEF ClusterInv
<1> QED
  BY <1>1, PartFacts, StatedIsNatural

\* The clusters are 1..Len(clusters).
LEMMA ClusterCount ==
    ASSUME ClusterInv
    PROVE  Len(clusters) \in Nat /\ DOMAIN clusters = 1..Len(clusters)
BY DEF ClusterInv

\* Before orders the clusters.
LEMMA BeforeOrders ==
    ASSUME PhaseInv, ClusterInv
    PROVE  /\ \A c \in DOMAIN clusters: ~Before(c, c)
           /\ \A c, d, e \in DOMAIN clusters: Before(c, d) /\ Before(d, e) => Before(c, e)
           /\ \A c, d \in DOMAIN clusters: c # d => Before(c, d) \/ Before(d, c)
<1> DEFINE size(c) == Cardinality(clusters[c].members)
           sure(c) == Stated(clusters[c].members)
<1>1. \A c \in DOMAIN clusters: size(c) \in Nat /\ sure(c) \in Nat /\ c \in Nat
  BY MemberFacts, ClusterCount
<1>2. \A c, d: Before(c, d) <=> \/ size(c) > size(d)
                                \/ size(c) = size(d) /\ sure(c) > sure(d)
                                \/ size(c) = size(d) /\ sure(c) = sure(d) /\ c < d
  BY DEF Before
<1> HIDE DEF size, sure
<1>3. \A c \in DOMAIN clusters: ~Before(c, c)
  BY <1>1, <1>2
<1>4. ASSUME NEW c \in DOMAIN clusters, NEW d \in DOMAIN clusters, NEW e \in DOMAIN clusters,
             Before(c, d), Before(d, e)
      PROVE  Before(c, e)
  <2>1. size(c) >= size(d) /\ size(d) >= size(e)
    BY <1>1, <1>2, <1>4
  <2>2. CASE size(c) > size(e)
    BY <1>2, <2>2
  <2>3. CASE size(c) = size(d) /\ size(d) = size(e)
    BY <1>1, <1>2, <1>4, <2>3
  <2> QED
    BY <1>1, <2>1, <2>2, <2>3
<1>5. ASSUME NEW c \in DOMAIN clusters, NEW d \in DOMAIN clusters, c # d
      PROVE  Before(c, d) \/ Before(d, c)
  BY <1>1, <1>2, <1>5
<1> QED
  BY <1>3, <1>4, <1>5

\* Every rank is held by one cluster; a higher rank has no fewer members.
LEMMA RankedFacts ==
    ASSUME PhaseInv, ClusterInv
    PROVE  /\ \A k \in DOMAIN clusters: Ranked(k) \in DOMAIN clusters
           /\ \A k, l \in DOMAIN clusters: k < l =>
                  /\ Ranked(k) # Ranked(l)
                  /\ Cardinality(clusters[Ranked(l)].members)
                         <= Cardinality(clusters[Ranked(k)].members)
<1> DEFINE S == DOMAIN clusters
           R == {p \in S \X S: Before(p[1], p[2])}
           Ahead(c) == {d \in S: Before(d, c)}
<1>1. \A c, d \in S: <<c, d>> \in R <=> Before(c, d)
  OBVIOUS
<1>2. PICK m \in Nat: S = 1..m
  BY ClusterCount
<1>3. \A c \in S: Ahead(c) = {d \in 1..m: <<d, c>> \in R}
  BY <1>1, <1>2
<1>4. /\ \A c \in 1..m: <<c, c>> \notin R
      /\ \A c, d, e \in 1..m: <<c, d>> \in R /\ <<d, e>> \in R => <<c, e>> \in R
      /\ \A c, d \in 1..m: c # d => <<c, d>> \in R \/ <<d, c>> \in R
  <2> HIDE DEF R, S
  <2> QED
    BY <1>1, <1>2, BeforeOrders DEF S
<1>5. /\ \A k \in S: \E c \in S: Cardinality(Ahead(c)) = k - 1
      /\ \A c, d \in S: Before(c, d) => Cardinality(Ahead(c)) < Cardinality(Ahead(d))
  <2> HIDE DEF R, S, Ahead
  <2>1. /\ \A k \in 1..m: \E c \in 1..m: Cardinality({d \in 1..m: <<d, c>> \in R}) = k - 1
        /\ \A c, d \in 1..m: <<c, d>> \in R =>
               Cardinality({e \in 1..m: <<e, c>> \in R}) < Cardinality({e \in 1..m: <<e, d>> \in R})
    BY <1>4, RankExists
  <2> QED
    BY <1>1, <1>2, <1>3, <2>1
<1>6. ASSUME NEW k \in S PROVE Ranked(k) \in S /\ Cardinality(Ahead(Ranked(k))) = k - 1
  <2>1. Ranked(k) = CHOOSE c \in S: Cardinality(Ahead(c)) = k - 1
    BY DEF Ranked
  <2> HIDE DEF Ahead, S
  <2> QED
    BY <1>5, <2>1
<1>7. ASSUME NEW k \in S, NEW l \in S, k < l
      PROVE  /\ Ranked(k) # Ranked(l)
             /\ Cardinality(clusters[Ranked(l)].members)
                    <= Cardinality(clusters[Ranked(k)].members)
  <2>1. /\ Ranked(k) \in S /\ Cardinality(Ahead(Ranked(k))) = k - 1
        /\ Ranked(l) \in S /\ Cardinality(Ahead(Ranked(l))) = l - 1
        /\ k \in Nat /\ l \in Nat
    <3>1. k \in Nat /\ l \in Nat
      BY <1>2
    <3> HIDE DEF Ahead, S
    <3> QED
      BY <1>6, <3>1
  <2>2. Ranked(k) # Ranked(l)
    <3> HIDE DEF Ahead
    <3> QED
      BY <1>7, <2>1
  <2>3. ~Before(Ranked(l), Ranked(k))
    <3> HIDE DEF Ahead
    <3> QED
      BY <1>5, <1>7, <2>1
  <2>4. ~(Cardinality(clusters[Ranked(l)].members) > Cardinality(clusters[Ranked(k)].members))
    BY <2>3 DEF Before
  <2>5. /\ Cardinality(clusters[Ranked(l)].members) \in Nat
        /\ Cardinality(clusters[Ranked(k)].members) \in Nat
    BY <2>1, MemberFacts
  <2> QED
    BY <2>2, <2>4, <2>5
<1> QED
  BY <1>6, <1>7

\* The candidates are the first clusters in their order, one at least if there is one.
LEMMA RunnersFacts ==
    ASSUME ClusterInv, NEW already \in {0, 1}
    PROVE  \E m \in 0..Len(clusters):
               /\ clusters # <<>> => m >= 1
               /\ Runners(already) = [k \in 1..m |-> Candidate(clusters[Ranked(k)].members)]
<1> DEFINE a == Len(clusters)
           b == 3 - already
           m == Min({a, b})
<1>1. a \in Nat /\ b \in {2, 3} /\ (clusters # <<>> => a >= 1)
  BY ClusterCount DEF ClusterInv
<1> HIDE DEF a, b
<1>2. m \in {a, b} /\ m <= a
  <2>1. \E x \in {a, b}: \A y \in {a, b}: x <= y
    BY <1>1
  <2>2. m = CHOOSE x \in {a, b}: \A y \in {a, b}: x <= y
    BY DEF Min
  <2> HIDE DEF m
  <2> QED
    BY <2>1, <2>2
<1>3. Runners(already) = [k \in 1..m |-> Candidate(clusters[Ranked(k)].members)]
  BY DEF Runners, a, b
<1>4. m \in 0..a /\ (clusters # <<>> => m >= 1)
  <2> HIDE DEF m
  <2> QED
    BY <1>1, <1>2
<1> QED
  BY <1>3, <1>4 DEF a

\* An answer agrees with itself.
LEMMA AgreeReflexive ==
    ASSUME PhaseInv, NEW i \in Picks
    PROVE  Agree(i, i)
<1>1. attribute = "age" => answers[i].value \in Int
  <2>1. answers[i].value \in Values
    BY PickFacts
  <2> QED
    BY <2>1, AgesAssumption DEF Values, Geo
<1> DEFINE v == answers[i].value
<1>2. Tolerance \in Nat
  BY AgesAssumption
<1>3. Agree(i, i) <=> (attribute = "age" => v - v <= Tolerance)
  BY DEF Agree
<1>4. attribute = "age" => v \in Int
  BY <1>1
<1> HIDE DEF v
<1> QED
  BY <1>2, <1>3, <1>4

-----------------------------------------------------------------------------
(* The steps of the consensus. *)

\* What depends on the answers only stays as long as they do.
LEMMA SameRuns ==
    ASSUME answers' = answers, attribute' = attribute, n' = n
    PROVE  /\ Picks' = Picks /\ Guesses' = Guesses
           /\ \A i, j: (Agree(i, j))' = Agree(i, j)
           /\ \A i, d: (Group(i, d))' = Group(i, d)
           /\ \A S: (Half(S))' <=> Half(S)
<1>1. Picks' = Picks
  BY DEF Picks, NoGuess
<1>2. Guesses' = Guesses
  BY DEF Guesses, Statements, Values, NoGuess, Geo
<1>3. \A i, j: (Agree(i, j))' = Agree(i, j)
  BY DEF Agree
<1>4. \A i, d: (Group(i, d))' = Group(i, d)
  BY <1>1 DEF Group, Chain
<1>5. \A S: (Half(S))' <=> Half(S)
  BY DEF Half
<1> QED
  BY <1>1, <1>2, <1>3, <1>4, <1>5

\* Nothing is clustered before the first run.
LEMMA ConsensusStarts == Init => ConsensusInv
<1> SUFFICES ASSUME Init PROVE ConsensusInv
  OBVIOUS
<1> USE DEF Init, ConsensusInit
<1>1. PhaseInv
  BY EnsemblesAssumption DEF PhaseInv, Picks
<1>2. ClusterInv
  BY DEF ClusterInv
<1>3. AgreeInv /\ LevelInv
  BY DEF AgreeInv, LevelInv
<1> QED
  BY <1>1, <1>2, <1>3 DEF ConsensusInv

\* A run more.
LEMMA AnswerKeeps ==
    ASSUME ConsensusInv, NEW guess \in Guesses, Answer(guess)
    PROVE  ConsensusInv'
<1> USE DEF ConsensusInv, Answer
<1>1. /\ phase' = "runs" /\ consensus' = <<>> /\ clusters' = <<>> /\ shared' = {} /\ queue' = {}
      /\ at' = 1 /\ level' \in Nat /\ n' = n /\ n \in Nat
      /\ n' \in Ensembles /\ attribute' = attribute
      /\ attribute \in {"age", "income", "occupation"} \cup Geo
  BY EnsemblesAssumption DEF PhaseInv
<1>2. Guesses' = Guesses
  BY <1>1 DEF Guesses, Statements, Values, Geo, NoGuess
<1>3. answers' \in Seq(Guesses) /\ Len(answers') <= n
  <2>1. answers \in Seq(Guesses) /\ Len(answers) < n
    BY DEF PhaseInv
  <2>2. answers' = Append(answers, guess)
    OBVIOUS
  <2> HIDE DEF ConsensusInv, Answer
  <2>3. Append(answers, guess) \in Seq(Guesses) /\ Len(Append(answers, guess)) = Len(answers) + 1
    BY <2>1
  <2>4. Len(answers) \in Nat
    BY <2>1
  <2> QED
    BY <1>1, <2>1, <2>2, <2>3, <2>4
<1>4. PhaseInv'
  <2> HIDE DEF ConsensusInv, Answer
  <2> QED
    BY <1>1, <1>2, <1>3 DEF PhaseInv, Geo
<1>5. ClusterInv'
  <2> HIDE DEF ConsensusInv, Answer
  <2> QED
    BY <1>1 DEF ClusterInv
<1>6. AgreeInv' /\ LevelInv'
  <2> HIDE DEF ConsensusInv, Answer
  <2> QED
    BY <1>1 DEF AgreeInv, LevelInv
<1> QED
  BY <1>4, <1>5, <1>6

\* A single run is not clustered.
LEMMA SingleRunKeeps == ASSUME ConsensusInv, SingleRun PROVE ConsensusInv'
<1> USE DEF ConsensusInv
<1>1. /\ answers' = answers /\ attribute' = attribute /\ n' = n /\ phase' = "done"
      /\ UNCHANGED <<level, shared, queue, at, clusters>>
      /\ clusters = <<>>
  BY DEF SingleRun, PhaseInv
<1>2. PhaseInv'
  BY <1>1, SameRuns DEF PhaseInv, Geo
<1>3. ClusterInv'
  BY <1>1 DEF ClusterInv
<1>4. AgreeInv' /\ LevelInv'
  BY <1>1 DEF AgreeInv, LevelInv
<1> QED
  BY <1>2, <1>3, <1>4

\* The scan and the clustering begin.
LEMMA AggregateKeeps == ASSUME ConsensusInv, Aggregate PROVE ConsensusInv'
<1> USE DEF ConsensusInv
<1>1. /\ answers' = answers /\ attribute' = attribute /\ n' = n /\ n >= 2 /\ Len(answers) = n
      /\ UNCHANGED <<shared, at, clusters, consensus>>
      /\ clusters = <<>> /\ consensus = <<>> /\ shared = {} /\ at = 1 /\ queue = {}
  BY DEF Aggregate, PhaseInv
<1>2. \/ attribute \in Geo /\ phase' = "scan" /\ level' = Finest[attribute] /\ queue' = queue
      \/ attribute \notin Geo /\ phase' = "cluster" /\ queue' = Picks /\ level' = level
  BY DEF Aggregate
<1>3. level' \in Nat
  BY <1>2, PlacesAssumption DEF PhaseInv
<1>4. n \in Nat
  BY PickFacts
<1>5. PhaseInv'
  BY <1>1, <1>2, <1>3, <1>4, SameRuns DEF PhaseInv, Geo
<1>6. ClusterInv'
  BY <1>1, <1>2, SameRuns DEF ClusterInv, Geo
<1>7. AgreeInv'
  BY <1>1, <1>2 DEF AgreeInv, Geo
<1>8. LevelInv'
  <2>1. CASE attribute \in Geo
    <3>1. Finest[attribute] \in Nat
      BY <2>1, PlacesAssumption
    <3> QED
      BY <1>1, <1>2, <2>1, <3>1 DEF LevelInv
  <2>2. CASE attribute \notin Geo
    BY <1>1, <2>2 DEF LevelInv, Geo
  <2> QED
    BY <2>1, <2>2
<1> QED
  BY <1>5, <1>6, <1>7, <1>8

\* A level is passed over, or chosen for the place that half of the runs share there.
LEMMA ScanKeeps == ASSUME ConsensusInv, Scan PROVE ConsensusInv'
<1> USE DEF ConsensusInv
<1>1. /\ answers' = answers /\ attribute' = attribute /\ n' = n
      /\ UNCHANGED <<at, clusters, consensus>>
      /\ attribute \in Geo /\ level \in Nat /\ phase = "scan" /\ n > 1 /\ Len(answers) = n
      /\ clusters = <<>> /\ consensus = <<>> /\ shared = {} /\ at = 1 /\ queue = {}
  BY DEF Scan, PhaseInv
<1>2. CASE level = 0
  <2>1. phase' = "done" /\ UNCHANGED <<level, shared, queue>>
    BY <1>2 DEF Scan
  <2>2. PhaseInv'
    BY <1>1, <2>1, SameRuns DEF PhaseInv, Geo
  <2>3. ClusterInv'
    BY <1>1, <2>1 DEF ClusterInv
  <2>4. AgreeInv' /\ LevelInv'
    BY <2>1 DEF AgreeInv, LevelInv
  <2> QED
    BY <2>2, <2>3, <2>4
<1>3. CASE level # 0 /\ PassedOver(level)
  <2>1. level' = level - 1 /\ UNCHANGED <<phase, shared, queue>>
    BY <1>3 DEF Scan
  <2>2. level' \in Nat
    BY <1>1, <1>3, <2>1
  <2>3. PhaseInv'
    BY <1>1, <2>1, <2>2, SameRuns DEF PhaseInv, Geo
  <2>4. ClusterInv'
    BY <1>1, <2>1 DEF ClusterInv
  <2>5. AgreeInv'
    BY <1>1, <2>1 DEF AgreeInv
  <2>6. LevelInv'
    <3>1. Finest[attribute] \in Nat /\ level <= Finest[attribute]
      BY <1>1, PlacesAssumption DEF LevelInv
    <3>2. ASSUME NEW d \in (level' + 1)..Finest[attribute], NEW i \in Picks
          PROVE  ~Half(Group(i, d))
      <4>1. CASE d = level
        BY <1>3, <4>1, PassedOverFacts
      <4>2. CASE d # level
        <5>1. d \in (level + 1)..Finest[attribute]
          BY <1>1, <2>1, <3>1, <4>2
        <5> QED
          BY <1>1, <5>1 DEF LevelInv
      <4> QED
        BY <4>1, <4>2
    <3> QED
      BY <1>1, <2>1, <3>1, <3>2, SameRuns DEF LevelInv
  <2> QED
    BY <2>3, <2>4, <2>5, <2>6
<1>4. CASE level # 0 /\ ~PassedOver(level)
  <2>1. /\ phase' = "cluster" /\ shared' = Largest(level) /\ queue' = Others(level)
        /\ level' = level
    BY <1>4 DEF Scan
  <2>2. Picks # {} /\ Half(Largest(level))
    BY <1>4 DEF PassedOver
  <2>3. PICK i \in Picks: Largest(level) = Group(i, level)
    BY <2>2, LargestFacts
  <2>4. queue' \subseteq Picks /\ shared' \subseteq Picks \ queue'
    BY <2>1, <2>3 DEF Group, Others
  <2>5. PhaseInv'
    BY <1>1, <2>1, <2>4, SameRuns DEF PhaseInv, Geo
  <2>6. ClusterInv'
    BY <1>1, <2>1 DEF ClusterInv
  <2>7. AgreeInv'
    BY <1>1 DEF AgreeInv, Geo
  <2>8. LevelInv'
    <3>1. \A d \in (level + 1)..Finest[attribute]: \A j \in Picks: ~Half(Group(j, d))
      BY <1>1 DEF LevelInv
    <3> QED
      BY <1>1, <2>1, <2>2, <2>3, <3>1, SameRuns DEF LevelInv
  <2> QED
    BY <2>5, <2>6, <2>7, <2>8
<1> QED
  BY <1>2, <1>3, <1>4

\* The first of the queue is compared with a leader, and joins or goes on to the next.
LEMMA CompareKeeps ==
    ASSUME ConsensusInv, NEW joins \in BOOLEAN, Compare(joins)
    PROVE  ConsensusInv'
<1> USE DEF ConsensusInv
<1>1. /\ answers' = answers /\ attribute' = attribute /\ n' = n
      /\ UNCHANGED <<phase, level, shared, consensus>>
      /\ phase = "cluster" /\ queue # {} /\ at \in DOMAIN clusters /\ MayJoin(First, at, joins)
  BY DEF Compare
<1>2. First \in queue /\ First \in Picks /\ First \in Nat /\ queue \subseteq Picks
  BY <1>1, FirstFacts, PickFacts DEF PhaseInv
<1>3. /\ Len(clusters) \in Nat /\ DOMAIN clusters = 1..Len(clusters)
      /\ at \in 1..Len(clusters)
  BY <1>1, ClusterCount
<1>4. LevelInv'
  BY <1>1, SameRuns DEF LevelInv
<1>5. CASE joins
  <2>1. /\ clusters' = [clusters EXCEPT ![at].members = @ \cup {First}]
        /\ queue' = queue \ {First}
        /\ at' = 1
    BY <1>5 DEF Compare
  <2> DEFINE r == [clusters[at] EXCEPT !.members = @ \cup {First}]
  <2>2. /\ clusters \in Seq([leader: Nat, members: SUBSET Nat])
        /\ clusters[at] \in [leader: Nat, members: SUBSET Nat]
    <3>1. clusters \in Seq([leader: Nat, members: SUBSET Nat])
      BY DEF ClusterInv
    <3>2. \A S, s: s \in Seq(S) => \A c \in 1..Len(s): s[c] \in S
      OBVIOUS
    <3> QED
      BY <1>3, <3>1, <3>2, Zenon
  <2>3. /\ r \in [leader: Nat, members: SUBSET Nat]
        /\ r.leader = clusters[at].leader
        /\ r.members = clusters[at].members \cup {First}
    BY <1>2, <2>2
  <2>4. clusters' = [clusters EXCEPT ![at] = r]
    BY <2>1
  <2> HIDE DEF r
  <2>5. /\ DOMAIN clusters' = DOMAIN clusters
        /\ \A c \in DOMAIN clusters:
              /\ clusters'[c].leader = clusters[c].leader
              /\ clusters'[c].members =
                    IF c = at THEN clusters[c].members \cup {First} ELSE clusters[c].members
    <3>1. DOMAIN clusters' = DOMAIN clusters
      BY <2>4
    <3>2. \A c \in DOMAIN clusters: clusters'[c] = IF c = at THEN r ELSE clusters[c]
      BY <2>4
    <3> QED
      BY <2>3, <3>1, <3>2
  <2>6. clusters' \in Seq([leader: Nat, members: SUBSET Nat]) /\ Len(clusters') = Len(clusters)
    BY <1>1, <2>2, <2>3, <2>4
  <2>7. PhaseInv'
    BY <1>1, <1>2, <2>1, SameRuns DEF PhaseInv, Geo
  <2>8. ClusterInv'
    <3>1. ASSUME NEW c \in DOMAIN clusters
          PROVE  /\ clusters'[c].leader \in clusters'[c].members
                 /\ clusters'[c].members \subseteq Picks \ (queue' \cup shared)
      <4>1. First \notin shared
        BY <1>2 DEF PhaseInv
      <4> QED
        BY <1>2, <2>1, <2>5, <4>1 DEF ClusterInv
    <3>2. ASSUME NEW c \in DOMAIN clusters, NEW d \in DOMAIN clusters, c # d
          PROVE  clusters'[c].members \cap clusters'[d].members = {}
      <4>1. /\ clusters[c].members \cap clusters[d].members = {}
            /\ First \notin clusters[c].members /\ First \notin clusters[d].members
        BY <1>2, <3>2 DEF ClusterInv
      <4> QED
        BY <2>5, <3>2, <4>1
    <3>3. attribute \notin Geo =>
             \A i \in Picks \ queue': \E c \in DOMAIN clusters: i \in clusters'[c].members
      BY <1>1, <2>1, <2>5 DEF ClusterInv
    <3>4. /\ phase' = phase /\ attribute' = attribute /\ shared' = shared /\ Picks' = Picks
          /\ DOMAIN clusters' = DOMAIN clusters /\ Len(clusters') = Len(clusters)
          /\ at' \in 1..(Len(clusters') + 1)
      BY <1>1, <1>3, <2>1, <2>5, <2>6, SameRuns
    <3> QED
      BY <2>6, <3>1, <3>2, <3>3, <3>4 DEF ClusterInv, Geo
  <2>9. AgreeInv'
    <3> SUFFICES ASSUME attribute \in {"age", "income"} PROVE AgreeInv'
      BY <1>1 DEF AgreeInv
    <3>1. Agree(clusters[at].leader, First)
      BY <1>1, <1>5 DEF MayJoin
    <3>2. \A d \in 1..(at - 1): ~Agree(clusters[d].leader, First)
      BY <1>1 DEF AgreeInv
    <3>3. ASSUME NEW c \in DOMAIN clusters, NEW i \in clusters'[c].members
          PROVE  /\ Agree(clusters'[c].leader, i)
                 /\ \A d \in 1..(c - 1): ~Agree(clusters'[d].leader, i)
      <4>1. \A d \in 1..(c - 1): clusters'[d].leader = clusters[d].leader
        <5>1. c \in 1..Len(clusters)
          BY <1>3, Zenon
        <5>2. \A d \in 1..(c - 1): d \in 1..Len(clusters)
          BY <1>3, <5>1
        <5>3. \A d \in 1..(c - 1): d \in DOMAIN clusters
          BY <1>3, <5>2, Zenon
        <5> QED
          BY <2>5, <5>3, Zenon
      <4>2. clusters'[c].leader = clusters[c].leader
        BY <2>5, Zenon
      <4>3. CASE i \in clusters[c].members
        <5>1. /\ Agree(clusters[c].leader, i)
              /\ \A d \in 1..(c - 1): ~Agree(clusters[d].leader, i)
          BY <1>1, <4>3 DEF AgreeInv
        <5> QED
          BY <4>1, <4>2, <5>1
      <4>4. CASE i \notin clusters[c].members
        <5>1. c = at /\ i = First
          BY <2>5, <4>4
        <5> QED
          BY <3>1, <3>2, <4>1, <4>2, <5>1
      <4> QED
        BY <4>3, <4>4
    <3> QED
      BY <1>1, <2>1, <2>5, <3>3, SameRuns DEF AgreeInv
  <2> QED
    BY <1>4, <2>7, <2>8, <2>9
<1>6. CASE ~joins
  <2>1. at' = at + 1 /\ clusters' = clusters /\ queue' = queue
    BY <1>6 DEF Compare
  <2>2. PhaseInv'
    BY <1>1, <2>1, SameRuns DEF PhaseInv, Geo
  <2>3. ClusterInv'
    <3>1. at' \in 1..(Len(clusters) + 1)
      BY <1>3, <2>1
    <3> QED
      BY <1>1, <2>1, <3>1, SameRuns DEF ClusterInv, Geo
  <2>4. AgreeInv'
    <3> SUFFICES ASSUME attribute \in {"age", "income"} PROVE AgreeInv'
      BY <1>1 DEF AgreeInv
    <3>1. ~Agree(clusters[at].leader, First)
      BY <1>1, <1>6 DEF MayJoin
    <3>2. \A d \in 1..(at' - 1): ~Agree(clusters[d].leader, First)
      <4>1. \A d \in 1..(at - 1): ~Agree(clusters[d].leader, First)
        BY <1>1 DEF AgreeInv
      <4>2. \A d \in 1..(at' - 1): d = at \/ d \in 1..(at - 1)
        BY <1>3, <2>1
      <4> QED
        BY <3>1, <4>1, <4>2
    <3>3. First' = First
      BY <2>1 DEF First
    <3> QED
      BY <1>1, <2>1, <3>2, <3>3, SameRuns DEF AgreeInv
  <2> QED
    BY <1>4, <2>2, <2>3, <2>4
<1> QED
  BY <1>5, <1>6

\* The first of the queue was compared with all leaders, and opens a cluster.
LEMMA NewClusterKeeps == ASSUME ConsensusInv, NewCluster PROVE ConsensusInv'
<1> USE DEF ConsensusInv
<1>1. /\ answers' = answers /\ attribute' = attribute /\ n' = n
      /\ UNCHANGED <<phase, level, shared, consensus>>
      /\ phase = "cluster" /\ queue # {} /\ at \notin DOMAIN clusters
      /\ queue' = queue \ {First} /\ at' = 1
  BY DEF NewCluster
<1>2. First \in queue /\ First \in Picks /\ First \in Nat /\ queue \subseteq Picks
  BY <1>1, FirstFacts, PickFacts DEF PhaseInv
<1> DEFINE m == Len(clusters)
           new == [leader |-> First, members |-> {First}]
<1>3. /\ m \in Nat /\ DOMAIN clusters = 1..m /\ at = m + 1
      /\ clusters \in Seq([leader: Nat, members: SUBSET Nat])
  BY <1>1, ClusterCount DEF ClusterInv
<1>4. clusters' = Append(clusters, new) /\ new \in [leader: Nat, members: SUBSET Nat]
  BY <1>2 DEF NewCluster
<1>5. /\ clusters' \in Seq([leader: Nat, members: SUBSET Nat])
      /\ Len(clusters') = m + 1 /\ DOMAIN clusters' = 1..(m + 1)
      /\ \A c \in 1..m: clusters'[c] = clusters[c]
      /\ clusters'[m + 1] = new
  <2> HIDE DEF new
  <2> QED
    BY <1>3, <1>4
<1>6. new.leader = First /\ new.members = {First}
  OBVIOUS
<1> HIDE DEF m, new
<1>7. \A c \in 1..(m + 1): c = m + 1 \/ c \in 1..m
  BY <1>3
<1>8. PhaseInv'
  BY <1>1, <1>2, SameRuns DEF PhaseInv, Geo
<1>9. ClusterInv'
  <2>1. ASSUME NEW c \in 1..(m + 1)
        PROVE  /\ clusters'[c].leader \in clusters'[c].members
               /\ clusters'[c].members \subseteq Picks \ (queue' \cup shared)
    <3>1. First \notin shared
      BY <1>2 DEF PhaseInv
    <3>2. CASE c \in 1..m
      BY <1>1, <1>3, <1>5, <3>2 DEF ClusterInv
    <3>3. CASE c = m + 1
      BY <1>1, <1>2, <1>5, <1>6, <3>1, <3>3
    <3> QED
      BY <1>7, <3>2, <3>3
  <2>2. ASSUME NEW c \in 1..(m + 1), NEW d \in 1..(m + 1), c # d
        PROVE  clusters'[c].members \cap clusters'[d].members = {}
    <3>1. \A e \in 1..m: First \notin clusters[e].members
      BY <1>2, <1>3 DEF ClusterInv
    <3>2. CASE c \in 1..m /\ d \in 1..m
      BY <1>3, <1>5, <2>2, <3>2 DEF ClusterInv
    <3>3. CASE c = m + 1 /\ d \in 1..m
      BY <1>5, <1>6, <3>1, <3>3
    <3>4. CASE d = m + 1 /\ c \in 1..m
      BY <1>5, <1>6, <3>1, <3>4
    <3> QED
      BY <1>7, <2>2, <3>2, <3>3, <3>4
  <2>3. ASSUME attribute \notin Geo, NEW i \in Picks \ queue'
        PROVE  \E c \in 1..(m + 1): i \in clusters'[c].members
    <3>1. CASE i = First
      <4>1. m + 1 \in 1..(m + 1)
        BY <1>3
      <4> QED
        BY <1>5, <1>6, <3>1, <4>1
    <3>2. CASE i # First
      <4>1. PICK c \in 1..m: i \in clusters[c].members
        BY <1>1, <1>3, <2>3, <3>2 DEF ClusterInv
      <4>2. c \in 1..(m + 1)
        BY <1>3
      <4> QED
        BY <1>5, <4>1, <4>2
    <3> QED
      BY <3>1, <3>2
  <2>4. at' \in 1..(Len(clusters') + 1)
    BY <1>1, <1>3, <1>5
  <2> QED
    BY <1>1, <1>5, <2>1, <2>2, <2>3, <2>4, SameRuns DEF ClusterInv, Geo
<1>10. AgreeInv'
  <2> SUFFICES ASSUME attribute \in {"age", "income"} PROVE AgreeInv'
    BY <1>1 DEF AgreeInv
  <2>1. Agree(First, First)
    BY <1>2, AgreeReflexive
  <2>2. \A d \in 1..m: ~Agree(clusters[d].leader, First)
    <3>1. \A d \in 1..(at - 1): ~Agree(clusters[d].leader, First)
      BY <1>1 DEF AgreeInv
    <3>2. \A d \in 1..m: d \in 1..(at - 1)
      BY <1>3
    <3> QED
      BY <3>1, <3>2
  <2>3. ASSUME NEW c \in 1..(m + 1), NEW i \in clusters'[c].members
        PROVE  /\ Agree(clusters'[c].leader, i)
               /\ \A d \in 1..(c - 1): ~Agree(clusters'[d].leader, i)
    <3>1. \A d \in 1..(c - 1): d \in 1..m
      BY <1>3
    <3>2. CASE c \in 1..m
      BY <1>1, <1>3, <1>5, <3>1, <3>2 DEF AgreeInv
    <3>3. CASE c = m + 1
      BY <1>5, <1>6, <2>1, <2>2, <3>1, <3>3
    <3> QED
      BY <1>7, <3>2, <3>3
  <2> QED
    BY <1>1, <1>5, <2>3, SameRuns DEF AgreeInv
<1>11. LevelInv'
  BY <1>1, SameRuns DEF LevelInv
<1> QED
  BY <1>8, <1>9, <1>10, <1>11

\* The candidates are formed.
LEMMA ConcludeKeeps == ASSUME ConsensusInv, Conclude PROVE ConsensusInv'
<1> USE DEF ConsensusInv
<1>1. /\ answers' = answers /\ attribute' = attribute /\ n' = n /\ phase' = "done"
      /\ UNCHANGED <<level, shared, queue, at, clusters>>
  BY DEF Conclude
<1>2. PhaseInv'
  BY <1>1, SameRuns DEF PhaseInv, Geo
<1>3. ClusterInv'
  BY <1>1, SameRuns DEF ClusterInv
<1>4. AgreeInv' /\ LevelInv'
  BY <1>1 DEF AgreeInv, LevelInv
<1> QED
  BY <1>2, <1>3, <1>4

\* Nothing of the consensus changes.
LEMMA ConsensusStays == ASSUME ConsensusInv, UNCHANGED consensusVars PROVE ConsensusInv'
<1> USE DEF ConsensusInv, consensusVars
<1>1. PhaseInv'
  BY SameRuns DEF PhaseInv, Geo
<1>2. ClusterInv'
  BY SameRuns DEF ClusterInv
<1>3. AgreeInv'
  <2>1. First' = First
    BY DEF First
  <2> QED
    BY <2>1, SameRuns DEF AgreeInv
<1>4. LevelInv'
  BY SameRuns DEF LevelInv
<1> QED
  BY <1>1, <1>2, <1>3, <1>4

\* A step of Attack is one of the ensemble, or leaves the consensus alone.
LEMMA StepOfEnsemble == [Next]_vars => Ensemble \/ UNCHANGED consensusVars
BY DEF Next, Search, Select, Prompt, Infer, LeaveOut, Persist, Fail, vars

\* Every step keeps the invariant of the consensus.
LEMMA ConsensusKept == ConsensusInv /\ [Next]_vars => ConsensusInv'
<1> SUFFICES ASSUME ConsensusInv, [Next]_vars PROVE ConsensusInv'
  OBVIOUS
<1>1. CASE UNCHANGED consensusVars
  BY <1>1, ConsensusStays
<1>2. ASSUME NEW guess \in Guesses, Answer(guess) PROVE ConsensusInv'
  BY <1>2, AnswerKeeps
<1>3. CASE SingleRun
  BY <1>3, SingleRunKeeps
<1>4. CASE Aggregate
  BY <1>4, AggregateKeeps
<1>5. CASE Scan
  BY <1>5, ScanKeeps
<1>6. ASSUME NEW joins \in BOOLEAN, Compare(joins) PROVE ConsensusInv'
  BY <1>6, CompareKeeps
<1>7. CASE NewCluster
  BY <1>7, NewClusterKeeps
<1>8. CASE Conclude
  BY <1>8, ConcludeKeeps
<1> QED
  BY <1>1, <1>2, <1>3, <1>4, <1>5, <1>6, <1>7, <1>8, StepOfEnsemble DEF Ensemble

-----------------------------------------------------------------------------
(* What is concluded. *)

\* A conclusion stands from the last step of the ensemble on: that of a single run, that
\* of the coarsest level of a scan, or the candidates.
LEMMA Concluded ==
    ASSUME ConsensusInv, [Next]_vars, phase' = "done"
    PROVE  \/ phase = "done" /\ UNCHANGED consensusVars
           \/ SingleRun /\ n = 1
           \/ Scan /\ level = 0 /\ consensus' = <<>>
           \/ Conclude
<1>1. CASE UNCHANGED consensusVars
  BY <1>1 DEF consensusVars
<1>2. CASE Ensemble
  <2>1. SingleRun => n = 1
    <3>1. n \in Nat \ {0}
      BY PickFacts DEF ConsensusInv
    <3> QED
      BY <3>1 DEF SingleRun
  <2>2. Scan => level = 0 /\ consensus' = <<>>
    BY DEF Scan, ConsensusInv, PhaseInv
  <2>3. ~(\E guess \in Guesses: Answer(guess)) /\ ~Aggregate
    BY DEF Answer, Aggregate
  <2>4. ~(\E joins \in BOOLEAN: Compare(joins)) /\ ~NewCluster
    BY DEF Compare, NewCluster
  <2> QED
    BY <1>2, <2>1, <2>2, <2>3, <2>4 DEF Ensemble
<1> QED
  BY <1>1, <1>2, StepOfEnsemble

\* Before the conclusion there is none.
LEMMA NotYet == ASSUME PhaseInv, phase # "done" PROVE consensus = <<>>
BY DEF PhaseInv

\* Every cluster has a rank.
LEMMA RankOnto ==
    ASSUME PhaseInv, ClusterInv, NEW c \in DOMAIN clusters
    PROVE  \E k \in DOMAIN clusters: Ranked(k) = c
<1> DEFINE S == DOMAIN clusters
           f == [k \in S |-> Ranked(k)]
<1>1. PICK m \in Nat: S = 1..m
  BY ClusterCount
<1>2. IsFiniteSet(S)
  <2>1. \A k \in Nat: IsFiniteSet(1..k)
    BY FS_Interval
  <2> QED
    BY <1>1, <2>1, Zenon
<1>3. \A k, l \in S: Ranked(k) = Ranked(l) => k = l
  <2> SUFFICES ASSUME NEW k \in S, NEW l \in S, Ranked(k) = Ranked(l), k # l PROVE FALSE
    OBVIOUS
  <2>1. k < l \/ l < k
    BY <1>1
  <2> QED
    BY <2>1, RankedFacts
<1>4. f \in Injection(S, S)
  <2>1. \A k \in S: Ranked(k) \in S
    BY RankedFacts
  <2> HIDE DEF S
  <2> QED
    BY <1>3, <2>1 DEF Injection, IsInjective
<1>5. f \in Surjection(S, S)
  <2> HIDE DEF f, S
  <2> QED
    BY <1>2, <1>4, FS_Injection
<1>6. \E k \in S: f[k] = c
  <2> HIDE DEF f
  <2> QED
    BY <1>5 DEF Surjection
<1> QED
  BY <1>6

\* The top cluster is one, and none has more members.
LEMMA TopFacts ==
    ASSUME PhaseInv, ClusterInv, clusters # <<>>
    PROVE  /\ Ranked(1) \in DOMAIN clusters
           /\ \A c \in DOMAIN clusters:
                  Cardinality(clusters[c].members) <= Cardinality(clusters[Ranked(1)].members)
<1>1. Len(clusters) \in Nat /\ DOMAIN clusters = 1..Len(clusters) /\ Len(clusters) >= 1
  BY DEF ClusterInv
<1>2. 1 \in DOMAIN clusters
  BY <1>1
<1>3. Ranked(1) \in DOMAIN clusters
  BY <1>2, RankedFacts
<1>4. ASSUME NEW c \in DOMAIN clusters
      PROVE  Cardinality(clusters[c].members) <= Cardinality(clusters[Ranked(1)].members)
  <2>1. PICK k \in DOMAIN clusters: Ranked(k) = c
    BY RankOnto
  <2>2. CASE k = 1
    BY <1>3, <2>1, <2>2, MemberFacts
  <2>3. CASE k # 1
    <3>1. 1 < k
      BY <1>1, <2>1, <2>3
    <3> QED
      BY <1>2, <2>1, <3>1, RankedFacts
  <2> QED
    BY <2>2, <2>3
<1> QED
  BY <1>3, <1>4

\* The candidates of a place: the place itself, then clusters in their order.
LEMMA PlaceConcluded ==
    ASSUME ConsensusInv, Conclude, attribute \in Geo
    PROVE  \E m \in 0..Len(clusters):
               /\ DOMAIN consensus' = 1..(m + 1)
               /\ consensus'[1] = PlaceCandidate
               /\ \A k \in 1..m: consensus'[k + 1] = Candidate(clusters[Ranked(k)].members)
<1>1. consensus' = <<PlaceCandidate>> \o Runners(1)
  BY DEF Conclude
<1>2. PICK m \in 0..Len(clusters):
          Runners(1) = [k \in 1..m |-> Candidate(clusters[Ranked(k)].members)]
  BY RunnersFacts DEF ConsensusInv
<1>3. m \in Nat
  BY ClusterCount DEF ConsensusInv
<1> DEFINE C(k) == Candidate(clusters[Ranked(k)].members)
           P == PlaceCandidate
           D == {P} \cup {C(k): k \in 1..m}
           r == [k \in 1..m |-> C(k)]
<1>4. consensus' = <<P>> \o r
  BY <1>1, <1>2
<1> HIDE DEF C, P
<1>5. r \in Seq(D) /\ Len(r) = m /\ <<P>> \in Seq(D)
  BY <1>3
<1>6. \A k \in 1..m: r[k] = C(k)
  OBVIOUS
<1> HIDE DEF r, D
<1>7. /\ DOMAIN consensus' = 1..(m + 1)
      /\ consensus'[1] = P
      /\ \A k \in 1..m: consensus'[k + 1] = r[k]
  BY <1>3, <1>4, <1>5
<1> QED
  BY <1>6, <1>7 DEF C, P

\* The candidates of another attribute: clusters in their order, the first with half of
\* the runs.
LEMMA ValueConcluded ==
    ASSUME ConsensusInv, Conclude, attribute \notin Geo
    PROVE  \/ /\ consensus' = <<>>
              /\ clusters = <<>> \/ ~Half(clusters[Ranked(1)].members)
           \/ /\ clusters # <<>> /\ Half(clusters[Ranked(1)].members)
              /\ \E m \in 1..Len(clusters):
                     /\ DOMAIN consensus' = 1..m
                     /\ \A k \in 1..m: consensus'[k] = Candidate(clusters[Ranked(k)].members)
<1>1. consensus' = IF clusters # <<>> /\ Half(clusters[Ranked(1)].members) THEN Runners(0) ELSE <<>>
  BY DEF Conclude
<1>2. CASE clusters # <<>> /\ Half(clusters[Ranked(1)].members)
  <2>1. PICK m \in 0..Len(clusters):
            /\ m >= 1
            /\ Runners(0) = [k \in 1..m |-> Candidate(clusters[Ranked(k)].members)]
    BY <1>2, RunnersFacts DEF ConsensusInv
  <2>2. m \in 1..Len(clusters)
    BY <2>1, ClusterCount DEF ConsensusInv
  <2> DEFINE C(k) == Candidate(clusters[Ranked(k)].members)
  <2>3. consensus' = [k \in 1..m |-> C(k)]
    BY <1>1, <1>2, <2>1
  <2> HIDE DEF C
  <2>4. DOMAIN consensus' = 1..m /\ \A k \in 1..m: consensus'[k] = C(k)
    BY <2>3
  <2> QED
    BY <1>2, <2>2, <2>4 DEF C
<1>3. CASE ~(clusters # <<>> /\ Half(clusters[Ranked(1)].members))
  BY <1>1, <1>3
<1> QED
  BY <1>2, <1>3

\* A chain down to a level has its length.
LEMMA ChainLength ==
    ASSUME NEW i, NEW d \in Nat
    PROVE  Len(Chain(i, d)) = d
<1> DEFINE x(k) == answers[i].value[k]
           s == [k \in 1..d |-> x(k)]
<1> HIDE DEF x
<1>1. s \in Seq({x(k): k \in 1..d}) /\ Len(s) = d
  OBVIOUS
<1> QED
  BY <1>1 DEF Chain, x

\* What is surfaced first keeps having half of the runs.
LEMMA SurfacedKept == ConsensusInv /\ SurfacedHasHalf /\ [Next]_vars => SurfacedHasHalf'
<1> SUFFICES ASSUME ConsensusInv, SurfacedHasHalf, [Next]_vars,
                    phase' = "done", n' > 1, consensus' # <<>>
             PROVE  SurfacedHasHalf'
  BY DEF SurfacedHasHalf
<1> USE DEF ConsensusInv
<1>1. CASE phase = "done" /\ UNCHANGED consensusVars
  <2>1. answers' = answers /\ attribute' = attribute /\ n' = n /\ consensus' = consensus
    BY <1>1 DEF consensusVars
  <2> QED
    BY <1>1, <2>1, SameRuns DEF SurfacedHasHalf, Geo, Chain
<1>2. CASE SingleRun /\ n = 1
  BY <1>2 DEF SingleRun
<1>3. CASE Scan /\ level = 0 /\ consensus' = <<>>
  BY <1>3
<1>4. CASE Conclude
  <2>1. /\ answers' = answers /\ attribute' = attribute /\ n' = n
        /\ phase = "cluster"
    BY <1>4 DEF Conclude
  <2>2. Picks' = Picks /\ (\A i, j: (Agree(i, j))' = Agree(i, j))
    BY <2>1, SameRuns
  <2>3. CASE attribute \in Geo
    <3>1. consensus'[1] = PlaceCandidate
      BY <1>4, <2>3, PlaceConcluded
    <3>2. PICK i \in Picks: shared = Group(i, level) /\ Half(shared)
      BY <2>1, <2>3 DEF LevelInv
    <3>3. shared \subseteq Picks /\ level \in Nat
      BY DEF PhaseInv
    <3>4. shared # {}
      <4>1. n > 1 /\ n \in Nat
        BY <2>1, PickFacts DEF PhaseInv
      <4>2. shared = {} => Cardinality(shared) = 0
        BY FS_EmptySet
      <4> QED
        BY <3>2, <4>1, <4>2 DEF Half
    <3>5. Representative(shared) \in shared
      BY <3>3, <3>4, RepresentativeFacts
    <3>6. \A j \in shared: Chain(j, level) = Chain(Representative(shared), level)
      BY <3>2, <3>5 DEF Group
    <3>7. Len(Chain(Representative(shared), level)) = level
      BY <3>3, ChainLength
    <3>8. /\ consensus'[1].support = shared
          /\ consensus'[1].value = Chain(Representative(shared), level)
      BY <3>1 DEF PlaceCandidate
    <3>9. \A j \in shared: [k \in 1..Len(consensus'[1].value) |-> answers'[j].value[k]]
                              = consensus'[1].value
      <4>1. \A j: [k \in 1..level |-> answers'[j].value[k]] = Chain(j, level)
        BY <2>1 DEF Chain
      <4>2. Len(consensus'[1].value) = level
        BY <3>7, <3>8
      <4>3. consensus'[1].value = Chain(Representative(shared), level)
        BY <3>8
      <4> QED
        BY <3>6, <4>1, <4>2, <4>3
    <3> QED
      BY <2>1, <2>2, <2>3, <3>2, <3>3, <3>8, <3>9 DEF SurfacedHasHalf, Chain, Half, Geo
  <2>4. CASE attribute \notin Geo
    <3>1. PICK m \in 1..Len(clusters):
              /\ clusters # <<>> /\ Half(clusters[Ranked(1)].members)
              /\ \A k \in 1..m: consensus'[k] = Candidate(clusters[Ranked(k)].members)
      BY <1>4, <2>4, ValueConcluded
    <3> DEFINE S == clusters[Ranked(1)].members
    <3>2. consensus'[1] = Candidate(S)
      <4>1. 1 \in 1..m
        BY ClusterCount
      <4> QED
        BY <3>1, <4>1
    <3>3. consensus'[1].support = S
      BY <3>2 DEF Candidate
    <3>4. Ranked(1) \in DOMAIN clusters
      BY <3>1, TopFacts
    <3>5. S \subseteq Picks /\ Half(S)
      BY <3>1, <3>4, MemberFacts
    <3>6. attribute \in {"age", "income"} => \E i \in S: \A j \in S: Agree(i, j)
      BY <2>1, <3>4 DEF AgreeInv, ClusterInv
    <3> HIDE DEF S
    <3> QED
      BY <2>1, <2>2, <2>4, <3>3, <3>5, <3>6 DEF SurfacedHasHalf, Half, Geo
  <2> QED
    BY <2>3, <2>4
<1> QED
  BY <1>1, <1>2, <1>3, <1>4, Concluded

\* What is concluded first is backed by half of all runs, by answers that agree with one
\* of them or name that place (build_consensus, _aggregate_geo).
THEOREM SurfacedHolds == Spec => []SurfacedHasHalf
<1>1. Init => ConsensusInv /\ SurfacedHasHalf
  BY ConsensusStarts DEF SurfacedHasHalf, Init, ConsensusInit
<1>2. ConsensusInv /\ SurfacedHasHalf /\ [Next]_vars => (ConsensusInv /\ SurfacedHasHalf)'
  BY ConsensusKept, SurfacedKept
<1> QED
  BY <1>1, <1>2, PTL DEF Spec

\* No value was given by half of the runs if none is surfaced.
LEMMA ValuesDiffer ==
    ASSUME ConsensusInv, Conclude, attribute \in {"age", "income"}, consensus' = <<>>, NEW i \in Picks
    PROVE  2 * Cardinality({j \in Picks: answers[j].value = answers[i].value}) < n
<1> USE DEF ConsensusInv
<1> DEFINE V == {j \in Picks: answers[j].value = answers[i].value}
<1>1. phase = "cluster" /\ queue = {} /\ attribute \notin Geo
  BY DEF Conclude, Geo
<1>2. PICK c \in DOMAIN clusters: i \in clusters[c].members
  BY <1>1 DEF ClusterInv
<1>3. V \subseteq clusters[c].members
  <2> SUFFICES ASSUME NEW j \in V PROVE j \in clusters[c].members
    OBVIOUS
  <2>1. PICK d \in DOMAIN clusters: j \in clusters[d].members
    BY <1>1 DEF ClusterInv
  <2>2. \A x: Agree(x, i) <=> Agree(x, j)
    BY DEF Agree
  <2>3. c \in 1..Len(clusters) /\ d \in 1..Len(clusters) /\ Len(clusters) \in Nat
    BY ClusterCount, Zenon
  <2>4. CASE c < d
    <3>1. c \in 1..(d - 1)
      BY <2>3, <2>4
    <3> QED
      BY <1>1, <1>2, <2>1, <2>2, <3>1 DEF AgreeInv
  <2>5. CASE d < c
    <3>1. d \in 1..(c - 1)
      BY <2>3, <2>5
    <3> QED
      BY <1>1, <1>2, <2>1, <2>2, <3>1 DEF AgreeInv
  <2> QED
    BY <2>1, <2>3, <2>4, <2>5
<1>4. clusters # <<>>
  BY <1>2
<1>5. ~Half(clusters[Ranked(1)].members)
  <2>1. ASSUME NEW m \in 1..Len(clusters), consensus' = <<>> PROVE DOMAIN consensus' # 1..m
    <3>1. m \in Nat /\ m >= 1
      BY ClusterCount
    <3>2. 1 \in 1..m /\ DOMAIN consensus' = {}
      BY <2>1, <3>1
    <3> QED
      BY <3>2
  <2> QED
    BY <1>1, <1>4, <2>1, ValueConcluded
<1>6. Cardinality(clusters[c].members) <= Cardinality(clusters[Ranked(1)].members)
  BY <1>4, TopFacts
<1>7. Cardinality(V) <= Cardinality(clusters[c].members)
  <2>1. IsFiniteSet(clusters[c].members)
    BY MemberFacts, PartFacts
  <2> QED
    BY <1>3, <2>1, FS_Subset
<1>8. /\ Cardinality(V) \in Nat /\ Cardinality(clusters[c].members) \in Nat
      /\ Cardinality(clusters[Ranked(1)].members) \in Nat /\ n \in Nat
  <2>1. V \subseteq Picks
    OBVIOUS
  <2> HIDE DEF V
  <2> QED
    BY <1>4, <2>1, PartFacts, MemberFacts, TopFacts, PickFacts
<1> HIDE DEF V
<1>9. 2 * Cardinality(V) < n
  BY <1>5, <1>6, <1>7, <1>8 DEF Half
<1> QED
  BY <1>9 DEF V

\* An abstention stays real.
LEMMA AbstentionKept ==
    ConsensusInv /\ AbstentionIsDisagreement /\ [Next]_vars => AbstentionIsDisagreement'
<1> SUFFICES ASSUME ConsensusInv, AbstentionIsDisagreement, [Next]_vars,
                    phase' = "done", n' > 1, consensus' = <<>>
             PROVE  AbstentionIsDisagreement'
  BY DEF AbstentionIsDisagreement
<1> USE DEF ConsensusInv
<1>1. CASE phase = "done" /\ UNCHANGED consensusVars
  <2>1. answers' = answers /\ attribute' = attribute /\ n' = n /\ consensus' = consensus
    BY <1>1 DEF consensusVars
  <2> QED
    BY <1>1, <2>1, SameRuns DEF AbstentionIsDisagreement, Geo
<1>2. CASE SingleRun /\ n = 1
  BY <1>2 DEF SingleRun
<1>3. CASE Scan /\ level = 0 /\ consensus' = <<>>
  <2>1. /\ answers' = answers /\ attribute' = attribute /\ n' = n
        /\ attribute \in Geo /\ phase = "scan"
    BY <1>3 DEF Scan, PhaseInv
  <2>2. \A i \in Picks, d \in 1..Finest[attribute]: 2 * Cardinality(Group(i, d)) < n
    <3> SUFFICES ASSUME NEW i \in Picks, NEW d \in 1..Finest[attribute]
                 PROVE  2 * Cardinality(Group(i, d)) < n
      OBVIOUS
    <3>1. ~Half(Group(i, d))
      <4>1. \A e \in (level + 1)..Finest[attribute]: \A j \in Picks: ~Half(Group(j, e))
        BY <2>1 DEF LevelInv
      <4>2. d \in (level + 1)..Finest[attribute]
        BY <1>3
      <4> QED
        BY <4>1, <4>2
    <3>2. Group(i, d) \subseteq Picks
      BY DEF Group
    <3>3. Cardinality(Group(i, d)) \in Nat /\ n \in Nat
      BY <3>2, PartFacts, PickFacts
    <3> QED
      BY <3>1, <3>3 DEF Half
  <2> QED
    BY <2>1, <2>2, SameRuns DEF AbstentionIsDisagreement, Geo
<1>4. CASE Conclude
  <2>1. answers' = answers /\ attribute' = attribute /\ n' = n
    BY <1>4 DEF Conclude
  <2>2. attribute \notin Geo
    <3> SUFFICES ASSUME attribute \in Geo PROVE FALSE
      OBVIOUS
    <3>1. PICK m \in 0..Len(clusters): DOMAIN consensus' = 1..(m + 1)
      BY <1>4, PlaceConcluded
    <3>2. m \in Nat
      BY ClusterCount
    <3> QED
      BY <3>1, <3>2
  <2>3. attribute \in {"age", "income"} =>
            \A i \in Picks: 2 * Cardinality({j \in Picks: answers[j].value = answers[i].value}) < n
    BY <1>4, ValuesDiffer
  <2> QED
    BY <2>1, <2>2, <2>3, SameRuns DEF AbstentionIsDisagreement, Geo
<1> QED
  BY <1>1, <1>2, <1>3, <1>4, Concluded

\* Where nothing is surfaced no value, and no place at any level, was named by half of the
\* runs (aggregate, _aggregate_geo).
THEOREM AbstentionHolds == Spec => []AbstentionIsDisagreement
<1>1. Init => ConsensusInv /\ AbstentionIsDisagreement
  BY ConsensusStarts DEF AbstentionIsDisagreement, Init, ConsensusInit
<1>2. ConsensusInv /\ AbstentionIsDisagreement /\ [Next]_vars
          => (ConsensusInv /\ AbstentionIsDisagreement)'
  BY ConsensusKept, AbstentionKept
<1> QED
  BY <1>1, <1>2, PTL DEF Spec

\* A place stays reported at the finest level that half of the runs share.
LEMMA LevelKept == ConsensusInv /\ LevelIsFinest /\ [Next]_vars => LevelIsFinest'
<1> SUFFICES ASSUME ConsensusInv, LevelIsFinest, [Next]_vars,
                    phase' = "done", n' > 1, attribute' \in Geo, consensus' # <<>>
             PROVE  LevelIsFinest'
  BY DEF LevelIsFinest, Geo
<1> USE DEF ConsensusInv
<1>1. CASE phase = "done" /\ UNCHANGED consensusVars
  <2>1. answers' = answers /\ attribute' = attribute /\ n' = n /\ consensus' = consensus
    BY <1>1 DEF consensusVars
  <2> QED
    BY <1>1, <2>1, SameRuns DEF LevelIsFinest, Geo
<1>2. CASE SingleRun /\ n = 1
  BY <1>2 DEF SingleRun
<1>3. CASE Scan /\ level = 0 /\ consensus' = <<>>
  BY <1>3
<1>4. CASE Conclude
  <2>1. /\ answers' = answers /\ attribute' = attribute /\ n' = n
        /\ phase = "cluster" /\ attribute \in Geo
    BY <1>4 DEF Conclude
  <2>2. consensus'[1] = PlaceCandidate
    BY <1>4, <2>1, PlaceConcluded
  <2>3. Len(consensus'[1].value) = level
    BY <2>2, ChainLength DEF PlaceCandidate, PhaseInv
  <2>4. \A i \in Picks: \A d \in (level + 1)..Finest[attribute]: 2 * Cardinality(Group(i, d)) < n
    <3> SUFFICES ASSUME NEW i \in Picks, NEW d \in (level + 1)..Finest[attribute]
                 PROVE  2 * Cardinality(Group(i, d)) < n
      OBVIOUS
    <3>1. ~Half(Group(i, d))
      BY <2>1 DEF LevelInv
    <3>2. Group(i, d) \subseteq Picks
      BY DEF Group
    <3>3. Cardinality(Group(i, d)) \in Nat /\ n \in Nat
      BY <3>2, PartFacts, PickFacts
    <3> QED
      BY <3>1, <3>3 DEF Half
  <2> QED
    BY <2>1, <2>3, <2>4, SameRuns DEF LevelIsFinest, Geo
<1> QED
  BY <1>1, <1>2, <1>3, <1>4, Concluded

\* A place is never reported coarser than half of the runs share it (_aggregate_geo).
THEOREM LevelHolds == Spec => []LevelIsFinest
<1>1. Init => ConsensusInv /\ LevelIsFinest
  BY ConsensusStarts DEF LevelIsFinest, Init, ConsensusInit
<1>2. ConsensusInv /\ LevelIsFinest /\ [Next]_vars => (ConsensusInv /\ LevelIsFinest)'
  BY ConsensusKept, LevelKept
<1> QED
  BY <1>1, <1>2, PTL DEF Spec

\* Two clusters of the order have no run in common, and the first is no smaller.
LEMMA ClustersRanked ==
    ASSUME PhaseInv, ClusterInv, NEW k \in DOMAIN clusters, NEW l \in DOMAIN clusters, k < l
    PROVE  /\ Candidate(clusters[Ranked(k)].members).support
                  \cap Candidate(clusters[Ranked(l)].members).support = {}
           /\ Cardinality(Candidate(clusters[Ranked(l)].members).support)
                  <= Cardinality(Candidate(clusters[Ranked(k)].members).support)
<1>1. \A S: Candidate(S).support = S
  BY DEF Candidate
<1>2. /\ Ranked(k) \in DOMAIN clusters /\ Ranked(l) \in DOMAIN clusters /\ Ranked(k) # Ranked(l)
      /\ Cardinality(clusters[Ranked(l)].members) <= Cardinality(clusters[Ranked(k)].members)
  BY RankedFacts
<1>3. clusters[Ranked(k)].members \cap clusters[Ranked(l)].members = {}
  BY <1>2 DEF ClusterInv
<1> QED
  BY <1>1, <1>2, <1>3

\* A cluster of the others has no run of the place, and is no larger than the half.
LEMMA PlaceIsFirst ==
    ASSUME ConsensusInv, phase = "cluster", attribute \in Geo, NEW c \in DOMAIN clusters
    PROVE  /\ shared \cap clusters[c].members = {}
           /\ Cardinality(clusters[c].members) <= Cardinality(shared)
<1> USE DEF ConsensusInv
<1> DEFINE M == clusters[c].members
<1>1. Half(shared) /\ shared \subseteq Picks
  BY DEF LevelInv, PhaseInv
<1>2. M \subseteq Picks /\ M \cap shared = {}
  BY DEF ClusterInv
<1> HIDE DEF M
<1>3. /\ IsFiniteSet(shared) /\ IsFiniteSet(M)
      /\ Cardinality(shared) \in Nat /\ Cardinality(M) \in Nat
  BY <1>1, <1>2, PartFacts
<1>4. Cardinality(shared \cup M) = Cardinality(shared) + Cardinality(M)
  <2>1. Cardinality(shared \cap M) = 0
    <3>1. shared \cap M = {}
      BY <1>2
    <3> QED
      BY <3>1, FS_EmptySet
  <2>2. Cardinality(shared \cup M) = Cardinality(shared) + Cardinality(M) - Cardinality(shared \cap M)
    BY <1>3, FS_Union
  <2> QED
    BY <1>3, <2>1, <2>2
<1>5. Cardinality(shared \cup M) <= Cardinality(Picks)
  <2>1. shared \cup M \subseteq Picks
    BY <1>1, <1>2
  <2> QED
    BY <2>1, PartFacts
<1>6. Cardinality(Picks) \in Nat /\ n \in Nat /\ Cardinality(Picks) <= n
  BY PickFacts
<1>7. Cardinality(M) <= Cardinality(shared)
  BY <1>1, <1>3, <1>4, <1>5, <1>6 DEF Half
<1> QED
  BY <1>2, <1>7 DEF M

\* The candidates stay disjoint and in order.
LEMMA CandidatesKept ==
    ConsensusInv /\ CandidatesAreRanked /\ [Next]_vars => CandidatesAreRanked'
<1> SUFFICES ASSUME ConsensusInv, CandidatesAreRanked, [Next]_vars, n' > 1,
                    NEW k \in DOMAIN consensus', NEW l \in DOMAIN consensus', k < l
             PROVE  /\ consensus'[k].support \cap consensus'[l].support = {}
                    /\ Cardinality(consensus'[l].support) <= Cardinality(consensus'[k].support)
  BY DEF CandidatesAreRanked
<1>0. phase' = "done"
  <2>1. PhaseInv'
    BY ConsensusKept DEF ConsensusInv
  <2>2. phase' # "done" => consensus' = <<>>
    BY <2>1 DEF PhaseInv
  <2> QED
    BY <2>2
<1> USE DEF ConsensusInv
<1>1. CASE phase = "done" /\ UNCHANGED consensusVars
  <2>1. consensus' = consensus /\ n' = n
    BY <1>1 DEF consensusVars
  <2> QED
    BY <2>1 DEF CandidatesAreRanked
<1>2. CASE SingleRun /\ n = 1
  BY <1>2 DEF SingleRun
<1>3. CASE Scan /\ level = 0 /\ consensus' = <<>>
  BY <1>3
<1>4. CASE Conclude
  <2>1. phase = "cluster"
    BY <1>4 DEF Conclude
  <2>2. CASE attribute \in Geo
    <3>1. PICK m \in 0..Len(clusters):
              /\ DOMAIN consensus' = 1..(m + 1)
              /\ consensus'[1] = PlaceCandidate
              /\ \A j \in 1..m: consensus'[j + 1] = Candidate(clusters[Ranked(j)].members)
      BY <1>4, <2>2, PlaceConcluded
    <3>2. Len(clusters) \in Nat /\ DOMAIN clusters = 1..Len(clusters) /\ m \in Nat
      BY ClusterCount
    <3>3. k \in 1..(m + 1) /\ l \in 1..(m + 1)
      BY <3>1
    <3>4. l - 1 \in 1..m /\ l - 1 \in DOMAIN clusters /\ (l - 1) + 1 = l
      BY <3>2, <3>3
    <3>5. consensus'[l] = Candidate(clusters[Ranked(l - 1)].members)
      BY <3>1, <3>4
    <3>6. CASE k = 1
      <4>1. Ranked(l - 1) \in DOMAIN clusters
        BY <3>4, RankedFacts
      <4>2. /\ consensus'[k].support = shared
            /\ consensus'[l].support = clusters[Ranked(l - 1)].members
        BY <3>1, <3>5, <3>6 DEF PlaceCandidate, Candidate
      <4> QED
        BY <2>1, <2>2, <4>1, <4>2, PlaceIsFirst
    <3>7. CASE k # 1
      <4>1. k - 1 \in 1..m /\ k - 1 \in DOMAIN clusters /\ (k - 1) + 1 = k /\ k - 1 < l - 1
        BY <3>2, <3>3, <3>7
      <4>2. consensus'[k] = Candidate(clusters[Ranked(k - 1)].members)
        BY <3>1, <4>1
      <4> QED
        BY <3>4, <3>5, <4>1, <4>2, ClustersRanked
    <3> QED
      BY <3>6, <3>7
  <2>3. CASE attribute \notin Geo
    <3>1. PICK m \in 1..Len(clusters):
              /\ DOMAIN consensus' = 1..m
              /\ \A j \in 1..m: consensus'[j] = Candidate(clusters[Ranked(j)].members)
      <4>1. consensus' # <<>>
        OBVIOUS
      <4> QED
        BY <1>4, <2>3, <4>1, ValueConcluded
    <3>2. Len(clusters) \in Nat /\ DOMAIN clusters = 1..Len(clusters)
      BY ClusterCount
    <3>3. k \in 1..m /\ l \in 1..m
      BY <3>1
    <3>4. k \in DOMAIN clusters /\ l \in DOMAIN clusters
      BY <3>2, <3>3
    <3>5. /\ consensus'[k] = Candidate(clusters[Ranked(k)].members)
          /\ consensus'[l] = Candidate(clusters[Ranked(l)].members)
      BY <3>1, <3>3
    <3> QED
      BY <3>4, <3>5, ClustersRanked
  <2> QED
    BY <2>2, <2>3
<1> QED
  BY <1>0, <1>1, <1>2, <1>3, <1>4, Concluded

\* No run counts for two candidates, and the ranks follow the support (_rank,
\* _geo_candidates).
THEOREM CandidatesHold == Spec => []CandidatesAreRanked
<1>1. Init => ConsensusInv /\ CandidatesAreRanked
  BY ConsensusStarts DEF CandidatesAreRanked, Init, ConsensusInit
<1>2. ConsensusInv /\ CandidatesAreRanked /\ [Next]_vars => (ConsensusInv /\ CandidatesAreRanked)'
  BY ConsensusKept, CandidatesKept
<1> QED
  BY <1>1, <1>2, PTL DEF Spec
=============================================================================
