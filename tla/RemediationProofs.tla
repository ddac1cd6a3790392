------------------------- MODULE RemediationProofs -------------------------
(* Theorems about Remediation and the search of Ablation in it. *)
EXTENDS Remediation, TLAPS, FiniteSetTheorems, WellFoundedInduction

-----------------------------------------------------------------------------
(* Numbers and finite sets.  The library's induction theorems take the property as a   *)
(* parameter; that the natural numbers are well-founded is a plain fact, and gives the *)
(* least of a set.                                                                     *)

\* A set of natural numbers has a least one.
LEMMA LeastNatural ==
    ASSUME NEW T, T \subseteq Nat, T # {}
    PROVE  \E m \in T: \A k \in T: m <= k
<1>1. PICK m \in T: \A k \in T: ~(<<k, m>> \in OpToRel(<, Nat))
  BY NatLessThanWellFounded, WFMin
<1>2. ASSUME NEW k \in T PROVE m <= k
  <2>1. k \in Nat /\ m \in Nat
    OBVIOUS
  <2>2. <<k, m>> \notin {ss \in Nat \X Nat: ss[1] < ss[2]}
    BY <1>1, Zenon DEF OpToRel
  <2>3. ~(<<k, m>>[1] < <<k, m>>[2])
    BY <2>1, <2>2
  <2> QED
    BY <2>1, <2>3
<1> QED
  BY <1>2

\* A part of a finite set that lacks one of its elements is smaller.
LEMMA PartIsSmaller ==
    ASSUME NEW S, IsFiniteSet(S), NEW T, T \subseteq S, NEW x \in S, x \notin T
    PROVE  IsFiniteSet(T) /\ Cardinality(T) \in Nat /\ Cardinality(T) < Cardinality(S)
<1>1. IsFiniteSet(T) /\ Cardinality(T) <= Cardinality(S) /\ Cardinality(T) # Cardinality(S)
  BY FS_Subset
<1> QED
  BY <1>1, FS_CardinalityType

\* Of finitely many things with a number one has the greatest.
LEMMA Greatest ==
    ASSUME NEW S, IsFiniteSet(S), S # {}, NEW f \in [S -> Int]
    PROVE  \E x \in S: \A y \in S: f[y] <= f[x]
<1> DEFINE Above(x) == {y \in S: f[y] > f[x]}
           T == {Cardinality(Above(x)): x \in S}
<1>1. ASSUME NEW x \in S PROVE IsFiniteSet(Above(x)) /\ Cardinality(Above(x)) \in Nat
  BY FS_Subset, FS_CardinalityType
<1>2. PICK m \in T: \A k \in T: m <= k
  <2>1. T \subseteq Nat /\ T # {}
    BY <1>1
  <2> QED
    BY <2>1, LeastNatural
<1>3. PICK x \in S: m = Cardinality(Above(x))
  OBVIOUS
<1>4. ASSUME NEW y \in S, ~(f[y] <= f[x]) PROVE FALSE
  <2>1. Above(y) \subseteq Above(x) /\ y \in Above(x) /\ y \notin Above(y)
    BY <1>4
  <2>2. Cardinality(Above(y)) < Cardinality(Above(x))
    BY <1>1, <2>1, PartIsSmaller
  <2>3. Cardinality(Above(x)) <= Cardinality(Above(y))
    BY <1>2, <1>3
  <2>4. Cardinality(Above(x)) \in Nat /\ Cardinality(Above(y)) \in Nat
    BY <1>1
  <2> HIDE DEF Above
  <2> QED
    BY <2>2, <2>3, <2>4
<1> QED
  BY <1>4

\* So a finite set of integers has a minimum.
LEMMA MinIsLeast ==
    ASSUME NEW S, IsFiniteSet(S), S # {}, S \subseteq Int
    PROVE  Min(S) \in S /\ \A y \in S: Min(S) <= y
<1> DEFINE f == [x \in S |-> -x]
<1>1. f \in [S -> Int]
  OBVIOUS
<1>2. PICK x \in S: \A y \in S: f[y] <= f[x]
  <2> HIDE DEF f
  <2> QED
    BY <1>1, Greatest
<1>3. \A y \in S: x <= y
  BY <1>2
<1> QED
  BY <1>3 DEF Min

\* Counting the smaller elements numbers a finite set of integers.
LEMMA PlaceExists ==
    ASSUME NEW S, IsFiniteSet(S), S \subseteq Int
    PROVE  \A k \in 1..Cardinality(S): \E p \in S: Cardinality({q \in S: q < p}) = k - 1
<1> DEFINE Below(p) == {q \in S: q < p}
           m == Cardinality(S)
           T == 0..(m - 1)
           f == [p \in S |-> Cardinality(Below(p))]
<1>1. m \in Nat
  BY FS_CardinalityType
<1>2. ASSUME NEW p \in S
      PROVE  IsFiniteSet(Below(p)) /\ Cardinality(Below(p)) \in T
  <2>1. Below(p) \subseteq S /\ p \notin Below(p)
    OBVIOUS
  <2> HIDE DEF Below
  <2> QED
    BY <1>1, <2>1, PartIsSmaller
<1>3. ASSUME NEW p \in S, NEW q \in S, p < q
      PROVE  Cardinality(Below(p)) < Cardinality(Below(q))
  <2>1. p \in Below(q) /\ p \notin Below(p)
    BY <1>3
  <2>2. ASSUME NEW r \in Below(p) PROVE r \in Below(q)
    <3>1. r \in S /\ r \in Int /\ p \in Int /\ q \in Int /\ r < p
      OBVIOUS
    <3> QED
      BY <1>3, <3>1
  <2> HIDE DEF Below
  <2> QED
    BY <1>2, <2>1, <2>2, PartIsSmaller
<1>4. \A p, q \in S: Cardinality(Below(p)) = Cardinality(Below(q)) => p = q
  <2> SUFFICES ASSUME NEW p \in S, NEW q \in S, Cardinality(Below(p)) = Cardinality(Below(q)),
                      p # q
               PROVE  FALSE
    OBVIOUS
  <2>1. p < q \/ q < p
    OBVIOUS
  <2> HIDE DEF Below
  <2> QED
    BY <1>2, <1>3, <2>1
<1> HIDE DEF Below
<1>5. f \in Injection(S, T)
  BY <1>2, <1>4 DEF Injection, IsInjective
<1>6. IsFiniteSet(T) /\ Cardinality(T) = m
  BY <1>1, FS_Interval
<1>7. f \in Surjection(S, T)
  <2> HIDE DEF f, T, m
  <2>1. Cardinality(S) = Cardinality(T) <=> f \in Surjection(S, T)
    BY <1>5, <1>6, FS_Injection
  <2> QED
    BY <1>6, <2>1 DEF m
<1>8. ASSUME NEW k \in 1..m PROVE \E p \in S: Cardinality(Below(p)) = k - 1
  <2>1. k - 1 \in T
    BY <1>1
  <2> QED
    BY <1>7, <2>1 DEF Surjection
<1> QED
  BY <1>8 DEF Below
-----------------------------------------------------------------------------
(* The search.  What is reported at its end was in the last probe that failed: while    *)
(* a round goes on, what is present is all but what was removed, and the best removal   *)
(* was probed; while it is pruned, everything outside the minimal set was seen to fail. *)

SearchInv ==
    /\ maxProbes \in Nat \ {0} /\ maxProbes \in Caps
    /\ probes \in Nat /\ probes <= maxProbes
    /\ at = "baseline" => probes = 0 /\ minimal = {}
    /\ \E S: removed \in Seq(S)
    /\ at \in {"baseline", "round"} => present = Items \ Range(removed)
    /\ at = "round" /\ bestId # NoItem => present \ {bestId} \in DOMAIN known
    /\ at = "baseline" => bestId = NoItem
    /\ at \in {"prune", "found"} /\ minimal # {} =>
           Items \ minimal \in DOMAIN known /\ ~known[Items \ minimal].recovered
    /\ at = "found" /\ minimal # {} => sufficient
    /\ GivingUpIsHonest

\* What was removed are items, each removed once; only what is present is tried, and the
\* set is a part of what was removed.
RemovedInv ==
    /\ removed \in Seq(Items)
    /\ \A j, k \in DOMAIN removed: removed[j] = removed[k] => j = k
    /\ at = "baseline" => present = Items /\ removed = <<>> /\ bestId = NoItem
    /\ at = "round" => /\ present = Items \ Range(removed) /\ todo \subseteq present
                       /\ bestId # NoItem => bestId \in present
    /\ at \in {"prune", "found"} => minimal \subseteq Range(removed)

\* Confidences and effects are numbers.
ConfInv ==
    /\ \A s \in DOMAIN known: known[s] \in Answers
    /\ confidence \in 0..MaxConf
    /\ effect \in [Items -> Nat]
    /\ at = "round" /\ bestId # NoItem => present \ {bestId} \in DOMAIN known

\* The effects.  While a round goes on only what was removed has one, afterwards only what
\* is in the set.
EffectInv ==
    /\ DOMAIN effect = Items
    /\ at = "baseline" => \A i \in Items: effect[i] = 0
    /\ at = "round" => \A i \in Items \ Range(removed): effect[i] = 0
    /\ at \in {"prune", "found"} => \A i \in Items \ minimal: effect[i] = 0

\* The adversary was seen to recover the value with the help of i, from nothing else that
\* is in the set.
SeenToBeNeeded(i) ==
    \E s \in DOMAIN known: known[s].recovered /\ s \subseteq (Items \ minimal) \cup {i}

\* What is not to be put back any more is needed.
NeedInv ==
    /\ at = "baseline" => minimal = {}
    /\ at = "prune" => \A i \in minimal \ todo: SeenToBeNeeded(i)
    /\ at = "found" /\ probes < maxProbes => \A i \in minimal: SeenToBeNeeded(i)

\* Appending an element adds it to the range.
LEMMA RangeAppend ==
    ASSUME NEW S, NEW s \in Seq(S), NEW x
    PROVE  /\ Append(s, x) \in Seq(S \cup {x})
           /\ Range(Append(s, x)) = Range(s) \cup {x}
<1>1. s \in Seq(S \cup {x}) /\ x \in S \cup {x}
  OBVIOUS
<1>2. Append(s, x) \in Seq(S \cup {x})
  BY <1>1
<1>3. /\ DOMAIN Append(s, x) = DOMAIN s \cup {Len(s) + 1}
      /\ Append(s, x)[Len(s) + 1] = x
      /\ \A k \in DOMAIN s: Append(s, x)[k] = s[k]
  BY <1>1
<1>4. ASSUME NEW y PROVE y \in Range(Append(s, x)) <=> y \in Range(s) \cup {x}
  BY <1>3, Zenon DEF Range
<1> QED
  BY <1>2, <1>4

\* A probe settles the answer for what is shown and changes no other.
LEMMA ProbeSettles ==
    ASSUME NEW shown, NEW a, Probe(shown, a)
    PROVE  /\ DOMAIN known' = DOMAIN known \cup {shown}
           /\ known'[shown] = a
           /\ \A s \in DOMAIN known: known'[s] = known[s]
BY DEF Probe

LEMMA SearchInvInit == SearchInit => SearchInv
<1> SUFFICES ASSUME SearchInit PROVE SearchInv
  OBVIOUS
<1>1. removed \in Seq({}) /\ Range(removed) = {}
  BY DEF SearchInit, Range
<1> QED
  BY <1>1, CapsAssumption DEF SearchInit, SearchInv, GivingUpIsHonest

LEMMA BaselineKeeps == ASSUME SearchInv, NEW a, Baseline(a) PROVE SearchInv'
BY ProbeSettles, CapsAssumption DEF SearchInv, Baseline, Probe, Found, GivingUpIsHonest

LEMMA TryKeeps == ASSUME SearchInv, NEW a, Try(a) PROVE SearchInv'
<1> DEFINE i == Min(todo)
<1>1. /\ at = "round" /\ probes < maxProbes /\ Probe(present \ {i}, a)
      /\ bestId' = i \/ (bestId' = bestId /\ bestId # NoItem)
      /\ UNCHANGED <<maxProbes, at, present, removed, minimal, sufficient>>
  BY DEF Try
<1> HIDE DEF i
<1>2. present' \ {bestId'} \in DOMAIN known'
  BY <1>1, ProbeSettles DEF SearchInv
<1> QED
  BY <1>1, <1>2 DEF SearchInv, Probe, GivingUpIsHonest

LEMMA TakeBestKeeps == ASSUME SearchInv, TakeBest PROVE SearchInv'
<1> DEFINE best == known[present \ {bestId}]
<1>1. /\ at = "round" /\ bestId # NoItem /\ bestId' = NoItem
      /\ removed' = Append(removed, bestId) /\ present' = present \ {bestId}
      /\ UNCHANGED <<known, maxProbes, probes>>
  BY DEF TakeBest
<1>2. PICK S: removed \in Seq(S)
  BY DEF SearchInv
<1>3. removed' \in Seq(S \cup {bestId}) /\ Range(removed') = Range(removed) \cup {bestId}
  BY <1>1, <1>2, RangeAppend
<1>4. present' = Items \ Range(removed') /\ present' \in DOMAIN known
  BY <1>1, <1>3 DEF SearchInv
<1>5. CASE SearchOn(best) /\ at' = at /\ UNCHANGED <<minimal, sufficient>>
  BY <1>1, <1>3, <1>4, <1>5 DEF SearchInv, GivingUpIsHonest
<1>6. CASE ~SearchOn(best) /\ best.recovered /\ GiveUp
  <2>1. GivingUpIsHonest'
    <3>1. CASE present' = {}
      <4>1. {} \in DOMAIN known /\ known[{}].recovered
        BY <1>1, <1>4, <1>6, <3>1
      <4> QED
        BY <1>1, <4>1 DEF GivingUpIsHonest
    <3>2. CASE ~(probes < maxProbes)
      BY <1>1, <3>2 DEF SearchInv, GivingUpIsHonest
    <3> QED
      BY <1>6, <3>1, <3>2 DEF SearchOn
  <2> QED
    BY <1>1, <1>3, <1>6, <2>1 DEF SearchInv, GiveUp, Found
<1>7. CASE ~best.recovered /\ at' = "prune" /\ minimal' = Range(removed')
  BY <1>1, <1>3, <1>4, <1>7 DEF SearchInv, GivingUpIsHonest
<1> QED
  BY <1>5, <1>6, <1>7 DEF TakeBest

LEMMA NoProbeLeftKeeps == ASSUME SearchInv, NoProbeLeft PROVE SearchInv'
BY DEF SearchInv, NoProbeLeft, GiveUp, Found, GivingUpIsHonest

LEMMA PruneKeeps == ASSUME SearchInv, NEW a, Prune(a) PROVE SearchInv'
<1> DEFINE item == removed[SelectInSeq(removed, LAMBDA x: x \in todo)]
<1>1. /\ at = "prune" /\ probes < maxProbes /\ Probe(Readded(item), a)
      /\ UNCHANGED <<maxProbes, at, present, removed, bestId, sufficient>>
      /\ \/ a.recovered /\ minimal' = minimal
         \/ ~a.recovered /\ minimal' = minimal \ {item}
  BY DEF Prune
<1> HIDE DEF item
<1>2. /\ DOMAIN known' = DOMAIN known \cup {Readded(item)}
      /\ known'[Readded(item)] = a
      /\ \A s \in DOMAIN known: known'[s] = known[s]
      /\ probes' = probes + 1
  BY <1>1, ProbeSettles DEF Probe
<1>3. minimal' # {} => /\ Items \ minimal' \in DOMAIN known'
                       /\ ~known'[Items \ minimal'].recovered
  <2>1. CASE a.recovered /\ minimal' = minimal
    BY <1>1, <1>2, <2>1 DEF SearchInv
  <2>2. CASE ~a.recovered /\ minimal' = minimal \ {item}
    BY <1>2, <2>2 DEF Readded
  <2> QED
    BY <1>1, <2>1, <2>2
<1> QED
  BY <1>1, <1>2, <1>3 DEF SearchInv, GivingUpIsHonest

LEMMA PrunedKeeps == ASSUME SearchInv, Pruned PROVE SearchInv'
BY DEF SearchInv, Pruned, Found, GivingUpIsHonest

LEMMA SearchKeeps == ASSUME SearchInv, Search PROVE SearchInv'
BY BaselineKeeps, TryKeeps, TakeBestKeeps, NoProbeLeftKeeps, PruneKeeps, PrunedKeeps
   DEF Search

\* A step that leaves the search's variables alone.
LEMMA SearchIdle == ASSUME SearchInv, UNCHANGED searchVars PROVE SearchInv'
BY DEF SearchInv, searchVars, GivingUpIsHonest

\* Once the search has returned, its locals say nothing.
LEMMA LocalizeKeeps == ASSUME SearchInv, Localize PROVE SearchInv'
<1>1. /\ at' = "returned" /\ minimal' = {} /\ probes' = 0 /\ removed' = <<>>
      /\ maxProbes' = (CHOOSE c \in Caps: TRUE)
  BY DEF Localize
<1>2. maxProbes' \in Caps
  BY <1>1 DEF SearchInv
<1>3. removed' \in Seq({})
  BY <1>1
<1>4. \E S: removed' \in Seq(S)
  BY <1>3, Zenon
<1>5. maxProbes' \in Nat \ {0} /\ probes' \in Nat /\ probes' <= maxProbes'
  <2>1. probes' = 0
    BY <1>1
  <2>2. maxProbes' \in Nat \ {0}
    BY <1>2, CapsAssumption
  <2> QED
    BY <2>1, <2>2
<1> QED
  BY <1>1, <1>2, <1>4, <1>5 DEF SearchInv, GivingUpIsHonest

-----------------------------------------------------------------------------
(* What is removed. *)

\* The least item of a round is one of them.
LEMMA NextItem ==
    ASSUME NEW S, S \subseteq Items, S # {}
    PROVE  Min(S) \in S
<1>1. IsFiniteSet(S) /\ S \subseteq Int
  BY ItemsAssumption, FS_Subset
<1> QED
  BY <1>1, MinIsLeast

LEMMA RemovedInvInit == SearchInit => RemovedInv
<1>1. <<>> \in Seq(Items) /\ DOMAIN <<>> = {}
  OBVIOUS
<1> QED
  BY <1>1 DEF SearchInit, RemovedInv

LEMMA RemovedKept ==
    ASSUME RemovedInv, Search
    PROVE  RemovedInv'
<1>1. ASSUME NEW a, Baseline(a) PROVE RemovedInv'
  <2>1. at = "baseline" /\ UNCHANGED <<removed, present, bestId>>
    BY <1>1 DEF Baseline
  <2>2. Range(removed) = {}
    <3>1. removed = <<>> /\ DOMAIN <<>> = {}
      BY <2>1 DEF RemovedInv
    <3> QED
      BY <3>1, Zenon DEF Range
  <2>3. \/ at' = "found" /\ minimal' = {}
        \/ at' = "round" /\ todo' = Items
    BY <1>1 DEF Baseline, Found
  <2>4. bestId = NoItem
    BY <2>1 DEF RemovedInv
  <2> QED
    BY <2>1, <2>2, <2>3, <2>4 DEF RemovedInv
<1>2. ASSUME NEW a, Try(a) PROVE RemovedInv'
  <2> DEFINE i == Min(todo)
  <2>1. /\ at = "round" /\ todo # {} /\ UNCHANGED <<at, present, removed, minimal>>
        /\ bestId' = i \/ bestId' = bestId
        /\ todo' = todo \ {i}
    BY <1>2 DEF Try
  <2>2. i \in todo
    BY <2>1, NextItem DEF RemovedInv
  <2> HIDE DEF i
  <2> QED
    BY <2>1, <2>2 DEF RemovedInv
<1>3. CASE TakeBest
  <2>1. /\ at = "round" /\ bestId # NoItem /\ bestId' = NoItem
        /\ removed' = Append(removed, bestId) /\ present' = present \ {bestId}
    BY <1>3 DEF TakeBest
  <2>2. bestId \in Items /\ bestId \notin Range(removed)
    BY <2>1 DEF RemovedInv
  <2>3. removed \in Seq(Items)
    BY DEF RemovedInv
  <2>4. removed' \in Seq(Items) /\ Range(removed') = Range(removed) \cup {bestId}
    BY <2>1, <2>2, <2>3, RangeAppend
  <2>5. \A j, k \in DOMAIN removed': removed'[j] = removed'[k] => j = k
    <3>1. ASSUME NEW j \in DOMAIN removed PROVE removed[j] # bestId
      BY <2>2 DEF Range
    <3>2. /\ DOMAIN removed' = DOMAIN removed \cup {Len(removed) + 1}
          /\ removed'[Len(removed) + 1] = bestId
          /\ \A j \in DOMAIN removed: removed'[j] = removed[j]
      BY <2>1, <2>3
    <3> QED
      BY <3>1, <3>2 DEF RemovedInv
  <2>6. present' = Items \ Range(removed')
    BY <2>1, <2>4 DEF RemovedInv
  <2>7. \/ at' = "round" /\ todo' = present'
        \/ at' = "found" /\ minimal' = {}
        \/ at' = "prune" /\ minimal' = Range(removed')
    BY <1>3, <2>1 DEF TakeBest, GiveUp, Found
  <2> QED
    BY <2>1, <2>4, <2>5, <2>6, <2>7 DEF RemovedInv
<1>4. CASE NoProbeLeft
  BY <1>4 DEF RemovedInv, NoProbeLeft, GiveUp, Found
<1>5. ASSUME NEW a, Prune(a) PROVE RemovedInv'
  BY <1>5 DEF RemovedInv, Prune
<1>6. CASE Pruned
  BY <1>6 DEF RemovedInv, Pruned, Found
<1> QED
  BY <1>1, <1>2, <1>3, <1>4, <1>5, <1>6 DEF Search

-----------------------------------------------------------------------------
(* Confidences and effects. *)

LEMMA ConfInvInit == SearchInit => ConfInv
BY ConfAssumption DEF SearchInit, ConfInv, NoEffect

\* What a probe leaves known are answers.
LEMMA ProbeAnswers ==
    ASSUME \A s \in DOMAIN known: known[s] \in Answers,
           NEW shown, NEW a \in Answers, Probe(shown, a)
    PROVE  \A s \in DOMAIN known': known'[s] \in Answers
BY ProbeSettles

\* An effect is never negative.
LEMMA EffectType == ASSUME NEW d \in Int PROVE Max({0, d}) \in Nat
<1>1. \E x \in {0, d}: \A y \in {0, d}: x >= y
  OBVIOUS
<1>2. Max({0, d}) \in {0, d} /\ \A y \in {0, d}: Max({0, d}) >= y
  BY <1>1 DEF Max
<1> QED
  BY <1>2

LEMMA ConfKept ==
    ASSUME RemovedInv, ConfInv, Search
    PROVE  ConfInv'
<1>1. ASSUME NEW a \in Answers, Baseline(a) PROVE ConfInv'
  <2>1. \A s \in DOMAIN known': known'[s] \in Answers
    BY <1>1, ProbeAnswers DEF Baseline, ConfInv
  <2>2. confidence' \in 0..MaxConf /\ UNCHANGED effect
    BY <1>1 DEF Baseline, ConfInv, Answers
  <2> QED
    BY <1>1, <2>1, <2>2 DEF ConfInv, Baseline, RemovedInv, Found
<1>2. ASSUME NEW a \in Answers, Try(a) PROVE ConfInv'
  <2> DEFINE i == Min(todo)
  <2>1. /\ at = "round" /\ Probe(present \ {i}, a)
        /\ bestId' = i \/ (bestId' = bestId /\ bestId # NoItem)
        /\ UNCHANGED <<confidence, effect, present>>
    BY <1>2 DEF Try
  <2> HIDE DEF i
  <2>2. \A s \in DOMAIN known': known'[s] \in Answers
    BY <2>1, ProbeAnswers DEF ConfInv
  <2>3. present' \ {bestId'} \in DOMAIN known'
    BY <2>1, ProbeSettles DEF ConfInv
  <2> QED
    BY <2>1, <2>2, <2>3 DEF ConfInv
<1>3. CASE TakeBest
  <2> DEFINE best == known[present \ {bestId}]
             drop == confidence - best.conf
  <2>1. best \in Answers /\ bestId' = NoItem /\ UNCHANGED known
    BY <1>3 DEF TakeBest, ConfInv
  <2>2. best.conf \in 0..MaxConf
    BY <2>1 DEF Answers
  <2>3. confidence' \in 0..MaxConf
    BY <1>3, <2>2 DEF TakeBest
  <2>4. Max({0, drop}) \in Nat
    BY <2>2, EffectType DEF ConfInv
  <2>5. \/ effect' = [effect EXCEPT ![bestId] = Max({0, drop})]
        \/ effect' = NoEffect
    BY <1>3 DEF TakeBest, GiveUp
  <2> HIDE DEF drop, best
  <2>6. effect' \in [Items -> Nat]
    BY <2>4, <2>5 DEF ConfInv, NoEffect
  <2> QED
    BY <2>1, <2>3, <2>6 DEF ConfInv
<1>4. CASE NoProbeLeft
  BY <1>4 DEF ConfInv, NoProbeLeft, GiveUp, Found, NoEffect
<1>5. ASSUME NEW a \in Answers, Prune(a) PROVE ConfInv'
  <2> DEFINE item == removed[SelectInSeq(removed, LAMBDA x: x \in todo)]
  <2>1. /\ at = "prune" /\ at' = at /\ Probe(Readded(item), a) /\ UNCHANGED confidence
        /\ effect' = effect \/ effect' = PrunedEffect(item)
    BY <1>5 DEF Prune
  <2> HIDE DEF item
  <2>2. \A s \in DOMAIN known': known'[s] \in Answers
    BY <2>1, ProbeAnswers DEF ConfInv
  <2>3. effect' \in [Items -> Nat]
    BY <2>1 DEF ConfInv, PrunedEffect
  <2> QED
    BY <2>1, <2>2, <2>3 DEF ConfInv
<1>6. CASE Pruned
  BY <1>6 DEF ConfInv, Pruned, Found
<1> QED
  BY <1>1, <1>2, <1>3, <1>4, <1>5, <1>6 DEF Search

-----------------------------------------------------------------------------
(* The effects and the need for each member. *)

LEMMA EffectInvInit == SearchInit => EffectInv
BY DEF SearchInit, EffectInv, NoEffect

LEMMA EffectKept ==
    ASSUME SearchInv, EffectInv, Search
    PROVE  EffectInv'
<1>1. ASSUME NEW a, Baseline(a) PROVE EffectInv'
  BY <1>1 DEF EffectInv, Baseline, Found
<1>2. ASSUME NEW a, Try(a) PROVE EffectInv'
  BY <1>2 DEF EffectInv, Try
<1>3. CASE TakeBest
  <2> DEFINE best == known[present \ {bestId}]
  <2>1. PICK S: removed \in Seq(S)
    BY DEF SearchInv
  <2>2. at = "round" /\ Range(removed') = Range(removed) \cup {bestId}
    BY <1>3, <2>1, RangeAppend DEF TakeBest
  <2>3. CASE at' = "round" /\ \E e: effect' = [effect EXCEPT ![bestId] = e]
    BY <2>2, <2>3 DEF EffectInv
  <2>4. CASE GiveUp
    BY <2>4 DEF EffectInv, GiveUp, Found, NoEffect
  <2>5. CASE /\ at' = "prune" /\ minimal' = Range(removed')
             /\ \E e: effect' = [effect EXCEPT ![bestId] = e]
    BY <2>2, <2>5 DEF EffectInv
  <2> QED
    BY <1>3, <2>2, <2>3, <2>4, <2>5 DEF TakeBest
<1>4. CASE NoProbeLeft
  BY <1>4 DEF EffectInv, NoProbeLeft, GiveUp, Found, NoEffect
<1>5. ASSUME NEW a, Prune(a) PROVE EffectInv'
  <2> DEFINE item == removed[SelectInSeq(removed, LAMBDA x: x \in todo)]
  <2>1. /\ at = "prune" /\ at' = at
        /\ \/ UNCHANGED <<minimal, effect>>
           \/ minimal' = minimal \ {item} /\ effect' = PrunedEffect(item)
    BY <1>5 DEF Prune
  <2> HIDE DEF item
  <2> QED
    BY <2>1 DEF EffectInv, PrunedEffect
<1>6. CASE Pruned
  BY <1>6 DEF EffectInv, Pruned, Found
<1> QED
  BY <1>1, <1>2, <1>3, <1>4, <1>5, <1>6 DEF Search

LEMMA NeedInvInit == SearchInit => NeedInv
BY DEF SearchInit, NeedInv

\* What was seen stays seen while the set does not grow.
LEMMA SeenStays ==
    ASSUME NEW i, SeenToBeNeeded(i), minimal' \subseteq minimal,
           NEW shown, NEW a, Probe(shown, a)
    PROVE  SeenToBeNeeded(i)'
BY ProbeSettles DEF SeenToBeNeeded

LEMMA NeedKept ==
    ASSUME SearchInv, NeedInv, Search
    PROVE  NeedInv'
<1>1. ASSUME NEW a, Baseline(a) PROVE NeedInv'
  BY <1>1 DEF NeedInv, Baseline, Found
<1>2. ASSUME NEW a, Try(a) PROVE NeedInv'
  BY <1>2 DEF NeedInv, Try
<1>3. CASE TakeBest
  BY <1>3 DEF NeedInv, TakeBest, GiveUp, Found
<1>4. CASE NoProbeLeft
  BY <1>4 DEF NeedInv, NoProbeLeft, GiveUp, Found
<1>5. ASSUME NEW a, Prune(a) PROVE NeedInv'
  <2> DEFINE item == removed[SelectInSeq(removed, LAMBDA x: x \in todo)]
  <2>1. /\ at = "prune" /\ at' = at /\ Probe(Readded(item), a)
        /\ todo' = todo \ {item}
        /\ \/ a.recovered /\ minimal' = minimal
           \/ ~a.recovered /\ minimal' = minimal \ {item}
    BY <1>5 DEF Prune
  <2> HIDE DEF item
  <2>2. ASSUME NEW i \in minimal' \ todo' PROVE SeenToBeNeeded(i)'
    <3>1. CASE i = item
      <4>1. a.recovered /\ minimal' = minimal
        BY <2>1, <2>2, <3>1
      <4>2. Readded(item) \subseteq (Items \ minimal') \cup {i}
        BY <3>1, <4>1 DEF Readded
      <4>3. Readded(item) \in DOMAIN known' /\ known'[Readded(item)].recovered
        <5>1. /\ DOMAIN known' = DOMAIN known \cup {Readded(item)}
              /\ known'[Readded(item)] = a
          BY <2>1, ProbeSettles
        <5> QED
          BY <4>1, <5>1
      <4> QED
        BY <4>2, <4>3 DEF SeenToBeNeeded
    <3>2. CASE i # item
      BY <2>1, <2>2, <3>2, SeenStays DEF NeedInv
    <3> QED
      BY <3>1, <3>2
  <2> QED
    BY <2>1, <2>2 DEF NeedInv
<1>6. CASE Pruned
  <2>1. /\ at = "prune" /\ at' = "found" /\ (todo = {} \/ probes >= maxProbes)
        /\ UNCHANGED <<known, minimal, probes, maxProbes>>
    BY <1>6 DEF Pruned, Found
  <2>2. ASSUME probes < maxProbes, NEW i \in minimal PROVE SeenToBeNeeded(i)'
    BY <2>1, <2>2 DEF NeedInv, SeenToBeNeeded, SearchInv
  <2> QED
    BY <2>1, <2>2 DEF NeedInv
<1> QED
  BY <1>1, <1>2, <1>3, <1>4, <1>5, <1>6 DEF Search

-----------------------------------------------------------------------------
(* The frontier.  The keys proved so far are fixed by the stage. *)

Truthful == {"minimal", "stronger", "remove"}
WithDecoy == Truthful \cup {"decoy"}

KeysInv ==
    /\ stage \in {"search", "before"} => before = <<>>
    /\ stage \in {"search", "before", "minimal"} => keys = {}
    /\ stage \in {"minimal", "stronger", "remove", "decoy", "persist"} => before # <<>>
    /\ stage = "stronger" => keys = {"minimal"}
    /\ stage = "remove" => keys = {"minimal", "stronger"}
    /\ stage = "decoy" => decoy /\ keys = Truthful
    /\ stage = "persist" => keys = IF decoy THEN WithDecoy ELSE Truthful
    /\ stage # "done" => saved = {}
    /\ stage = "done" => saved = IF before = <<>> THEN {}
                                 ELSE IF decoy THEN WithDecoy ELSE Truthful

\* What is to be edited: distinct items, the load-bearing one among them.  Nothing was
\* proved before.
TargetsInv ==
    /\ stage \in {"search", "before"} => outcome = NoOutcome
    /\ edits \in Seq(Edits)
    /\ stage \in {"before", "minimal", "stronger", "remove", "decoy"} =>
           /\ targets \in Seq(Items)
           /\ \A j, k \in DOMAIN targets: targets[j] = targets[k] => j = k
           /\ \E k \in DOMAIN targets: targets[k] = primary

FindInv == SearchInv /\ RemovedInv /\ ConfInv /\ EffectInv /\ NeedInv

IInv == FindInv /\ KeysInv /\ TargetsInv /\ ShownIsProved

LEMMA InitInv == Init => IInv
<1> SUFFICES ASSUME Init PROVE IInv
  OBVIOUS
<1>1. FindInv
  BY SearchInvInit, RemovedInvInit, ConfInvInit, EffectInvInit, NeedInvInit DEF Init, FindInv
<1>2. KeysInv /\ TargetsInv /\ ShownIsProved
  BY DEF Init, KeysInv, TargetsInv, ShownIsProved
<1> QED
  BY <1>1, <1>2 DEF IInv

\* What the search knows is kept by its own steps, by its return and by the others'.
LEMMA FindKept == ASSUME FindInv, [Next]_vars PROVE FindInv'
<1> USE DEF FindInv
<1>1. CASE FindMinimalSet
  BY <1>1, SearchKeeps, RemovedKept, ConfKept, EffectKept, NeedKept DEF FindMinimalSet
<1>2. CASE Localize
  <2>1. /\ at' = "returned" /\ known' = <<>> /\ effect' = NoEffect /\ confidence' = 0
        /\ removed' = <<>> /\ UNCHANGED bestId
    BY <1>2 DEF Localize
  <2>2. SearchInv'
    BY <1>2, LocalizeKeeps
  <2>3. RemovedInv'
    BY <2>1 DEF RemovedInv
  <2>4. ConfInv'
    BY <2>1, ConfAssumption DEF ConfInv, NoEffect
  <2>5. EffectInv' /\ NeedInv'
    BY <2>1 DEF EffectInv, NeedInv, NoEffect
  <2> QED
    BY <2>2, <2>3, <2>4, <2>5
<1>3. CASE UNCHANGED searchVars
  <2>1. SearchInv' /\ RemovedInv'
    BY <1>3, SearchIdle DEF RemovedInv, searchVars
  <2>2. ConfInv' /\ EffectInv'
    BY <1>3 DEF ConfInv, EffectInv, searchVars
  <2>3. NeedInv'
    BY <1>3 DEF NeedInv, SeenToBeNeeded, searchVars
  <2> QED
    BY <2>1, <2>2, <2>3
<1>4. UNCHANGED searchVars \/ FindMinimalSet \/ Localize
  BY DEF Next, vars, SampleBefore, Hop, Rewrite, RemoveItems, Decoy, Persist, Fail
<1> QED
  BY <1>1, <1>2, <1>3, <1>4

\* A set of samples is not empty.
LEMMA Sampled == \A s \in Samples: s # <<>>
<1> SUFFICES ASSUME NEW s \in Samples PROVE s # <<>>
  OBVIOUS
<1>1. 1 \in DOMAIN s
  BY SamplesAssumption DEF Samples
<1> QED
  BY <1>1

\* Each option adds its key.
LEMMA KeysKept == ASSUME KeysInv, [Next]_vars PROVE KeysInv'
<1>1. CASE FindMinimalSet
  BY <1>1 DEF FindMinimalSet, frontierVars, KeysInv
<1>2. CASE Localize
  BY <1>2 DEF Localize, KeysInv
<1>3. CASE SampleBefore
  BY <1>3, Sampled DEF SampleBefore, KeysInv
<1>4. ASSUME NEW e \in Edits, NEW recovered \in BOOLEAN, Hop(e, recovered)
      PROVE  KeysInv'
  BY <1>4 DEF Hop, KeysInv
<1>5. CASE Rewrite
  <2>1. /\ stage \in {"minimal", "stronger"} /\ keys' = keys \cup {stage}
        /\ stage' = IF stage = "minimal" THEN "stronger" ELSE "remove"
        /\ UNCHANGED <<decoy, before, saved>>
    BY <1>5 DEF Rewrite, Prove, Listed
  <2>2. CASE stage = "minimal"
    <3>1. keys' = {"minimal"}
      BY <2>1, <2>2 DEF KeysInv, Truthful, WithDecoy
    <3>2. stage' = "stronger" /\ UNCHANGED <<decoy, before, saved>>
      BY <2>1, <2>2
    <3> QED
      BY <2>1, <2>2, <3>1, <3>2 DEF KeysInv
  <2>3. CASE stage = "stronger"
    <3>1. keys' = {"minimal", "stronger"}
      BY <2>1, <2>3 DEF KeysInv, Truthful, WithDecoy
    <3>2. stage' = "remove" /\ UNCHANGED <<decoy, before, saved>>
      BY <2>1, <2>3
    <3> QED
      BY <2>1, <2>3, <3>1, <3>2 DEF KeysInv
  <2> QED
    BY <2>1, <2>2, <2>3
<1>6. CASE RemoveItems
  <2>1. /\ stage = "remove" /\ keys' = keys \cup {"remove"}
        /\ stage' = IF decoy THEN "decoy" ELSE "persist"
        /\ UNCHANGED <<decoy, before, saved>>
    <3> DEFINE changes == [k \in DOMAIN targets |->
                              [item |-> targets[k], op |-> "remove_item", text |-> ""]]
    <3>1. Prove("remove", "remove", changes, "none")
      BY <1>6 DEF RemoveItems
    <3> HIDE DEF changes
    <3>2. keys' = keys \cup {"remove"}
      BY <3>1 DEF Prove, Listed
    <3> QED
      BY <1>6, <3>2 DEF RemoveItems
  <2>2. keys' = Truthful
    BY <2>1 DEF KeysInv, Truthful, WithDecoy
  <2> QED
    BY <2>1, <2>2 DEF KeysInv, Truthful, WithDecoy
<1>7. CASE Decoy
  <2>1. /\ stage = "decoy" /\ keys' = keys \cup {"decoy"} /\ stage' = "persist"
        /\ UNCHANGED <<decoy, before, saved>>
    BY <1>7 DEF Decoy, Prove, Listed
  <2>2. decoy /\ keys' = WithDecoy
    BY <2>1 DEF KeysInv, Truthful, WithDecoy
  <2> QED
    BY <2>1, <2>2 DEF KeysInv
<1>8. CASE Persist
  BY <1>8 DEF Persist, KeysInv
<1>9. CASE Fail
  BY <1>9 DEF Fail, KeysInv
<1>10. CASE UNCHANGED vars
  BY <1>10 DEF vars, frontierVars, KeysInv
<1> QED
  BY <1>1, <1>2, <1>3, <1>4, <1>5, <1>6, <1>7, <1>8, <1>9, <1>10 DEF Next

-----------------------------------------------------------------------------
(* What is edited, and what is shown of it. *)

\* The list of the members: items, each once, and none is left out if there is one.
LEMMA MinimalListed ==
    ASSUME RemovedInv
    PROVE  /\ MinimalList \in Seq(Items)
           /\ \A j, k \in DOMAIN MinimalList: MinimalList[j] = MinimalList[k] => j = k
           /\ minimal # {} /\ minimal \subseteq Range(removed) => 1 \in DOMAIN MinimalList
<1> DEFINE kept == {p \in DOMAIN removed: removed[p] \in minimal}
           Place(k) == CHOOSE p \in kept: Cardinality({q \in kept: q < p}) = k - 1
<1>1. removed \in Seq(Items) /\ DOMAIN removed = 1..Len(removed) /\ Len(removed) \in Nat
  BY DEF RemovedInv
<1>2. IsFiniteSet(kept) /\ kept \subseteq Int
  <2>1. IsFiniteSet(1..Len(removed))
    BY <1>1, FS_Interval
  <2> QED
    BY <1>1, <2>1, FS_Subset
<1>3. Cardinality(kept) \in Nat
  BY <1>2, FS_CardinalityType
<1>4. MinimalList = [k \in 1..Cardinality(kept) |-> removed[Place(k)]]
  BY DEF MinimalList
<1>5. ASSUME NEW k \in 1..Cardinality(kept)
      PROVE  Place(k) \in kept /\ Cardinality({q \in kept: q < Place(k)}) = k - 1
  <2> HIDE DEF kept
  <2>1. \E p \in kept: Cardinality({q \in kept: q < p}) = k - 1
    BY <1>2, PlaceExists
  <2> QED
    BY <2>1
<1>6. MinimalList \in Seq(Items)
  <2>1. ASSUME NEW k \in 1..Cardinality(kept) PROVE removed[Place(k)] \in Items
    <3>1. Place(k) \in DOMAIN removed
      BY <1>5
    <3> HIDE DEF Place, kept
    <3> QED
      BY <1>1, <3>1
  <2> HIDE DEF kept, Place
  <2> QED
    BY <1>3, <1>4, <2>1
<1>7. ASSUME NEW j \in 1..Cardinality(kept), NEW k \in 1..Cardinality(kept),
             removed[Place(j)] = removed[Place(k)]
      PROVE  j = k
  <2>1. Place(j) = Place(k)
    BY <1>5, <1>7 DEF RemovedInv
  <2> HIDE DEF kept, Place
  <2>2. j - 1 = k - 1
    BY <1>5, <2>1
  <2> QED
    BY <2>2
<1>8. ASSUME minimal # {}, minimal \subseteq Range(removed) PROVE 1 \in 1..Cardinality(kept)
  <2>1. kept # {}
    BY <1>8 DEF Range
  <2> HIDE DEF kept
  <2>2. Cardinality(kept) # 0
    BY <1>2, <2>1, FS_EmptySet
  <2> QED
    BY <1>3, <2>2
<1> HIDE DEF kept, Place
<1> QED
  BY <1>3, <1>4, <1>6, <1>7, <1>8

\* The load-bearing item is in the list.
LEMMA PrimaryListed ==
    ASSUME ConfInv, NEW list \in Seq(Items), DOMAIN list # {}
    PROVE  \E k \in DOMAIN list: list[k] = Primary(list)
<1> DEFINE f == [k \in DOMAIN list |-> effect[list[k]]]
           best == {k \in DOMAIN list: \A j \in DOMAIN list: effect[list[j]] <= effect[list[k]]}
<1>1. DOMAIN list = 1..Len(list) /\ Len(list) \in Nat
  OBVIOUS
<1>2. IsFiniteSet(DOMAIN list)
  BY <1>1, FS_Interval
<1>3. f \in [DOMAIN list -> Int]
  <2>1. ASSUME NEW k \in DOMAIN list PROVE effect[list[k]] \in Int
    BY DEF ConfInv
  <2> QED
    BY <2>1
<1>4. \E k \in DOMAIN list: \A j \in DOMAIN list: f[j] <= f[k]
  <2> HIDE DEF f
  <2> QED
    BY <1>2, <1>3, Greatest
<1>5. best # {} /\ best \subseteq DOMAIN list /\ best \subseteq Int
  <2>1. \E k \in DOMAIN list: \A j \in DOMAIN list: effect[list[j]] <= effect[list[k]]
    BY <1>4
  <2>2. best \subseteq DOMAIN list /\ best # {}
    BY <2>1
  <2> HIDE DEF best
  <2> QED
    BY <1>1, <2>2
<1>6. Primary(list) = list[Min(best)]
  BY DEF Primary
<1> HIDE DEF best
<1>7. Min(best) \in best
  BY <1>2, <1>5, FS_Subset, MinIsLeast
<1> QED
  BY <1>5, <1>6, <1>7

\* The edits of an option are kept as a list; the targets are set once.
LEMMA TargetsKept ==
    ASSUME FindInv, TargetsInv, [Next]_vars
    PROVE  TargetsInv'
<1>1. CASE Localize
  <2>1. /\ stage = "search" /\ at = "found" /\ UNCHANGED <<outcome, edits>>
        /\ \/ stage' = "done"
           \/ /\ minimal # {} /\ stage' = "before"
              /\ targets' = MinimalList /\ primary' = Primary(targets')
    BY <1>1 DEF Localize
  <2>2. CASE stage' = "done"
    BY <2>1, <2>2 DEF TargetsInv
  <2>3. CASE /\ minimal # {} /\ stage' = "before"
             /\ targets' = MinimalList /\ primary' = Primary(targets')
    <3>1. /\ targets' \in Seq(Items)
          /\ \A j, k \in DOMAIN targets': targets'[j] = targets'[k] => j = k
          /\ 1 \in DOMAIN targets'
      BY <2>1, <2>3, MinimalListed DEF FindInv, RemovedInv
    <3>2. \E k \in DOMAIN targets': targets'[k] = primary'
      BY <2>3, <3>1, PrimaryListed DEF FindInv
    <3> QED
      BY <2>1, <2>3, <3>1, <3>2 DEF TargetsInv
  <2> QED
    BY <2>1, <2>2, <2>3
<1>2. ASSUME NEW e \in Edits, NEW recovered \in BOOLEAN, Hop(e, recovered)
      PROVE  TargetsInv'
  <2>1. edits' = Append(edits, e) \/ edits' = [edits EXCEPT ![Len(edits)] = e]
    BY <1>2 DEF Hop
  <2>2. edits' \in Seq(Edits)
    BY <2>1 DEF TargetsInv
  <2> QED
    BY <1>2, <2>2 DEF Hop, TargetsInv
<1>3. CASE Rewrite
  BY <1>3 DEF Rewrite, TargetsInv
<1>4. CASE RemoveItems
  BY <1>4 DEF RemoveItems, TargetsInv
<1>5. CASE Decoy
  BY <1>5 DEF Decoy, TargetsInv
<1>6. CASE FindMinimalSet \/ UNCHANGED vars
  BY <1>6 DEF FindMinimalSet, vars, frontierVars, TargetsInv
<1>7. CASE SampleBefore \/ Persist \/ Fail
  BY <1>7 DEF SampleBefore, Persist, Fail, TargetsInv
<1> QED
  BY <1>1, <1>2, <1>3, <1>4, <1>5, <1>6, <1>7 DEF Next

\* An option shows what it was proved with, if its changes are of items, each changed
\* once, and its text is that of the load-bearing one or none.
LEMMA ProveShows ==
    ASSUME NEW key, NEW action, NEW changes, NEW text,
           Prove(key, action, changes, text), primary' = primary,
           \A k \in DOMAIN changes: changes[k].item \in Items,
           \A j, k \in DOMAIN changes: changes[j].item = changes[k].item => j = k,
           \/ text = "none"
           \/ \E k \in DOMAIN changes: changes[k].item = primary /\ text = changes[k].text
    PROVE  ShownIsProved'
<1>1. /\ outcome'.changes = [k \in DOMAIN changes |-> SpanChange(changes[k])]
      /\ outcome'.proved = Applied(changes)
      /\ outcome'.text = text
  BY DEF Prove
<1>2. ASSUME NEW k \in DOMAIN changes PROVE Applied(changes)[changes[k].item] = changes[k].text
  <2> DEFINE j == CHOOSE j \in DOMAIN changes: changes[j].item = changes[k].item
  <2>1. j = k
    OBVIOUS
  <2>2. Applied(changes)[changes[k].item] = changes[j].text
    BY DEF Applied
  <2> QED
    BY <2>1, <2>2
<1>3. ASSUME NEW k \in DOMAIN outcome'.changes
      PROVE  \/ outcome'.changes[k].op = "remove_item"
             \/ outcome'.changes[k].replacement = outcome'.proved[outcome'.changes[k].item]
  <2>1. k \in DOMAIN changes /\ outcome'.changes[k] = SpanChange(changes[k])
    BY <1>1
  <2> QED
    BY <1>1, <1>2, <2>1 DEF SpanChange
<1>4. ASSUME NEW i \in Items, outcome'.proved[i] # "original"
      PROVE  \E k \in DOMAIN outcome'.changes: outcome'.changes[k].item = i
  <2>1. PICK k \in DOMAIN changes: changes[k].item = i
    BY <1>1, <1>4 DEF Applied
  <2>2. outcome'.changes[k].item = i
    BY <1>1, <2>1 DEF SpanChange
  <2> QED
    BY <1>1, <2>1, <2>2
<1>5. outcome'.text \in {"none", outcome'.proved[primary]}
  BY <1>1, <1>2
<1> QED
  BY <1>3, <1>4, <1>5 DEF ShownIsProved

LEMMA ShownKept ==
    ASSUME TargetsInv, ShownIsProved, [Next]_vars
    PROVE  ShownIsProved'
<1>1. CASE Rewrite
  <2> DEFINE changes == [k \in DOMAIN edits |->
                            [item |-> targets[k], op |-> edits[k].op, text |-> edits[k].text]]
             main == CHOOSE k \in DOMAIN targets: targets[k] = primary
             text == SpanChange(changes[main]).replacement
  <2>1. /\ stage \in {"minimal", "stronger"} /\ Len(edits) = Len(targets)
        /\ Prove(stage, Action(changes), changes, text)
        /\ UNCHANGED primary
    BY <1>1 DEF Rewrite
  <2>2. DOMAIN edits = DOMAIN targets
    BY <2>1 DEF TargetsInv
  <2>3. main \in DOMAIN edits /\ targets[main] = primary
    BY <2>1, <2>2 DEF TargetsInv
  <2>4. /\ \A k \in DOMAIN changes: changes[k].item \in Items
        /\ \A j, k \in DOMAIN changes: changes[j].item = changes[k].item => j = k
    BY <2>1, <2>2 DEF TargetsInv
  <2>5. \/ text = "none"
        \/ \E k \in DOMAIN changes: changes[k].item = primary /\ text = changes[k].text
    <3>1. text = "none" \/ text = changes[main].text
      BY DEF SpanChange
    <3>2. main \in DOMAIN changes /\ changes[main].item = primary
      BY <2>3
    <3> HIDE DEF changes, main, text
    <3> QED
      BY <3>1, <3>2
  <2> HIDE DEF changes, text
  <2> QED
    BY <2>1, <2>4, <2>5, ProveShows
<1>2. CASE RemoveItems
  <2> DEFINE changes == [k \in DOMAIN targets |->
                            [item |-> targets[k], op |-> "remove_item", text |-> ""]]
  <2>1. stage = "remove" /\ Prove("remove", "remove", changes, "none") /\ UNCHANGED primary
    BY <1>2 DEF RemoveItems
  <2>2. /\ targets \in Seq(Items)
        /\ \A j, k \in DOMAIN targets: targets[j] = targets[k] => j = k
    BY <2>1 DEF TargetsInv
  <2>3. DOMAIN changes = DOMAIN targets /\ \A k \in DOMAIN targets: changes[k].item = targets[k]
    OBVIOUS
  <2> HIDE DEF changes
  <2>4. /\ \A k \in DOMAIN changes: changes[k].item \in Items
        /\ \A j, k \in DOMAIN changes: changes[j].item = changes[k].item => j = k
    BY <2>2, <2>3
  <2> QED
    BY <2>1, <2>4, ProveShows
<1>3. CASE Decoy
  <2> DEFINE changes == <<[item |-> primary, op |-> "generalize", text |-> "false"]>>
  <2>1. stage = "decoy" /\ Prove("decoy", "decoy", changes, "false") /\ UNCHANGED primary
    BY <1>3 DEF Decoy
  <2>2. primary \in Items
    BY <2>1 DEF TargetsInv
  <2>3. DOMAIN changes = {1} /\ changes[1].item = primary /\ changes[1].text = "false"
    OBVIOUS
  <2> HIDE DEF changes
  <2> QED
    BY <2>1, <2>2, <2>3, ProveShows
<1>4. CASE Localize
  BY <1>4 DEF Localize, TargetsInv, ShownIsProved
<1>5. ASSUME NEW e \in Edits, NEW recovered \in BOOLEAN, Hop(e, recovered)
      PROVE  ShownIsProved'
  BY <1>5 DEF Hop, ShownIsProved
<1>6. CASE FindMinimalSet \/ UNCHANGED vars
  BY <1>6 DEF FindMinimalSet, vars, frontierVars, ShownIsProved
<1>7. CASE SampleBefore \/ Persist \/ Fail
  BY <1>7 DEF SampleBefore, Persist, Fail, ShownIsProved
<1> QED
  BY <1>1, <1>2, <1>3, <1>4, <1>5, <1>6, <1>7 DEF Next

LEMMA NextKeeps == ASSUME IInv, [Next]_vars PROVE IInv'
BY FindKept, KeysKept, TargetsKept, ShownKept DEF IInv

-----------------------------------------------------------------------------
(* Theorems *)

\* The invariant of the whole execution holds always.
THEOREM Invariance == Spec => []IInv
<1>1. IInv /\ [Next]_vars => IInv'
  BY NextKeeps
<1> QED
  BY InitInv, <1>1, PTL DEF Spec

\* For any items and any adversary, no search makes more passes than its ceiling.
THEOREM CapHolds == Spec => []CapKept
<1>1. IInv => CapKept
  BY DEF IInv, FindInv, SearchInv, CapKept
<1> QED
  BY Invariance, <1>1, PTL

\* For any items and any adversary, what the search reports was seen to work: everything
\* else was shown to the adversary, which failed, also when the ceiling cut the pruning.
THEOREM ReportedRemovalsWork == Spec => []RemovalWasSeenToWork
<1>1. IInv => RemovalWasSeenToWork
  BY DEF IInv, FindInv, SearchInv, RemovalWasSeenToWork
<1> QED
  BY Invariance, <1>1, PTL

\* For any items and any adversary, an item has an effect at the end only if it is in the
\* reported set.
THEOREM EffectsAreOfMembers == Spec => []EffectOnlyOnMembers
<1>1. IInv => EffectOnlyOnMembers
  BY DEF IInv, FindInv, EffectInv, EffectOnlyOnMembers
<1> QED
  BY Invariance, <1>1, PTL

\* For any items and any adversary, if the ceiling was not hit, each member of the reported
\* set was seen to be needed.
THEOREM MembersAreNeeded == Spec => []EveryMemberIsNeeded
<1>1. IInv => EveryMemberIsNeeded
  BY DEF IInv, FindInv, NeedInv, SeenToBeNeeded, EveryMemberIsNeeded
<1> QED
  BY Invariance, <1>1, PTL

\* For any items and any adversary, no cause is reported only if the ceiling was hit or the
\* adversary recovers the value from nothing.
THEOREM GivingUpHolds == Spec => []GivingUpIsHonest
<1>1. IInv => GivingUpIsHonest
  BY DEF IInv, FindInv, SearchInv
<1> QED
  BY Invariance, <1>1, PTL

\* For any items, edits and number of hops, an option shows what it was proved with.
THEOREM ShownHolds == Spec => []ShownIsProved
<1>1. IInv => ShownIsProved
  BY DEF IInv
<1> QED
  BY Invariance, <1>1, PTL

\* A run persists the whole frontier or nothing.
THEOREM FrontierHolds == Spec => []FrontierIsWhole
<1>1. IInv => FrontierIsWhole
  BY DEF IInv, KeysInv, FrontierIsWhole, Truthful, WithDecoy
<1> QED
  BY Invariance, <1>1, PTL

\* How often the value was recovered is a number.
LEMMA RecoveriesType == ASSUME NEW samples PROVE Recoveries(samples) \in Nat
<1>1. IsFiniteSet(1..N)
  BY SamplesAssumption, FS_Interval
<1>2. IsFiniteSet({n \in 1..N: samples[n].recovered})
  BY <1>1, FS_Subset
<1> QED
  BY <1>2, FS_CardinalityType DEF Recoveries

\* An option that turns a frontier into a proven one is an honest win.
LEMMA ProveIsHonest ==
    ASSUME NEW key, NEW action, NEW changes, NEW text,
           Prove(key, action, changes, text), proven', ~proven
    PROVE  /\ 2 * Recoveries(before) >= N
           /\ 2 * Recoveries(outcome'.after) < N
           /\ \E n \in 1..N: Drop(outcome'.after, n) > Floor
<1>0. PICK after \in Samples: \E significant \in Significant(after):
        /\ outcome' = [key |-> key, action |-> action, text |-> text,
                       changes |-> [k \in DOMAIN changes |-> SpanChange(changes[k])],
                       proved |-> Applied(changes),
                       after |-> after,
                       significant |-> significant,
                       recovered |-> MajorityRecovered(after)]
        /\ proven' = (proven \/ Flips(outcome'))
  BY Zenon DEF Prove
<1>1. PICK significant \in Significant(after):
        /\ outcome' = [key |-> key, action |-> action, text |-> text,
                       changes |-> [k \in DOMAIN changes |-> SpanChange(changes[k])],
                       proved |-> Applied(changes),
                       after |-> after,
                       significant |-> significant,
                       recovered |-> MajorityRecovered(after)]
        /\ proven' = (proven \/ Flips(outcome'))
  BY <1>0, Zenon
<1>2. /\ outcome'.significant = significant
      /\ outcome'.recovered = MajorityRecovered(after)
      /\ outcome'.after = after
  BY <1>1
<1>3. Flips(outcome')
  BY <1>1
<1>4. significant /\ MajorityRecovered(before) /\ ~MajorityRecovered(after)
  BY <1>2, <1>3 DEF Flips
<1>5. 2 * Recoveries(before) >= N
  BY <1>4, RecoveriesType DEF MajorityRecovered
<1>6. 2 * Recoveries(after) < N
  BY <1>4, RecoveriesType, SamplesAssumption DEF MajorityRecovered
<1>7. \E n \in 1..N: Drop(after, n) > Floor
  BY <1>4 DEF Significant
<1> QED
  BY <1>2, <1>5, <1>6, <1>7

\* A frontier reads `proven` only for an option after which fewer than half of the
\* attacks recovered the value, against at least half before, with a drop above the floor.
THEOREM ProvenWinsAreHonest == Spec => ProvenIsHonest
<1> DEFINE Honest == /\ 2 * Recoveries(before) >= N
                     /\ 2 * Recoveries(outcome'.after) < N
                     /\ \E n \in 1..N: Drop(outcome'.after, n) > Floor
<1>1. ASSUME [Next]_vars, proven', ~proven PROVE Honest
  <2>1. ASSUME proven' = proven PROVE FALSE
    BY <1>1, <2>1
  <2>2. ASSUME NEW key, NEW action, NEW changes, NEW text,
               Prove(key, action, changes, text)
        PROVE  Honest
    BY <1>1, <2>2, ProveIsHonest
  <2> HIDE DEF Honest
  <2>3. CASE Rewrite
    BY <2>2, <2>3, Zenon DEF Rewrite
  <2>4. CASE RemoveItems
    BY <2>2, <2>4, Zenon DEF RemoveItems
  <2>5. CASE Decoy
    BY <2>2, <2>5, Zenon DEF Decoy
  <2>6. CASE FindMinimalSet \/ UNCHANGED vars
    BY <2>1, <2>6 DEF FindMinimalSet, vars, frontierVars
  <2>7. CASE Localize \/ SampleBefore \/ Persist \/ Fail
    BY <2>1, <2>7 DEF Localize, SampleBefore, Persist, Fail
  <2>8. CASE \E e \in Edits, recovered \in BOOLEAN: Hop(e, recovered)
    BY <2>1, <2>8 DEF Hop
  <2> QED
    BY <1>1, <2>3, <2>4, <2>5, <2>6, <2>7, <2>8 DEF Next
<1>2. [Next]_vars => [proven' /\ ~proven => Honest]_vars
  BY <1>1
<1> QED
  BY <1>2, PTL DEF Spec, ProvenIsHonest
=============================================================================
