--------------------------- MODULE RunPagesProofs ---------------------------
(* Theorems of RunPages: the keyset list neither repeats nor skips, for any   *)
(* number of runs, any page sizes and any runs created while a client pages.  *)
EXTENDS RunPages, FiniteSetTheorems, TLAPS

-----------------------------------------------------------------------------
(* The page operators *)

\* When no more than n rows match, the page holds them all.
LEMMA TopAll ==
    ASSUME NEW S \in SUBSET Nat, IsFiniteSet(S), NEW n \in Nat, Cardinality(S) <= n
    PROVE Top(S, n) = S
<1> SUFFICES ASSUME NEW k \in S PROVE Cardinality(Above(S, k)) < n
    BY DEF Top
<1>1. Above(S, k) \subseteq S \ {k}
    BY DEF Above
<1>2. /\ IsFiniteSet(S \ {k})
      /\ Cardinality(S \ {k}) = Cardinality(S) - 1
    BY FS_RemoveElement
<1>3. /\ Cardinality(Above(S, k)) \in Nat
      /\ Cardinality(Above(S, k)) <= Cardinality(S \ {k})
    BY <1>1, <1>2, FS_Subset, FS_CardinalityType
<1>4. Cardinality(S) \in Nat
    BY FS_CardinalityType
<1> QED BY <1>2, <1>3, <1>4

\* When more than n rows match, the last row of the page separates it from the
\* rows that match and are not on it, of which there is one.
LEMMA TopCut ==
    ASSUME NEW S \in SUBSET Nat, IsFiniteSet(S), NEW n \in Nat, Cardinality(S) > n,
           NEW last \in Top(S, n), \A k \in Top(S, n): last <= k
    PROVE /\ \A k \in S: k \in Top(S, n) \/ k < last
          /\ \E k \in S: k < last
<1>1. /\ last \in S
      /\ Cardinality(Above(S, last)) < n
    BY DEF Top
<1>2. /\ IsFiniteSet(Above(S, last))
      /\ Cardinality(Above(S, last)) \in Nat
    <2>1. Above(S, last) \subseteq S
        BY DEF Above
    <2> QED BY <2>1, FS_Subset, FS_CardinalityType
<1>3. ASSUME NEW k \in S, k \notin Top(S, n) PROVE k < last
    <2>1. SUFFICES ASSUME last <= k PROVE FALSE
        BY <1>1
    <2>2. Above(S, k) \subseteq Above(S, last)
        <3> SUFFICES ASSUME NEW j \in S, j > k PROVE j > last
            BY DEF Above
        <3>1. j \in Nat /\ k \in Nat /\ last \in Nat
            BY <1>1
        <3> QED BY <2>1, <3>1
    <2>3. /\ Cardinality(Above(S, k)) <= Cardinality(Above(S, last))
          /\ Cardinality(Above(S, k)) \in Nat
        BY <1>2, <2>2, FS_Subset, FS_CardinalityType
    <2> QED BY <1>1, <1>2, <1>3, <2>3 DEF Top
<1>4. \E k \in S: k < last
    <2>1. SUFFICES ASSUME \A k \in S: ~(k < last) PROVE FALSE
        OBVIOUS
    <2>2. Above(S, last) = S \ {last}
        <3> SUFFICES ASSUME NEW j \in S PROVE j > last <=> j # last
            BY DEF Above
        <3>1. j \in Nat /\ last \in Nat
            BY <1>1
        <3> QED BY <2>1, <3>1
    <2>3. Cardinality(Above(S, last)) = Cardinality(S) - 1
        BY <1>1, <2>2, FS_RemoveElement
    <2> QED BY <1>1, <1>2, <2>3, FS_CardinalityType
<1> QED BY <1>3, <1>4

-----------------------------------------------------------------------------
(* The listing *)

\* Nothing is there and nothing is listed.
LEMMA InitIInv == Init => IInv
BY NoneAssumption, FS_EmptySet
   DEF Init, IInv, TypeOK, ListInv, NoRepeat, NothingSkipped, CursorLeadsOn

\* A run that appears is not one that was there at the start.
LEMMA InsertStep == IInv /\ (\E k \in Keys: Insert(k)) => IInv'
<1> SUFFICES ASSUME IInv, NEW k \in Keys, Insert(k) PROVE IInv'
    OBVIOUS
<1>1. IsFiniteSet(rows')
    BY FS_AddElement DEF IInv, Insert
<1> QED
    BY <1>1 DEF Insert, IInv, TypeOK, ListInv, NoRepeat, NothingSkipped, CursorLeadsOn

\* One more page: TopCut when there is another one, TopAll when it is the last.
LEMMA FetchStep == IInv /\ (\E limit \in Limits: Fetch(limit)) => IInv'
<1> SUFFICES ASSUME IInv, NEW limit \in Limits, Fetch(limit) PROVE IInv'
    OBVIOUS
<1> USE KeysAssumption, LimitsAssumption, NoneAssumption
<1>1. /\ rows \in SUBSET Nat
      /\ Older \in SUBSET Nat
      /\ IsFiniteSet(Older)
      /\ Cardinality(Older) \in Nat
      /\ limit \in Nat
    <2>1. Older \subseteq rows
        BY DEF Older
    <2> QED BY <2>1, FS_Subset, FS_CardinalityType DEF IInv, TypeOK
<1>2. page' \subseteq Older /\ Older \subseteq rows
    BY DEF Fetch, Top, Older
<1>3. phase \in {"fresh", "paging"}
    BY DEF Fetch, IInv, TypeOK
<1>4. TypeOK'
    BY <1>1, <1>2 DEF Fetch, IInv, TypeOK
<1>5. NoRepeat'
    <2> SUFFICES ASSUME NEW k \in page', NEW j \in seen' PROVE k < j
        BY DEF NoRepeat
    <2>1. j \in seen \cup page
        BY DEF Fetch
    <2>2. phase = "paging" /\ after # None /\ after <= j
        BY <1>3, <2>1 DEF IInv, ListInv
    <2>3. k < after
        BY <1>2, <2>2 DEF Older
    <2> QED BY <1>1, <1>2, <2>1, <2>2, <2>3 DEF IInv, TypeOK
<1>6. ASSUME NEW k \in start' PROVE k \in seen' \/ k \in Older
    <2>1. CASE phase = "fresh"
        BY <2>1 DEF Fetch, Older, IInv, ListInv
    <2>2. CASE phase = "paging"
        BY <1>6, <2>2 DEF Fetch, Older, IInv, TypeOK, ListInv
    <2> QED BY <1>3, <2>1, <2>2
<1>7. CASE HasMore(limit)
    <2>1. PICK last \in page': (\A k \in page': last <= k) /\ after' = last
        BY <1>7 DEF Fetch
    <2>2. phase' = "paging" /\ page' = Top(Older, limit)
        BY <1>7 DEF Fetch
    <2>3. /\ \A k \in Older: k \in page' \/ k < last
          /\ \E k \in Older: k < last
        BY <1>1, <1>7, <2>1, <2>2, TopCut DEF HasMore
    <2>4. ListInv'
        <3>1. \A k \in (seen \cup page)': last <= k
            BY <1>1, <1>2, <1>4, <1>5, <2>1 DEF NoRepeat, TypeOK
        <3>2. \A k \in start': k \in (seen \cup page)' \/ k < last
            BY <1>6, <2>3
        <3> QED BY <1>1, <1>2, <2>1, <2>2, <3>1, <3>2 DEF ListInv
    <2>5. CursorLeadsOn'
        BY <1>2, <2>1, <2>3 DEF CursorLeadsOn, Fetch
    <2>6. NothingSkipped'
        BY <2>2 DEF NothingSkipped
    <2> QED BY <1>4, <1>5, <2>4, <2>5, <2>6 DEF IInv, Fetch
<1>8. CASE ~HasMore(limit)
    <2>1. phase' = "done" /\ after' = None /\ page' = Top(Older, limit)
        BY <1>8 DEF Fetch
    <2>2. page' = Older
        BY <1>1, <1>8, <2>1, TopAll DEF HasMore
    <2>3. NothingSkipped'
        BY <1>6, <2>2 DEF NothingSkipped
    <2> QED BY <1>4, <1>5, <2>1, <2>3 DEF IInv, Fetch, ListInv, CursorLeadsOn
<1> QED BY <1>7, <1>8

\* The inductive invariant, for any finite or infinite set of keys: the rows that
\* were there at the start are listed or lie below the cursor.
THEOREM Invariance == Spec => []IInv
<1>1. IInv /\ [Next]_vars => IInv'
    <2> SUFFICES ASSUME IInv, [Next]_vars PROVE IInv'
        OBVIOUS
    <2>1. CASE Restart
        BY <2>1, NoneAssumption
           DEF Restart, IInv, TypeOK, ListInv, NoRepeat, NothingSkipped, CursorLeadsOn
    <2>2. CASE UNCHANGED vars
        BY <2>2 DEF vars, IInv, TypeOK, ListInv, NoRepeat, NothingSkipped, CursorLeadsOn
    <2> QED BY <2>1, <2>2, InsertStep, FetchStep DEF Next
<1> QED BY <1>1, InitIInv, PTL DEF Spec

\* No run is listed twice, and every page is older than the ones before it.
THEOREM PagesNeverRepeat == Spec => []NoRepeat
<1>1. IInv => NoRepeat
    BY DEF IInv
<1> QED BY <1>1, Invariance, PTL

\* A complete listing has shown every run that was there when it began.
THEOREM PagesSkipNothing == Spec => []NothingSkipped
<1>1. IInv => NothingSkipped
    BY DEF IInv
<1> QED BY <1>1, Invariance, PTL

\* A cursor is handed out only when another page has something on it.
THEOREM CursorsLeadOn == Spec => []CursorLeadsOn
<1>1. IInv => CursorLeadsOn
    BY DEF IInv
<1> QED BY <1>1, Invariance, PTL
=============================================================================
