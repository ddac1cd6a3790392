------------------------------ MODULE RunPages ------------------------------
(***************************************************************************)
(* GET /v1/runs (src/app/api/v1/runs.py, pagination.py; src/app/           *)
(* repositories/runs.py): a client lists its runs page by page while runs  *)
(* are created.                                                            *)
(*                                                                         *)
(* A number stands for a run's sort key (created_at, id).  created_at is   *)
(* the time its transaction began, so a run may become visible below runs  *)
(* that are listed already.  The cursor codec gives back the key it was    *)
(* given; a malformed cursor is refused without touching anything.  Runs   *)
(* are deleted only together with their user.                              *)
(***************************************************************************)
EXTENDS Naturals, FiniteSets

CONSTANTS
    Keys,       \* sort keys of runs
    Limits,     \* page sizes a client may ask for
    None        \* no cursor

ASSUME KeysAssumption == Keys \subseteq Nat
ASSUME LimitsAssumption == Limits \subseteq Nat \ {0}
ASSUME NoneAssumption == None \notin Nat

VARIABLES
    rows,       \* committed runs
    phase,      \* of the listing: "fresh", "paging", "done"
    after,      \* next_cursor of the page last received
    page,       \* the page last received
    \* --- history, read by properties only
    seen,       \* the runs on the pages before it
    start       \* the runs that were there when the first page was read

vars == <<rows, phase, after, page, seen, start>>

Init ==
    /\ rows = {}
    /\ phase = "fresh"
    /\ after = None
    /\ page = {}
    /\ seen = {}
    /\ start = {}

\* The transaction of a POST commits.
Insert(k) ==
    /\ k \notin rows
    /\ rows' = rows \cup {k}
    /\ UNCHANGED <<phase, after, page, seen, start>>

\* The client asks for the first page again.
Restart ==
    /\ phase # "fresh"
    /\ phase' = "fresh"
    /\ after' = None
    /\ page' = {}
    /\ seen' = {}
    /\ start' = {}
    /\ UNCHANGED rows

Above(S, k) == {j \in S: j > k}

\* ORDER BY ... DESC LIMIT n.
Top(S, n) == {k \in S: Cardinality(Above(S, k)) < n}

\* Mutant: the cursor's own row is read again.
OlderInclusive == {k \in rows: after = None \/ k <= after}

\* The keyset predicate.
Older == {k \in rows: after = None \/ k < after}

\* Mutant: a full page is taken to mean that there is another one.
HasMoreFull(limit) == Cardinality(Older) >= limit

\* Mutant: rows are counted without the extra one that was fetched.
HasMoreShort(limit) == Cardinality(Older) > limit + 1

\* LIMIT limit + 1 returns more than limit rows.
HasMore(limit) == Cardinality(Older) > limit

\* list_runs_page.
Fetch(limit) ==
    /\ phase # "done"
    /\ start' = IF phase = "fresh" THEN rows ELSE start
    /\ seen' = seen \cup page
    /\ page' = Top(Older, limit)
    /\ \/ /\ HasMore(limit)
          /\ \E last \in page':
                 /\ \A k \in page': last <= k
                 /\ after' = last
          /\ phase' = "paging"
       \/ /\ ~HasMore(limit)
          /\ after' = None
          /\ phase' = "done"
    /\ UNCHANGED rows

Next ==
    \/ \E k \in Keys: Insert(k)
    \/ \E limit \in Limits: Fetch(limit)
    \/ Restart

Spec == Init /\ [][Next]_vars

-----------------------------------------------------------------------------
(* Properties *)

TypeOK ==
    /\ rows \subseteq Keys
    /\ phase \in {"fresh", "paging", "done"}
    /\ after \in Keys \cup {None}
    /\ page \subseteq rows
    /\ seen \subseteq rows
    /\ start \subseteq rows

\* list_runs_page: "not OFFSET, which re-scans and skips/dupes rows under
\* concurrent inserts".  A page holds only runs older than all those listed
\* before: no run is listed twice, and the order is newest first across pages.
NoRepeat == \A k \in page, j \in seen: k < j

\* A listing that has reached its last page has shown every run that was there
\* when it began, whatever was created meanwhile and whatever the page sizes were.
NothingSkipped == phase = "done" => start \subseteq seen \cup page

\* list_runs: "next_cursor is null on the last page".  A cursor leads to at least
\* one more run.
CursorLeadsOn == phase = "paging" => \E k \in rows: k < after

-----------------------------------------------------------------------------
\* What was there at the start is listed or lies below the cursor; what is listed
\* lies above it.
ListInv ==
    /\ phase = "paging" <=> after # None
    /\ phase = "fresh" => page = {} /\ seen = {} /\ start = {}
    /\ phase = "paging" =>
           /\ \A k \in seen \cup page: after <= k
           /\ \A k \in start: k \in seen \cup page \/ k < after

IInv == TypeOK /\ IsFiniteSet(rows) /\ ListInv /\ NoRepeat /\ NothingSkipped /\ CursorLeadsOn
=============================================================================
