----------------------------- MODULE Retrieval -----------------------------
(***************************************************************************)
(* retrieve_evidence (src/app/retrieval/retriever.py): which items of a    *)
(* profile the model is shown.  Items with explicit identifying signals    *)
(* always are; relevant and recent ones as far as the token budget allows. *)
(*                                                                         *)
(* The searches are statements of their own: an import may commit between  *)
(* the read of the texts and the searches, so that ids without a text are  *)
(* found.  What the embedding index ranks first is nondeterministic.       *)
(***************************************************************************)
EXTENDS Integers, FiniteSets, FiniteSetsExt

CONSTANTS
    Items,      \* the profile's items when their texts are read
    Late,       \* items an import commits before the searches
    Tokens,     \* item -> its length in tokens
    Budget,     \* token_budget
    TopK,       \* per_attribute_k
    Queries,    \* number of attribute queries
    RecencyN    \* recency_n

ASSUME RetrievalItemsAssumption == IsFiniteSet(Items \cup Late) /\ Items \cap Late = {}
ASSUME TokensAssumption == Tokens \in [Items \cup Late -> Nat]
ASSUME BudgetAssumption ==
    Budget \in Nat /\ TopK \in Nat /\ Queries \in Nat /\ RecencyN \in Nat

VARIABLES
    flagged,    \* mandatory: items with an identifying signal
    pending,    \* ids not considered yet
    used,       \* tokens used
    evidence    \* selected

retrievalVars == <<flagged, pending, used, evidence>>

RetrievalInit ==
    /\ flagged = {}
    /\ pending = {}
    /\ used = 0
    /\ evidence = {}

Least(a, b) == IF a <= b THEN a ELSE b

\* What the searches return together: the most recent, and up to TopK of each query.  (The
\* index is searched before it is filtered by the profile, and may find fewer.)
Hits ==
    {h \in SUBSET (Items \cup Late):
        /\ Cardinality(h) >= Least(RecencyN, Cardinality(Items))
        /\ Cardinality(h) <= Queries * TopK + RecencyN}

Find ==
    /\ flagged' \in SUBSET Items
    /\ \E hits \in Hits: pending' = flagged' \cup hits
    /\ UNCHANGED <<used, evidence>>

\* Mutant: relevance goes before the flags.
NextIdAny(i) == i \in pending

\* Flagged items come first; the others in an order the searches give.
NextId(i) == i \in pending /\ (i \in flagged \/ pending \cap flagged = {})

\* An id without a text is skipped.  Flagged items do not ask for the budget.
Consider(i) ==
    LET selected == i \in Items /\ (i \in flagged \/ used + Tokens[i] <= Budget) IN
    /\ NextId(i)
    /\ pending' = pending \ {i}
    /\ used' = IF selected THEN used + Tokens[i] ELSE used
    /\ evidence' = IF selected THEN evidence \cup {i} ELSE evidence
    /\ UNCHANGED flagged

-----------------------------------------------------------------------------
(* Properties *)

\* Everything shown was read with its text, and "always-include items are never ranked
\* out": what was flagged and considered is shown.  Only flagged items exceed the budget:
\* if anything else is shown, all that is shown fits.
SelectionKept ==
    /\ flagged \ pending \subseteq evidence
    /\ evidence \subseteq Items
    /\ used = MapThenSumSet(LAMBDA i: Tokens[i], evidence)
    /\ evidence \ flagged # {} => used <= Budget
=============================================================================
