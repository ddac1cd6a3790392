------------------------------- MODULE Attack -------------------------------
(***************************************************************************)
(* execute_attack_run after its claim (src/app/services/inference.py):     *)
(* select the evidence, ask the ensemble, form the consensus, persist it.  *)
(* One attribute is followed; the code handles each by itself.             *)
(***************************************************************************)
EXTENDS Retrieval, Consensus

CONSTANTS
    Fabricated, \* a reference to no item
    Calibrated  \* the <<n_runs, bucket>> the calibration map has

ASSUME FabricatedAssumption == Fabricated \notin Items \cup Late

VARIABLES
    stage,      \* "search", "select", "infer", "done", "failed"
    allowed,    \* allow_special_category
    rows        \* the candidates persisted: [candidate, reliability, refs]

vars == <<retrievalVars, consensusVars, stage, allowed, rows>>

Init ==
    /\ RetrievalInit
    /\ ConsensusInit
    /\ stage = "search"
    /\ allowed \in BOOLEAN
    /\ rows = <<>>

Search ==
    /\ stage = "search"
    /\ Find
    /\ stage' = "select"
    /\ UNCHANGED <<consensusVars, allowed, rows>>

Select ==
    /\ stage = "select"
    /\ \E i \in Items \cup Late: Consider(i)
    /\ UNCHANGED <<consensusVars, stage, allowed, rows>>

\* The items are shown to the model.
Prompt ==
    /\ stage = "select" /\ pending = {}
    /\ stage' = "infer"
    /\ UNCHANGED <<retrievalVars, consensusVars, allowed, rows>>

\* Art. 9 attributes are left out without the special consent.
Gated == attribute = "birthplace" /\ ~allowed

Infer ==
    /\ stage = "infer"
    /\ Len(answers) = n => ~Gated
    /\ Ensemble
    /\ UNCHANGED <<retrievalVars, stage, allowed, rows>>

LeaveOut ==
    /\ stage = "infer"
    /\ Len(answers) = n /\ Gated
    /\ stage' = "done"
    /\ UNCHANGED <<retrievalVars, consensusVars, allowed, rows>>

\* bucket_edge, in tenths.
Bucket(raw) == Min({raw, 9})

\* _calibrated_reliability: a miss shows none.
Reliability(raw) == IF <<n, Bucket(raw)>> \in Calibrated THEN Bucket(raw) ELSE "none"

\* persist_attribute_guess: what the model cited and was not shown is dropped.
Persist ==
    /\ stage = "infer" /\ phase = "done"
    /\ \E cited \in SUBSET (Items \cup Late \cup {Fabricated}):
           rows' = [k \in DOMAIN consensus |->
                       [candidate |-> consensus[k],
                        reliability |-> Reliability(consensus[k].raw),
                        refs |-> cited \cap evidence]]
    /\ stage' = "done"
    /\ UNCHANGED <<retrievalVars, consensusVars, allowed>>

\* The model, the geocoder or a statement raises: everything is rolled back.
Fail ==
    /\ stage \notin {"done", "failed"}
    /\ stage' = "failed"
    /\ UNCHANGED <<retrievalVars, consensusVars, allowed, rows>>

Next == Search \/ Select \/ Prompt \/ Infer \/ LeaveOut \/ Persist \/ Fail

Spec == Init /\ [][Next]_vars
=============================================================================
