---------------------------- MODULE Remediation ----------------------------
(***************************************************************************)
(* plan_frontier and what execute_remediation_run persists of it           *)
(* (src/app/services/remediation.py).  The search of Ablation comes first. *)
(* If it found a set of items, up to four options are made from it and     *)
(* each is proved by attacking the original and the edited items N times:  *)
(* two rewrites of different strength, the removal, and a decoy.           *)
(*                                                                         *)
(* The proof's attacks are stochastic, so a sample is any answer, and the  *)
(* models that edit answer any of a few edits.  An option is kept in full  *)
(* while it is the last one; of earlier ones only what the reader is told. *)
(***************************************************************************)
EXTENDS Ablation

CONSTANTS
    Hops,       \* hops of anonymize_item
    N,          \* n_samples
    Floor,      \* floor_margin
    Edits       \* what the anonymizer may answer: [op, text]

ASSUME HopsAssumption == Hops \in Nat \ {0}
ASSUME SamplesAssumption == N \in Nat \ {0}
ASSUME FloorAssumption == Floor \in Nat
ASSUME EditsAssumption ==
    \A e \in Edits: e.op \in {"generalize", "remove_span", "remove_item"}

VARIABLES
    stage,      \* "search", "before", an option's key, "persist", "done", "failed"
    decoy,      \* whether the decoy was asked for and consented to
    targets,    \* ablation.minimal_set
    primary,    \* primary_id
    before,     \* the samples of the original
    edits,      \* the edits of this option so far, one for each target
    hop,        \* hops done on the last of them, 0 when it is finished
    outcome,    \* the option just proved, if any
    keys,       \* the keys of the options proved so far
    proven,     \* whether one of them is a proven win
    saved       \* the keys of the rows persisted

frontierVars == <<stage, decoy, targets, primary, before, edits, hop, outcome,
                  keys, proven, saved>>
vars == <<searchVars, frontierVars>>

NoOutcome == [key |-> "none"]

Init ==
    /\ SearchInit
    /\ stage = "search"
    /\ decoy \in BOOLEAN
    /\ targets = <<>> /\ primary = NoItem
    /\ before = <<>>
    /\ edits = <<>> /\ hop = 0
    /\ outcome = NoOutcome
    /\ keys = {} /\ proven = FALSE /\ saved = {}

FindMinimalSet ==
    /\ stage = "search"
    /\ Search
    /\ UNCHANGED frontierVars

\* The load-bearing item: the first of those with the greatest effect.
Primary(list) ==
    list[Min({k \in DOMAIN list: \A j \in DOMAIN list: effect[list[j]] <= effect[list[k]]})]

\* The search returned.  Without a cause there are no options.
Localize ==
    /\ stage = "search" /\ at = "found"
    /\ IF sufficient /\ minimal # {}
       THEN targets' = MinimalList /\ primary' = Primary(targets') /\ stage' = "before"
       ELSE stage' = "done" /\ UNCHANGED <<targets, primary>>
    /\ known' = <<>> /\ probes' = 0 /\ effect' = NoEffect      \* its locals are gone
    /\ present' = Items /\ removed' = <<>> /\ confidence' = 0 /\ todo' = {}
    /\ minimal' = {} /\ at' = "returned" /\ maxProbes' = (CHOOSE c \in Caps: TRUE)
    /\ UNCHANGED <<bestId, sufficient, decoy, before, edits, hop, outcome,
                   keys, proven, saved>>

\* _sample_endpoint: N attacks.
Samples == [1..N -> Answers]

Recoveries(samples) == Cardinality({n \in 1..N: samples[n].recovered})

\* Mutant: a tie counts as not recovered.
MajorityStrict(samples) == Recoveries(samples) * 2 > N

\* majority_recovered.
MajorityRecovered(samples) == Recoveries(samples) * 2 >= N

\* The original is attacked once for all options.
SampleBefore ==
    /\ stage = "before"
    /\ before' \in Samples
    /\ stage' = "minimal"
    /\ UNCHANGED <<searchVars, decoy, targets, primary, edits, hop, outcome, keys, proven, saved>>

\* One hop of anonymize_item: an edit, and whether the feedback adversary still
\* recovers the value from it.
Hop(e, recovered) ==
    /\ stage \in {"minimal", "stronger"}
    /\ hop > 0 \/ Len(edits) < Len(targets)
    /\ edits' = IF hop = 0 THEN Append(edits, e) ELSE [edits EXCEPT ![Len(edits)] = e]
    /\ hop' = IF recovered /\ hop + 1 < Hops THEN hop + 1 ELSE 0
    /\ outcome' = NoOutcome
    /\ UNCHANGED <<searchVars, stage, decoy, targets, primary, before, keys, proven, saved>>

\* Mutant: the proof edits the load-bearing item only.
AppliedPrimary(changes) ==
    [i \in Items |-> IF \E k \in DOMAIN changes: changes[k].item = i /\ i = primary
                     THEN changes[CHOOSE k \in DOMAIN changes: changes[k].item = i].text
                     ELSE "original"]

\* _apply_edits.
Applied(changes) ==
    [i \in Items |-> IF \E k \in DOMAIN changes: changes[k].item = i
                     THEN changes[CHOOSE k \in DOMAIN changes: changes[k].item = i].text
                     ELSE "original"]

\* span_change: a removed item has no replacement.
SpanChange(c) ==
    [item |-> c.item, op |-> c.op,
     replacement |-> IF c.op = "remove_item" THEN "none" ELSE c.text]

\* classify_action.
Action(changes) ==
    IF \A k \in DOMAIN changes: changes[k].op = "remove_item" THEN "remove" ELSE "rewrite"

Drop(after, n) == before[n].conf - after[n].conf

\* assess_remediation: the lower end of the bootstrap interval of the paired drops
\* exceeds the floor.  A mean of drops lies between the least and the greatest.
Significant(after) ==
    {s \in BOOLEAN: /\ (\A n \in 1..N: Drop(after, n) > Floor) => s
                    /\ s => \E n \in 1..N: Drop(after, n) > Floor}

\* _flips: the option is a proven win.
Flips(o) == o.significant /\ MajorityRecovered(before) /\ ~o.recovered

\* Mutant: options that fail are left out.
ListedWins(o) == IF Flips(o) THEN keys \cup {o.key} ELSE keys

\* Every option is returned, also one that does not break the recovery.
Listed(o) == keys \cup {o.key}

\* _prove, and the option's row.
Prove(key, action, changes, text) ==
    \E after \in Samples: \E significant \in Significant(after):
        /\ outcome' = [key |-> key, action |-> action, text |-> text,
                       changes |-> [k \in DOMAIN changes |-> SpanChange(changes[k])],
                       proved |-> Applied(changes),
                       after |-> after,
                       significant |-> significant,
                       recovered |-> MajorityRecovered(after)]
        /\ keys' = Listed(outcome')
        /\ proven' = (proven \/ Flips(outcome'))

\* _rewrite_outcome, after the last hop of the last item.
Rewrite ==
    LET changes == [k \in DOMAIN edits |->
                        [item |-> targets[k], op |-> edits[k].op, text |-> edits[k].text]]
        main == changes[CHOOSE k \in DOMAIN targets: targets[k] = primary]
    IN  /\ stage \in {"minimal", "stronger"}
        /\ hop = 0 /\ Len(edits) = Len(targets)
        /\ Prove(stage, Action(changes), changes, SpanChange(main).replacement)
        /\ edits' = <<>>
        /\ stage' = IF stage = "minimal" THEN "stronger" ELSE "remove"
        /\ UNCHANGED <<searchVars, decoy, targets, primary, before, hop, saved>>

\* _remove_outcome.
RemoveItems ==
    /\ stage = "remove"
    /\ Prove("remove", "remove",
             [k \in DOMAIN targets |-> [item |-> targets[k], op |-> "remove_item", text |-> ""]],
             "none")
    /\ stage' = IF decoy THEN "decoy" ELSE "persist"
    /\ UNCHANGED <<searchVars, decoy, targets, primary, before, edits, hop, saved>>

\* _decoy_outcome: a false cue in the load-bearing item.
Decoy ==
    /\ stage = "decoy"
    /\ Prove("decoy", "decoy", <<[item |-> primary, op |-> "generalize", text |-> "false"]>>,
             "false")
    /\ stage' = "persist"
    /\ UNCHANGED <<searchVars, decoy, targets, primary, before, edits, hop, saved>>

\* One row per option, committed together with the run's success.
Persist ==
    /\ stage = "persist"
    /\ saved' = keys
    /\ stage' = "done"
    /\ outcome' = NoOutcome
    /\ UNCHANGED <<searchVars, decoy, targets, primary, before, edits, hop, keys, proven>>

\* A model call or a statement raises: the transaction is rolled back.
Fail ==
    /\ stage \notin {"done", "failed"}
    /\ stage' = "failed"
    /\ outcome' = NoOutcome
    /\ UNCHANGED <<searchVars, decoy, targets, primary, before, edits, hop, keys, proven, saved>>

Next ==
    \/ FindMinimalSet \/ Localize \/ SampleBefore
    \/ \E e \in Edits, recovered \in BOOLEAN: Hop(e, recovered)
    \/ Rewrite \/ RemoveItems \/ Decoy \/ Persist \/ Fail

Spec == Init /\ [][Next]_vars

-----------------------------------------------------------------------------
(* Properties *)

\* What the user is shown for an item, and the text of the option, is what the adversary
\* was attacked with, and every item the user is not told to touch was attacked as it is.
\* A removal is shown without a text whatever text the model returned with it.
ShownIsProved ==
    outcome # NoOutcome =>
        /\ \A k \in DOMAIN outcome.changes: LET c == outcome.changes[k] IN
               c.op = "remove_item" \/ c.replacement = outcome.proved[c.item]
        /\ \A i \in Items: outcome.proved[i] # "original" =>
               \E k \in DOMAIN outcome.changes: outcome.changes[k].item = i
        /\ outcome.text \in {"none", outcome.proved[primary]}

\* Status `proven` rests on an option after which fewer than half of the attacks recover
\* the value, where at least half did before, and a drop above the noise floor was seen.
ProvenIsHonest ==
    [][proven' /\ ~proven =>
          /\ 2 * Recoveries(before) >= N
          /\ 2 * Recoveries(outcome'.after) < N
          /\ \E n \in 1..N: Drop(outcome'.after, n) > Floor]_vars

\* A finished run has no rows, if no cause was found, or the whole frontier: both rewrites and the removal,
\* whether they work or not, and a decoy only beside them and only on request.
FrontierIsWhole ==
    /\ stage # "done" => saved = {}
    /\ stage = "done" =>
           saved = IF before = <<>> THEN {}
                   ELSE {"minimal", "stronger", "remove"} \cup (IF decoy THEN {"decoy"} ELSE {})
=============================================================================
