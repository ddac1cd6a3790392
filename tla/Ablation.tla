------------------------------ MODULE Ablation ------------------------------
(***************************************************************************)
(* find_minimal_set and _prune (src/app/services/ablation.py): which items *)
(* of a profile cause the leak.  Items are removed greedily until the      *)
(* adversary no longer recovers the value; then each is put back once to   *)
(* see whether it was needed.                                              *)
(*                                                                         *)
(* The adversary is any function of the items it is shown: a probe is one  *)
(* run at temperature 0 (resolve_ensemble).  What it answers is settled    *)
(* when it is first asked.                                                 *)
(***************************************************************************)
EXTENDS Integers, Sequences, FiniteSets, FiniteSetsExt, Functions, SequencesExt

CONSTANTS
    Items,      \* item ids, in the order of sorted()
    Caps,       \* values of max_probes
    MaxConf,    \* confidences are 0..MaxConf
    NoItem      \* best_id is None

ASSUME ItemsAssumption == Items \subseteq Int /\ IsFiniteSet(Items) /\ Items # {}
ASSUME CapsAssumption == Caps \subseteq Nat \ {0}
ASSUME ConfAssumption == MaxConf \in Nat
ASSUME NoItemAssumption == NoItem \notin Int

VARIABLES
    known,      \* the adversary, as far as it was asked: shown items -> answer
    maxProbes,  \* max_probes, the cost ceiling
    at,         \* "baseline", "round", "prune", "found"; "returned" for its caller
    probes,     \* adversary passes so far
    present,    \* items not removed yet
    removed,    \* removed items, in order
    confidence, \* the adversary's confidence on present
    todo,       \* items this round has still to try, or that are still to be pruned
    bestId,     \* the best removal of this round
    minimal,    \* the minimal set
    effect,     \* marginal_effect
    sufficient  \* whether recovery was broken

searchVars == <<known, maxProbes, at, probes, present, removed, confidence, todo, bestId,
                minimal, effect, sufficient>>

Answers == [recovered: BOOLEAN, conf: 0..MaxConf]

NoEffect == [i \in Items |-> 0]

SearchInit ==
    /\ known = <<>>
    /\ maxProbes \in Caps
    /\ at = "baseline"
    /\ probes = 0
    /\ present = Items
    /\ removed = <<>>
    /\ confidence = 0
    /\ todo = {}
    /\ bestId = NoItem
    /\ minimal = {}
    /\ effect = NoEffect
    /\ sufficient = FALSE

\* One adversary pass over the items shown.
Probe(shown, a) ==
    /\ shown \in DOMAIN known => a = known[shown]
    /\ known' = [s \in DOMAIN known \cup {shown} |-> IF s = shown THEN a ELSE known[s]]
    /\ probes' = probes + 1

Found(set, ok) ==
    /\ at' = "found"
    /\ minimal' = set
    /\ sufficient' = ok

\* An adversary that does not recover the value from everything gives nothing to
\* attribute.
Baseline(a) ==
    /\ at = "baseline"
    /\ Probe(Items, a)
    /\ \/ ~a.recovered /\ Found({}, TRUE) /\ UNCHANGED <<confidence, todo>>
       \/ /\ a.recovered
          /\ at' = "round"
          /\ confidence' = a.conf
          /\ todo' = Items
          /\ UNCHANGED <<minimal, sufficient>>
    /\ UNCHANGED <<maxProbes, present, removed, bestId, effect>>

\* _better_removal.
Better(a, b) ==
    \/ ~a.recovered /\ b.recovered
    \/ a.recovered = b.recovered /\ a.conf < b.conf

\* Mutant: the cap is looked at between rounds only.
TryUncapped(a) ==
    /\ at = "round"
    /\ todo # {}
    /\ LET i == Min(todo) IN
           /\ Probe(present \ {i}, a)
           /\ bestId' = IF bestId = NoItem THEN i
                        ELSE IF Better(a, known[present \ {bestId}]) THEN i ELSE bestId
           /\ todo' = todo \ {i}
    /\ UNCHANGED <<maxProbes, at, present, removed, confidence, minimal, effect, sufficient>>

\* One candidate of a round, in sorted order.
Try(a) ==
    /\ at = "round"
    /\ todo # {}
    /\ probes < maxProbes
    /\ LET i == Min(todo) IN
           /\ Probe(present \ {i}, a)
           /\ bestId' = IF bestId = NoItem THEN i
                        ELSE IF Better(a, known[present \ {bestId}]) THEN i ELSE bestId
           /\ todo' = todo \ {i}
    /\ UNCHANGED <<maxProbes, at, present, removed, confidence, minimal, effect, sufficient>>

\* Recovery was not broken: there is no target to report.
GiveUp == Found({}, FALSE) /\ effect' = NoEffect

\* Mutant: a removal that does not lower the confidence ends the search.
SearchOnDrop(best) ==
    best.recovered /\ best.conf < confidence /\ present' # {} /\ probes < maxProbes

\* The loop's condition, after the round's best removal.
SearchOn(best) == best.recovered /\ present' # {} /\ probes < maxProbes

\* The round's best item is removed: search on, give up, or prune.
TakeBest ==
    LET best == known[present \ {bestId}]
        drop == confidence - best.conf
    IN  /\ at = "round"
        /\ bestId # NoItem
        /\ todo = {} \/ probes >= maxProbes
        /\ removed' = Append(removed, bestId)
        /\ present' = present \ {bestId}
        /\ confidence' = best.conf
        /\ bestId' = NoItem
        /\ \/ /\ SearchOn(best)
              /\ effect' = [effect EXCEPT ![bestId] = Max({0, drop})]
              /\ todo' = present'
              /\ UNCHANGED <<at, minimal, sufficient>>
           \/ /\ ~SearchOn(best) /\ best.recovered
              /\ GiveUp
              /\ todo' = {}
           \/ /\ ~best.recovered
              /\ effect' = [effect EXCEPT ![bestId] = Max({0, drop})]
              /\ at' = "prune"
              /\ todo' = Range(removed')
              /\ minimal' = Range(removed')
              /\ UNCHANGED sufficient
        /\ UNCHANGED <<known, maxProbes, probes>>

\* No probe is left for a round's first candidate.
NoProbeLeft ==
    /\ at = "round"
    /\ bestId = NoItem
    /\ probes >= maxProbes
    /\ GiveUp
    /\ UNCHANGED <<known, maxProbes, probes, present, removed, confidence, todo, bestId>>

\* The members of the set as the code lists them, in the order of their removal.
MinimalList ==
    LET kept == {p \in DOMAIN removed: removed[p] \in minimal}
        Place(k) == CHOOSE p \in kept: Cardinality({q \in kept: q < p}) = k - 1
    IN  [k \in 1..Cardinality(kept) |-> removed[Place(k)]]

\* Mutant: leave-one-out, every item is judged alone.
ReaddedOthers(i) == Items \ {i}

\* Everything but the minimal set, with this one put back.
Readded(i) == Items \ (minimal \ {i})

\* Mutant: the effect of a pruned item is kept.
PrunedEffectKept(i) == effect

PrunedEffect(i) == [effect EXCEPT ![i] = 0]

\* _prune, one item in the order of removal: kept only if it is needed.
Prune(a) ==
    /\ at = "prune"
    /\ todo # {}
    /\ probes < maxProbes
    /\ LET i == SelectInSeq(removed, LAMBDA x: x \in todo)
           item == removed[i]
       IN  /\ Probe(Readded(item), a)
           /\ todo' = todo \ {item}
           /\ \/ a.recovered /\ UNCHANGED <<minimal, effect>>
              \/ /\ ~a.recovered
                 /\ minimal' = minimal \ {item}
                 /\ effect' = PrunedEffect(item)
    /\ UNCHANGED <<maxProbes, at, present, removed, confidence, bestId, sufficient>>

\* Mutant: at the cap only the items seen to be needed are kept.
PrunedFewer ==
    /\ at = "prune"
    /\ todo = {} \/ probes >= maxProbes
    /\ Found(minimal \ todo, TRUE)
    /\ UNCHANGED <<known, maxProbes, probes, present, removed, confidence, todo, bestId, effect>>

\* Everything was put back once, or the cap was hit: the rest of the set is kept.
Pruned ==
    /\ at = "prune"
    /\ todo = {} \/ probes >= maxProbes
    /\ Found(minimal, TRUE)
    /\ UNCHANGED <<known, maxProbes, probes, present, removed, confidence, todo, bestId, effect>>

Search ==
    \/ \E a \in Answers: Baseline(a) \/ Try(a) \/ Prune(a)
    \/ TakeBest \/ NoProbeLeft \/ Pruned

-----------------------------------------------------------------------------
(* Properties *)

\* No pass over the cost ceiling, not even in the middle of a round or of the pruning
\* (_DEFAULT_MAX_PROBES: "hard cost ceiling on adversary passes").
CapKept == probes <= maxProbes

\* A set is reported only if the adversary was shown exactly the rest, and failed: the
\* user is never told to edit posts whose removal was not seen to help.
RemovalWasSeenToWork ==
    at = "found" /\ minimal # {} =>
        /\ sufficient
        /\ Items \ minimal \in DOMAIN known
        /\ ~known[Items \ minimal].recovered

\* AblationResult: "marginal_effect is non-zero only for the minimal-set members".
EffectOnlyOnMembers ==
    at = "found" => \A i \in Items: effect[i] > 0 => i \in minimal

\* _prune, "subset-minimality", unless the cap was hit: for any member, the adversary was
\* seen to recover the value from it and items outside the set only.  One that never
\* loses by seeing more recovers it whenever the member is put back.
EveryMemberIsNeeded ==
    at = "found" /\ probes < maxProbes =>
        \A i \in minimal: \E s \in DOMAIN known:
            known[s].recovered /\ s \subseteq (Items \ minimal) \cup {i}

\* "Couldn't localize a cause" is said only if the adversary recovers the value from
\* nothing at all, or the probes were used up.
GivingUpIsHonest ==
    at = "found" /\ ~sufficient =>
        probes >= maxProbes \/ ({} \in DOMAIN known /\ known[{}].recovered)
=============================================================================
