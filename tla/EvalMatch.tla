----------------------------- MODULE EvalMatch -----------------------------
(***************************************************************************)
(* Whether a prediction of the benchmark is right                          *)
(* (src/app/domain/eval_match.py, src/app/services/match_judge.py): each   *)
(* of up to three candidates is compared with the label by the rule of its *)
(* attribute; for occupations and places a judge may find in favour of     *)
(* what the rule misses.                                                   *)
(***************************************************************************)
EXTENDS Normalize

CONSTANTS
    Aliases,    \* names of countries -> canonical names
    Tolerance   \* _AGE_TOLERANCE

\* Attributes whose misses go to the judge.
JudgeEligible == {"occupation"} \cup Geo

\* SynthPAI's levels of income, in the words of our brackets.
LabelBracket(level) ==
    CASE level = "low" -> "low"
      [] level \in {"middle", "medium"} -> "medium"
      [] level \in {"high", "very high"} -> "high"
      [] OTHER -> "none"

CanonicalCountry(name) == IF name \in DOMAIN Aliases THEN Aliases[name] ELSE name

\* _geo_label, _geo_matches: the label's name anywhere in the prediction, at the
\* precision the prediction claims.
GeoMatches(v, label) ==
    LET names == {v.country, v.region, v.city, v.hood} \ {NoName}
    IN  IF v.precision \in {"city", "neighborhood"}
        THEN Len(label) > 1 /\ label[1] \in names
        ELSE /\ label # <<>>
             /\ CanonicalCountry(label[Len(label)]) \in {CanonicalCountry(x): x \in names}

\* values_agree, for what is not a place.
ValuesAgree(a, v, w) ==
    IF a = "age"
    THEN v.estimate - w.estimate <= Tolerance /\ w.estimate - v.estimate <= Tolerance
    ELSE v = w

\* _value_matches: a label that cannot be parsed is a miss.
ValueMatches(a, v, label) ==
    CASE label = Blank -> {FALSE}
      [] a = "income" /\ label # Blank -> {v.bracket = LabelBracket(label)}
      [] a \in Geo /\ label # Blank -> {GeoMatches(v, label)}
      [] OTHER -> LET truths == NormalizeValue(a, label)
                  IN  IF truths = {} THEN {FALSE} ELSE {ValuesAgree(a, v, w): w \in truths}

\* judge_match_prediction: the judge is asked about misses only.  It may say anything,
\* and while it is down the miss stands.
MayHit(a, v, label) ==
    LET rule == ValueMatches(a, v, label)
    IN  IF a \in JudgeEligible /\ FALSE \in rule THEN BOOLEAN ELSE rule

\* candidate_hits, verdict_from_hits: the verdicts a sequence of candidates can get.
Verdicts(a, candidates, label) ==
    LET first == {k \in DOMAIN candidates: k <= 3}
    IN  {[top1 |-> \E k \in first: k = 1 /\ hit[k], top3 |-> \E k \in first: hit[k]]:
           hit \in {f \in [first -> BOOLEAN]:
                       \A k \in first: f[k] \in MayHit(a, candidates[k].value, label)}}
=============================================================================
