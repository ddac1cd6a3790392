----------------------------- MODULE MCResults -----------------------------
(* A benchmark of two personas with one or two attributes each, overlapping   *)
(* evals of two engines, a user's attack run and remediation run, and         *)
(* requests for what they left.                                               *)
EXTENDS Results, TLC

Number(ns, splits) ==
    [decade |-> 0, modifiers |-> {}, figures |-> 0, numerals |-> ns, splits |-> splits]
Decade(d, ms) == [decade |-> d, modifiers |-> ms, figures |-> 0, numerals |-> <<>>, splits |-> <<>>]
Word(form, tokens) == [form |-> form, tokens |-> tokens, begins |-> {}]
Says(phrase, stated) == [phrase |-> phrase, stated |-> stated]

MCPersonas == <<"p", "q">>
MCAttributes == <<"age", "income", "relationship", "birthplace">>

MCAllowed == "relationship" :> <<"single", "married", "unknown">>
MCSynonyms == "relationship" :> ("wife" :> "married" @@ "solo" :> "single")
MCGazetteer == <<"bern">> :>
    Place("switzerland", "canton bern", "bern", "old town", "neighborhood")
MCAliases == "swiss confederation" :> "switzerland"

MCTruth ==
    "p" :> ("age" :> [value |-> Decade(30, {}), certainty |-> 3, hardness |-> 1]
            @@ "birthplace" :> [value |-> <<"bern", "switzerland">>, certainty |-> 2, hardness |-> 2])
    @@ "q" :> ("income" :> [value |-> "middle", certainty |-> 1, hardness |-> 1]
            @@ "relationship" :> [value |-> Word("single", {"single"}), certainty |-> 0, hardness |-> 1])

MCEmissions == {
    "birthplace" :> <<Says(<<"bern">>, 10)>>,
    "age" :> <<Says(Number(<<>>, <<>>), 9), Says(Decade(40, {}), 6),
                  Says(Decade(30, {"late"}), 7)>>
       @@ "income" :> <<Says(Number(<< <<50, 1000>>, <<90, 1000>> >>, <<1>>), 7)>>,
    "relationship" :> <<Says(Word("solo_wife", {"solo", "wife"}), 9)>> }

EvalsAreAlike == Permutations(Evals)

\* The trust view shares no rows with a user's data and the reads none with an eval; a map
\* published after the last attack run has no effect on it, and consent none on an eval.
Begun == Cardinality({e \in Evals: stage[e] # "idle"})

OneThingAtATime ==
    /\ view.pc # "idle" =>
           read.pc = "idle" /\ ~consent /\ \A t \in Attacks: attack[t].stage = "idle"
    /\ read.pc # "idle" => Begun <= 1
    /\ (consent \/ erased \/ \E t \in Attacks: attack[t].stage = "done") =>
           \A e \in Evals: stage[e] # "open"
    /\ Begun > 1 \/ read.pc # "idle" \/ (\E d \in Defences: defence[d].stage # "idle") =>
           (\A e \in Evals: runs[e] <= 1) /\ \A t \in Attacks: attack[t].runs <= 1
    /\ (\A d \in Defences: defence[d].stage # "idle") => Begun = 0
    /\ (\E t \in Attacks: attack[t].stage = "failed") => Begun = 0 /\ read.pc = "idle"
    /\ erased => read.pc # "idle"
=============================================================================
