------------------------------ MODULE Results ------------------------------
(***************************************************************************)
(* What a user reads of the finished runs, while runs go on                *)
(* (src/app/api/v1/inferences.py, remediations.py, their assembly, and     *)
(* repositories/inferences.py, remediations.py): attack runs persist their *)
(* guesses with the reliability the calibration map gives them, and        *)
(* remediation runs their options; a request reads them in one or several  *)
(* statements, each with a snapshot of its own (READ COMMITTED), while the *)
(* consent to art. 9 data comes and goes and the user may be erased.       *)
(*                                                                         *)
(* How runs get to persist is in RunLifecycle, Attack and Remediation.     *)
(***************************************************************************)
EXTENDS Evaluation

CONSTANTS
    Attributes, \* sequence of the attributes, in the order a pass states them
    Attacks,    \* attack runs of the user
    Defences    \* remediation runs of the user

ASSUME DefencesAssumption == IsFiniteSet(Defences)

VARIABLES
    attack,     \* attack[t]: [stage, began, engine, runs, guess, found]
    defence,    \* defence[d]: [stage, began, about]
    inferences, \* committed: [run, attribute, began, candidates]
    options,    \* committed rows of remediations: [run, began, about, key, win]
    consent,    \* an active consent to art9_inference
    erased,     \* the user is erased
    read        \* a request of the user

runVars == <<attack, defence, inferences, options>>
vars == <<benchVars, runVars, consent, erased, read>>

Art9 == {"birthplace"}
Keys == {"minimal", "remove"}

Id(i) == <<i.run, i.attribute>>

Init ==
    /\ EvalInit
    /\ attack = [t \in Attacks |-> [stage |-> "idle", began |-> 0, engine |-> "none", runs |-> 0,
                                    guess |-> <<>>, found |-> <<>>]]
    /\ defence = [d \in Defences |-> [stage |-> "idle", began |-> 0, about |-> <<>>]]
    /\ inferences = {}
    /\ options = {}
    /\ consent \in BOOLEAN
    /\ erased = FALSE
    /\ read = [pc |-> "idle", kind |-> "none", about |-> <<>>, seen |-> FALSE,
               permitted |-> FALSE, torn |-> FALSE, queue |-> <<>>, rows |-> {}, ids |-> {},
               answer |-> <<>>, looks |-> {}]

-----------------------------------------------------------------------------
(* Attack runs *)

\* The execution begins, and the ensemble has answered; art. 9 attributes only with
\* consent.
AttackBegins(t) ==
    /\ attack[t].stage = "idle" /\ ~erased
    /\ \E v \in Versions: \E n \in Ensembles: \E g \in Inferred[n]:
           attack' = [attack EXCEPT ![t] =
               [stage |-> "open",
                began |-> 1 + Cardinality({s \in Attacks: attack[s].stage # "idle"}),
                engine |-> v, runs |-> n,
                guess |-> [a \in {b \in DOMAIN g: b \in Art9 => consent} |-> g[a]],
                found |-> [a \in {b \in DOMAIN g: b \in Art9 => consent} |-> <<>>]]]
    /\ UNCHANGED <<benchVars, defence, inferences, options, consent, erased, read>>

\* Mutant: any ensemble's map.
LookupAnyRuns(v, a, n, bucket) ==
    {[hits |-> c.hits, of |-> c.of]:
       c \in {d \in curve: d.engine = v /\ d.attribute = a /\ d.bucket = bucket}}

\* get_calibrated_reliability: none if the map has no such bucket.
Lookup(v, a, n, bucket) ==
    {[hits |-> c.hits, of |-> c.of]:
       c \in {d \in curve: d.engine = v /\ d.attribute = a /\ d.n = n /\ d.bucket = bucket}}

\* Mutant: the confidence is divided by the width and cut, and 0.3 / 0.1 is below three.
CalibratedCut(t, a, c) ==
    Lookup(attack[t].engine, a, attack[t].runs,
           IF c.raw \in {3, 6, 7} THEN c.raw - 1 ELSE Bucket(c.raw))

\* _calibrated_reliability: what the map says of the bucket now.
Calibrated(t, a, c) == Lookup(attack[t].engine, a, attack[t].runs, Bucket(c.raw))

Unfinished(t) ==
    {k \in DOMAIN Attributes:
        LET a == Attributes[k] IN
        a \in DOMAIN attack[t].guess /\ Len(attack[t].found[a]) < Len(attack[t].guess[a])}

\* persist_attribute_guess: the next candidate, with its reliability.
PersistCandidate(t) ==
    /\ attack[t].stage = "open" /\ Unfinished(t) # {}
    /\ LET a == Attributes[Min(Unfinished(t))]
           c == attack[t].guess[a][Len(attack[t].found[a]) + 1]
       IN  attack' = [attack EXCEPT ![t].found[a] = Append(@,
               [rank |-> c.rank, value |-> c.value, raw |-> c.raw,
                reliability |-> Calibrated(t, a, c)])]
    /\ UNCHANGED <<benchVars, defence, inferences, options, consent, erased, read>>

\* The inferences an execution leaves; created_at is its start.
Rows(t) ==
    {[run |-> t, attribute |-> a, began |-> attack[t].began, engine |-> attack[t].engine,
      runs |-> attack[t].runs, candidates |-> attack[t].found[a]]: a \in DOMAIN attack[t].guess}

\* Mutant: the work is committed as it goes.
AttackEndsEarly(t) ==
    /\ attack[t].stage = "open"
    /\ attack' = [attack EXCEPT ![t].stage = IF Unfinished(t) = {} THEN "done" ELSE "open"]
    /\ inferences' = {i \in inferences: i.run # t} \cup Rows(t)
    /\ UNCHANGED <<benchVars, defence, options, consent, erased, read>>

AttackEnds(t) ==
    /\ attack[t].stage = "open" /\ Unfinished(t) = {}
    /\ attack' = [attack EXCEPT ![t].stage = "done", ![t].guess = <<>>, ![t].found = <<>>]
    /\ inferences' = inferences \cup Rows(t)
    /\ UNCHANGED <<benchVars, defence, options, consent, erased, read>>

\* Rolled back.
AttackFails(t) ==
    /\ attack[t].stage = "open"
    /\ attack' = [attack EXCEPT ![t].stage = "failed", ![t].guess = <<>>, ![t].found = <<>>]
    /\ UNCHANGED <<benchVars, defence, inferences, options, consent, erased, read>>

-----------------------------------------------------------------------------
(* Remediation runs *)

\* The value a defence is about: the candidate of rank one.
Top(i) == {i.candidates[k]: k \in {j \in DOMAIN i.candidates: i.candidates[j].rank = 1}}

DefenceBegins(d) ==
    /\ defence[d].stage = "idle" /\ ~erased
    /\ \E i \in inferences:
           /\ Top(i) # {}
           /\ defence' = [defence EXCEPT ![d] =
                  [stage |-> "open", about |-> Id(i),
                   began |-> 1 + Cardinality({s \in Defences: defence[s].stage # "idle"})]]
    /\ UNCHANGED <<benchVars, attack, inferences, options, consent, erased, read>>

\* The frontier is committed as a whole; it is empty if nothing was localized.
DefenceEnds(d) ==
    /\ defence[d].stage = "open"
    /\ \E keys \in SUBSET Keys: \E wins \in SUBSET keys:
           options' = options \cup
               {[run |-> d, began |-> defence[d].began, about |-> defence[d].about,
                 key |-> k, win |-> k \in wins]: k \in keys}
    /\ defence' = [defence EXCEPT ![d].stage = "done"]
    /\ UNCHANGED <<benchVars, attack, inferences, consent, erased, read>>

-----------------------------------------------------------------------------
(* Consent and erasure *)

Reading == read.pc \notin {"idle", "answered"}

ConsentChanges ==
    /\ ~erased
    /\ consent' = ~consent
    /\ read' = [read EXCEPT !.permitted = @ \/ (Reading /\ ~consent)]
    /\ UNCHANGED <<benchVars, runVars, erased>>

\* Accounts: the cascade takes everything, and waits for executions.
Erase ==
    /\ ~erased
    /\ \A t \in Attacks: attack[t].stage # "open"
    /\ \A d \in Defences: defence[d].stage # "open"
    /\ erased' = TRUE
    /\ consent' = FALSE
    /\ inferences' = {} /\ options' = {}
    /\ read' = [read EXCEPT !.torn = @ \/ Reading]
    /\ UNCHANGED <<benchVars, attack, defence>>

-----------------------------------------------------------------------------
(* What is shown *)

\* Mutant: a value is masked only where the attribute is a place.
MaskedPlaces(a, what, ok) == IF a \in Geo /\ a \notin Art9 /\ ~ok THEN {} ELSE {what}

\* An encrypted value is decrypted only under the consent.
Masked(a, what, ok) == IF a \in Art9 /\ ~ok THEN {} ELSE {what}

\* list_dashboard_inferences, _to_attribute_read: of each attribute the newest inference,
\* and of it the candidate of rank one.
CardsOf(infs, ok) ==
    {[attribute |-> i.attribute, run |-> i.run,
      value |-> UNION {Masked(i.attribute, c.value, ok): c \in Top(i)},
      reliability |-> UNION {c.reliability: c \in Top(i)}]:
       i \in {j \in infs: \A h \in infs: h.attribute = j.attribute => h.began <= j.began}}

\* reasoning_reveals_art9 has a default, and nothing sets it.
RevealsArt9(i) == FALSE

HeadShown(i, ok) == [attribute |-> i.attribute, reasoning |-> ~RevealsArt9(i) \/ ok]

CandidatesShown(i, ok) ==
    [k \in DOMAIN i.candidates |->
        [rank |-> i.candidates[k].rank, value |-> Masked(i.attribute, i.candidates[k].value, ok),
         reliability |-> i.candidates[k].reliability]]

\* The rationales of the evidence, by candidate.
RationalesShown(i, ok) == UNION {Masked(i.attribute, k, ok): k \in DOMAIN i.candidates}

With(id) == {i \in inferences: Id(i) = id}

DetailOf(id, ok) ==
    IF With(id) = {} THEN <<>>
    ELSE LET i == CHOOSE j \in inferences: Id(j) = id
         IN  <<HeadShown(i, ok), CandidatesShown(i, ok), RationalesShown(i, ok)>>

\* latest_remediation_run_ids: newest first.
RunsOf(id) ==
    LET ds == {o.run: o \in {p \in options: p.about = id}}
        Newer(d) == {e \in ds: defence[e].began > defence[d].began}
    IN  [k \in 1..Cardinality(ds) |-> CHOOSE d \in ds: Cardinality(Newer(d)) = k - 1]

OptionsOf(d) == {[key |-> o.key, win |-> o.win]: o \in {p \in options: p.run = d}}

\* _status.
Status(os) ==
    IF os = {} THEN "cant_break"
    ELSE IF \E o \in os: o.win THEN "proven" ELSE "within_noise"

\* assemble_remediation; the value of a target is shown as it is.
Frontier(os, target) == [status |-> Status(os), value |-> target.value, options |-> os]

\* The inference that the options of run d are about.
AboutOf(d) == {o.about: o \in {p \in options: p.run = d}}

\* The candidates of rank one.
TargetsOf(ids) == UNION {Top(i): i \in UNION {With(id): id \in ids}}

\* _assemble_run in one look: nothing if there are no options, or no target.
FrontierOf(d) == {Frontier(OptionsOf(d), c): c \in TargetsOf(AboutOf(d))}

\* list_remediations in one look: a frontier per run, or that the leak cannot be broken,
\* at the reliability it has.
ListOf(id) ==
    LET runsOf == RunsOf(id)
        targets == UNION {Top(i): i \in With(id)}
    IN  IF runsOf # <<>> THEN [k \in DOMAIN runsOf |-> FrontierOf(runsOf[k])]
        ELSE IF targets = {} THEN <<>>
        ELSE <<{Frontier({}, c): c \in targets}, UNION {c.reliability: c \in targets}>>

-----------------------------------------------------------------------------
(* Requests *)

\* Ids are random: a user knows them from an earlier answer.
Known == {Id(i): i \in inferences}

\* The whole answer to the request, in one look at the data as they are.
Look ==
    CASE read.kind = "cards" -> CardsOf(inferences, read.seen)
      [] read.kind = "detail" -> DetailOf(read.about, read.seen)
      [] read.kind = "list" -> ListOf(read.about)
      [] read.kind = "frontier" -> IF FrontierOf(read.about) = {} THEN <<>>
                                   ELSE <<FrontierOf(read.about)>>

\* A statement of the request leaves it as r; what it could have seen is remembered.
Statement(r) ==
    /\ read' = [r EXCEPT !.looks = @ \cup {Look}]
    /\ UNCHANGED <<benchVars, runVars, consent, erased>>

\* GET /v1/inferences, /v1/inferences/{id}, /v1/remediations?inference_id=,
\* /v1/remediations/{run}.
Ask ==
    /\ read.pc = "idle"
    /\ \/ read' = [read EXCEPT !.kind = "cards", !.pc = "consent", !.permitted = consent]
       \/ \E id \in Known:
              read' = [read EXCEPT !.kind = "detail", !.pc = "consent", !.permitted = consent,
                                   !.about = id]
       \/ \E id \in Known: read' = [read EXCEPT !.kind = "list", !.pc = "runs", !.about = id]
       \/ \E d \in Defences:
              read' = [read EXCEPT !.kind = "frontier", !.pc = "frontier", !.about = d,
                                   !.queue = <<d>>]
    /\ UNCHANGED <<benchVars, runVars, consent, erased>>

\* has_special_category_consent.
ReadConsent ==
    /\ read.pc = "consent"
    /\ read' = [read EXCEPT !.seen = consent, !.pc = read.kind]
    /\ UNCHANGED <<benchVars, runVars, consent, erased>>

ReadCards ==
    /\ read.pc = "cards"
    /\ Statement([read EXCEPT !.answer = CardsOf(inferences, read.seen), !.pc = "answered"])

\* get_inference_finding, its three statements; 404 if there is no such inference.
ReadHead ==
    /\ read.pc = "detail"
    /\ \/ With(read.about) = {} /\ Statement([read EXCEPT !.pc = "answered"])
       \/ \E i \in With(read.about):
              Statement([read EXCEPT !.answer = <<HeadShown(i, read.seen)>>, !.pc = "candidates"])

ReadCandidates ==
    /\ read.pc = "candidates"
    /\ \E shown \in (IF With(read.about) = {} THEN {<<>>}
                     ELSE {CandidatesShown(i, read.seen): i \in With(read.about)}):
           Statement([read EXCEPT !.answer = Append(@, shown), !.pc = "evidence"])

ReadEvidence ==
    /\ read.pc = "evidence"
    /\ Statement([read EXCEPT
           !.answer = Append(@, UNION {RationalesShown(i, read.seen): i \in With(read.about)}),
           !.pc = "answered"])

\* list_remediations: the runs with options.
ReadRuns ==
    /\ read.pc = "runs"
    /\ LET ds == RunsOf(read.about) IN
       Statement([read EXCEPT !.queue = ds, !.pc = IF ds = <<>> THEN "target" ELSE "frontier"])

\* _assemble_run: the options of the next run, the inference they are about, and the value
\* of that.  What is gone in between is left out.
ReadFrontier ==
    /\ read.pc = "frontier"
    /\ IF read.queue = <<>>
       THEN read' = [read EXCEPT !.pc = "answered"] /\ UNCHANGED <<benchVars, runVars, consent, erased>>
       ELSE LET os == OptionsOf(read.queue[1]) IN
            Statement(IF os = {} THEN [read EXCEPT !.queue = Tail(@)]
                      ELSE [read EXCEPT !.rows = os, !.pc = "about"])

\* get_run_inference_id.
ReadAbout ==
    /\ read.pc = "about"
    /\ Statement([read EXCEPT !.ids = AboutOf(read.queue[1]), !.pc = "value"])

\* get_inference_target.
ReadValue ==
    /\ read.pc = "value"
    /\ LET shown == {Frontier(read.rows, c): c \in TargetsOf(read.ids)} IN
       Statement([read EXCEPT !.answer = IF shown = {} THEN @ ELSE Append(@, shown),
                              !.queue = Tail(@), !.rows = {}, !.ids = {}, !.pc = "frontier"])

\* Without any: the target, then its reliability.
ReadTarget ==
    /\ read.pc = "target"
    /\ LET shown == {Frontier({}, c): c \in UNION {Top(i): i \in With(read.about)}} IN
       Statement([read EXCEPT !.answer = IF shown = {} THEN @ ELSE <<shown>>,
                              !.pc = IF shown = {} THEN "answered" ELSE "reliability"])

ReadReliability ==
    /\ read.pc = "reliability"
    /\ Statement([read EXCEPT
           !.answer = Append(@, UNION {c.reliability: c \in UNION {Top(i): i \in With(read.about)}}),
           !.pc = "answered"])

Request ==
    \/ Ask \/ ReadConsent \/ ReadCards \/ ReadHead \/ ReadCandidates \/ ReadEvidence
    \/ ReadRuns \/ ReadFrontier \/ ReadAbout \/ ReadValue \/ ReadTarget \/ ReadReliability

Next ==
    \/ EvalNext /\ UNCHANGED <<runVars, consent, erased, read>>
    \/ \E t \in Attacks: AttackBegins(t) \/ PersistCandidate(t) \/ AttackEnds(t) \/ AttackFails(t)
    \/ \E d \in Defences: DefenceBegins(d) \/ DefenceEnds(d)
    \/ ConsentChanges \/ Erase \/ Request

Spec == Init /\ [][Next]_vars

-----------------------------------------------------------------------------
(* Properties *)

\* Every reliability that is kept beside a candidate was measured by a published eval of
\* the same engine and number of runs: the share of right guesses among those about the
\* attribute with a confidence of the same tenth.
KeptWasMeasured ==
    \A i \in inferences: \A k \in DOMAIN i.candidates: \A r \in i.candidates[k].reliability:
        WasMeasured(i.engine, i.attribute, i.runs, i.candidates[k].raw, r)

\* The candidates an execution persists in this step, as <<attribute, position>>.
Persisted(t) ==
    UNION {{<<a, k>>: k \in DOMAIN attack'[t].found[a] \ DOMAIN attack[t].found[a]}:
             a \in DOMAIN attack[t].found \cap DOMAIN attack'[t].found}

\* No published eval measured guesses like c about a.
NeverMeasured(t, a, c) ==
    \A e \in Evals: stage[e] = "done" /\ engine[e] = attack[t].engine =>
        Alike(e, a, attack[t].runs, c.raw) = {}

\* The reliabilities that are kept were measured, and a candidate goes without one only if
\* nothing like it had been by then, whichever evals published since: the map and the
\* lookup agree on where a tenth begins.  (calibration.py: a miss "fails closed (stores
\* NULL)".)
ReliabilityWasMeasured ==
    /\ []KeptWasMeasured
    /\ [][\A t \in Attacks: \A p \in Persisted(t):
            LET c == attack'[t].found[p[1]][p[2]] IN
            c.reliability = {} => NeverMeasured(t, p[1], c)]_vars

\* The values and rationales of an art. 9 attribute are shown on a card or in a finding
\* only if the consent was there at some moment of the request.
MaskedUnlessConsented ==
    read.pc = "answered" /\ ~read.permitted =>
        /\ read.kind = "cards" =>
               \A c \in read.answer: c.attribute \in Art9 => c.value = {}
        /\ read.kind = "detail" /\ Len(read.answer) = 3 /\ read.about[2] \in Art9 =>
               /\ \A k \in DOMAIN read.answer[2]: read.answer[2][k].value = {}
               /\ read.answer[3] = {}

\* An answer put together from several statements is what a single one of them would have
\* seen of everything at once, whatever runs commit meanwhile; only an erasure may tear it.
ReadsAreSnapshots ==
    read.pc = "answered" /\ ~read.torn => read.answer \in read.looks

\* repositories/inferences.py, get_inference_finding: "any Art. 9-revealing reasoning ...
\* decrypt only under it, masked (NULL) at the SQL source otherwise".
ReasoningMaskedUnlessConsented ==
    read.kind = "detail" /\ read.answer # <<>> /\ read.about[2] \in Art9 /\ ~read.permitted =>
        ~read.answer[1].reasoning

-----------------------------------------------------------------------------
(* The inductive invariant behind them. *)

TypeOK ==
    /\ DOMAIN attack = Attacks
    /\ \A t \in Attacks:
           /\ DOMAIN attack[t] = {"stage", "began", "engine", "runs", "guess", "found"}
           /\ attack[t].stage \in {"idle", "open", "done", "failed"}
           /\ DOMAIN attack[t].guess = DOMAIN attack[t].found
           /\ \A a \in DOMAIN attack[t].found:
                  attack[t].found[a] \in
                      Seq({attack[t].found[a][k]: k \in DOMAIN attack[t].found[a]})
    /\ DOMAIN defence = Defences
    /\ consent \in BOOLEAN /\ erased \in BOOLEAN
    /\ DOMAIN read = {"pc", "kind", "about", "seen", "permitted", "torn", "queue", "rows",
                      "ids", "answer", "looks"}
    /\ read.seen \in BOOLEAN /\ read.permitted \in BOOLEAN

\* What an execution has found so far carries measured reliabilities.
FoundInv ==
    \A t \in Attacks: \A i \in Rows(t): \A k \in DOMAIN i.candidates:
        \A r \in i.candidates[k].reliability:
            WasMeasured(i.engine, i.attribute, i.runs, i.candidates[k].raw, r)

\* A request has seen a consent only if there was one.
SeenInv ==
    /\ read.seen => read.permitted
    /\ read.pc = "idle" => ~read.seen
    /\ read.pc = "consent" /\ consent => read.permitted
    /\ read.pc = "consent" => read.kind \in {"cards", "detail"}

\* How far the request for a finding is, and what it has.
DetailInv ==
    /\ read.pc \in {"idle", "consent", "detail", "cards"} => read.answer = <<>>
    /\ read.pc = "cards" => read.kind = "cards"
    /\ read.pc \in {"detail", "candidates", "evidence"} => read.kind = "detail"
    /\ read.pc \in {"runs", "frontier", "about", "value", "target", "reliability"} =>
           read.kind \in {"list", "frontier"}
    /\ read.pc = "candidates" => \E head \in {read.answer[1]}: read.answer = <<head>>
    /\ read.pc = "evidence" =>
           /\ \E head \in {read.answer[1]}: \E shown \in {read.answer[2]}:
                  read.answer = <<head, shown>>
           /\ ~read.permitted /\ read.about[2] \in Art9 =>
                  \A k \in DOMAIN read.answer[2]: read.answer[2][k].value = {}

IInv ==
    /\ EvalInv
    /\ TypeOK /\ FoundInv /\ KeptWasMeasured
    /\ SeenInv /\ DetailInv /\ MaskedUnlessConsented
=============================================================================
