----------------------------- MODULE Evaluation -----------------------------
(***************************************************************************)
(* The benchmark of the attack engine and what it publishes                *)
(* (src/app/services/eval.py, domain/calibration.py,                       *)
(* repositories/eval_results.py, calibration.py, api/v1/evals.py): an eval *)
(* run is one transaction that infers every persona, scores the guesses    *)
(* against the truth, and writes the accuracy of each attribute and the    *)
(* calibration map.                                                        *)
(*                                                                         *)
(* results and curve are committed rows.  Two evals may overlap: the one   *)
(* that began last is the latest, the one that commits last has the map.   *)
(* They upsert buckets in one order, and so cannot deadlock.  Rates are    *)
(* kept as hits out of a number, confidences in tenths.                    *)
(***************************************************************************)
EXTENDS EvalMatch, FiniteSetsExt

CONSTANTS
    Personas,   \* sequence of the benchmark's profiles
    Truth,      \* Truth[p]: attribute -> [value, certainty, hardness]
    Emissions,  \* what the model may state: attribute -> sequence of [phrase, stated]
    Ensembles,  \* values of n_runs
    Versions,   \* values of ENGINE_VERSION
    Evals       \* eval runs

ASSUME EvaluationAssumption == Ensembles \subseteq Nat \ {0} /\ IsFiniteSet(Evals)

\* list_profile_ids gives each profile once, and a profile has a label per attribute.
ASSUME PersonasAssumption ==
    /\ Personas \in Seq({Personas[k]: k \in DOMAIN Personas})
    /\ \A k, l \in DOMAIN Personas: Personas[k] = Personas[l] => k = l
    /\ \A k \in DOMAIN Personas: IsFiniteSet(DOMAIN Truth[Personas[k]])

VARIABLES
    stage,      \* stage[e]: "idle", "open", "done", "failed"
    began,      \* its place in the order of created_at
    engine,     \* ENGINE_VERSION of the process
    runs,       \* its n_runs
    scored,     \* how many personas it has scored
    predictions, samples, \* what it has to aggregate
    results,    \* eval_results
    curve,      \* calibration
    view        \* a request for GET /v1/eval/calibration

evalVars == <<stage, began, engine, runs, scored, predictions, samples, results, curve>>
benchVars == <<evalVars, view>>

EvalInit ==
    /\ stage = [e \in Evals |-> "idle"]
    /\ began = [e \in Evals |-> 0]
    /\ engine = [e \in Evals |-> "none"]
    /\ runs = [e \in Evals |-> 0]
    /\ scored = [e \in Evals |-> 0]
    /\ predictions = [e \in Evals |-> {}]
    /\ samples = [e \in Evals |-> {}]
    /\ results = {}
    /\ curve = {}
    /\ view = [pc |-> "idle", rows |-> {}, engine |-> "none", points |-> {}, moved |-> FALSE]

-----------------------------------------------------------------------------
(* infer_profile *)

\* bucket_edge: a confidence of one belongs to the bucket below.
Bucket(tenths) == IF tenths > 9 THEN 9 ELSE tenths

\* The agreement of n runs on k candidates, as Consensus allows it.
Supports(n, k) ==
    {s \in [1..k -> 1..n]:
        /\ k > 0 => 2 * s[1] >= n
        /\ MapThenSumSet(LAMBDA j: s[j], 1..k) <= n
        /\ \A i, j \in 1..k: i < j => s[j] <= s[i]}

\* k of the candidates, in some order.
Picked(c, k) ==
    {f \in [1..k -> DOMAIN c]: \A i, j \in 1..k: f[i] = f[j] => i = j}

\* A single run is taken as it is.  Several, of which an emission is what they state
\* first, agree on up to three of it or on nothing; raw is what is stated, or the share of
\* the runs that agree.
Guesses(a, raw, n) ==
    IF n < 2
    THEN {[k \in DOMAIN c |-> [rank |-> c[k].rank, value |-> c[k].value, raw |-> c[k].stated]]:
            c \in NormalizeGuess(a, raw)}
    ELSE UNION {UNION {{[j \in 1..k |-> [rank |-> j, value |-> c[f[j]].value,
                                          raw |-> (10 * s[j]) \div n]]:
                          f \in Picked(c, k), s \in Supports(n, k)}:
                        k \in 0..Min({3, Len(c)})}: c \in NormalizeGuess(a, raw)}

\* The guesses a profile can get from n runs: attribute -> candidates, empty if it abstains.
Inferred ==
    [n \in Ensembles |->
        UNION {{g \in [DOMAIN emission ->
                          UNION {Guesses(a, emission[a], n): a \in DOMAIN emission}]:
                  \A a \in DOMAIN emission: g[a] \in Guesses(a, emission[a], n)}:
                emission \in Emissions}]

-----------------------------------------------------------------------------
(* run_eval *)

Begin(e) ==
    /\ stage[e] = "idle"
    /\ stage' = [stage EXCEPT ![e] = "open"]
    /\ began' = [began EXCEPT ![e] = 1 + Cardinality({f \in Evals: stage[f] # "idle"})]
    /\ \E v \in Versions: engine' = [engine EXCEPT ![e] = v]
    /\ \E n \in Ensembles: runs' = [runs EXCEPT ![e] = n]
    /\ UNCHANGED <<scored, predictions, samples, results, curve, view>>

\* What some comment reveals of a persona; only that is scored.
Revealed(p) == {a \in DOMAIN Truth[p]: Truth[p][a].certainty >= 1}

Miss == [top1 |-> FALSE, top3 |-> FALSE]

\* _score_persona: a revealed attribute that was not guessed is a miss.
Judged(guess, a, p) ==
    IF a \in DOMAIN guess THEN Verdicts(a, guess[a], Truth[p][a].value) ELSE {Miss}

\* Mutant: a sample counts as right if any candidate is.
SamplesLenient(guess, p, n, verdict) ==
    {[persona |-> p, attribute |-> a, n |-> n, raw |-> guess[a][1].raw,
      correct |-> verdict[a].top3]: a \in {b \in DOMAIN guess \cap Revealed(p): guess[b] # <<>>}}

\* _calibration_sample: of the first candidate; who abstains is not calibrated.  (signal
\* is "self_reported" for one run and "self_consistency" for more, so n stands for both.)
Samples(guess, p, n, verdict) ==
    {[persona |-> p, attribute |-> a, n |-> n, raw |-> guess[a][1].raw,
      correct |-> verdict[a].top1]: a \in {b \in DOMAIN guess \cap Revealed(p): guess[b] # <<>>}}

Predictions(p, verdict) ==
    {[persona |-> p, attribute |-> a, hardness |-> Truth[p][a].hardness,
      top1 |-> verdict[a].top1, top3 |-> verdict[a].top3]: a \in Revealed(p)}

\* A turn of the loop over the personas.
Score(e) ==
    /\ stage[e] = "open" /\ scored[e] < Len(Personas)
    /\ LET p == Personas[scored[e] + 1] IN
       \E guess \in Inferred[runs[e]]:
       \E verdict \in [Revealed(p) -> [top1: BOOLEAN, top3: BOOLEAN]]:
           /\ \A a \in Revealed(p): verdict[a] \in Judged(guess, a, p)
           /\ predictions' = [predictions EXCEPT ![e] = @ \cup Predictions(p, verdict)]
           /\ samples' = [samples EXCEPT ![e] = @ \cup Samples(guess, p, runs[e], verdict)]
    /\ scored' = [scored EXCEPT ![e] = @ + 1]
    /\ UNCHANGED <<stage, began, engine, runs, results, curve, view>>

Rate(ps) ==
    [of |-> Cardinality(ps), top1 |-> Cardinality({x \in ps: x.top1}),
     top3 |-> Cardinality({x \in ps: x.top3})]

\* score_predictions: the rate of an attribute, and of each hardness within it.
AccuracyOf(e, a) ==
    LET ps == {x \in predictions[e]: x.attribute = a} IN
    [eval |-> e, attribute |-> a, rate |-> Rate(ps),
     byHardness |-> {[hardness |-> h, rate |-> Rate({x \in ps: x.hardness = h})]:
                       h \in {x.hardness: x \in ps}}]

Accuracy(e) == {AccuracyOf(e, a): a \in {x.attribute: x \in predictions[e]}}

\* build_calibration: the rate of each attribute and bucket, under the bare engine.
Measured(e) ==
    {[engine |-> engine[e], attribute |-> s.attribute, n |-> s.n, bucket |-> Bucket(s.raw),
      of |-> Cardinality({t \in samples[e]:
                 t.attribute = s.attribute /\ Bucket(t.raw) = Bucket(s.raw)}),
      hits |-> Cardinality({t \in samples[e]:
                   t.attribute = s.attribute /\ Bucket(t.raw) = Bucket(s.raw) /\ t.correct})]:
       s \in samples[e]}

SameBucket(c, d) ==
    /\ c.engine = d.engine /\ c.attribute = d.attribute
    /\ c.n = d.n /\ c.bucket = d.bucket

\* The end of run_eval and its commit.  Buckets that were measured before and not now
\* stay as they are.
Publish(e) ==
    /\ stage[e] = "open" /\ scored[e] = Len(Personas)
    /\ stage' = [stage EXCEPT ![e] = "done"]
    /\ results' = results \cup Accuracy(e)
    /\ curve' = {c \in curve: \A d \in Measured(e): ~SameBucket(c, d)} \cup Measured(e)
    /\ predictions' = [predictions EXCEPT ![e] = {}]
    /\ view' = [view EXCEPT !.moved = @ \/ view.pc \in {"rows", "engine"}]
    /\ UNCHANGED <<began, engine, runs, scored, samples>>

\* A statement or a model call raises.
Abort(e) ==
    /\ stage[e] = "open"
    /\ stage' = [stage EXCEPT ![e] = "failed"]
    /\ predictions' = [predictions EXCEPT ![e] = {}]
    /\ samples' = [samples EXCEPT ![e] = {}]
    /\ UNCHANGED <<began, engine, runs, scored, results, curve, view>>

-----------------------------------------------------------------------------
(* GET /v1/eval/calibration; GET /v1/eval/results is its first statement. *)

\* latest_eval_run_id: the newest created_at, which is the start of the transaction.
Latest == {e \in Evals: stage[e] = "done" /\ \A f \in Evals: stage[f] = "done" => began[f] <= began[e]}

ReadRows ==
    /\ view.pc = "idle"
    /\ view' = [view EXCEPT !.pc = "rows", !.rows = {r \in results: r.eval \in Latest}]
    /\ UNCHANGED evalVars

\* Mutant: the engine of the eval run that began first.
ReadEngineFirst ==
    /\ view.pc = "rows"
    /\ view' = [view EXCEPT
           !.pc = "engine",
           !.engine = IF Latest = {} THEN "none"
                      ELSE engine[CHOOSE e \in Evals: stage[e] = "done" /\
                               \A f \in Evals: stage[f] = "done" => began[e] <= began[f]]]
    /\ UNCHANGED evalVars

ReadEngine ==
    /\ view.pc = "rows"
    /\ view' = [view EXCEPT
           !.pc = "engine",
           !.engine = IF Latest = {} THEN "none" ELSE engine[CHOOSE e \in Evals: e \in Latest]]
    /\ UNCHANGED evalVars

\* list_calibration_points, before it averages over each bucket.
ReadCurve ==
    /\ view.pc = "engine"
    /\ view' = [view EXCEPT !.pc = "answered", !.points = {c \in curve: c.engine = view.engine}]
    /\ UNCHANGED evalVars

EvalNext ==
    \/ \E e \in Evals: Begin(e) \/ Score(e) \/ Publish(e) \/ Abort(e)
    \/ ReadRows \/ ReadEngine \/ ReadCurve

-----------------------------------------------------------------------------
(* Properties *)

\* Two confidences that belong together: they have the same tenth, where the highest takes
\* in certainty.  Said of the confidences themselves, whatever bucket the code files them in.
SameTenth(x, y) ==
    LET Highest(z) == z = 9 \/ z > 9 IN x = y \/ (Highest(x) /\ Highest(y))

\* The two numbers of an eval agree: when it publishes, the hits of an attribute are
\* those of its buckets together, of no more guesses than were scored, and the hardness
\* levels share them out.
AccuracyMatchesMap ==
    [][\A e \in Evals: stage[e] = "open" /\ stage'[e] = "done" =>
         \A r \in results' \ results:
            LET mine == {c \in curve': /\ c.engine = engine[e] /\ c.attribute = r.attribute
                                       /\ \E s \in samples[e]: s.attribute = c.attribute
                                            /\ s.n = c.n /\ SameTenth(c.bucket, s.raw)}
                Total(field) == MapThenSumSet(LAMBDA h: h.rate[field], r.byHardness)
            IN  /\ MapThenSumSet(LAMBDA c: c.hits, mine) = r.rate.top1
                /\ MapThenSumSet(LAMBDA c: c.of, mine) <= r.rate.of
                /\ Total("of") = r.rate.of /\ Total("top1") = r.rate.top1
                /\ Total("top3") = r.rate.top3]_benchVars

\* Both halves of the trust view describe one engine, unless an eval is published while
\* they are read: the curve is that engine's, and has every bucket that the guesses
\* behind the accuracy fell into.
TrustViewIsOneEngine ==
    view.pc = "answered" /\ ~view.moved =>
        \A r \in view.rows:
            /\ \A c \in view.points: c.engine = engine[r.eval]
            /\ \A s \in samples[r.eval]: \E c \in view.points:
                   c.attribute = s.attribute /\ c.n = s.n /\ SameTenth(c.bucket, s.raw)

\* The samples of an eval like a guess about a that n runs made with confidence x.
Alike(e, a, n, x) == {s \in samples[e]: s.attribute = a /\ s.n = n /\ SameTenth(s.raw, x)}

\* What a done eval of engine v found of those.
WasMeasured(v, a, n, x, r) ==
    \E e \in Evals:
        LET alike == Alike(e, a, n, x)
        IN  /\ stage[e] = "done" /\ engine[e] = v
            /\ r.of = Cardinality(alike)
            /\ r.hits = Cardinality({s \in alike: s.correct})

-----------------------------------------------------------------------------
(* The inductive invariant behind them. *)

EvalTypeOK ==
    /\ stage \in [Evals -> {"idle", "open", "done", "failed"}]
    /\ began \in [Evals -> Nat]
    /\ engine \in [Evals -> Versions \cup {"none"}]
    /\ runs \in [Evals -> Ensembles \cup {0}]
    /\ scored \in [Evals -> Nat]
    /\ DOMAIN predictions = Evals /\ DOMAIN samples = Evals
    /\ DOMAIN view = {"pc", "rows", "engine", "points", "moved"}
    /\ view.pc \in {"idle", "rows", "engine", "answered"} /\ view.moved \in BOOLEAN

\* No two evals began at one time, so one of them is the latest.
OrderInv ==
    LET begun == {e \in Evals: stage[e] # "idle"} IN
    /\ \A e \in begun: began[e] \in 1..Cardinality(begun)
    /\ \A e, f \in begun: began[e] = began[f] => e = f

\* The map holds what done evals measured, and every bucket that one of them did.
MapInv ==
    /\ \A e \in Evals: \A s \in samples[e]: s.n = runs[e]
    /\ \A e \in Evals: stage[e] = "idle" => samples[e] = {}
    /\ \A r \in results: r.eval \in Evals /\ stage[r.eval] = "done"
    /\ \A c \in curve: c.bucket = Bucket(c.bucket)
    /\ \A c \in curve: WasMeasured(c.engine, c.attribute, c.n, c.bucket, c)
    /\ \A e \in Evals: stage[e] = "done" =>
           \A s \in samples[e]: \E c \in curve:
               /\ c.engine = engine[e] /\ c.attribute = s.attribute
               /\ c.n = s.n /\ c.bucket = Bucket(s.raw)

\* What the request has read holds of the latest eval until another one is published.
ViewInv ==
    /\ view.pc \in {"rows", "engine"} /\ ~view.moved => \A r \in view.rows: r.eval \in Latest
    /\ view.pc = "engine" /\ ~view.moved => \A r \in view.rows: engine[r.eval] = view.engine
    /\ view.pc = "answered" => \A r \in view.rows: r.eval \in Evals /\ stage[r.eval] = "done"
    /\ view.pc \in {"rows", "engine"} => \A r \in view.rows: r \in results

EvalInv == EvalTypeOK /\ OrderInv /\ MapInv /\ ViewInv /\ TrustViewIsOneEngine
=============================================================================
