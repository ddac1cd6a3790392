--------------------------- MODULE ResultsProofs ---------------------------
(***************************************************************************)
(* Proofs about Evaluation and Results, for any benchmark, attributes,     *)
(* evals, engines, ensembles, attack runs and remediation runs: first the  *)
(* invariant IInv, then answers put together from several statements, then *)
(* the sums an eval publishes.                                             *)
(***************************************************************************)
EXTENDS Results, FiniteSetTheorems, SequenceTheorems, WellFoundedInduction, TLAPS

-----------------------------------------------------------------------------
(* Evals *)

\* Before the first eval nothing is published.
LEMMA EvalInitInv == EvalInit => EvalInv
  <1> SUFFICES ASSUME EvalInit PROVE EvalInv OBVIOUS
  <1> USE DEF EvalInit
  <1>1. EvalTypeOK BY DEF EvalTypeOK
  <1>2. OrderInv BY DEF OrderInv
  <1>3. MapInv BY DEF MapInv
  <1>4. ViewInv BY DEF ViewInv
  <1>5. TrustViewIsOneEngine BY DEF TrustViewIsOneEngine
  <1>6. QED BY <1>1, <1>2, <1>3, <1>4, <1>5 DEF EvalInv

\* A bucket is filed in itself.
LEMMA BucketTwice == ASSUME NEW y PROVE Bucket(Bucket(y)) = Bucket(y)
  BY DEF Bucket

\* Confidences of one tenth are those of one bucket.
LEMMA TenthIsBucket ==
    ASSUME NEW x, NEW y PROVE SameTenth(x, y) <=> Bucket(x) = Bucket(y)
  BY DEF SameTenth, Bucket

\* What is settled about an eval when it is done.
Settled(e) ==
    stage'[e] = "done" /\ samples'[e] = samples[e] /\ engine'[e] = engine[e]

\* A measurement stands as long as the evals that are done are settled.
LEMMA MeasuredStays ==
    ASSUME \A e \in Evals: stage[e] = "done" => Settled(e),
           NEW v, NEW a, NEW n, NEW b, NEW r, WasMeasured(v, a, n, b, r)
    PROVE  WasMeasured(v, a, n, b, r)'
  BY DEF WasMeasured, Alike, Settled

\* An eval begins, last of all.
LEMMA BeginStep ==
    ASSUME EvalInv, NEW e \in Evals, Begin(e)
    PROVE  EvalInv' /\ \A f \in Evals: stage[f] = "done" => Settled(f)
  <1> USE EvaluationAssumption DEF EvalInv
  <1> DEFINE begun == {f \in Evals: stage[f] # "idle"}
  <1>1. /\ stage[e] = "idle" /\ stage' = [stage EXCEPT ![e] = "open"]
        /\ began' = [began EXCEPT ![e] = 1 + Cardinality(begun)]
        /\ UNCHANGED <<scored, predictions, samples, results, curve, view>>
    BY DEF Begin
  <1>2. PICK v \in Versions: engine' = [engine EXCEPT ![e] = v] BY DEF Begin
  <1>3. PICK n \in Ensembles: runs' = [runs EXCEPT ![e] = n] BY DEF Begin
  <1>4. IsFiniteSet(begun) /\ Cardinality(begun) \in Nat
    BY FS_Subset, FS_CardinalityType
  <1>5. EvalTypeOK' BY <1>1, <1>2, <1>3, <1>4 DEF EvalTypeOK
  <1>6. \A f \in Evals: /\ f # e => stage'[f] = stage[f] /\ engine'[f] = engine[f]
                                     /\ began'[f] = began[f] /\ runs'[f] = runs[f]
                        /\ f = e => stage'[f] = "open" /\ began'[f] = 1 + Cardinality(begun)
    BY <1>1, <1>2, <1>3, <1>4 DEF EvalTypeOK
  <1>7. OrderInv'
    <2>1. {f \in Evals: stage'[f] # "idle"} = begun \cup {e} BY <1>6
    <2>2. e \notin begun BY <1>1
    <2>3. Cardinality(begun \cup {e}) = Cardinality(begun) + 1
      BY <1>4, <2>2, FS_AddElement
    <2>4. \A f \in begun: began[f] \in 1..Cardinality(begun) BY DEF OrderInv
    <2>5. \A f, g \in begun: began[f] = began[g] => f = g BY DEF OrderInv
    <2>6. \A f \in begun: began'[f] = began[f] BY <1>6, <2>2
    <2>7. \A f \in begun \cup {e}: began'[f] \in 1..(Cardinality(begun) + 1)
      BY <1>4, <1>6, <2>4, <2>6
    <2>8. \A f, g \in begun \cup {e}: began'[f] = began'[g] => f = g
      <3> HIDE DEF begun
      <3>1. began'[e] = 1 + Cardinality(begun) BY <1>6
      <3>2. \A f \in begun: began'[f] \in 1..Cardinality(begun) BY <2>4, <2>6
      <3>3. \A f, g \in begun: began'[f] = began'[g] => f = g BY <2>5, <2>6
      <3>4. QED BY <1>4, <3>1, <3>2, <3>3
    <2>9. QED BY <2>1, <2>3, <2>7, <2>8 DEF OrderInv
  <1>8. \A f \in Evals: stage[f] = "done" => Settled(f) BY <1>1, <1>6 DEF Settled
  <1>9. \A f \in Evals: stage'[f] = "done" <=> stage[f] = "done" BY <1>1, <1>6
  <1>10. MapInv'
    <2>1. ASSUME NEW f \in Evals, NEW s \in samples'[f] PROVE s.n = runs'[f]
      <3>1. s \in samples[f] /\ f # e BY <1>1 DEF MapInv
      <3>2. QED BY <1>6, <3>1 DEF MapInv
    <2>2. \A f \in Evals: stage'[f] = "idle" => samples'[f] = {} BY <1>1, <1>6 DEF MapInv
    <2>3. \A r \in results': r.eval \in Evals /\ stage'[r.eval] = "done"
      BY <1>1, <1>9 DEF MapInv
    <2>4. \A c \in curve': WasMeasured(c.engine, c.attribute, c.n, c.bucket, c)'
      BY <1>1, <1>8, MeasuredStays DEF MapInv
    <2>5. ASSUME NEW f \in Evals, stage'[f] = "done", NEW s \in samples'[f]
          PROVE  \E c \in curve':
                    /\ c.engine = engine'[f] /\ c.attribute = s.attribute
                    /\ c.n = s.n /\ c.bucket = Bucket(s.raw)
      <3>1. stage[f] = "done" /\ engine'[f] = engine[f] /\ samples'[f] = samples[f]
        BY <1>1, <1>6, <2>5
      <3>2. QED BY <1>1, <2>5, <3>1 DEF MapInv
    <2>6. QED BY <1>1, <2>1, <2>2, <2>3, <2>4, <2>5 DEF MapInv
  <1>11. \A f \in Evals: stage[f] = "done" => engine'[f] = engine[f] /\ began'[f] = began[f]
    BY <1>1, <1>6
  <1>12. ViewInv'
    <2>1. Latest' = Latest BY <1>9, <1>11 DEF Latest
    <2>2. \A f \in Latest: engine'[f] = engine[f] BY <1>11 DEF Latest
    <2>3. QED BY <1>1, <1>9, <2>1, <2>2 DEF ViewInv
  <1>13. TrustViewIsOneEngine' BY <1>1, <1>11 DEF TrustViewIsOneEngine, ViewInv
  <1>14. QED BY <1>5, <1>7, <1>8, <1>10, <1>12, <1>13

\* A step that changes, of what evals are judged by, at most the samples of one that is
\* not done, or takes it out of the race.
LEMMA UnpublishedStep ==
    ASSUME EvalInv, NEW e \in Evals, stage[e] = "open",
           stage' = stage \/ stage' = [stage EXCEPT ![e] = "failed"],
           DOMAIN predictions' = Evals, DOMAIN samples' = Evals, scored' \in [Evals -> Nat],
           \A f \in Evals: f # e => samples'[f] = samples[f],
           \A s \in samples'[e]: s.n = runs[e],
           UNCHANGED <<began, engine, runs, results, curve, view>>
    PROVE  EvalInv' /\ \A f \in Evals: stage[f] = "done" => Settled(f)
  <1> USE DEF EvalInv
  <1>1. \A f \in Evals: /\ f # e => stage'[f] = stage[f]
                        /\ stage'[e] \in {"open", "failed"}
    BY DEF EvalTypeOK
  <1>2. EvalTypeOK' BY DEF EvalTypeOK
  <1>3. OrderInv'
    <2>1. {f \in Evals: stage'[f] # "idle"} = {f \in Evals: stage[f] # "idle"} BY <1>1
    <2>2. QED BY <2>1 DEF OrderInv
  <1>4. \A f \in Evals: stage[f] = "done" => Settled(f) BY <1>1 DEF Settled
  <1>5. \A f \in Evals: stage'[f] = "done" <=> stage[f] = "done" BY <1>1
  <1>6. MapInv'
    <2>1. \A f \in Evals: \A s \in samples'[f]: s.n = runs'[f] BY DEF MapInv
    <2>2. \A f \in Evals: stage'[f] = "idle" => samples'[f] = {} BY <1>1 DEF MapInv
    <2>3. \A r \in results': r.eval \in Evals /\ stage'[r.eval] = "done" BY <1>5 DEF MapInv
    <2>4. \A c \in curve': WasMeasured(c.engine, c.attribute, c.n, c.bucket, c)'
      BY <1>4, MeasuredStays DEF MapInv
    <2>5. ASSUME NEW f \in Evals, stage'[f] = "done", NEW s \in samples'[f]
          PROVE  \E c \in curve':
                    /\ c.engine = engine'[f] /\ c.attribute = s.attribute
                    /\ c.n = s.n /\ c.bucket = Bucket(s.raw)
      BY <1>1, <1>5, <2>5 DEF MapInv
    <2>6. QED BY <2>1, <2>2, <2>3, <2>4, <2>5 DEF MapInv
  <1>7. ViewInv'
    <2>1. Latest' = Latest BY <1>5 DEF Latest
    <2>2. QED BY <1>5, <2>1 DEF ViewInv
  <1>8. TrustViewIsOneEngine'
    <2>1. \A f \in Evals: stage[f] = "done" => samples'[f] = samples[f] BY <1>4 DEF Settled
    <2>2. QED BY <2>1 DEF TrustViewIsOneEngine, ViewInv
  <1>9. QED BY <1>2, <1>3, <1>4, <1>6, <1>7, <1>8

\* Scoring adds the samples of one persona.
LEMMA ScoreScores ==
    ASSUME NEW e \in Evals, Score(e)
    PROVE  LET p == Personas[scored[e] + 1] IN
           \E guess \in Inferred[runs[e]]:
           \E verdict \in [Revealed(p) -> [top1: BOOLEAN, top3: BOOLEAN]]:
               samples' = [samples EXCEPT ![e] = @ \cup Samples(guess, p, runs[e], verdict)]
  BY Zenon DEF Score

\* A persona is scored.
LEMMA ScoreStep ==
    ASSUME EvalInv, NEW e \in Evals, Score(e)
    PROVE  EvalInv' /\ \A f \in Evals: stage[f] = "done" => Settled(f)
  <1> USE DEF EvalInv, EvalTypeOK
  <1>1. DOMAIN predictions' = Evals BY DEF Score
  <1>2. scored' \in [Evals -> Nat] BY DEF Score
  <1>3. /\ DOMAIN samples' = Evals /\ \A f \in Evals: f # e => samples'[f] = samples[f]
        /\ \A s \in samples'[e]: s.n = runs[e]
    <2> DEFINE p == Personas[scored[e] + 1]
    <2>1. PICK guess \in Inferred[runs[e]]:
              \E verdict \in [Revealed(p) -> [top1: BOOLEAN, top3: BOOLEAN]]:
                  samples' = [samples EXCEPT ![e] = @ \cup Samples(guess, p, runs[e], verdict)]
      BY ScoreScores
    <2>2. PICK verdict \in [Revealed(p) -> [top1: BOOLEAN, top3: BOOLEAN]]:
              samples' = [samples EXCEPT ![e] = @ \cup Samples(guess, p, runs[e], verdict)]
      BY <2>1
    <2>3. \A s \in Samples(guess, p, runs[e], verdict): s.n = runs[e] BY DEF Samples
    <2>4. QED BY <2>2, <2>3 DEF MapInv
  <1>4. stage[e] = "open" /\ UNCHANGED <<stage, began, engine, runs, results, curve, view>>
    BY DEF Score
  <1>5. QED BY <1>1, <1>2, <1>3, <1>4, UnpublishedStep

\* An eval fails.
LEMMA AbortStep ==
    ASSUME EvalInv, NEW e \in Evals, Abort(e)
    PROVE  EvalInv' /\ \A f \in Evals: stage[f] = "done" => Settled(f)
  <1> USE DEF EvalInv, EvalTypeOK
  <1>1. DOMAIN predictions' = Evals /\ DOMAIN samples' = Evals BY DEF Abort
  <1>2. scored' \in [Evals -> Nat] BY DEF Abort
  <1>3. /\ \A f \in Evals: f # e => samples'[f] = samples[f]
        /\ \A s \in samples'[e]: s.n = runs[e]
    BY DEF Abort
  <1>4. /\ stage[e] = "open" /\ stage' = [stage EXCEPT ![e] = "failed"]
        /\ UNCHANGED <<began, engine, runs, results, curve, view>>
    BY DEF Abort
  <1>5. QED BY <1>1, <1>2, <1>3, <1>4, UnpublishedStep

\* What an eval measured is what its samples say.
LEMMA MeasuredIsMeasured ==
    ASSUME NEW e \in Evals, \A s \in samples[e]: s.n = runs[e], NEW c \in Measured(e)
    PROVE  /\ c.engine = engine[e] /\ c.bucket = Bucket(c.bucket)
           /\ c.of = Cardinality(Alike(e, c.attribute, c.n, c.bucket))
           /\ c.hits = Cardinality({s \in Alike(e, c.attribute, c.n, c.bucket): s.correct})
  <1>1. PICK s \in samples[e]:
           c = [engine |-> engine[e], attribute |-> s.attribute, n |-> s.n,
                bucket |-> Bucket(s.raw),
                of |-> Cardinality({t \in samples[e]:
                           t.attribute = s.attribute /\ Bucket(t.raw) = Bucket(s.raw)}),
                hits |-> Cardinality({t \in samples[e]: t.attribute = s.attribute
                             /\ Bucket(t.raw) = Bucket(s.raw) /\ t.correct})]
    BY DEF Measured
  <1>2. c.bucket = Bucket(s.raw) /\ c.bucket = Bucket(c.bucket) BY <1>1, BucketTwice
  <1>3. \A t: SameTenth(t.raw, c.bucket) <=> Bucket(t.raw) = Bucket(s.raw)
    BY <1>2, TenthIsBucket
  <1>4. Alike(e, c.attribute, c.n, c.bucket) =
            {t \in samples[e]: t.attribute = s.attribute /\ Bucket(t.raw) = Bucket(s.raw)}
    BY <1>1, <1>3 DEF Alike
  <1>5. {t \in Alike(e, c.attribute, c.n, c.bucket): t.correct} =
            {t \in samples[e]:
                t.attribute = s.attribute /\ Bucket(t.raw) = Bucket(s.raw) /\ t.correct}
    BY <1>4
  <1>6. QED BY <1>1, <1>2, <1>4, <1>5

\* An eval is published.
LEMMA PublishStep ==
    ASSUME EvalInv, NEW e \in Evals, Publish(e)
    PROVE  EvalInv' /\ \A f \in Evals: stage[f] = "done" => Settled(f)
  <1> USE DEF EvalInv
  <1>1. /\ stage[e] = "open" /\ stage' = [stage EXCEPT ![e] = "done"]
        /\ results' = results \cup Accuracy(e)
        /\ curve' = {c \in curve: \A d \in Measured(e): ~SameBucket(c, d)} \cup Measured(e)
        /\ predictions' = [predictions EXCEPT ![e] = {}]
        /\ view' = [view EXCEPT !.moved = @ \/ view.pc \in {"rows", "engine"}]
        /\ UNCHANGED <<began, engine, runs, scored, samples>>
    BY DEF Publish
  <1>2. stage'[e] = "done" /\ \A f \in Evals: f # e => stage'[f] = stage[f]
    BY <1>1 DEF EvalTypeOK
  <1>3. /\ view'.pc = view.pc /\ view'.rows = view.rows /\ view'.engine = view.engine
        /\ view'.points = view.points /\ view'.moved = (view.moved \/ view.pc \in {"rows", "engine"})
    BY <1>1 DEF EvalTypeOK
  <1>4. EvalTypeOK' BY <1>1, <1>3 DEF EvalTypeOK
  <1>5. OrderInv'
    <2>1. {f \in Evals: stage'[f] # "idle"} = {f \in Evals: stage[f] # "idle"} BY <1>1, <1>2
    <2>2. QED BY <1>1, <2>1 DEF OrderInv
  <1>6. \A f \in Evals: stage[f] = "done" => Settled(f) BY <1>1, <1>2 DEF Settled
  <1>7. MapInv'
    <2>1. \A f \in Evals: \A s \in samples'[f]: s.n = runs'[f] BY <1>1 DEF MapInv
    <2>2. \A f \in Evals: stage'[f] = "idle" => samples'[f] = {} BY <1>1, <1>2 DEF MapInv
    <2>3. \A r \in results': r.eval \in Evals /\ stage'[r.eval] = "done"
      <3>1. \A a: AccuracyOf(e, a).eval = e BY DEF AccuracyOf
      <3>2. \A r \in Accuracy(e): r.eval = e BY <3>1 DEF Accuracy
      <3>3. QED BY <1>1, <1>2, <3>2 DEF MapInv
    <2>4. ASSUME NEW c \in curve' PROVE WasMeasured(c.engine, c.attribute, c.n, c.bucket, c)'
      <3>1. CASE c \in curve BY <1>6, <3>1, MeasuredStays DEF MapInv
      <3>2. CASE c \in Measured(e)
        <4>1. \A s \in samples[e]: s.n = runs[e] BY DEF MapInv
        <4>2. WasMeasured(c.engine, c.attribute, c.n, c.bucket, c)'
                <=> \E f \in Evals:
                       LET alike == Alike(f, c.attribute, c.n, c.bucket)
                       IN  /\ stage'[f] = "done" /\ engine[f] = c.engine
                           /\ c.of = Cardinality(alike)
                           /\ c.hits = Cardinality({s \in alike: s.correct})
          BY <1>1 DEF WasMeasured, Alike
        <4>3. QED BY <1>2, <3>2, <4>1, <4>2, MeasuredIsMeasured
      <3>3. QED BY <1>1, <2>4, <3>1, <3>2
    <2>5. ASSUME NEW f \in Evals, stage'[f] = "done", NEW s \in samples'[f]
          PROVE  \E c \in curve':
                    /\ c.engine = engine'[f] /\ c.attribute = s.attribute
                    /\ c.n = s.n /\ c.bucket = Bucket(s.raw)
      <3>1. s \in samples[f] /\ engine'[f] = engine[f] BY <1>1, <2>5
      <3>2. CASE f = e
        <4> DEFINE alike == {t \in samples[e]:
                                t.attribute = s.attribute /\ Bucket(t.raw) = Bucket(s.raw)}
                   hits == {t \in samples[e]: t.attribute = s.attribute
                               /\ Bucket(t.raw) = Bucket(s.raw) /\ t.correct}
                   c == [engine |-> engine[e], attribute |-> s.attribute, n |-> s.n,
                         bucket |-> Bucket(s.raw), of |-> Cardinality(alike),
                         hits |-> Cardinality(hits)]
        <4>1. c \in Measured(e) BY <3>1, <3>2 DEF Measured
        <4>2. /\ c.engine = engine[e] /\ c.attribute = s.attribute
              /\ c.n = s.n /\ c.bucket = Bucket(s.raw)
          OBVIOUS
        <4>3. QED BY <1>1, <3>1, <3>2, <4>1, <4>2
      <3>3. CASE f # e
        <4>1. PICK c \in curve: /\ c.engine = engine[f] /\ c.attribute = s.attribute
                                /\ c.n = s.n /\ c.bucket = Bucket(s.raw)
          BY <1>2, <2>5, <3>1, <3>3 DEF MapInv
        <4>2. CASE \A d \in Measured(e): ~SameBucket(c, d) BY <1>1, <3>1, <4>1, <4>2
        <4>3. CASE \E d \in Measured(e): SameBucket(c, d)
          <5>1. PICK d \in Measured(e): SameBucket(c, d) BY <4>3
          <5>2. QED BY <1>1, <3>1, <4>1, <5>1 DEF SameBucket
        <4>4. QED BY <4>2, <4>3
      <3>4. QED BY <3>2, <3>3
    <2>6. \A c \in curve': c.bucket = Bucket(c.bucket)
      <3>1. \A c \in Measured(e): c.bucket = Bucket(c.bucket) BY MeasuredIsMeasured DEF MapInv
      <3>2. QED BY <1>1, <3>1 DEF MapInv
    <2>7. QED BY <2>1, <2>2, <2>3, <2>4, <2>5, <2>6 DEF MapInv
  <1>8. ViewInv'
    <2>1. view'.pc \in {"rows", "engine"} => view'.moved BY <1>3
    <2>2. results \subseteq results' BY <1>1
    <2>3. QED BY <1>2, <1>3, <2>1, <2>2 DEF ViewInv
  <1>9. TrustViewIsOneEngine'
    <2>1. UNCHANGED <<engine, samples>> BY <1>1
    <2>2. view'.pc = "answered" /\ ~view'.moved => view.pc = "answered" /\ ~view.moved
      BY <1>3
    <2>3. view'.rows = view.rows /\ view'.points = view.points BY <1>3
    <2>4. QED BY <2>1, <2>2, <2>3 DEF TrustViewIsOneEngine
  <1>10. QED BY <1>4, <1>5, <1>6, <1>7, <1>8, <1>9

\* At most one eval is the latest.
LEMMA OneLatest ==
    ASSUME EvalInv, NEW e \in Latest, NEW f \in Latest
    PROVE  e = f
  <1>1. e \in Evals /\ f \in Evals /\ stage[e] = "done" /\ stage[f] = "done"
        /\ began[e] <= began[f] /\ began[f] <= began[e]
    BY DEF Latest
  <1>2. began[e] \in Nat /\ began[f] \in Nat BY <1>1 DEF EvalInv, EvalTypeOK
  <1>3. began[e] = began[f] BY <1>1, <1>2
  <1>4. QED BY <1>1, <1>3 DEF EvalInv, OrderInv

\* The three statements of the trust view.
LEMMA ViewStep ==
    ASSUME EvalInv, ReadRows \/ ReadEngine \/ ReadCurve
    PROVE  EvalInv' /\ \A f \in Evals: stage[f] = "done" => Settled(f)
  <1> USE DEF EvalInv
  <1>1. UNCHANGED evalVars BY DEF ReadRows, ReadEngine, ReadCurve
  <1>2. \A f \in Evals: stage[f] = "done" => Settled(f) BY <1>1 DEF evalVars, Settled
  <1>3. OrderInv' BY <1>1 DEF evalVars, OrderInv
  <1>4. MapInv'
    <2>1. \A c \in curve': WasMeasured(c.engine, c.attribute, c.n, c.bucket, c)'
      BY <1>1, <1>2, MeasuredStays DEF MapInv, evalVars
    <2>2. QED BY <1>1, <2>1 DEF evalVars, MapInv
  <1>5. Latest' = Latest BY <1>1 DEF evalVars, Latest
  <1>6. /\ UNCHANGED <<stage, began, engine, runs, scored, predictions, samples, results, curve>>
    BY <1>1 DEF evalVars
  <1>7. CASE ReadRows
    <2>1. /\ view'.pc = "rows" /\ view'.rows = {r \in results: r.eval \in Latest}
          /\ DOMAIN view' = DOMAIN view /\ view'.moved = view.moved
      BY <1>7 DEF ReadRows, EvalTypeOK
    <2>2. EvalTypeOK' BY <1>6, <2>1 DEF EvalTypeOK
    <2>3. ViewInv' BY <1>5, <1>6, <2>1 DEF ViewInv
    <2>4. TrustViewIsOneEngine' BY <2>1 DEF TrustViewIsOneEngine
    <2>5. QED BY <1>2, <1>3, <1>4, <2>2, <2>3, <2>4
  <1>8. CASE ReadEngine
    <2>1. /\ view'.pc = "engine" /\ view'.rows = view.rows /\ view.pc = "rows"
          /\ DOMAIN view' = DOMAIN view /\ view'.moved = view.moved
          /\ view'.engine = IF Latest = {} THEN "none" ELSE engine[CHOOSE e \in Evals: e \in Latest]
      BY <1>8 DEF ReadEngine, EvalTypeOK
    <2>2. EvalTypeOK' BY <1>6, <2>1 DEF EvalTypeOK
    <2>3. ASSUME NEW r \in view.rows, ~view.moved PROVE engine[r.eval] = view'.engine
      <3>1. r.eval \in Latest BY <2>1, <2>3 DEF ViewInv
      <3>2. (CHOOSE e \in Evals: e \in Latest) \in Latest BY <3>1 DEF Latest
      <3>3. r.eval = CHOOSE e \in Evals: e \in Latest BY <3>1, <3>2, OneLatest
      <3>4. QED BY <2>1, <3>1, <3>3
    <2>4. ViewInv' BY <1>5, <1>6, <2>1, <2>3 DEF ViewInv
    <2>5. TrustViewIsOneEngine' BY <2>1 DEF TrustViewIsOneEngine
    <2>6. QED BY <1>2, <1>3, <1>4, <2>2, <2>4, <2>5
  <1>9. CASE ReadCurve
    <2>1. /\ view'.pc = "answered" /\ view'.rows = view.rows /\ view.pc = "engine"
          /\ DOMAIN view' = DOMAIN view /\ view'.moved = view.moved
          /\ view'.points = {c \in curve: c.engine = view.engine}
      BY <1>9 DEF ReadCurve, EvalTypeOK
    <2>2. EvalTypeOK' BY <1>6, <2>1 DEF EvalTypeOK
    <2>3. \A r \in view.rows: r.eval \in Evals /\ stage[r.eval] = "done"
      BY <2>1 DEF ViewInv, MapInv
    <2>4. ViewInv' BY <1>6, <2>1, <2>3 DEF ViewInv
    <2>5. ASSUME NEW r \in view.rows, ~view.moved
          PROVE  /\ \A c \in view'.points: c.engine = engine[r.eval]
                 /\ \A s \in samples[r.eval]: \E c \in view'.points:
                        c.attribute = s.attribute /\ c.n = s.n /\ SameTenth(c.bucket, s.raw)
      <3>1. engine[r.eval] = view.engine BY <2>1, <2>5 DEF ViewInv
      <3>2. ASSUME NEW s \in samples[r.eval]
            PROVE  \E c \in view'.points:
                      c.attribute = s.attribute /\ c.n = s.n /\ SameTenth(c.bucket, s.raw)
        <4>1. PICK c \in curve: /\ c.engine = engine[r.eval] /\ c.attribute = s.attribute
                                /\ c.n = s.n /\ c.bucket = Bucket(s.raw)
          BY <2>3, <2>5 DEF MapInv
        <4>2. SameTenth(c.bucket, s.raw) BY <4>1, BucketTwice, TenthIsBucket
        <4>3. QED BY <2>1, <3>1, <4>1, <4>2
      <3>3. QED BY <2>1, <3>1, <3>2
    <2>6. TrustViewIsOneEngine' BY <1>6, <2>1, <2>5 DEF TrustViewIsOneEngine
    <2>7. QED BY <1>2, <1>3, <1>4, <2>2, <2>4, <2>6
  <1>10. QED BY <1>7, <1>8, <1>9

\* Every step of the benchmark keeps the invariant and what is done.
LEMMA EvalStep ==
    ASSUME EvalInv, EvalNext \/ UNCHANGED benchVars
    PROVE  EvalInv' /\ \A f \in Evals: stage[f] = "done" => Settled(f)
  <1>1. CASE EvalNext
    BY <1>1, BeginStep, ScoreStep, PublishStep, AbortStep, ViewStep DEF EvalNext
  <1>2. CASE UNCHANGED benchVars
    <2> USE <1>2 DEF benchVars, evalVars, EvalInv
    <2>1. EvalTypeOK' BY DEF EvalTypeOK
    <2>2. OrderInv' BY DEF OrderInv
    <2>3. \A f \in Evals: stage[f] = "done" => Settled(f) BY DEF Settled
    <2>4. \A c \in curve': WasMeasured(c.engine, c.attribute, c.n, c.bucket, c)'
      BY <2>3, MeasuredStays DEF MapInv
    <2>5. MapInv' BY <2>4 DEF MapInv
    <2>6. ViewInv' BY DEF ViewInv, Latest
    <2>7. TrustViewIsOneEngine' BY DEF TrustViewIsOneEngine
    <2>8. QED BY <2>1, <2>2, <2>3, <2>5, <2>6, <2>7
  <1>3. QED BY <1>1, <1>2

-----------------------------------------------------------------------------
(* Attack runs *)

\* Everything the invariant says of runs, at the start.
LEMMA InitIInv == Init => IInv
  <1> SUFFICES ASSUME Init PROVE IInv OBVIOUS
  <1> USE DEF Init
  <1>1. EvalInv BY EvalInitInv
  <1>2. TypeOK
    <2>1. DOMAIN attack = Attacks /\ DOMAIN defence = Defences OBVIOUS
    <2>2. ASSUME NEW t \in Attacks
          PROVE  /\ DOMAIN attack[t] = {"stage", "began", "engine", "runs", "guess", "found"}
                 /\ attack[t].stage = "idle" /\ attack[t].guess = <<>> /\ attack[t].found = <<>>
      OBVIOUS
    <2>3. DOMAIN <<>> = {} OBVIOUS
    <2>4. QED BY <2>1, <2>2, <2>3 DEF TypeOK
  <1>3. FoundInv
    <2>1. \A t \in Attacks: attack[t].guess = <<>> OBVIOUS
    <2>2. \A t \in Attacks: Rows(t) = {} BY <2>1 DEF Rows
    <2>3. QED BY <2>2 DEF FoundInv
  <1>4. KeptWasMeasured BY DEF KeptWasMeasured
  <1>5. SeenInv BY DEF SeenInv
  <1>6. DetailInv BY DEF DetailInv
  <1>7. MaskedUnlessConsented BY DEF MaskedUnlessConsented
  <1>8. QED BY <1>1, <1>2, <1>3, <1>4, <1>5, <1>6, <1>7 DEF IInv

\* What was found stays measured, and what one execution adds to it has to be.
LEMMA FoundStep ==
    ASSUME FoundInv, \A e \in Evals: stage[e] = "done" => Settled(e), NEW t,
           \A s \in Attacks: s # t => attack'[s] = attack[s],
           \A i \in Rows(t)': \A k \in DOMAIN i.candidates: \A r \in i.candidates[k].reliability:
               WasMeasured(i.engine, i.attribute, i.runs, i.candidates[k].raw, r)
    PROVE  FoundInv'
  <1>1. ASSUME NEW s \in Attacks, NEW i \in Rows(s)', NEW k \in DOMAIN i.candidates,
               NEW r \in i.candidates[k].reliability
        PROVE  WasMeasured(i.engine, i.attribute, i.runs, i.candidates[k].raw, r)'
    <2>1. CASE s = t BY <1>1, <2>1, MeasuredStays
    <2>2. CASE s # t
      <3>1. Rows(s)' = Rows(s) BY <2>2 DEF Rows
      <3>2. WasMeasured(i.engine, i.attribute, i.runs, i.candidates[k].raw, r)
        BY <1>1, <3>1 DEF FoundInv
      <3>3. QED BY <3>2, MeasuredStays
    <2>3. QED BY <2>1, <2>2
  <1>2. QED BY <1>1 DEF FoundInv

\* So do the inferences, as long as none is added.
LEMMA ReliabilityStays ==
    ASSUME KeptWasMeasured, \A e \in Evals: stage[e] = "done" => Settled(e),
           inferences' \subseteq inferences
    PROVE  KeptWasMeasured'
  BY MeasuredStays DEF KeptWasMeasured

\* The map gives reliabilities that were measured.
LEMMA LookupMeasured ==
    ASSUME EvalInv, NEW v, NEW a, NEW n, NEW b, NEW r \in Lookup(v, a, n, b)
    PROVE  WasMeasured(v, a, n, b, r)
  <1>1. PICK c \in curve: /\ c.engine = v /\ c.attribute = a /\ c.n = n /\ c.bucket = b
                          /\ r = [hits |-> c.hits, of |-> c.of]
    BY DEF Lookup
  <1>2. WasMeasured(c.engine, c.attribute, c.n, c.bucket, c) BY DEF EvalInv, MapInv
  <1>3. QED BY <1>1, <1>2 DEF WasMeasured

\* So is what a candidate gets from it, as guesses of one tenth share a bucket.
LEMMA CalibratedMeasured ==
    ASSUME EvalInv, NEW t, NEW a, NEW c, NEW r \in Calibrated(t, a, c)
    PROVE  WasMeasured(attack[t].engine, a, attack[t].runs, c.raw, r)
  <1>1. WasMeasured(attack[t].engine, a, attack[t].runs, Bucket(c.raw), r)
    BY LookupMeasured DEF Calibrated
  <1>2. \A s: SameTenth(s.raw, Bucket(c.raw)) <=> SameTenth(s.raw, c.raw)
    BY BucketTwice, TenthIsBucket
  <1>3. \A e: Alike(e, a, attack[t].runs, Bucket(c.raw)) = Alike(e, a, attack[t].runs, c.raw)
    BY <1>2 DEF Alike
  <1>4. QED BY <1>1, <1>3 DEF WasMeasured

\* A sequence with one more element.
LEMMA Appended ==
    ASSUME NEW S, NEW s \in Seq(S), NEW x, NEW u, u = Append(s, x)
    PROVE  /\ DOMAIN u = DOMAIN s \cup {Len(s) + 1}
           /\ \A k \in DOMAIN s: u[k] = s[k]
           /\ u[Len(s) + 1] = x
           /\ u \in Seq({u[k]: k \in DOMAIN u})
  <1>1. u \in Seq(S \cup {x}) BY SMT
  <1>2. Len(u) = Len(s) + 1 /\ Len(s) \in Nat BY SMT
  <1>3. DOMAIN u = 1..(Len(s) + 1) /\ DOMAIN s = 1..Len(s) BY <1>1, <1>2
  <1> DEFINE T == {u[k]: k \in DOMAIN u}
  <1>4. \A k \in 1..Len(u): u[k] \in T BY <1>2, <1>3
  <1>5. u \in Seq(T) BY <1>1, <1>4, SeqDef
  <1>6. /\ \A k \in DOMAIN s: u[k] = s[k]
        /\ u[Len(s) + 1] = x
    BY <1>3
  <1>7. QED BY <1>3, <1>5, <1>6

\* Requests do not notice a step that leaves them alone and gives no consent.
LEMMA ReadsStay ==
    ASSUME IInv, UNCHANGED read, consent' => consent
    PROVE  SeenInv' /\ DetailInv' /\ MaskedUnlessConsented'
  BY DEF IInv, SeenInv, DetailInv, MaskedUnlessConsented

\* An execution begins with nothing found.
LEMMA AttackBeginsStep ==
    ASSUME IInv, NEW t \in Attacks, AttackBegins(t)
    PROVE  IInv'
  <1> USE DEF IInv
  <1> DEFINE c == 1 + Cardinality({s \in Attacks: attack[s].stage # "idle"})
  <1> HIDE DEF c
  <1>1. /\ UNCHANGED <<benchVars, defence, inferences, options, consent, erased, read>>
        /\ \E v \in Versions: \E n \in Ensembles: \E g \in Inferred[n]:
              attack' = [attack EXCEPT ![t] =
                 [stage |-> "open", began |-> c, engine |-> v, runs |-> n,
                  guess |-> [a \in {b \in DOMAIN g: b \in Art9 => consent} |-> g[a]],
                  found |-> [a \in {b \in DOMAIN g: b \in Art9 => consent} |-> <<>>]]]
    BY Zenon DEF AttackBegins, c
  <1>2. EvalInv' /\ \A e \in Evals: stage[e] = "done" => Settled(e) BY <1>1, EvalStep
  <1>3. PICK v \in Versions: \E n \in Ensembles: \E g \in Inferred[n]:
            attack' = [attack EXCEPT ![t] =
                 [stage |-> "open", began |-> c, engine |-> v, runs |-> n,
                  guess |-> [a \in {b \in DOMAIN g: b \in Art9 => consent} |-> g[a]],
                  found |-> [a \in {b \in DOMAIN g: b \in Art9 => consent} |-> <<>>]]]
    BY <1>1
  <1>4. PICK n \in Ensembles: \E g \in Inferred[n]:
            attack' = [attack EXCEPT ![t] =
                 [stage |-> "open", began |-> c, engine |-> v, runs |-> n,
                  guess |-> [a \in {b \in DOMAIN g: b \in Art9 => consent} |-> g[a]],
                  found |-> [a \in {b \in DOMAIN g: b \in Art9 => consent} |-> <<>>]]]
    BY <1>3
  <1>5. PICK g \in Inferred[n]:
            attack' = [attack EXCEPT ![t] =
                 [stage |-> "open", began |-> c, engine |-> v, runs |-> n,
                  guess |-> [a \in {b \in DOMAIN g: b \in Art9 => consent} |-> g[a]],
                  found |-> [a \in {b \in DOMAIN g: b \in Art9 => consent} |-> <<>>]]]
    BY <1>4
  <1> DEFINE D == {b \in DOMAIN g: b \in Art9 => consent}
  <1>6. /\ DOMAIN attack' = Attacks
        /\ \A s \in Attacks: s # t => attack'[s] = attack[s]
        /\ DOMAIN attack'[t] = {"stage", "began", "engine", "runs", "guess", "found"}
        /\ attack'[t].stage = "open" /\ DOMAIN attack'[t].guess = D
        /\ DOMAIN attack'[t].found = D /\ \A a \in D: attack'[t].found[a] = <<>>
    BY <1>5 DEF TypeOK
  <1>7. DOMAIN <<>> = {} /\ \A T: <<>> \in Seq(T) BY EmptySeq
  <1>8. TypeOK' BY <1>1, <1>6, <1>7 DEF TypeOK
  <1>9. \A i \in Rows(t)': DOMAIN i.candidates = {} BY <1>6, <1>7 DEF Rows
  <1>10. FoundInv' BY <1>2, <1>6, <1>9, FoundStep
  <1>11. KeptWasMeasured' BY <1>1, <1>2, ReliabilityStays
  <1>12. QED BY <1>1, <1>2, <1>8, <1>10, <1>11, ReadsStay

\* The next candidate gets the reliability of the map.
LEMMA PersistCandidateStep ==
    ASSUME IInv, NEW t \in Attacks, PersistCandidate(t)
    PROVE  IInv'
  <1> USE DEF IInv
  <1> DEFINE d == Attributes[Min(Unfinished(t))]
             c == attack[t].guess[d][Len(attack[t].found[d]) + 1]
             x == [rank |-> c.rank, value |-> c.value, raw |-> c.raw,
                   reliability |-> Calibrated(t, d, c)]
             s == attack[t].found[d]
             u == Append(s, x)
  <1>1. /\ UNCHANGED <<benchVars, defence, inferences, options, consent, erased, read>>
        /\ attack' = [attack EXCEPT ![t].found[d] = u]
    BY DEF PersistCandidate
  <1>2. EvalInv' /\ \A e \in Evals: stage[e] = "done" => Settled(e) BY <1>1, EvalStep
  <1>3. \A r \in x.reliability: WasMeasured(attack[t].engine, d, attack[t].runs, x.raw, r)
    BY CalibratedMeasured
  <1> HIDE DEF x, d, c, u, s
  <1>4. /\ DOMAIN attack' = Attacks
        /\ \A q \in Attacks: q # t => attack'[q] = attack[q]
        /\ DOMAIN attack'[t] = DOMAIN attack[t]
        /\ attack'[t].stage = attack[t].stage /\ attack'[t].guess = attack[t].guess
        /\ attack'[t].engine = attack[t].engine /\ attack'[t].runs = attack[t].runs
        /\ attack'[t].found = [attack[t].found EXCEPT ![d] = u]
    BY <1>1 DEF TypeOK
  <1>5. /\ DOMAIN attack'[t].found = DOMAIN attack[t].found
        /\ \A a \in DOMAIN attack[t].found:
               attack'[t].found[a] = IF a = d THEN u ELSE attack[t].found[a]
    BY <1>4
  <1>6. ASSUME d \in DOMAIN attack[t].found
        PROVE  /\ u \in Seq({u[k]: k \in DOMAIN u})
               /\ DOMAIN u = DOMAIN s \cup {Len(s) + 1}
               /\ \A k \in DOMAIN s: u[k] = s[k]
               /\ u[Len(s) + 1] = x
    <2> DEFINE S == {s[k]: k \in DOMAIN s}
    <2>1. s \in Seq(S) BY <1>6 DEF TypeOK, s
    <2> HIDE DEF S
    <2>2. u = Append(s, x) BY DEF u
    <2>3. QED BY <2>1, <2>2, Appended
  <1>7. TypeOK'
    <2>1. ASSUME NEW q \in Attacks, NEW a \in DOMAIN attack'[q].found
          PROVE  attack'[q].found[a] \in
                    Seq({attack'[q].found[a][k]: k \in DOMAIN attack'[q].found[a]})
      <3>1. CASE q # t BY <1>4, <2>1, <3>1 DEF TypeOK
      <3>2. CASE q = t /\ a # d BY <1>5, <2>1, <3>2 DEF TypeOK
      <3>3. CASE q = t /\ a = d
        <4>1. attack'[q].found[a] = u BY <1>5, <2>1, <3>3
        <4>2. QED BY <1>5, <1>6, <2>1, <3>3, <4>1
      <3>4. QED BY <3>1, <3>2, <3>3
    <2>2. ASSUME NEW q \in Attacks
          PROVE  /\ DOMAIN attack'[q] = {"stage", "began", "engine", "runs", "guess", "found"}
                 /\ attack'[q].stage \in {"idle", "open", "done", "failed"}
                 /\ DOMAIN attack'[q].guess = DOMAIN attack'[q].found
      BY <1>4, <1>5 DEF TypeOK
    <2>3. QED BY <1>1, <1>4, <2>1, <2>2 DEF TypeOK
  <1>8. ASSUME NEW i \in Rows(t)', NEW k \in DOMAIN i.candidates,
               NEW r \in i.candidates[k].reliability
        PROVE  WasMeasured(i.engine, i.attribute, i.runs, i.candidates[k].raw, r)
    <2>1. PICK a \in DOMAIN attack'[t].guess:
             i = [run |-> t, attribute |-> a, began |-> attack'[t].began,
                  engine |-> attack'[t].engine, runs |-> attack'[t].runs,
                  candidates |-> attack'[t].found[a]]
      BY <1>8 DEF Rows
    <2>2. /\ i.engine = attack[t].engine /\ i.attribute = a /\ i.runs = attack[t].runs
          /\ i.candidates = attack'[t].found[a]
      BY <1>4, <2>1
    <2>3. a \in DOMAIN attack[t].guess /\ a \in DOMAIN attack[t].found
      BY <1>4, <2>1 DEF TypeOK
    <2> DEFINE j == [run |-> t, attribute |-> a, began |-> attack[t].began,
                     engine |-> attack[t].engine, runs |-> attack[t].runs,
                     candidates |-> attack[t].found[a]]
    <2>4. j \in Rows(t) BY <2>3 DEF Rows
    <2>5. \A m \in DOMAIN j.candidates: \A z \in j.candidates[m].reliability:
              WasMeasured(j.engine, j.attribute, j.runs, j.candidates[m].raw, z)
      BY <2>4 DEF FoundInv
    <2>6. \A m \in DOMAIN attack[t].found[a]: \A z \in attack[t].found[a][m].reliability:
              WasMeasured(i.engine, i.attribute, i.runs, attack[t].found[a][m].raw, z)
      BY <2>2, <2>5
    <2>7. CASE a # d BY <1>5, <1>8, <2>2, <2>3, <2>6, <2>7
    <2>8. CASE a = d
      <3>1. i.candidates = u BY <1>5, <2>2, <2>3, <2>8
      <3>2. CASE k \in DOMAIN s
        <4>1. u[k] = s[k] /\ s = attack[t].found[a] BY <1>6, <2>3, <2>8, <3>2 DEF s
        <4>2. QED BY <1>8, <2>6, <3>1, <3>2, <4>1
      <3>3. CASE k = Len(s) + 1
        <4>1. i.candidates[k] = x BY <1>6, <2>3, <2>8, <3>1, <3>3
        <4>2. QED BY <1>3, <1>8, <2>2, <2>8, <4>1
      <3>4. QED BY <1>6, <1>8, <2>3, <2>8, <3>1, <3>2, <3>3
    <2>9. QED BY <2>7, <2>8
  <1>9. FoundInv' BY <1>2, <1>4, <1>8, FoundStep
  <1>10. KeptWasMeasured' BY <1>1, <1>2, ReliabilityStays
  <1>11. QED BY <1>1, <1>2, <1>7, <1>9, <1>10, ReadsStay

\* An execution that is over has nothing found of its own.
LEMMA AttackOverStep ==
    ASSUME IInv, NEW t \in Attacks, NEW how \in {"done", "failed"},
           attack' = [attack EXCEPT ![t].stage = how, ![t].guess = <<>>, ![t].found = <<>>],
           UNCHANGED <<benchVars, defence, consent, erased, read>>
    PROVE  /\ EvalInv' /\ TypeOK' /\ FoundInv' /\ SeenInv' /\ DetailInv' /\ MaskedUnlessConsented'
           /\ \A e \in Evals: stage[e] = "done" => Settled(e)
  <1> USE DEF IInv
  <1>1. EvalInv' /\ \A e \in Evals: stage[e] = "done" => Settled(e) BY EvalStep
  <1>2. /\ DOMAIN attack' = Attacks
        /\ \A s \in Attacks: s # t => attack'[s] = attack[s]
        /\ DOMAIN attack'[t] = DOMAIN attack[t]
        /\ attack'[t].stage = how /\ attack'[t].guess = <<>> /\ attack'[t].found = <<>>
    BY DEF TypeOK
  <1>3. DOMAIN <<>> = {} OBVIOUS
  <1>4. TypeOK' BY <1>2, <1>3 DEF TypeOK
  <1>5. Rows(t)' = {} BY <1>2, <1>3 DEF Rows
  <1>6. FoundInv' BY <1>1, <1>2, <1>5, FoundStep
  <1>7. QED BY <1>1, <1>4, <1>6, ReadsStay

\* What an execution leaves carries what it found.
LEMMA AttackEndsStep ==
    ASSUME IInv, NEW t \in Attacks, AttackEnds(t)
    PROVE  IInv'
  <1> USE DEF IInv
  <1>1. /\ attack' = [attack EXCEPT ![t].stage = "done", ![t].guess = <<>>, ![t].found = <<>>]
        /\ inferences' = inferences \cup Rows(t)
        /\ UNCHANGED <<benchVars, defence, options, consent, erased, read>>
    BY DEF AttackEnds
  <1>2. /\ EvalInv' /\ TypeOK' /\ FoundInv' /\ SeenInv' /\ DetailInv' /\ MaskedUnlessConsented'
        /\ \A e \in Evals: stage[e] = "done" => Settled(e)
    BY <1>1, AttackOverStep
  <1>3. KeptWasMeasured'
    <2>1. ASSUME NEW i \in inferences', NEW k \in DOMAIN i.candidates,
                 NEW r \in i.candidates[k].reliability
          PROVE  WasMeasured(i.engine, i.attribute, i.runs, i.candidates[k].raw, r)'
      <3>1. WasMeasured(i.engine, i.attribute, i.runs, i.candidates[k].raw, r)
        BY <1>1, <2>1 DEF KeptWasMeasured, FoundInv
      <3>2. QED BY <1>2, <3>1, MeasuredStays
    <2>2. QED BY <2>1 DEF KeptWasMeasured
  <1>4. QED BY <1>2, <1>3

\* A rolled back one leaves nothing.
LEMMA AttackFailsStep ==
    ASSUME IInv, NEW t \in Attacks, AttackFails(t)
    PROVE  IInv'
  <1> USE DEF IInv
  <1>1. /\ attack' = [attack EXCEPT ![t].stage = "failed", ![t].guess = <<>>, ![t].found = <<>>]
        /\ UNCHANGED <<benchVars, defence, inferences, options, consent, erased, read>>
    BY DEF AttackFails
  <1>2. /\ EvalInv' /\ TypeOK' /\ FoundInv' /\ SeenInv' /\ DetailInv' /\ MaskedUnlessConsented'
        /\ \A e \in Evals: stage[e] = "done" => Settled(e)
    BY <1>1, AttackOverStep
  <1>3. KeptWasMeasured' BY <1>1, <1>2, ReliabilityStays
  <1>4. QED BY <1>2, <1>3

\* Nothing happens to the executions.
LEMMA FoundStays ==
    ASSUME FoundInv, \A e \in Evals: stage[e] = "done" => Settled(e), UNCHANGED attack
    PROVE  FoundInv'
  <1>1. \A s \in Attacks: Rows(s)' = Rows(s) BY DEF Rows
  <1>2. QED BY <1>1, MeasuredStays DEF FoundInv

-----------------------------------------------------------------------------
(* Remediation runs, consent, erasure *)

\* Remediation runs add nothing the invariant is about.
LEMMA DefenceStep ==
    ASSUME IInv, NEW d \in Defences, DefenceBegins(d) \/ DefenceEnds(d)
    PROVE  IInv'
  <1> USE DEF IInv
  <1>1. UNCHANGED <<benchVars, attack, inferences, consent, erased, read>>
    BY DEF DefenceBegins, DefenceEnds
  <1>2. EvalInv' /\ \A e \in Evals: stage[e] = "done" => Settled(e) BY <1>1, EvalStep
  <1>3. DOMAIN defence' = DOMAIN defence BY DEF DefenceBegins, DefenceEnds
  <1>4. TypeOK' BY <1>1, <1>3 DEF TypeOK
  <1>5. FoundInv' /\ KeptWasMeasured' BY <1>1, <1>2, FoundStays, ReliabilityStays
  <1>6. QED BY <1>1, <1>2, <1>4, <1>5, ReadsStay

\* A request under way while the consent is given is permitted.
LEMMA ConsentStep ==
    ASSUME IInv, ConsentChanges
    PROVE  IInv'
  <1> USE DEF IInv
  <1>1. /\ UNCHANGED <<benchVars, runVars, erased>> /\ consent' = ~consent
        /\ read' = [read EXCEPT !.permitted = @ \/ (Reading /\ ~consent)]
    BY DEF ConsentChanges
  <1>2. EvalInv' /\ \A e \in Evals: stage[e] = "done" => Settled(e) BY <1>1, EvalStep
  <1>3. /\ DOMAIN read' = DOMAIN read /\ read'.pc = read.pc /\ read'.kind = read.kind
        /\ read'.about = read.about /\ read'.seen = read.seen /\ read'.answer = read.answer
        /\ read'.permitted = (read.permitted \/ (Reading /\ ~consent))
    BY <1>1 DEF TypeOK
  <1>4. UNCHANGED <<attack, defence, inferences>> BY <1>1 DEF runVars
  <1>5. Reading \in BOOLEAN /\ consent \in BOOLEAN BY DEF Reading, TypeOK
  <1>6. TypeOK' BY <1>1, <1>3, <1>4, <1>5 DEF TypeOK
  <1>7. FoundInv' /\ KeptWasMeasured' BY <1>2, <1>4, FoundStays, ReliabilityStays
  <1>8. SeenInv' BY <1>1, <1>3 DEF SeenInv, Reading
  <1>9. DetailInv' BY <1>3 DEF DetailInv
  <1>10. MaskedUnlessConsented' BY <1>3 DEF MaskedUnlessConsented
  <1>11. QED BY <1>2, <1>6, <1>7, <1>8, <1>9, <1>10

\* The user is erased.
LEMMA EraseStep ==
    ASSUME IInv, Erase
    PROVE  IInv'
  <1> USE DEF IInv
  <1>1. /\ UNCHANGED <<benchVars, attack, defence>> /\ consent' = FALSE /\ erased' = TRUE
        /\ inferences' = {} /\ read' = [read EXCEPT !.torn = @ \/ Reading]
    BY DEF Erase
  <1>2. EvalInv' /\ \A e \in Evals: stage[e] = "done" => Settled(e) BY <1>1, EvalStep
  <1>3. /\ DOMAIN read' = DOMAIN read /\ read'.pc = read.pc /\ read'.kind = read.kind
        /\ read'.about = read.about /\ read'.seen = read.seen /\ read'.answer = read.answer
        /\ read'.permitted = read.permitted
    BY <1>1 DEF TypeOK
  <1>4. TypeOK'
    <2>1. attack' = attack /\ defence' = defence /\ consent' \in BOOLEAN /\ erased' \in BOOLEAN
      BY <1>1
    <2>2. QED BY <1>3, <2>1 DEF TypeOK
  <1>5. FoundInv' /\ KeptWasMeasured' BY <1>1, <1>2, FoundStays, ReliabilityStays
  <1>6. SeenInv' BY <1>1, <1>3 DEF SeenInv
  <1>7. DetailInv' BY <1>3 DEF DetailInv
  <1>8. MaskedUnlessConsented' BY <1>3 DEF MaskedUnlessConsented
  <1>9. QED BY <1>2, <1>4, <1>5, <1>6, <1>7, <1>8

-----------------------------------------------------------------------------
(* Requests *)

\* What a statement of a request has to establish.
ReadInv == SeenInv /\ DetailInv /\ MaskedUnlessConsented

\* Nothing of an art. 9 attribute is shown without the consent.
LEMMA MaskedWithout == \A a \in Art9: \A what: Masked(a, what, FALSE) = {}
  BY DEF Masked

\* A sequence is told by its elements.
LEMMA AppendsTo ==
    ASSUME NEW S, NEW s \in Seq(S), NEW x \in S, NEW u \in Seq(S), Len(u) = Len(s) + 1,
           \A i \in 1..Len(s): u[i] = s[i], u[Len(s) + 1] = x
    PROVE  Append(s, x) = u
  <1> DEFINE v == Append(s, x)
  <1>1. /\ v \in Seq(S) /\ Len(v) = Len(s) + 1
        /\ \A i \in 1..Len(s): v[i] = s[i]
        /\ v[Len(s) + 1] = x
    BY AppendProperties
  <1> HIDE DEF v
  <1>2. Len(s) \in Nat BY LenProperties
  <1>3. \A i \in 1..Len(u): v[i] = u[i] BY <1>1, <1>2
  <1>4. v = u BY <1>1, <1>3, SeqEqual
  <1>5. QED BY <1>4 DEF v

\* A finding grows by a part at a time.
LEMMA Grows ==
    ASSUME NEW x, NEW y, NEW z
    PROVE  Append(<<x>>, y) = <<x, y>> /\ Append(<<x, y>>, z) = <<x, y, z>>
  <1> DEFINE S == {x, y, z}
             a == <<x>>  b == <<x, y>>  c == <<x, y, z>>
  <1>1. a \in Seq(S) /\ Len(a) = 1 /\ a[1] = x OBVIOUS
  <1>2. b \in Seq(S) /\ Len(b) = 2 /\ b[1] = x /\ b[2] = y OBVIOUS
  <1>3. c \in Seq(S) /\ Len(c) = 3 /\ c[1] = x /\ c[2] = y /\ c[3] = z OBVIOUS
  <1>4. y \in S /\ z \in S OBVIOUS
  <1> HIDE DEF S, a, b, c
  <1>5. Append(a, y) = b
    <2>1. Len(b) = Len(a) + 1 /\ (\A i \in 1..Len(a): b[i] = a[i]) /\ b[Len(a) + 1] = y
      BY <1>1, <1>2
    <2>2. QED BY <1>1, <1>2, <1>4, <2>1, AppendsTo
  <1>6. Append(b, z) = c
    <2>1. Len(c) = Len(b) + 1 /\ (\A i \in 1..Len(b): c[i] = b[i]) /\ c[Len(b) + 1] = z
      BY <1>2, <1>3
    <2>2. QED BY <1>2, <1>3, <1>4, <2>1, AppendsTo
  <1>7. QED BY <1>5, <1>6 DEF a, b, c

\* The request that is put together in one statement.
LEMMA ReadCardsStep ==
    ASSUME IInv, ReadCards
    PROVE  ReadInv' /\ TypeOK' /\ UNCHANGED <<benchVars, attack, defence, inferences>>
  <1> USE DEF IInv
  <1>1. /\ read.pc = "cards" /\ UNCHANGED <<benchVars, runVars, consent, erased>>
        /\ DOMAIN read' = DOMAIN read /\ read'.pc = "answered" /\ read'.kind = read.kind
        /\ read'.about = read.about /\ read'.seen = read.seen /\ read'.permitted = read.permitted
        /\ read'.answer = CardsOf(inferences, read.seen)
    BY DEF ReadCards, Statement, TypeOK
  <1>2. read.kind = "cards" BY <1>1 DEF DetailInv
  <1>3. TypeOK' BY <1>1 DEF TypeOK, runVars
  <1>4. ASSUME ~read.permitted, NEW c \in CardsOf(inferences, read.seen), c.attribute \in Art9
        PROVE  c.value = {}
    <2>1. read.seen = FALSE BY <1>4 DEF SeenInv, TypeOK
    <2>2. PICK i \in inferences:
             c = [attribute |-> i.attribute, run |-> i.run,
                  value |-> UNION {Masked(i.attribute, q.value, read.seen): q \in Top(i)},
                  reliability |-> UNION {q.reliability: q \in Top(i)}]
      BY <1>4 DEF CardsOf
    <2>3. \A q \in Top(i): Masked(i.attribute, q.value, read.seen) = {}
      BY <1>4, <2>1, <2>2, MaskedWithout
    <2>4. UNION {Masked(i.attribute, q.value, read.seen): q \in Top(i)} = {} BY <2>3
    <2>5. QED BY <2>2, <2>4
  <1>5. SeenInv' BY <1>1 DEF SeenInv
  <1>6. DetailInv' BY <1>1 DEF DetailInv
  <1>7. MaskedUnlessConsented' BY <1>1, <1>2, <1>4 DEF MaskedUnlessConsented
  <1>8. QED BY <1>1, <1>3, <1>5, <1>6, <1>7 DEF ReadInv, runVars

\* The first statement of a finding.
LEMMA ReadHeadStep ==
    ASSUME IInv, ReadHead
    PROVE  ReadInv' /\ TypeOK' /\ UNCHANGED <<benchVars, attack, defence, inferences>>
  <1> USE DEF IInv
  <1>1. /\ read.pc = "detail" /\ UNCHANGED <<benchVars, runVars, consent, erased>>
        /\ DOMAIN read' = DOMAIN read /\ read'.kind = read.kind
        /\ read'.about = read.about /\ read'.seen = read.seen /\ read'.permitted = read.permitted
        /\ \/ read'.pc = "answered" /\ read'.answer = read.answer
           \/ read'.pc = "candidates" /\ \E i \in inferences: read'.answer = <<HeadShown(i, read.seen)>>
    BY DEF ReadHead, Statement, TypeOK, With
  <1>2. read.answer = <<>> /\ read.kind = "detail" BY <1>1 DEF DetailInv
  <1>3. TypeOK' BY <1>1 DEF TypeOK, runVars
  <1>4. SeenInv' BY <1>1 DEF SeenInv
  <1>5. DetailInv'
    <2>1. read'.pc = "candidates" => \E head \in {read'.answer[1]}: read'.answer = <<head>>
      BY <1>1
    <2>2. read'.pc \in {"answered", "candidates"} BY <1>1
    <2>3. QED BY <1>1, <1>2, <2>1, <2>2 DEF DetailInv
  <1>6. MaskedUnlessConsented'
    <2>1. read'.pc = "answered" => read'.answer = <<>> BY <1>1, <1>2
    <2>2. Len(<<>>) = 0 OBVIOUS
    <2>3. QED BY <1>1, <1>2, <2>1, <2>2 DEF MaskedUnlessConsented
  <1>7. QED BY <1>1, <1>3, <1>4, <1>5, <1>6 DEF ReadInv, runVars

\* The second statement of a finding: the values.
LEMMA ReadCandidatesStep ==
    ASSUME IInv, ReadCandidates
    PROVE  ReadInv' /\ TypeOK' /\ UNCHANGED <<benchVars, attack, defence, inferences>>
  <1> USE DEF IInv
  <1>1. PICK shown \in (IF With(read.about) = {} THEN {<<>>}
                        ELSE {CandidatesShown(i, read.seen): i \in With(read.about)}):
           /\ read.pc = "candidates" /\ UNCHANGED <<benchVars, runVars, consent, erased>>
           /\ DOMAIN read' = DOMAIN read /\ read'.pc = "evidence" /\ read'.kind = read.kind
           /\ read'.about = read.about /\ read'.seen = read.seen /\ read'.permitted = read.permitted
           /\ read'.answer = Append(read.answer, shown)
    BY DEF ReadCandidates, Statement, TypeOK
  <1>2. PICK head \in {read.answer[1]}: read.answer = <<head>> BY <1>1 DEF DetailInv
  <1>3. read'.answer = <<head, shown>>
    <2>1. read'.answer = Append(<<head>>, shown) BY <1>1, <1>2
    <2>2. QED BY <2>1, Grows
  <1>4. ASSUME ~read.permitted, read.about[2] \in Art9, NEW k \in DOMAIN shown
        PROVE  shown[k].value = {}
    <2>1. read.seen = FALSE BY <1>4 DEF SeenInv, TypeOK
    <2>2. CASE With(read.about) = {} BY <1>4, <2>2
    <2>3. CASE With(read.about) # {}
      <3>1. PICK i \in With(read.about): shown = CandidatesShown(i, read.seen) BY <2>3
      <3>2. i.attribute = read.about[2] BY <3>1 DEF With, Id
      <3>3. shown[k].value = Masked(i.attribute, i.candidates[k].value, read.seen)
        BY <1>4, <3>1 DEF CandidatesShown
      <3>4. QED BY <1>4, <2>1, <3>2, <3>3, MaskedWithout
    <2>4. QED BY <2>2, <2>3
  <1>5. TypeOK' BY <1>1 DEF TypeOK, runVars
  <1>6. SeenInv' BY <1>1 DEF SeenInv
  <1>7. DetailInv'
    <2>1. \E h \in {read'.answer[1]}: \E q \in {read'.answer[2]}: read'.answer = <<h, q>>
      BY <1>3
    <2>2. read'.answer[2] = shown BY <1>3
    <2>3. ~read'.permitted /\ read'.about[2] \in Art9 =>
             \A k \in DOMAIN read'.answer[2]: read'.answer[2][k].value = {}
      BY <1>1, <1>4, <2>2
    <2>4. read'.kind = "detail" BY <1>1 DEF DetailInv
    <2>5. QED BY <1>1, <2>1, <2>3, <2>4 DEF DetailInv
  <1>8. MaskedUnlessConsented' BY <1>1 DEF MaskedUnlessConsented
  <1>9. QED BY <1>1, <1>5, <1>6, <1>7, <1>8 DEF ReadInv, runVars

\* The third: the rationales.
LEMMA ReadEvidenceStep ==
    ASSUME IInv, ReadEvidence
    PROVE  ReadInv' /\ TypeOK' /\ UNCHANGED <<benchVars, attack, defence, inferences>>
  <1> USE DEF IInv
  <1> DEFINE z == UNION {RationalesShown(i, read.seen): i \in With(read.about)}
  <1>1. /\ read.pc = "evidence" /\ UNCHANGED <<benchVars, runVars, consent, erased>>
        /\ DOMAIN read' = DOMAIN read /\ read'.pc = "answered" /\ read'.kind = read.kind
        /\ read'.about = read.about /\ read'.seen = read.seen /\ read'.permitted = read.permitted
        /\ read'.answer = Append(read.answer, z)
    BY DEF ReadEvidence, Statement, TypeOK
  <1>2. PICK head \in {read.answer[1]}: \E shown \in {read.answer[2]}: read.answer = <<head, shown>>
    BY <1>1 DEF DetailInv
  <1>3. PICK shown \in {read.answer[2]}: read.answer = <<head, shown>> BY <1>2
  <1>4. ASSUME ~read.permitted, read.about[2] \in Art9 PROVE z = {}
    <2>1. read.seen = FALSE BY <1>4 DEF SeenInv, TypeOK
    <2>2. ASSUME NEW i \in With(read.about) PROVE RationalesShown(i, read.seen) = {}
      <3>1. i.attribute = read.about[2] BY <2>2 DEF With, Id
      <3>2. \A k \in DOMAIN i.candidates: Masked(i.attribute, k, read.seen) = {}
        BY <1>4, <2>1, <3>1, MaskedWithout
      <3>3. QED BY <3>2 DEF RationalesShown
    <2>3. QED BY <2>2
  <1> HIDE DEF z
  <1>5. read'.answer = <<head, shown, z>>
    <2>1. read'.answer = Append(<<head, shown>>, z) BY <1>1, <1>3
    <2>2. QED BY <2>1, Grows
  <1>6. read'.answer[2] = read.answer[2] /\ read'.answer[3] = z BY <1>3, <1>5
  <1>7. TypeOK' BY <1>1 DEF TypeOK, runVars
  <1>8. SeenInv' BY <1>1 DEF SeenInv
  <1>9. DetailInv' BY <1>1 DEF DetailInv
  <1>10. ~read.permitted /\ read.about[2] \in Art9 =>
             \A k \in DOMAIN read.answer[2]: read.answer[2][k].value = {}
    BY <1>1 DEF DetailInv
  <1>11. read'.kind = "detail" BY <1>1 DEF DetailInv
  <1>12. MaskedUnlessConsented' BY <1>1, <1>4, <1>6, <1>10, <1>11 DEF MaskedUnlessConsented
  <1>13. QED BY <1>1, <1>7, <1>8, <1>9, <1>12 DEF ReadInv, runVars

\* The requests about remediations show no attribute the consent is about.
LEMMA ReadRemediationStep ==
    ASSUME IInv, ReadRuns \/ ReadFrontier \/ ReadAbout \/ ReadValue \/ ReadTarget \/ ReadReliability
    PROVE  ReadInv' /\ TypeOK' /\ UNCHANGED <<benchVars, attack, defence, inferences>>
  <1> USE DEF IInv
  <1>1. /\ read.pc \in {"runs", "frontier", "about", "value", "target", "reliability"}
        /\ UNCHANGED <<benchVars, runVars, consent, erased>>
        /\ DOMAIN read' = DOMAIN read /\ read'.kind = read.kind
        /\ read'.pc \in {"frontier", "about", "value", "target", "reliability", "answered"}
        /\ read'.about = read.about /\ read'.seen = read.seen /\ read'.permitted = read.permitted
    <2>1. CASE ReadRuns BY <2>1 DEF ReadRuns, Statement, TypeOK
    <2>2. CASE ReadFrontier
      <3>1. CASE read.queue = <<>> BY <2>2, <3>1 DEF ReadFrontier, TypeOK
      <3>2. CASE read.queue # <<>> BY <2>2, <3>2 DEF ReadFrontier, Statement, TypeOK
      <3>3. QED BY <3>1, <3>2
    <2>3. CASE ReadAbout BY <2>3 DEF ReadAbout, Statement, TypeOK
    <2>4. CASE ReadValue BY <2>4 DEF ReadValue, Statement, TypeOK
    <2>5. CASE ReadTarget BY <2>5 DEF ReadTarget, Statement, TypeOK
    <2>6. CASE ReadReliability BY <2>6 DEF ReadReliability, Statement, TypeOK
    <2>7. QED BY <2>1, <2>2, <2>3, <2>4, <2>5, <2>6
  <1>2. read.kind \in {"list", "frontier"} BY <1>1 DEF DetailInv
  <1>3. TypeOK' BY <1>1 DEF TypeOK, runVars
  <1>4. SeenInv' BY <1>1 DEF SeenInv
  <1>5. DetailInv' BY <1>1, <1>2 DEF DetailInv
  <1>6. MaskedUnlessConsented' BY <1>1, <1>2 DEF MaskedUnlessConsented
  <1>7. QED BY <1>1, <1>3, <1>4, <1>5, <1>6 DEF ReadInv, runVars

\* A request is made, and the consent is read.
LEMMA AskStep ==
    ASSUME IInv, Ask \/ ReadConsent
    PROVE  ReadInv' /\ TypeOK' /\ UNCHANGED <<benchVars, attack, defence, inferences>>
  <1> USE DEF IInv
  <1>1. CASE Ask
    <2>1. /\ UNCHANGED <<benchVars, runVars, consent, erased>> /\ read.pc = "idle"
          /\ DOMAIN read' = DOMAIN read /\ read'.seen = read.seen /\ read'.answer = read.answer
          /\ \/ /\ read'.pc = "consent" /\ read'.kind \in {"cards", "detail"}
                /\ read'.permitted = consent
             \/ /\ read'.pc \in {"runs", "frontier"} /\ read'.kind \in {"list", "frontier"}
                /\ read'.permitted = read.permitted
      BY <1>1 DEF Ask, TypeOK
    <2>2. TypeOK' BY <2>1 DEF TypeOK, runVars
    <2>3. SeenInv' BY <2>1 DEF SeenInv
    <2>4. DetailInv' BY <2>1 DEF DetailInv
    <2>5. MaskedUnlessConsented' BY <2>1 DEF MaskedUnlessConsented
    <2>6. QED BY <2>1, <2>2, <2>3, <2>4, <2>5 DEF ReadInv, runVars
  <1>2. CASE ReadConsent
    <2>1. /\ UNCHANGED <<benchVars, runVars, consent, erased>> /\ read.pc = "consent"
          /\ DOMAIN read' = DOMAIN read /\ read'.seen = consent /\ read'.answer = read.answer
          /\ read'.pc = read.kind /\ read'.kind = read.kind /\ read'.about = read.about
          /\ read'.permitted = read.permitted
      BY <1>2 DEF ReadConsent, TypeOK
    <2>2. read.kind \in {"cards", "detail"} BY <2>1 DEF SeenInv
    <2>3. TypeOK' BY <2>1 DEF TypeOK, runVars
    <2>4. SeenInv' BY <2>1, <2>2 DEF SeenInv
    <2>5. DetailInv' BY <2>1, <2>2 DEF DetailInv
    <2>6. MaskedUnlessConsented' BY <2>1, <2>2 DEF MaskedUnlessConsented
    <2>7. QED BY <2>1, <2>3, <2>4, <2>5, <2>6 DEF ReadInv, runVars
  <1>3. QED BY <1>1, <1>2

\* Every statement of a request keeps the invariant.
LEMMA RequestStep ==
    ASSUME IInv, Request
    PROVE  IInv'
  <1>1. ReadInv' /\ TypeOK' /\ UNCHANGED <<benchVars, attack, defence, inferences>>
    BY AskStep, ReadCardsStep, ReadHeadStep, ReadCandidatesStep, ReadEvidenceStep,
       ReadRemediationStep DEF Request
  <1>2. EvalInv' /\ \A e \in Evals: stage[e] = "done" => Settled(e)
    BY <1>1, EvalStep DEF IInv
  <1>3. FoundInv' /\ KeptWasMeasured'
    BY <1>1, <1>2, FoundStays, ReliabilityStays DEF IInv
  <1>4. QED BY <1>1, <1>2, <1>3 DEF IInv, ReadInv

-----------------------------------------------------------------------------
(* Every step, and what the invariant gives. *)

\* A step of the benchmark moves neither runs nor requests.
LEMMA BenchmarkStep ==
    ASSUME IInv, EvalNext \/ UNCHANGED benchVars, UNCHANGED <<runVars, consent, erased, read>>
    PROVE  IInv'
  <1> USE DEF IInv
  <1>1. EvalInv' /\ \A e \in Evals: stage[e] = "done" => Settled(e) BY EvalStep
  <1>2. UNCHANGED <<attack, defence, inferences>> BY DEF runVars
  <1>3. TypeOK' BY <1>2 DEF TypeOK
  <1>4. FoundInv' /\ KeptWasMeasured' BY <1>1, <1>2, FoundStays, ReliabilityStays
  <1>5. QED BY <1>1, <1>3, <1>4, ReadsStay

\* Every step keeps the invariant.
LEMMA NextIInv == IInv /\ [Next]_vars => IInv'
  <1> SUFFICES ASSUME IInv, [Next]_vars PROVE IInv' OBVIOUS
  <1>1. CASE EvalNext /\ UNCHANGED <<runVars, consent, erased, read>> BY <1>1, BenchmarkStep
  <1>2. ASSUME NEW t \in Attacks,
               AttackBegins(t) \/ PersistCandidate(t) \/ AttackEnds(t) \/ AttackFails(t)
        PROVE  IInv'
    BY <1>2, AttackBeginsStep, PersistCandidateStep, AttackEndsStep, AttackFailsStep
  <1>3. ASSUME NEW d \in Defences, DefenceBegins(d) \/ DefenceEnds(d) PROVE IInv'
    BY <1>3, DefenceStep
  <1>4. CASE ConsentChanges BY <1>4, ConsentStep
  <1>5. CASE Erase BY <1>5, EraseStep
  <1>6. CASE Request BY <1>6, RequestStep
  <1>7. CASE UNCHANGED vars BY <1>7, BenchmarkStep DEF vars
  <1>8. QED BY <1>1, <1>2, <1>3, <1>4, <1>5, <1>6, <1>7 DEF Next

\* The inductive invariant holds in every reachable state, whatever the benchmark, the
\* runs and the order in which evals, runs, requests and the erasure commit.
THEOREM Invariance == Spec => []IInv
  BY InitIInv, NextIInv, PTL DEF Spec

\* A run that keeps what it has found, or has nothing, persists nothing.
LEMMA NothingPersisted ==
    ASSUME NEW t,
           \/ attack'[t].found = attack[t].found
           \/ \A a \in DOMAIN attack'[t].found: DOMAIN attack'[t].found[a] = {}
    PROVE  Persisted(t) = {}
  BY DEF Persisted

\* The map is complete: what it has nothing of was not measured.
LEMMA MissedWasNever ==
    ASSUME EvalInv, NEW t, NEW a, NEW c, Calibrated(t, a, c) = {}
    PROVE  NeverMeasured(t, a, c)
  <1> SUFFICES ASSUME NEW e \in Evals, stage[e] = "done", engine[e] = attack[t].engine,
                      NEW s \in Alike(e, a, attack[t].runs, c.raw)
               PROVE  FALSE
    BY DEF NeverMeasured
  <1>1. /\ s \in samples[e] /\ s.attribute = a /\ s.n = attack[t].runs
        /\ Bucket(s.raw) = Bucket(c.raw)
    BY TenthIsBucket DEF Alike
  <1>2. PICK d \in curve: /\ d.engine = engine[e] /\ d.attribute = s.attribute
                          /\ d.n = s.n /\ d.bucket = Bucket(s.raw)
    BY <1>1 DEF EvalInv, MapInv
  <1>3. [hits |-> d.hits, of |-> d.of] \in Calibrated(t, a, c)
    BY <1>1, <1>2 DEF Calibrated, Lookup
  <1>4. QED BY <1>3

\* The one candidate a run persists has the reliability the map gives it.
LEMMA PersistedIsNext ==
    ASSUME TypeOK, NEW t \in Attacks, PersistCandidate(t), NEW p \in Persisted(t)
    PROVE  \E c: /\ attack'[t].found[p[1]][p[2]].raw = c.raw
                 /\ attack'[t].found[p[1]][p[2]].reliability = Calibrated(t, p[1], c)
  <1> DEFINE d == Attributes[Min(Unfinished(t))]
             c == attack[t].guess[d][Len(attack[t].found[d]) + 1]
             x == [rank |-> c.rank, value |-> c.value, raw |-> c.raw,
                   reliability |-> Calibrated(t, d, c)]
             s == attack[t].found[d]
             u == Append(s, x)
  <1>1. attack' = [attack EXCEPT ![t].found[d] = u] BY DEF PersistCandidate
  <1>2. x.raw = c.raw /\ x.reliability = Calibrated(t, d, c) OBVIOUS
  <1>3. u = Append(s, x) OBVIOUS
  <1> HIDE DEF x, d, c, u
  <1>4. attack'[t].found = [attack[t].found EXCEPT ![d] = u] BY <1>1 DEF TypeOK
  <1>5. \A a \in DOMAIN attack[t].found:
            attack'[t].found[a] = IF a = d THEN u ELSE attack[t].found[a]
    BY <1>4
  <1>6. PICK a \in DOMAIN attack[t].found:
            \E k \in DOMAIN attack'[t].found[a] \ DOMAIN attack[t].found[a]: p = <<a, k>>
    BY DEF Persisted
  <1>7. PICK k \in DOMAIN attack'[t].found[a] \ DOMAIN attack[t].found[a]: p = <<a, k>>
    BY <1>6
  <1>8. a = d BY <1>5, <1>7
  <1>9. DOMAIN u = DOMAIN s \cup {Len(s) + 1} /\ u[Len(s) + 1] = x
    <2> DEFINE S == {s[m]: m \in DOMAIN s}
    <2>1. s \in Seq(S) BY <1>6, <1>8 DEF TypeOK
    <2> HIDE DEF S, s
    <2>2. QED BY <1>3, <2>1, Appended
  <1>10. attack'[t].found[d] = u BY <1>5, <1>6, <1>8
  <1>11. k = Len(s) + 1 BY <1>7, <1>8, <1>9, <1>10
  <1>12. p[1] = d /\ attack'[t].found[p[1]][p[2]] = x BY <1>7, <1>8, <1>9, <1>10, <1>11
  <1>13. QED BY <1>2, <1>12

\* A candidate goes without a reliability only if nothing like it was measured.
LEMMA MissedStep ==
    ASSUME IInv, [Next]_vars
    PROVE  \A t \in Attacks: \A p \in Persisted(t):
              LET c == attack'[t].found[p[1]][p[2]] IN
              c.reliability = {} => NeverMeasured(t, p[1], c)
  <1> SUFFICES ASSUME NEW t \in Attacks, NEW p \in Persisted(t),
                      attack'[t].found[p[1]][p[2]].reliability = {}
               PROVE  NeverMeasured(t, p[1], attack'[t].found[p[1]][p[2]])
    OBVIOUS
  <1> USE DEF IInv
  <1>1. CASE PersistCandidate(t)
    <2>1. PICK c: /\ attack'[t].found[p[1]][p[2]].raw = c.raw
                  /\ attack'[t].found[p[1]][p[2]].reliability = Calibrated(t, p[1], c)
      BY <1>1, PersistedIsNext
    <2>2. NeverMeasured(t, p[1], c) BY <2>1, MissedWasNever
    <2>3. QED BY <2>1, <2>2 DEF NeverMeasured
  <1>2. ASSUME NEW s \in Attacks, AttackBegins(s) PROVE Persisted(t) = {}
    <2>1. PICK f: /\ \A a \in DOMAIN f.found: f.found[a] = <<>>
                  /\ attack' = [attack EXCEPT ![s] = f]
      BY <1>2, Zenon DEF AttackBegins
    <2>2. CASE s = t
      <3>1. attack'[t] = f BY <2>1, <2>2 DEF TypeOK
      <3>2. DOMAIN <<>> = {} OBVIOUS
      <3>3. QED BY <2>1, <3>1, <3>2, NothingPersisted
    <2>3. CASE s # t
      <3>1. attack'[t] = attack[t] BY <2>1, <2>3
      <3>2. QED BY <3>1, NothingPersisted
    <2>4. QED BY <2>2, <2>3
  <1>3. ASSUME NEW s \in Attacks, s # t, PersistCandidate(s) PROVE Persisted(t) = {}
    <2>1. attack'[t] = attack[t] BY <1>3 DEF PersistCandidate, TypeOK
    <2>2. QED BY <2>1, NothingPersisted
  <1>4. ASSUME NEW s \in Attacks, AttackEnds(s) \/ AttackFails(s) PROVE Persisted(t) = {}
    <2>1. attack'[t] = attack[t] \/ attack'[t].found = <<>>
      BY <1>4 DEF AttackEnds, AttackFails, TypeOK
    <2>2. DOMAIN <<>> = {} OBVIOUS
    <2>3. QED BY <2>1, <2>2, NothingPersisted
  <1>5. ASSUME UNCHANGED attack PROVE Persisted(t) = {} BY <1>5, NothingPersisted
  <1>6. CASE \E s \in Attacks:
                AttackBegins(s) \/ PersistCandidate(s) \/ AttackEnds(s) \/ AttackFails(s)
    BY <1>1, <1>2, <1>3, <1>4, <1>6
  <1>7. ASSUME \/ EvalNext /\ UNCHANGED <<runVars, consent, erased, read>>
               \/ \E e \in Defences: DefenceBegins(e) \/ DefenceEnds(e)
               \/ ConsentChanges \/ Erase \/ Request \/ UNCHANGED vars
        PROVE  UNCHANGED attack
    BY <1>7 DEF vars, runVars, DefenceBegins, DefenceEnds, ConsentChanges, Erase, Request, Ask,
       ReadConsent, ReadCards, ReadHead, ReadCandidates, ReadEvidence, ReadRuns, ReadFrontier,
       ReadAbout, ReadValue, ReadTarget, ReadReliability, Statement
  <1>8. QED BY <1>5, <1>6, <1>7 DEF Next

\* inference.py _calibrated_reliability, calibration.py get_calibrated_reliability: a
\* reliability kept beside a candidate is one that a published eval of the same engine and
\* ensemble size measured, and there is none only if no published eval measured any.
THEOREM ReliabilityHolds == Spec => ReliabilityWasMeasured
  <1>1. IInv => KeptWasMeasured BY DEF IInv
  <1>2. IInv /\ [Next]_vars =>
          [\A t \in Attacks: \A p \in Persisted(t):
             LET c == attack'[t].found[p[1]][p[2]] IN
             c.reliability = {} => NeverMeasured(t, p[1], c)]_vars
    BY MissedStep
  <1>3. QED BY InitIInv, NextIInv, <1>1, <1>2, PTL DEF Spec, ReliabilityWasMeasured

\* api/v1/evals.py: the halves of the trust view describe one engine unless an eval
\* is published between its statements.
THEOREM TrustViewHolds == Spec => []TrustViewIsOneEngine
  <1>1. IInv => TrustViewIsOneEngine BY DEF IInv, EvalInv
  <1>2. QED BY Invariance, <1>1, PTL

\* repositories/inferences.py: no art. 9 value or rationale is shown by a request during
\* which there was no consent, whatever commits between its statements.
THEOREM MaskingHolds == Spec => []MaskedUnlessConsented
  <1>1. IInv => MaskedUnlessConsented BY DEF IInv
  <1>2. QED BY Invariance, <1>1, PTL

-----------------------------------------------------------------------------
(* Answers put together from several statements: the invariant behind them. *)

\* What runs leave: inferences are told apart by their ids, options are of a run that is
\* done and about an inference that has a value; an erasure leaves nothing, and nothing
\* under way.
RunsInv ==
    /\ \A d \in Defences: DOMAIN defence[d] = {"stage", "began", "about"}
    /\ \A i \in inferences: i.run \in Attacks /\ attack[i.run].stage = "done"
    /\ \A i, j \in inferences: Id(i) = Id(j) => i = j
    /\ \A o \in options: /\ o.run \in Defences /\ defence[o.run].stage = "done"
                         /\ o.about = defence[o.run].about
    /\ \A d \in Defences: defence[d].stage \in {"open", "done"} /\ ~erased =>
           \E i \in inferences: Id(i) = defence[d].about /\ Top(i) # {}
    /\ erased =>
           /\ inferences = {} /\ options = {}
           /\ \A t \in Attacks: attack[t].stage # "open"
           /\ \A d \in Defences: defence[d].stage # "open"

Begun == {d \in Defences: defence[d].stage # "idle"}

\* Remediation runs begin one after the other.
TurnInv ==
    /\ \A d \in Begun: defence[d].began \in 1..Cardinality(Begun)
    /\ \A d, e \in Begun: defence[d].began = defence[e].began => d = e

Targets(id) == UNION {Top(i): i \in With(id)}

\* The list of an inference without options.
Unbroken(id) ==
    IF Targets(id) = {} THEN <<>>
    ELSE <<{Frontier({}, c): c \in Targets(id)}, UNION {c.reliability: c \in Targets(id)}>>

\* A finding, in one look.
Finding(i, ok) == <<HeadShown(i, ok), CandidatesShown(i, ok), RationalesShown(i, ok)>>

\* What is answered so far and the frontiers of the runs still queued are what was seen.
Continues(answer, queue, look) ==
    /\ answer \in Seq({look[k]: k \in DOMAIN look})
    /\ queue \in Seq(Defences)
    /\ look \in Seq({look[k]: k \in DOMAIN look})
    /\ Len(look) = Len(answer) + Len(queue)
    /\ \A k \in 1..Len(answer): answer[k] = look[k]
    /\ \A k \in 1..Len(queue):
           OptionsOf(queue[k]) # {} /\ look[Len(answer) + k] = FrontierOf(queue[k])

\* How far a request is, and which look its answer will be, unless it is torn.
Answering(r) ==
    /\ r.pc \in {"runs", "target", "reliability"} => r.kind = "list"
    /\ r.pc \in {"idle", "consent", "cards", "detail", "runs", "target"} => r.answer = <<>>
    /\ ~r.torn =>
       /\ r.pc \in {"candidates", "evidence"} =>
              \E i \in With(r.about):
                  /\ Finding(i, r.seen) \in r.looks
                  /\ r.pc = "candidates" => r.answer = <<HeadShown(i, r.seen)>>
                  /\ r.pc = "evidence" =>
                         r.answer = <<HeadShown(i, r.seen), CandidatesShown(i, r.seen)>>
       /\ r.pc \in {"runs", "target", "reliability"} => With(r.about) # {}
       /\ r.pc \in {"target", "reliability"} => Unbroken(r.about) \in r.looks
       /\ r.pc = "reliability" =>
              /\ Targets(r.about) # {}
              /\ r.answer = <<{Frontier({}, c): c \in Targets(r.about)}>>
       /\ r.pc \in {"frontier", "about", "value"} /\ r.kind = "list" =>
              \E look \in r.looks: Continues(r.answer, r.queue, look)
       /\ r.pc \in {"about", "value"} =>
              /\ r.queue # <<>> /\ r.rows # {}
              /\ r.rows = OptionsOf(r.queue[1])
       /\ r.pc = "value" => r.ids = AboutOf(r.queue[1])
       /\ r.pc \in {"frontier", "about", "value"} /\ r.kind = "frontier" =>
              \/ r.queue = <<r.about>> /\ r.answer = <<>>
              \/ r.pc = "frontier" /\ r.queue = <<>> /\ r.answer \in r.looks
       /\ r.pc = "answered" => r.answer \in r.looks

AnswerInv == Answering(read)

\* There are no runs and no answers at first.
LEMMA AnswerStarts == Init => RunsInv /\ TurnInv /\ AnswerInv
  <1> SUFFICES ASSUME Init PROVE RunsInv /\ TurnInv /\ AnswerInv OBVIOUS
  <1> USE DEF Init
  <1>1. \A d \in Defences: defence[d].stage = "idle" /\ DOMAIN defence[d] = {"stage", "began", "about"}
    OBVIOUS
  <1>2. RunsInv BY <1>1 DEF RunsInv
  <1>3. TurnInv BY <1>1 DEF TurnInv, Begun
  <1>4. AnswerInv BY DEF AnswerInv, Answering
  <1>5. QED BY <1>2, <1>3, <1>4

-----------------------------------------------------------------------------
(* What runs leave. *)

\* An execution moves, and leaves nothing yet.
LEMMA AttackMoves ==
    ASSUME RunsInv, \A t \in Attacks: attack[t].stage = "done" => attack'[t].stage = "done",
           erased => \A t \in Attacks: attack'[t].stage # "open",
           UNCHANGED <<defence, inferences, options, erased>>
    PROVE  RunsInv'
  BY DEF RunsInv

\* An execution ends.
LEMMA AttackEndsRuns ==
    ASSUME IInv, RunsInv, NEW t \in Attacks, AttackEnds(t)
    PROVE  RunsInv'
  <1>1. /\ attack[t].stage = "open"
        /\ attack' = [attack EXCEPT ![t].stage = "done", ![t].guess = <<>>, ![t].found = <<>>]
        /\ inferences' = inferences \cup Rows(t)
        /\ UNCHANGED <<defence, options, erased>>
    BY DEF AttackEnds
  <1>2. /\ attack'[t].stage = "done" /\ \A s \in Attacks: s # t => attack'[s] = attack[s]
    BY <1>1 DEF IInv, TypeOK
  <1>3. ~erased BY <1>1 DEF RunsInv
  <1>4. \A i \in inferences: i.run # t BY <1>1 DEF RunsInv
  <1>5. \A i \in Rows(t): i.run = t BY DEF Rows
  <1>6. \A i, j \in Rows(t): i.attribute = j.attribute => i = j BY DEF Rows
  <1>7. \A i \in inferences': i.run \in Attacks /\ attack'[i.run].stage = "done"
    <2> SUFFICES ASSUME NEW i \in inferences' PROVE i.run \in Attacks /\ attack'[i.run].stage = "done"
      OBVIOUS
    <2>1. CASE i \in Rows(t) BY <1>2, <1>5, <2>1
    <2>2. CASE i \in inferences
      <3>1. i.run \in Attacks /\ attack[i.run].stage = "done" /\ i.run # t
        BY <1>4, <2>2 DEF RunsInv
      <3>2. QED BY <1>2, <3>1
    <2>3. QED BY <1>1, <2>1, <2>2
  <1>8. \A i, j \in inferences': Id(i) = Id(j) => i = j
    <2> SUFFICES ASSUME NEW i \in inferences', NEW j \in inferences', Id(i) = Id(j) PROVE i = j
      OBVIOUS
    <2>1. i.run = j.run /\ i.attribute = j.attribute BY DEF Id
    <2>2. CASE i \in Rows(t) /\ j \in Rows(t) BY <1>6, <2>1, <2>2
    <2>3. CASE i \in inferences /\ j \in inferences BY <2>3 DEF RunsInv
    <2>4. QED BY <1>1, <1>4, <1>5, <2>1, <2>2, <2>3
  <1>9. inferences \subseteq inferences' BY <1>1
  <1>10. QED BY <1>1, <1>3, <1>7, <1>8, <1>9 DEF RunsInv

\* A remediation run begins, last of all.
LEMMA DefenceBeginsRuns ==
    ASSUME IInv, RunsInv, TurnInv, NEW d \in Defences, DefenceBegins(d)
    PROVE  RunsInv' /\ TurnInv'
  <1> DEFINE c == 1 + Cardinality(Begun)
  <1>1. PICK i \in inferences:
           /\ Top(i) # {}
           /\ defence' = [defence EXCEPT ![d] = [stage |-> "open", about |-> Id(i), began |-> c]]
    BY DEF DefenceBegins, Begun
  <1>2. /\ defence[d].stage = "idle" /\ ~erased
        /\ UNCHANGED <<attack, inferences, options, erased>>
    BY DEF DefenceBegins
  <1>3. /\ defence'[d].stage = "open" /\ defence'[d].about = Id(i) /\ defence'[d].began = c
        /\ DOMAIN defence'[d] = {"stage", "began", "about"}
        /\ \A e \in Defences: e # d => defence'[e] = defence[e]
    BY <1>1 DEF IInv, TypeOK
  <1> HIDE DEF c
  <1>4. RunsInv'
    <2>1. \A o \in options: o.run # d BY <1>2 DEF RunsInv
    <2>2. \A e \in Defences: DOMAIN defence'[e] = {"stage", "began", "about"} BY <1>3 DEF RunsInv
    <2>3. \A o \in options: /\ o.run \in Defences /\ defence'[o.run].stage = "done"
                            /\ o.about = defence'[o.run].about
      BY <1>3, <2>1 DEF RunsInv
    <2>4. \A e \in Defences: defence'[e].stage \in {"open", "done"} =>
              \E j \in inferences: Id(j) = defence'[e].about /\ Top(j) # {}
      BY <1>1, <1>2, <1>3 DEF RunsInv
    <2>5. QED BY <1>2, <2>2, <2>3, <2>4 DEF RunsInv
  <1>5. TurnInv'
    <2>1. Begun' = Begun \cup {d} /\ d \notin Begun BY <1>2, <1>3 DEF Begun
    <2>2. IsFiniteSet(Begun) /\ Cardinality(Begun) \in Nat
      BY DefencesAssumption, FS_Subset, FS_CardinalityType DEF Begun
    <2>3. Cardinality(Begun \cup {d}) = Cardinality(Begun) + 1 BY <2>1, <2>2, FS_AddElement
    <2>4. \A e \in Begun: defence'[e] = defence[e] BY <1>3, <2>1 DEF Begun
    <2>5. \A e \in Begun \cup {d}: defence'[e].began \in 1..(Cardinality(Begun) + 1)
      BY <1>3, <2>2, <2>4 DEF TurnInv, c
    <2>6. \A e \in Begun: defence'[e].began # c BY <2>2, <2>4 DEF TurnInv, c
    <2>7. \A e, f \in Begun \cup {d}: defence'[e].began = defence'[f].began => e = f
      BY <1>3, <2>4, <2>6 DEF TurnInv
    <2>8. QED BY <2>1, <2>3, <2>5, <2>7 DEF TurnInv
  <1>6. QED BY <1>4, <1>5

\* A remediation run ends.
LEMMA DefenceEndsRuns ==
    ASSUME IInv, RunsInv, TurnInv, NEW d \in Defences, DefenceEnds(d)
    PROVE  RunsInv' /\ TurnInv'
  <1>1. /\ defence[d].stage = "open" /\ defence' = [defence EXCEPT ![d].stage = "done"]
        /\ UNCHANGED <<attack, inferences, erased>>
    BY DEF DefenceEnds
  <1>2. \A o \in options': o \in options \/ (o.run = d /\ o.about = defence[d].about)
    BY DEF DefenceEnds
  <1>3. /\ DOMAIN defence' = Defences
        /\ \A e \in Defences: /\ DOMAIN defence'[e] = {"stage", "began", "about"}
                              /\ defence'[e].about = defence[e].about
                              /\ defence'[e].began = defence[e].began
                              /\ defence'[e].stage = IF e = d THEN "done" ELSE defence[e].stage
    BY <1>1 DEF IInv, TypeOK, RunsInv
  <1>4. ~erased BY <1>1 DEF RunsInv
  <1>5. RunsInv'
    <2>1. \A o \in options': /\ o.run \in Defences /\ defence'[o.run].stage = "done"
                             /\ o.about = defence'[o.run].about
      BY <1>2, <1>3 DEF RunsInv
    <2>2. QED BY <1>1, <1>3, <1>4, <2>1 DEF RunsInv
  <1>6. Begun' = Begun BY <1>1, <1>3 DEF Begun
  <1>7. TurnInv' BY <1>3, <1>6 DEF TurnInv, Begun
  <1>8. QED BY <1>5, <1>7

\* The user is erased: nothing is left of the runs, which are over.
LEMMA EraseRuns ==
    ASSUME RunsInv, TurnInv, Erase
    PROVE  RunsInv' /\ TurnInv'
  BY DEF Erase, RunsInv, TurnInv, Begun

\* Every step keeps what is said of the runs.
LEMMA RunsKept == IInv /\ RunsInv /\ TurnInv /\ [Next]_vars => RunsInv' /\ TurnInv'
  <1> SUFFICES ASSUME IInv, RunsInv, TurnInv, [Next]_vars PROVE RunsInv' /\ TurnInv' OBVIOUS
  <1>1. CASE UNCHANGED <<runVars, erased>> BY <1>1 DEF runVars, RunsInv, TurnInv, Begun
  <1>2. UNCHANGED defence => TurnInv' BY DEF TurnInv, Begun
  <1>3. ASSUME NEW t \in Attacks, AttackBegins(t) PROVE RunsInv' /\ TurnInv'
    <2> DEFINE stays(s) == attack'[s] = attack[s]
    <2>1. /\ attack[t].stage = "idle" /\ ~erased /\ UNCHANGED <<defence, inferences, options, erased>>
          /\ \A s \in Attacks: s # t => stays(s)
      BY <1>3 DEF AttackBegins, IInv, TypeOK
    <2>2. RunsInv' BY <2>1, AttackMoves
    <2>3. QED BY <1>2, <2>1, <2>2
  <1>4. ASSUME NEW t \in Attacks, PersistCandidate(t) PROVE RunsInv' /\ TurnInv'
    <2>1. /\ attack[t].stage = "open" /\ UNCHANGED <<defence, inferences, options, erased>>
          /\ \A s \in Attacks: attack'[s].stage = attack[s].stage
      BY <1>4 DEF PersistCandidate, IInv, TypeOK
    <2>2. erased => \A s \in Attacks: attack[s].stage # "open" BY DEF RunsInv
    <2>3. RunsInv' BY <2>1, <2>2, AttackMoves
    <2>4. QED BY <1>2, <2>1, <2>3
  <1>5. ASSUME NEW t \in Attacks, AttackFails(t) PROVE RunsInv' /\ TurnInv'
    <2>1. /\ attack[t].stage = "open" /\ UNCHANGED <<defence, inferences, options, erased>>
          /\ \A s \in Attacks: s # t => attack'[s] = attack[s]
      BY <1>5 DEF AttackFails, IInv, TypeOK
    <2>2. ~erased BY <2>1 DEF RunsInv
    <2>3. RunsInv' BY <2>1, <2>2, AttackMoves
    <2>4. QED BY <1>2, <2>1, <2>3
  <1>6. ASSUME NEW t \in Attacks, AttackEnds(t) PROVE RunsInv' /\ TurnInv'
    <2>1. UNCHANGED defence BY <1>6 DEF AttackEnds
    <2>2. QED BY <1>2, <1>6, <2>1, AttackEndsRuns
  <1>7. ASSUME NEW d \in Defences, DefenceBegins(d) \/ DefenceEnds(d) PROVE RunsInv' /\ TurnInv'
    BY <1>7, DefenceBeginsRuns, DefenceEndsRuns
  <1>8. CASE Erase BY <1>8, EraseRuns
  <1>9. CASE ConsentChanges BY <1>1, <1>9 DEF ConsentChanges
  <1>10. CASE Request
    <2>1. UNCHANGED <<runVars, erased>>
      BY <1>10 DEF Request, Ask, ReadConsent, ReadCards, ReadHead, ReadCandidates, ReadEvidence,
         ReadRuns, ReadFrontier, ReadAbout, ReadValue, ReadTarget, ReadReliability, Statement
    <2>2. QED BY <1>1, <2>1
  <1>11. CASE EvalNext /\ UNCHANGED <<runVars, consent, erased, read>> BY <1>1, <1>11
  <1>12. CASE UNCHANGED vars BY <1>1, <1>12 DEF vars
  <1>13. QED BY <1>3, <1>4, <1>5, <1>6, <1>7, <1>8, <1>9, <1>10, <1>11, <1>12 DEF Next

-----------------------------------------------------------------------------
(* Commits between the statements of a request. *)

\* A step leaves what a remediation run has as it is.
Stands(d) ==
    /\ OptionsOf(d)' = OptionsOf(d)
    /\ AboutOf(d)' = AboutOf(d)
    /\ FrontierOf(d)' = FrontierOf(d)

\* What runs add leaves the inferences and frontiers there are as they are.
LEMMA DataGrows ==
    ASSUME RunsInv, RunsInv', inferences \subseteq inferences', options \subseteq options',
           \A o \in options' \ options: defence[o.run].stage # "done"
    PROVE  /\ \A id: With(id) # {} => With(id)' = With(id)
           /\ \A d: OptionsOf(d) # {} => Stands(d)
  <1>1. ASSUME NEW id, With(id) # {} PROVE With(id)' = With(id)
    <2>1. PICK i \in inferences: Id(i) = id BY <1>1 DEF With
    <2>2. \A j \in inferences': Id(j) = id => j = i BY <2>1 DEF RunsInv
    <2>3. With(id)' = {j \in inferences': Id(j) = id} BY DEF With, Id
    <2>4. With(id) = {j \in inferences: Id(j) = id} BY DEF With
    <2>5. QED BY <2>1, <2>2, <2>3, <2>4
  <1>2. ASSUME NEW d, OptionsOf(d) # {}
        PROVE  Stands(d)
    <2> DEFINE mine == {p \in options: p.run = d}
    <2>1. PICK o \in options: o.run = d BY <1>2 DEF OptionsOf
    <2>2. d \in Defences /\ defence[d].stage = "done" /\ ~erased BY <2>1 DEF RunsInv
    <2>3. {p \in options': p.run = d} = mine BY <2>2
    <2>4. OptionsOf(d)' = OptionsOf(d) BY <2>3 DEF OptionsOf
    <2>5. AboutOf(d)' = AboutOf(d) BY <2>3 DEF AboutOf
    <2>6. \A id \in AboutOf(d): With(id)' = With(id)
      <3> SUFFICES ASSUME NEW p \in mine PROVE With(p.about) # {} BY <1>1 DEF AboutOf
      <3>1. p.about = defence[d].about BY DEF RunsInv
      <3>2. PICK i \in inferences: Id(i) = defence[d].about BY <2>2 DEF RunsInv
      <3>3. QED BY <3>1, <3>2 DEF With
    <2>7. TargetsOf(AboutOf(d))' = UNION {Top(i): i \in UNION {With(id)': id \in AboutOf(d)'}}
      BY DEF TargetsOf, Top
    <2>8. TargetsOf(AboutOf(d)) = UNION {Top(i): i \in UNION {With(id): id \in AboutOf(d)}}
      BY DEF TargetsOf
    <2> HIDE DEF mine
    <2>9. TargetsOf(AboutOf(d))' = TargetsOf(AboutOf(d)) BY <2>5, <2>6, <2>7, <2>8
    <2>10. FrontierOf(d)' = FrontierOf(d) BY <2>4, <2>9 DEF FrontierOf, Frontier, Status
    <2>11. QED BY <2>4, <2>5, <2>10 DEF Stands
  <1>3. QED BY <1>1, <1>2

\* An answer under way goes on to be the one that was seen.
LEMMA AnswersStand ==
    ASSUME NEW r, Answering(r),
           \A id: With(id) # {} => With(id)' = With(id),
           \A d: OptionsOf(d) # {} => Stands(d)
    PROVE  Answering(r)'
  <1>1. \A id: With(id) # {} => Targets(id)' = Targets(id) BY DEF Targets, Top
  <1>2. \A os, c: Frontier(os, c)' = Frontier(os, c) BY DEF Frontier, Status
  <1>3. ASSUME NEW id, With(id) # {} PROVE Unbroken(id)' = Unbroken(id)
    <2> DEFINE T == Targets(id)
    <2>1. T' = T BY <1>1, <1>3
    <2>2. {Frontier({}, c)': c \in T} = {Frontier({}, c): c \in T} BY <1>2
    <2>3. Unbroken(id)' = IF T' = {} THEN <<>>
                          ELSE <<{Frontier({}, c)': c \in T'}, UNION {c.reliability: c \in T'}>>
      BY DEF Unbroken
    <2>4. Unbroken(id) = IF T = {} THEN <<>>
                         ELSE <<{Frontier({}, c): c \in T}, UNION {c.reliability: c \in T}>>
      BY DEF Unbroken
    <2> HIDE DEF T
    <2>5. QED BY <2>1, <2>2, <2>3, <2>4
  <1>4. \A i, ok: Finding(i, ok)' = Finding(i, ok)
    BY DEF Finding, HeadShown, RevealsArt9, CandidatesShown, RationalesShown, Masked, Art9
  <1>5. \A i, ok: HeadShown(i, ok)' = HeadShown(i, ok) /\ CandidatesShown(i, ok)' = CandidatesShown(i, ok)
    BY DEF HeadShown, RevealsArt9, CandidatesShown, Masked, Art9
  <1>6. \A a, q, look: Continues(a, q, look) => Continues(a, q, look)' BY DEF Continues, Stands
  <1>7. ~r.torn /\ r.pc \in {"candidates", "evidence"} =>
           \E i \in With(r.about)':
              /\ Finding(i, r.seen)' \in r.looks
              /\ r.pc = "candidates" => r.answer = <<HeadShown(i, r.seen)'>>
              /\ r.pc = "evidence" =>
                     r.answer = <<HeadShown(i, r.seen)', CandidatesShown(i, r.seen)'>>
    BY <1>4, <1>5 DEF Answering
  <1>8. ~r.torn /\ r.pc \in {"runs", "target", "reliability"} =>
           /\ With(r.about) # {} /\ With(r.about)' = With(r.about)
           /\ Targets(r.about)' = Targets(r.about) /\ Unbroken(r.about)' = Unbroken(r.about)
    BY <1>1, <1>3 DEF Answering
  <1>9. ~r.torn /\ r.pc \in {"target", "reliability"} => Unbroken(r.about)' \in r.looks
    BY <1>8 DEF Answering
  <1>10. ~r.torn /\ r.pc = "reliability" =>
           /\ Targets(r.about)' # {}
           /\ r.answer = <<{Frontier({}, c)': c \in Targets(r.about)'}>>
    BY <1>2, <1>8 DEF Answering
  <1>11. ~r.torn /\ r.pc \in {"frontier", "about", "value"} /\ r.kind = "list" =>
           \E look \in r.looks: Continues(r.answer, r.queue, look)'
    BY <1>6 DEF Answering
  <1>12. ~r.torn /\ r.pc \in {"about", "value"} =>
           /\ r.queue # <<>> /\ r.rows # {} /\ r.rows = OptionsOf(r.queue[1])'
           /\ r.pc = "value" => r.ids = AboutOf(r.queue[1])'
    BY DEF Answering, Stands
  <1>13. QED BY <1>7, <1>8, <1>9, <1>10, <1>11, <1>12 DEF Answering

-----------------------------------------------------------------------------
(* The statements of a request. *)

\* Where a number tells the elements of a finite set apart, each place from the greatest
\* down is taken.
LEMMA PlaceTaken ==
    ASSUME NEW S, IsFiniteSet(S), NEW f \in [S -> Int], \A x, y \in S: f[x] = f[y] => x = y
    PROVE  \A k \in 1..Cardinality(S): \E x \in S: Cardinality({y \in S: f[y] > f[x]}) = k - 1
  <1> DEFINE Above(x) == {y \in S: f[y] > f[x]}
             m == Cardinality(S)
             T == 0..(m - 1)
             g == [x \in S |-> Cardinality(Above(x))]
  <1>1. m \in Nat BY FS_CardinalityType
  <1>2. ASSUME NEW x \in S PROVE IsFiniteSet(Above(x)) /\ Cardinality(Above(x)) \in T
    <2>1. Above(x) \subseteq S /\ x \notin Above(x) OBVIOUS
    <2> HIDE DEF Above
    <2>2. /\ IsFiniteSet(Above(x)) /\ Cardinality(Above(x)) <= m
          /\ Cardinality(Above(x)) # m /\ Cardinality(Above(x)) \in Nat
      BY <2>1, FS_Subset, FS_CardinalityType
    <2>3. QED BY <1>1, <2>2
  <1>3. ASSUME NEW x \in S, NEW y \in S, f[x] > f[y]
        PROVE  Cardinality(Above(x)) < Cardinality(Above(y))
    <2>1. Above(x) \subseteq Above(y) /\ x \in Above(y) /\ x \notin Above(x) BY <1>3
    <2> HIDE DEF Above
    <2>2. /\ Cardinality(Above(x)) <= Cardinality(Above(y))
          /\ Cardinality(Above(x)) # Cardinality(Above(y))
      BY <1>2, <2>1, FS_Subset
    <2>3. QED BY <1>2, <2>2
  <1>4. \A x, y \in S: Cardinality(Above(x)) = Cardinality(Above(y)) => x = y
    <2> SUFFICES ASSUME NEW x \in S, NEW y \in S, Cardinality(Above(x)) = Cardinality(Above(y)),
                        x # y
                 PROVE  FALSE
      OBVIOUS
    <2>1. f[x] > f[y] \/ f[y] > f[x]
      <3>1. f[x] \in Int /\ f[y] \in Int /\ f[x] # f[y] OBVIOUS
      <3>2. QED BY <3>1
    <2> HIDE DEF Above
    <2>2. QED BY <1>2, <1>3, <2>1
  <1> HIDE DEF Above
  <1>5. g \in Injection(S, T) BY <1>2, <1>4 DEF Injection, IsInjective
  <1>6. IsFiniteSet(T) /\ Cardinality(T) = m BY <1>1, FS_Interval
  <1>7. g \in Surjection(S, T)
    <2> HIDE DEF g, T, m
    <2>1. Cardinality(S) = Cardinality(T) <=> g \in Surjection(S, T) BY <1>5, <1>6, FS_Injection
    <2>2. QED BY <1>6, <2>1 DEF m
  <1>8. ASSUME NEW k \in 1..m PROVE \E x \in S: Cardinality(Above(x)) = k - 1
    <2>1. k - 1 \in T BY <1>1
    <2>2. \E x \in S: g[x] = k - 1
      <3> HIDE DEF g, T
      <3>1. QED BY <1>7, <2>1 DEF Surjection
    <2>3. QED BY <2>2
  <1>9. \A k \in 1..m: \E x \in S: Cardinality(Above(x)) = k - 1 BY <1>8
  <1>10. QED BY <1>9 DEF Above

\* The runs about an inference are those with options.
LEMMA RunsOfFacts ==
    ASSUME RunsInv, TurnInv, NEW id
    PROVE  /\ RunsOf(id) \in Seq(Defences)
           /\ \A k \in 1..Len(RunsOf(id)): OptionsOf(RunsOf(id)[k]) # {}
  <1> DEFINE ds == {o.run: o \in {p \in options: p.about = id}}
             Newer(d) == {e \in ds: defence[e].began > defence[d].began}
             f == [d \in ds |-> defence[d].began]
             At(k) == CHOOSE d \in ds: Cardinality(Newer(d)) = k - 1
             m == Cardinality(ds)
  <1>1. RunsOf(id) = [k \in 1..m |-> At(k)] BY DEF RunsOf
  <1>2. \A d \in ds: d \in Defences /\ OptionsOf(d) # {} /\ d \in Begun
    <2> SUFFICES ASSUME NEW o \in options, o.about = id
                 PROVE  o.run \in Defences /\ OptionsOf(o.run) # {} /\ o.run \in Begun
      OBVIOUS
    <2>1. o.run \in Defences /\ defence[o.run].stage = "done" BY DEF RunsInv
    <2>2. QED BY <2>1 DEF OptionsOf, Begun
  <1>3. IsFiniteSet(ds) /\ m \in Nat
    <2>1. ds \subseteq Defences BY <1>2
    <2> HIDE DEF ds
    <2>2. QED BY <2>1, DefencesAssumption, FS_Subset, FS_CardinalityType
  <1>4. f \in [ds -> Int] /\ \A d, e \in ds: f[d] = f[e] => d = e
    <2>1. \A d \in ds: f[d] = defence[d].began OBVIOUS
    <2>2. IsFiniteSet(Begun) /\ Cardinality(Begun) \in Nat
      BY DefencesAssumption, FS_Subset, FS_CardinalityType DEF Begun
    <2>3. \A d \in Begun: defence[d].began \in Int BY <2>2 DEF TurnInv
    <2> HIDE DEF ds
    <2>4. f \in [ds -> Int] BY <1>2, <2>3
    <2> HIDE DEF f
    <2>5. QED BY <1>2, <2>1, <2>4 DEF TurnInv
  <1>5. \A d \in ds: Newer(d) = {e \in ds: f[e] > f[d]} OBVIOUS
  <1> HIDE DEF ds, f, Newer
  <1>6. \A k \in 1..m: \E d \in ds: Cardinality(Newer(d)) = k - 1
    <2>1. \A k \in 1..m: \E x \in ds: Cardinality({y \in ds: f[y] > f[x]}) = k - 1
      BY <1>3, <1>4, PlaceTaken
    <2>2. QED BY <1>5, <2>1
  <1>7. \A k \in 1..m: At(k) \in ds BY <1>6
  <1> HIDE DEF At, m
  <1>8. RunsOf(id) \in Seq(ds) /\ Len(RunsOf(id)) = m /\ \A k \in 1..m: RunsOf(id)[k] = At(k)
    BY <1>1, <1>3, <1>7
  <1>9. RunsOf(id) \in Seq(Defences)
    <2>1. ds \subseteq Defences BY <1>2
    <2>2. QED BY <1>8, <2>1
  <1>10. QED BY <1>2, <1>7, <1>8, <1>9

\* A run with options has a frontier to show.
LEMMA FrontierThere ==
    ASSUME RunsInv, NEW d, OptionsOf(d) # {}
    PROVE  FrontierOf(d) # {}
  <1>1. PICK o \in options: o.run = d BY DEF OptionsOf
  <1>2. d \in Defences /\ defence[d].stage = "done" /\ ~erased /\ o.about = defence[d].about
    BY <1>1 DEF RunsInv
  <1>3. PICK i \in inferences: Id(i) = defence[d].about /\ Top(i) # {} BY <1>2 DEF RunsInv
  <1>4. PICK c \in Top(i): TRUE BY <1>3
  <1>5. c \in TargetsOf(AboutOf(d)) BY <1>1, <1>2, <1>3, <1>4 DEF TargetsOf, AboutOf, With
  <1>6. QED BY <1>5 DEF FrontierOf

\* One without has none.
LEMMA FrontierMissing ==
    ASSUME NEW d, OptionsOf(d) = {}
    PROVE  FrontierOf(d) = {}
  <1>1. {p \in options: p.run = d} = {} BY DEF OptionsOf
  <1>2. QED BY <1>1 DEF FrontierOf, TargetsOf, AboutOf

\* An id has one inference.
LEMMA OneInference ==
    ASSUME RunsInv, NEW id, NEW i \in With(id)
    PROVE  With(id) = {i} /\ (CHOOSE j \in inferences: Id(j) = id) = i
  <1>1. i \in inferences /\ Id(i) = id BY DEF With
  <1>2. \A j \in inferences: Id(j) = id => j = i BY <1>1 DEF RunsInv
  <1>3. QED BY <1>1, <1>2 DEF With

\* What a statement leaves of the request.
LEMMA StatementLeaves ==
    ASSUME TypeOK, NEW r, DOMAIN r = DOMAIN read, r.looks = read.looks, Statement(r)
    PROVE  /\ UNCHANGED <<defence, inferences, options>>
           /\ read.looks \subseteq read'.looks /\ Look \in read'.looks
           /\ read'.pc = r.pc /\ read'.kind = r.kind /\ read'.about = r.about
           /\ read'.seen = r.seen /\ read'.torn = r.torn /\ read'.queue = r.queue
           /\ read'.rows = r.rows /\ read'.answer = r.answer
  BY DEF Statement, TypeOK, runVars

\* The cards are one statement.
LEMMA CardsAnswer == ASSUME IInv, AnswerInv, ReadCards PROVE Answering(read')
  <1> USE DEF IInv
  <1>1. /\ read'.pc = "answered" /\ Look \in read'.looks
        /\ read'.answer = CardsOf(inferences, read.seen)
    BY DEF ReadCards, Statement, TypeOK
  <1>2. read.kind = "cards" BY DEF ReadCards, DetailInv
  <1>3. Look = CardsOf(inferences, read.seen) BY <1>2 DEF Look
  <1>4. QED BY <1>1, <1>3 DEF Answering

\* The first statement of a finding sees the whole of it.
LEMMA HeadAnswer == ASSUME IInv, RunsInv, AnswerInv, ReadHead PROVE Answering(read')
  <1> USE DEF IInv
  <1>1. read.pc = "detail" /\ read.kind = "detail" /\ read.answer = <<>>
    BY DEF ReadHead, DetailInv
  <1>2. Look = DetailOf(read.about, read.seen) BY <1>1 DEF Look
  <1>3. CASE With(read.about) = {} /\ Statement([read EXCEPT !.pc = "answered"])
    <2>1. read'.pc = "answered" /\ read'.answer = <<>> /\ Look \in read'.looks
      BY <1>1, <1>3 DEF Statement, TypeOK
    <2>2. Look = <<>> BY <1>2, <1>3 DEF DetailOf
    <2>3. QED BY <2>1, <2>2 DEF Answering
  <1>4. ASSUME NEW i \in With(read.about),
               Statement([read EXCEPT !.answer = <<HeadShown(i, read.seen)>>, !.pc = "candidates"])
        PROVE  Answering(read')
    <2>1. /\ read'.pc = "candidates" /\ read'.answer = <<HeadShown(i, read.seen)>>
          /\ read'.about = read.about /\ read'.seen = read.seen
          /\ Look \in read'.looks
      BY <1>4 DEF Statement, TypeOK
    <2>2. Look = Finding(i, read.seen) BY <1>2, <1>4, OneInference DEF DetailOf, Finding
    <2>3. QED BY <2>1, <2>2 DEF Answering
  <1>5. QED BY <1>3, <1>4 DEF ReadHead

\* The second finds the inference it was about.
LEMMA CandidatesAnswer == ASSUME IInv, RunsInv, AnswerInv, ReadCandidates PROVE Answering(read')
  <1> USE DEF IInv
  <1>1. PICK shown \in (IF With(read.about) = {} THEN {<<>>}
                        ELSE {CandidatesShown(i, read.seen): i \in With(read.about)}):
           /\ read.pc = "candidates" /\ read'.pc = "evidence"
           /\ read'.about = read.about /\ read'.seen = read.seen /\ read'.torn = read.torn
           /\ read'.answer = Append(read.answer, shown)
           /\ read.looks \subseteq read'.looks
    BY DEF ReadCandidates, Statement, TypeOK
  <1>2. CASE read.torn BY <1>1, <1>2 DEF Answering
  <1>3. CASE ~read.torn
    <2>1. PICK i \in With(read.about): /\ Finding(i, read.seen) \in read.looks
                                       /\ read.answer = <<HeadShown(i, read.seen)>>
      BY <1>1, <1>3 DEF AnswerInv, Answering
    <2>2. shown = CandidatesShown(i, read.seen) BY <1>1, OneInference
    <2>3. read'.answer = <<HeadShown(i, read.seen), CandidatesShown(i, read.seen)>>
      BY <1>1, <2>1, <2>2, Grows
    <2>4. QED BY <1>1, <2>1, <2>3 DEF Answering
  <1>4. QED BY <1>2, <1>3

\* So does the third, which completes it.
LEMMA EvidenceAnswer == ASSUME IInv, RunsInv, AnswerInv, ReadEvidence PROVE Answering(read')
  <1> USE DEF IInv
  <1> DEFINE z == UNION {RationalesShown(i, read.seen): i \in With(read.about)}
  <1>1. /\ read.pc = "evidence" /\ read'.pc = "answered" /\ read'.torn = read.torn
        /\ read'.answer = Append(read.answer, z) /\ read.looks \subseteq read'.looks
    BY DEF ReadEvidence, Statement, TypeOK
  <1>2. CASE read.torn BY <1>1, <1>2 DEF Answering
  <1>3. CASE ~read.torn
    <2>1. PICK i \in With(read.about):
             /\ Finding(i, read.seen) \in read.looks
             /\ read.answer = <<HeadShown(i, read.seen), CandidatesShown(i, read.seen)>>
      BY <1>1, <1>3 DEF AnswerInv, Answering
    <2>2. z = RationalesShown(i, read.seen)
      <3>1. With(read.about) = {i} BY OneInference
      <3>2. QED BY <3>1
    <2> HIDE DEF z
    <2>3. read'.answer = Finding(i, read.seen) BY <1>1, <2>1, <2>2, Grows DEF Finding
    <2>4. QED BY <1>1, <2>1, <2>3 DEF Answering
  <1>4. QED BY <1>2, <1>3

\* The first statement about the options of an inference sees the runs it goes on to show.
LEMMA RunsAnswer == ASSUME IInv, RunsInv, TurnInv, AnswerInv, ReadRuns PROVE Answering(read')
  <1> USE DEF IInv
  <1> DEFINE ds == RunsOf(read.about)
             look == [k \in DOMAIN ds |-> FrontierOf(ds[k])]
  <1>1. /\ read.pc = "runs" /\ read'.pc = (IF ds = <<>> THEN "target" ELSE "frontier")
        /\ read'.kind = read.kind /\ read'.about = read.about /\ read'.torn = read.torn
        /\ read'.answer = read.answer /\ read'.queue = ds /\ Look \in read'.looks
    BY DEF ReadRuns, Statement, TypeOK
  <1>2. read.kind = "list" /\ read.answer = <<>> BY <1>1 DEF AnswerInv, Answering
  <1>3. Look = ListOf(read.about) BY <1>2 DEF Look
  <1>4. CASE read.torn BY <1>1, <1>2, <1>4 DEF Answering
  <1>5. CASE ~read.torn /\ ds = <<>>
    <2>1. With(read.about) # {} BY <1>1, <1>5 DEF AnswerInv, Answering
    <2>2. Look = Unbroken(read.about) BY <1>3, <1>5 DEF ListOf, Unbroken, Targets
    <2>3. QED BY <1>1, <1>2, <1>5, <2>1, <2>2 DEF Answering
  <1>6. CASE ~read.torn /\ ds # <<>>
    <2>1. Look = look BY <1>3, <1>6 DEF ListOf
    <2>2. ds \in Seq(Defences) /\ \A k \in 1..Len(ds): OptionsOf(ds[k]) # {} BY RunsOfFacts
    <2> DEFINE F(d) == FrontierOf(d)
    <2>3. look = [k \in DOMAIN ds |-> F(ds[k])] OBVIOUS
    <2>4. Len(ds) \in Nat /\ DOMAIN ds = 1..Len(ds) BY <2>2
    <2> HIDE DEF ds, look, F
    <2>5. /\ DOMAIN look = 1..Len(ds) /\ \A k \in 1..Len(ds): look[k] = F(ds[k])
          /\ look \in Seq({look[k]: k \in DOMAIN look}) /\ Len(look) = Len(ds)
      BY <2>3, <2>4
    <2>6. <<>> \in Seq({look[k]: k \in DOMAIN look}) /\ Len(<<>>) = 0 OBVIOUS
    <2>7. Continues(<<>>, ds, look)
      BY <2>2, <2>4, <2>5, <2>6 DEF Continues, F
    <2>8. QED BY <1>1, <1>2, <1>6, <2>1, <2>7 DEF Answering
  <1>7. QED BY <1>4, <1>5, <1>6

\* Without options, the answer is about the target the second statement finds again.
LEMMA TargetAnswer == ASSUME IInv, AnswerInv, ReadTarget PROVE Answering(read')
  <1> USE DEF IInv
  <1> DEFINE shown == {Frontier({}, c): c \in Targets(read.about)}
  <1>1. /\ read.pc = "target" /\ read'.kind = read.kind
        /\ read'.pc = (IF shown = {} THEN "answered" ELSE "reliability")
        /\ read'.answer = (IF shown = {} THEN read.answer ELSE <<shown>>)
        /\ read'.about = read.about /\ read'.torn = read.torn /\ read.looks \subseteq read'.looks
    BY DEF ReadTarget, Statement, TypeOK, Targets
  <1>2. read.kind = "list" /\ read.answer = <<>> BY <1>1 DEF AnswerInv, Answering
  <1>3. CASE read.torn BY <1>1, <1>2, <1>3 DEF Answering
  <1>4. CASE ~read.torn
    <2>1. With(read.about) # {} /\ Unbroken(read.about) \in read.looks
      BY <1>1, <1>4 DEF AnswerInv, Answering
    <2>2. shown = {} <=> Targets(read.about) = {} OBVIOUS
    <2>3. CASE Targets(read.about) = {}
      <3>1. Unbroken(read.about) = <<>> BY <2>3 DEF Unbroken
      <3>2. QED BY <1>1, <1>2, <2>1, <2>2, <2>3, <3>1 DEF Answering
    <2>4. CASE Targets(read.about) # {}
      BY <1>1, <1>2, <2>1, <2>2, <2>4 DEF Answering
    <2>5. QED BY <2>3, <2>4
  <1>5. QED BY <1>3, <1>4

\* The third adds its reliability.
LEMMA ReliabilityAnswer == ASSUME IInv, AnswerInv, ReadReliability PROVE Answering(read')
  <1> USE DEF IInv
  <1> DEFINE T == Targets(read.about)
             z == UNION {c.reliability: c \in T}
  <1>1. /\ read.pc = "reliability" /\ read'.pc = "answered" /\ read'.torn = read.torn
        /\ read'.answer = Append(read.answer, z) /\ read.looks \subseteq read'.looks
    BY DEF ReadReliability, Statement, TypeOK, Targets
  <1>2. CASE read.torn BY <1>1, <1>2 DEF Answering
  <1>3. CASE ~read.torn
    <2>1. /\ Unbroken(read.about) \in read.looks /\ T # {}
          /\ read.answer = <<{Frontier({}, c): c \in T}>>
      BY <1>1, <1>3 DEF AnswerInv, Answering
    <2> DEFINE shown == {Frontier({}, c): c \in T}
    <2>2. read'.answer = <<shown, z>>
      <3>1. read.answer = <<shown>> BY <2>1
      <3> HIDE DEF shown, z
      <3>2. QED BY <1>1, <3>1, Grows
    <2>3. read'.answer = Unbroken(read.about) BY <2>1, <2>2 DEF Unbroken
    <2>4. QED BY <1>1, <2>1, <2>3 DEF Answering
  <1>4. QED BY <1>2, <1>3

\* A request begins with nothing answered.
LEMMA AskAnswer == ASSUME IInv, AnswerInv, Ask PROVE Answering(read')
  <1> USE DEF IInv
  <1>1. read.pc = "idle" /\ read.answer = <<>> BY DEF Ask, AnswerInv, Answering
  <1>2. CASE read' = [read EXCEPT !.kind = "cards", !.pc = "consent", !.permitted = consent]
    BY <1>1, <1>2 DEF Answering, TypeOK
  <1>3. ASSUME NEW id \in Known,
               \/ read' = [read EXCEPT !.kind = "detail", !.pc = "consent", !.permitted = consent,
                                       !.about = id]
               \/ read' = [read EXCEPT !.kind = "list", !.pc = "runs", !.about = id]
        PROVE  Answering(read')
    <2>1. With(id) # {} BY DEF Known, With
    <2>2. /\ read'.about = id /\ read'.answer = <<>>
          /\ \/ read'.pc = "consent"
             \/ read'.pc = "runs" /\ read'.kind = "list"
      BY <1>1, <1>3 DEF TypeOK
    <2>3. QED BY <2>1, <2>2 DEF Answering
  <1>4. ASSUME NEW d \in Defences,
               read' = [read EXCEPT !.kind = "frontier", !.pc = "frontier", !.about = d,
                                    !.queue = <<d>>]
        PROVE  Answering(read')
    <2>1. /\ read'.kind = "frontier" /\ read'.pc = "frontier" /\ read'.about = d
          /\ read'.queue = <<d>> /\ read'.answer = <<>>
      BY <1>1, <1>4 DEF TypeOK
    <2>2. QED BY <2>1 DEF Answering
  <1>5. QED BY <1>2, <1>3, <1>4 DEF Ask

\* So it is when the consent is known.
LEMMA ConsentReadAnswer == ASSUME IInv, AnswerInv, ReadConsent PROVE Answering(read')
  <1> USE DEF IInv
  <1>1. /\ read.pc = "consent" /\ read.answer = <<>> /\ read.kind \in {"cards", "detail"}
    BY DEF ReadConsent, AnswerInv, Answering, SeenInv
  <1>2. read'.pc \in {"cards", "detail"} /\ read'.answer = <<>> BY <1>1 DEF ReadConsent, TypeOK
  <1>3. QED BY <1>2 DEF Answering

\* The answer moves on by the frontier of the run at the head of the queue.
LEMMA ContinuesOn ==
    ASSUME NEW a, NEW q, NEW look, Continues(a, q, look), q # <<>>
    PROVE  Continues(Append(a, FrontierOf(q[1])), Tail(q), look)
  <1> DEFINE S == {look[k]: k \in DOMAIN look}
             x == FrontierOf(q[1])
             b == Append(a, x)
             u == Tail(q)
  <1>1. /\ a \in Seq(S) /\ q \in Seq(Defences) /\ look \in Seq(S)
        /\ Len(look) = Len(a) + Len(q)
        /\ \A k \in 1..Len(a): a[k] = look[k]
        /\ \A k \in 1..Len(q): OptionsOf(q[k]) # {} /\ look[Len(a) + k] = FrontierOf(q[k])
    BY DEF Continues
  <1>2. Len(a) \in Nat /\ Len(q) \in Nat /\ Len(q) > 0 /\ DOMAIN look = 1..Len(look)
    BY <1>1
  <1>3. look[Len(a) + 1] = x /\ x \in S
    <2>1. 1 \in 1..Len(q) /\ Len(a) + 1 \in DOMAIN look BY <1>1, <1>2
    <2>2. look[Len(a) + 1] = x BY <1>1, <2>1
    <2>3. QED BY <2>1, <2>2
  <1> HIDE DEF S, x
  <1>4. /\ b \in Seq(S) /\ Len(b) = Len(a) + 1
        /\ \A k \in 1..Len(a): b[k] = a[k]
        /\ b[Len(a) + 1] = x
    BY <1>1, <1>3, AppendProperties
  <1>5. /\ u \in Seq(Defences) /\ Len(u) = Len(q) - 1
        /\ \A k \in 1..Len(u): u[k] = q[k + 1]
    BY <1>1, HeadTailProperties
  <1> HIDE DEF b, u
  <1>6. \A k \in 1..Len(b): b[k] = look[k]
    <2>1. \A k \in 1..Len(b): k \in 1..Len(a) \/ k = Len(a) + 1 BY <1>2, <1>4
    <2>2. QED BY <1>1, <1>3, <1>4, <2>1
  <1>7. \A k \in 1..Len(u): OptionsOf(u[k]) # {} /\ look[Len(b) + k] = FrontierOf(u[k])
    <2> SUFFICES ASSUME NEW k \in 1..Len(u)
                 PROVE  OptionsOf(u[k]) # {} /\ look[Len(b) + k] = FrontierOf(u[k])
      OBVIOUS
    <2>1. /\ k + 1 \in 1..Len(q) /\ u[k] = q[k + 1] /\ Len(b) + k = Len(a) + (k + 1)
      BY <1>2, <1>4, <1>5
    <2>2. QED BY <1>1, <2>1
  <1>8. Len(look) = Len(b) + Len(u) BY <1>1, <1>2, <1>4, <1>5
  <1>9. Continues(b, u, look) BY <1>1, <1>4, <1>5, <1>6, <1>7, <1>8 DEF Continues, S
  <1>10. QED BY <1>9 DEF b, u, x

\* A run that is still queued has options to show, as it had when the runs were seen.
LEMMA FrontierAnswer == ASSUME IInv, AnswerInv, ReadFrontier PROVE Answering(read')
  <1> USE DEF IInv
  <1>1. read.pc = "frontier" /\ read.kind \in {"list", "frontier"}
    BY DEF ReadFrontier, DetailInv
  <1>2. CASE read.queue = <<>>
    <2>1. read' = [read EXCEPT !.pc = "answered"] BY <1>2 DEF ReadFrontier
    <2>2. /\ read'.pc = "answered" /\ read'.torn = read.torn /\ read'.answer = read.answer
          /\ read'.looks = read.looks
      BY <2>1 DEF TypeOK
    <2>3. CASE read.torn BY <2>2, <2>3 DEF Answering
    <2>4. CASE ~read.torn /\ read.kind = "list"
      <3>1. PICK look \in read.looks: Continues(read.answer, read.queue, look)
        BY <1>1, <2>4 DEF AnswerInv, Answering
      <3>2. read.answer = look
        <4> DEFINE S == {look[k]: k \in DOMAIN look}
        <4>1. /\ read.answer \in Seq(S) /\ look \in Seq(S)
              /\ Len(look) = Len(read.answer) + Len(read.queue)
              /\ \A k \in 1..Len(read.answer): read.answer[k] = look[k]
          BY <3>1 DEF Continues
        <4>2. Len(read.queue) = 0 BY <1>2
        <4> HIDE DEF S
        <4>3. Len(read.answer) \in Nat BY <4>1, LenProperties
        <4>4. QED BY <4>1, <4>2, <4>3, SeqEqual
      <3>3. QED BY <2>2, <3>1, <3>2 DEF Answering
    <2>5. CASE ~read.torn /\ read.kind = "frontier"
      <3>1. <<read.about>> # <<>> OBVIOUS
      <3>2. read.answer \in read.looks BY <1>1, <1>2, <2>5, <3>1 DEF AnswerInv, Answering
      <3>3. QED BY <2>2, <3>2 DEF Answering
    <2>6. QED BY <1>1, <2>3, <2>4, <2>5 DEF TypeOK
  <1>3. CASE read.queue # <<>>
    <2> DEFINE os == OptionsOf(read.queue[1])
    <2> DEFINE after == IF os = {} THEN [read EXCEPT !.queue = Tail(read.queue)]
                        ELSE [read EXCEPT !.rows = os, !.pc = "about"]
    <2>1. /\ read'.kind = read.kind /\ read'.about = read.about /\ read'.torn = read.torn
          /\ read'.answer = read.answer /\ Look \in read'.looks /\ read.looks \subseteq read'.looks
          /\ read'.queue = (IF os = {} THEN Tail(read.queue) ELSE read.queue)
          /\ read'.pc = (IF os = {} THEN "frontier" ELSE "about")
          /\ os # {} => read'.rows = os
      <3>1. Statement(after) BY <1>3 DEF ReadFrontier
      <3> HIDE DEF os
      <3>2. /\ DOMAIN after = DOMAIN read /\ after.looks = read.looks
            /\ after.kind = read.kind /\ after.about = read.about /\ after.torn = read.torn
            /\ after.answer = read.answer
            /\ after.queue = (IF os = {} THEN Tail(read.queue) ELSE read.queue)
            /\ after.pc = (IF os = {} THEN "frontier" ELSE "about")
            /\ os # {} => after.rows = os
        BY <1>1 DEF TypeOK
      <3> HIDE DEF after
      <3>3. QED BY <3>1, <3>2, StatementLeaves
    <2>2. CASE read.torn BY <2>1, <2>2 DEF Answering
    <2>3. CASE ~read.torn /\ read.kind = "list"
      <3>1. PICK look \in read.looks: Continues(read.answer, read.queue, look)
        BY <1>1, <2>3 DEF AnswerInv, Answering
      <3>2. os # {}
        <4>1. read.queue \in Seq(Defences) BY <3>1 DEF Continues
        <4>2. 1 \in 1..Len(read.queue) BY <1>3, <4>1
        <4>3. QED BY <3>1, <4>2 DEF Continues
      <3>3. QED BY <1>3, <2>1, <2>3, <3>1, <3>2 DEF Answering
    <2>4. CASE ~read.torn /\ read.kind = "frontier"
      <3>1. read.queue = <<read.about>> /\ read.answer = <<>>
        BY <1>1, <1>3, <2>4 DEF AnswerInv, Answering
      <3>2. read.queue[1] = read.about /\ Tail(read.queue) = <<>> BY <3>1
      <3>3. CASE os = {}
        <4>1. FrontierOf(read.about) = {} BY <3>2, <3>3, FrontierMissing
        <4>2. Look = <<>> BY <2>4, <4>1 DEF Look
        <4>3. QED BY <2>1, <2>4, <3>1, <3>2, <3>3, <4>2 DEF Answering
      <3>4. CASE os # {}
        BY <1>3, <2>1, <2>4, <3>1, <3>4 DEF Answering
      <3>5. QED BY <3>3, <3>4
    <2>5. QED BY <1>1, <2>2, <2>3, <2>4
  <1>4. QED BY <1>2, <1>3

\* A run's options are about what they were seen to be about.
LEMMA AboutAnswer == ASSUME IInv, AnswerInv, ReadAbout PROVE Answering(read')
  <1>1. /\ read.pc = "about" /\ read'.pc = "value" /\ read'.kind = read.kind
        /\ read'.about = read.about /\ read'.torn = read.torn /\ read'.queue = read.queue
        /\ read'.rows = read.rows /\ read'.answer = read.answer
        /\ read'.ids = AboutOf(read.queue[1]) /\ read.looks \subseteq read'.looks
    BY DEF ReadAbout, Statement, IInv, TypeOK
  <1>2. read.kind \in {"list", "frontier"} BY <1>1 DEF IInv, DetailInv
  <1>3. QED BY <1>1, <1>2 DEF AnswerInv, Answering

\* Shown, a run's frontier is the one that was seen.
LEMMA ValueAnswer == ASSUME IInv, RunsInv, AnswerInv, ReadValue PROVE Answering(read')
  <1> USE DEF IInv
  <1> DEFINE d == read.queue[1]
             shown == {Frontier(read.rows, c): c \in TargetsOf(read.ids)}
  <1>1. /\ read.pc = "value" /\ read'.pc = "frontier" /\ read'.kind = read.kind
        /\ read'.about = read.about /\ read'.torn = read.torn
        /\ read'.queue = Tail(read.queue)
        /\ read'.answer = (IF shown = {} THEN read.answer ELSE Append(read.answer, shown))
        /\ Look \in read'.looks /\ read.looks \subseteq read'.looks
    BY DEF ReadValue, Statement, TypeOK
  <1>2. read.kind \in {"list", "frontier"} BY <1>1 DEF DetailInv
  <1>3. CASE read.torn BY <1>1, <1>3 DEF Answering
  <1>4. CASE ~read.torn
    <2>1. /\ read.rows # {} /\ read.rows = OptionsOf(d) /\ read.queue # <<>>
          /\ read.ids = AboutOf(d)
      BY <1>1, <1>4 DEF AnswerInv, Answering
    <2>2. shown = FrontierOf(d) BY <2>1 DEF FrontierOf
    <2>3. shown # {} BY <2>1, <2>2, FrontierThere
    <2> HIDE DEF shown
    <2>4. read'.answer = Append(read.answer, shown) BY <1>1, <2>3
    <2>5. CASE read.kind = "list"
      <3>1. PICK look \in read.looks: Continues(read.answer, read.queue, look)
        BY <1>1, <1>4, <2>5 DEF AnswerInv, Answering
      <3>2. Continues(read'.answer, read'.queue, look)
        BY <1>1, <2>1, <2>2, <2>4, <3>1, ContinuesOn
      <3>3. QED BY <1>1, <1>4, <2>5, <3>1, <3>2 DEF Answering
    <2>6. CASE read.kind = "frontier"
      <3>1. read.queue = <<read.about>> /\ read.answer = <<>>
        BY <1>1, <1>4, <2>6 DEF AnswerInv, Answering
      <3>2. d = read.about /\ read'.queue = <<>> BY <1>1, <3>1
      <3>3. read'.answer = <<shown>> BY <2>4, <3>1
      <3>4. Look = <<FrontierOf(read.about)>> BY <2>2, <2>3, <2>6, <3>2 DEF Look
      <3>5. read'.answer \in read'.looks BY <1>1, <2>2, <3>2, <3>3, <3>4
      <3>6. QED BY <1>1, <1>4, <2>6, <3>2, <3>5 DEF Answering
    <2>7. QED BY <1>2, <2>5, <2>6
  <1>5. QED BY <1>3, <1>4

-----------------------------------------------------------------------------
(* Every answer is one that was seen. *)

\* Data that stay are seen as they were.
LEMMA DataStays ==
    ASSUME UNCHANGED <<defence, inferences, options>>
    PROVE  /\ \A id: With(id)' = With(id)
           /\ \A d: Stands(d)
  <1>1. \A id: With(id)' = With(id) BY DEF With, Id
  <1>2. \A d: OptionsOf(d)' = OptionsOf(d) BY DEF OptionsOf
  <1>3. \A d: AboutOf(d)' = AboutOf(d) BY DEF AboutOf
  <1>4. \A d: TargetsOf(AboutOf(d))' = TargetsOf(AboutOf(d))
    BY <1>3 DEF TargetsOf, With, Id, Top
  <1>5. \A d: FrontierOf(d)' = FrontierOf(d) BY <1>2, <1>4 DEF FrontierOf, Frontier, Status
  <1>6. QED BY <1>1, <1>2, <1>3, <1>5 DEF Stands

\* A request that is where its answer says, after a step.
LEMMA AnswerFollows ==
    ASSUME Answering(read'),
           \A id: With(id) # {} => With(id)' = With(id),
           \A d: OptionsOf(d) # {} => Stands(d)
    PROVE  AnswerInv'
  <1>1. PICK r: r = read' OBVIOUS
  <1>2. Answering(r) BY <1>1
  <1>3. Answering(r)' BY <1>2, AnswersStand
  <1>4. QED BY <1>1, <1>3 DEF AnswerInv

\* A statement of a request.
LEMMA RequestAnswer == ASSUME IInv, RunsInv, TurnInv, AnswerInv, Request PROVE AnswerInv'
  <1>1. Answering(read')
    BY AskAnswer, ConsentReadAnswer, CardsAnswer, HeadAnswer, CandidatesAnswer, EvidenceAnswer,
       RunsAnswer, FrontierAnswer, AboutAnswer, ValueAnswer, TargetAnswer, ReliabilityAnswer DEF Request
  <1>2. UNCHANGED <<defence, inferences, options>>
    BY DEF Request, Ask, ReadConsent, ReadCards, ReadHead, ReadCandidates, ReadEvidence,
       ReadRuns, ReadFrontier, ReadAbout, ReadValue, ReadTarget, ReadReliability, Statement, runVars
  <1>3. QED BY <1>1, <1>2, DataStays, AnswerFollows

\* A commit of a run between two statements.
LEMMA CommitAnswer ==
    ASSUME RunsInv, RunsInv', AnswerInv, UNCHANGED read,
           inferences \subseteq inferences', options \subseteq options',
           \A o \in options' \ options: defence[o.run].stage # "done"
    PROVE  AnswerInv'
  <1>1. Answering(read') BY DEF AnswerInv
  <1>2. QED BY <1>1, DataGrows, AnswerFollows

\* Every step keeps what is answered so far.
LEMMA AnswersKept == IInv /\ RunsInv /\ TurnInv /\ AnswerInv /\ [Next]_vars => AnswerInv'
  <1> SUFFICES ASSUME IInv, RunsInv, TurnInv, AnswerInv, [Next]_vars PROVE AnswerInv' OBVIOUS
  <1>1. RunsInv' BY RunsKept
  <1>2. CASE UNCHANGED <<runVars, read>>
    <2>1. UNCHANGED <<inferences, options, read>> BY <1>2 DEF runVars
    <2>2. QED BY <1>1, <2>1, CommitAnswer
  <1>3. ASSUME NEW t \in Attacks,
               AttackBegins(t) \/ PersistCandidate(t) \/ AttackEnds(t) \/ AttackFails(t)
        PROVE  AnswerInv'
    <2>1. UNCHANGED <<options, read>> /\ inferences \subseteq inferences'
      BY <1>3 DEF AttackBegins, PersistCandidate, AttackEnds, AttackFails
    <2>2. QED BY <1>1, <2>1, CommitAnswer
  <1>4. ASSUME NEW d \in Defences, DefenceBegins(d) PROVE AnswerInv'
    <2>1. UNCHANGED <<inferences, options, read>> BY <1>4 DEF DefenceBegins
    <2>2. QED BY <1>1, <2>1, CommitAnswer
  <1>5. ASSUME NEW d \in Defences, DefenceEnds(d) PROVE AnswerInv'
    <2>1. /\ UNCHANGED <<inferences, read>> /\ options \subseteq options'
          /\ defence[d].stage = "open" /\ \A o \in options' \ options: o.run = d
      BY <1>5 DEF DefenceEnds
    <2>2. QED BY <1>1, <2>1, CommitAnswer
  <1>6. CASE ConsentChanges
    <2>1. read' = [read EXCEPT !.permitted = @ \/ (Reading /\ ~consent)]
          /\ UNCHANGED <<defence, inferences, options>>
      BY <1>6 DEF ConsentChanges, runVars
    <2>2. /\ read'.pc = read.pc /\ read'.kind = read.kind /\ read'.about = read.about
          /\ read'.seen = read.seen /\ read'.torn = read.torn /\ read'.queue = read.queue
          /\ read'.rows = read.rows /\ read'.ids = read.ids /\ read'.answer = read.answer
          /\ read'.looks = read.looks
      BY <2>1 DEF IInv, TypeOK
    <2>3. Answering(read') BY <2>2 DEF AnswerInv, Answering
    <2>4. QED BY <2>1, <2>3, DataStays, AnswerFollows
  <1>7. CASE Erase
    <2>1. /\ read'.torn = (read.torn \/ Reading) /\ read'.pc = read.pc /\ read'.kind = read.kind
          /\ read'.answer = read.answer /\ read'.looks = read.looks
      BY <1>7 DEF Erase, IInv, TypeOK
    <2>2. CASE read.torn \/ Reading BY <2>1, <2>2 DEF AnswerInv, Answering
    <2>3. CASE ~read.torn /\ ~Reading BY <2>1, <2>3 DEF AnswerInv, Answering, Reading
    <2>4. QED BY <2>2, <2>3
  <1>8. CASE Request BY <1>8, RequestAnswer
  <1>9. CASE UNCHANGED vars BY <1>2, <1>9 DEF vars
  <1>10. QED BY <1>2, <1>3, <1>4, <1>5, <1>6, <1>7, <1>8, <1>9 DEF Next

\* api/v1/inferences.py, remediations.py: an answer put together from several statements is
\* one that a single statement would have given, whatever runs commit between them, unless
\* the user is erased meanwhile.
THEOREM SnapshotsHold == Spec => []ReadsAreSnapshots
  <1>1. Init => IInv /\ RunsInv /\ TurnInv /\ AnswerInv BY InitIInv, AnswerStarts
  <1>2. IInv /\ RunsInv /\ TurnInv /\ AnswerInv /\ [Next]_vars
            => IInv' /\ RunsInv' /\ TurnInv' /\ AnswerInv'
    BY NextIInv, RunsKept, AnswersKept
  <1>3. AnswerInv => ReadsAreSnapshots BY DEF AnswerInv, Answering, ReadsAreSnapshots
  <1>4. QED BY <1>1, <1>2, <1>3, PTL DEF Spec

-----------------------------------------------------------------------------
(* Sums over finite sets.  MapThenSumSet is defined by recursion over the subsets of the  *)
(* set.  Where a sum is a number of things shared out among the elements, that number of  *)
(* any subset obeys the recursion, and nothing else does: two functions that obey it      *)
(* would differ at a smallest subset.                                                     *)

\* What follows for a finite set from its proper subsets holds of all.
LEMMA AllSubsets ==
    ASSUME NEW S, IsFiniteSet(S), NEW g, NEW h,
           \A s \in SUBSET S:
               (\A t \in SUBSET S: t \subseteq s /\ t # s => g[t] = h[t]) => g[s] = h[s]
    PROVE  \A s \in SUBSET S: g[s] = h[s]
  <1> DEFINE B == {s \in SUBSET S: g[s] # h[s]}
             N == {Cardinality(s): s \in B}
  <1> SUFFICES ASSUME B # {} PROVE FALSE OBVIOUS
  <1>1. \A s \in SUBSET S: IsFiniteSet(s) /\ Cardinality(s) \in Nat
    BY FS_Subset, FS_CardinalityType
  <1>2. PICK m \in N: \A k \in N: ~(k < m)
    <2>1. N \subseteq Nat /\ N # {} BY <1>1
    <2> HIDE DEF N
    <2>2. PICK m \in N: \A k \in N: ~(<<k, m>> \in OpToRel(<, Nat))
      BY <2>1, NatLessThanWellFounded, WFMin
    <2>3. ASSUME NEW k \in N, k < m PROVE FALSE
      <3>1. <<k, m>> \in Nat \X Nat /\ <<k, m>>[1] < <<k, m>>[2] BY <2>1, <2>3
      <3>2. <<k, m>> \in {ss \in Nat \X Nat: ss[1] < ss[2]} BY <3>1
      <3>3. QED BY <2>2, <3>2, Zenon DEF OpToRel
    <2>4. QED BY <2>3
  <1>3. PICK s \in B: m = Cardinality(s) OBVIOUS
  <1>4. ASSUME NEW t \in SUBSET S, t \subseteq s, t # s PROVE g[t] = h[t]
    <2>1. Cardinality(t) < Cardinality(s)
      <3>1. Cardinality(t) <= Cardinality(s) /\ Cardinality(t) # Cardinality(s)
        BY <1>1, <1>4, FS_Subset
      <3>2. QED BY <1>1, <3>1
    <2>2. QED BY <1>2, <1>3, <2>1
  <1>5. QED BY <1>3, <1>4

\* The things of T that k gives to x.
Share(T, k, x) == {t \in T: k[t] = x}

\* The things of T that k gives to the elements of s.
Given(T, k, s) == {t \in T: k[t] \in s}

\* The share of an element and those of the others.
LEMMA Shares ==
    ASSUME NEW T, IsFiniteSet(T), NEW k, NEW s, NEW x \in s
    PROVE  Cardinality(Given(T, k, s)) =
               Cardinality(Share(T, k, x)) + Cardinality(Given(T, k, s \ {x}))
  <1> DEFINE A == Share(T, k, x)
             B == Given(T, k, s \ {x})
  <1>1. Given(T, k, s) = A \cup B /\ A \cap B = {} BY DEF Given, Share
  <1>2. A \subseteq T /\ B \subseteq T BY DEF Given, Share
  <1> HIDE DEF A, B
  <1>3. IsFiniteSet(A) /\ IsFiniteSet(B) BY <1>2, FS_Subset
  <1>4. Cardinality(A \cup B) = Cardinality(A) + Cardinality(B) - Cardinality(A \cap B)
    BY <1>3, FS_Union
  <1>5. /\ Cardinality(A \cap B) = 0 /\ Cardinality(A) \in Nat /\ Cardinality(B) \in Nat
    BY <1>1, <1>3, FS_EmptySet, FS_CardinalityType
  <1>6. QED BY <1>1, <1>4, <1>5 DEF A, B

\* What the library picks of a set.
Pick(s) == CHOOSE x \in s: TRUE

\* g is the recursive function behind the sum over S of what v says of the picked element.
Sums(g, v, S) == g = [s \in SUBSET S |-> IF s = {} THEN 0 ELSE v[Pick(s)] + g[s \ {Pick(s)}]]

\* The recursion has a solution, and n is what it comes to.
ComesTo(v, S, n) == (\E g: Sums(g, v, S)) /\ \A g: Sums(g, v, S) => g[S] = n

\* A function that obeys the recursion counts what is shared out.
LEMMA SharesSum ==
    ASSUME NEW S, IsFiniteSet(S), NEW T, IsFiniteSet(T), NEW k, \A t \in T: k[t] \in S,
           NEW v, \A x \in S: v[x] = Cardinality(Share(T, k, x))
    PROVE  ComesTo(v, S, Cardinality(T))
  <1> DEFINE c == [s \in SUBSET S |-> Cardinality(Given(T, k, s))]
  <1>1. \A s \in SUBSET S: s # {} => Pick(s) \in s /\ s \ {Pick(s)} \in SUBSET S BY DEF Pick
  <1>2. \A s \in SUBSET S: c[s] = Cardinality(Given(T, k, s)) OBVIOUS
  <1>3. \A s \in SUBSET S: c[s] = IF s = {} THEN 0 ELSE v[Pick(s)] + c[s \ {Pick(s)}]
    <2> SUFFICES ASSUME NEW s \in SUBSET S
                 PROVE  c[s] = IF s = {} THEN 0 ELSE v[Pick(s)] + c[s \ {Pick(s)}]
      OBVIOUS
    <2>1. CASE s = {}
      <3>1. Given(T, k, s) = {} BY <2>1 DEF Given
      <3>2. QED BY <1>2, <2>1, <3>1, FS_EmptySet
    <2>2. CASE s # {}
      <3>1. Pick(s) \in s /\ s \ {Pick(s)} \in SUBSET S BY <1>1, <2>2
      <3>2. Cardinality(Given(T, k, s)) =
                Cardinality(Share(T, k, Pick(s))) + Cardinality(Given(T, k, s \ {Pick(s)}))
        BY <3>1, Shares
      <3>3. QED BY <1>2, <2>2, <3>1, <3>2
    <2>3. QED BY <2>1, <2>2
  <1>4. c = [s \in SUBSET S |-> c[s]] OBVIOUS
  <1> HIDE DEF c
  <1>5. Sums(c, v, S) BY <1>3, <1>4 DEF Sums
  <1>6. ASSUME NEW g, Sums(g, v, S) PROVE g[S] = c[S]
    <2>1. \A s \in SUBSET S: g[s] = IF s = {} THEN 0 ELSE v[Pick(s)] + g[s \ {Pick(s)}]
      BY <1>6 DEF Sums
    <2>2. ASSUME NEW s \in SUBSET S,
                 \A t \in SUBSET S: t \subseteq s /\ t # s => g[t] = c[t]
          PROVE  g[s] = c[s]
      <3>1. CASE s = {} BY <1>3, <2>1, <3>1
      <3>2. CASE s # {}
        <4>1. Pick(s) \in s /\ s \ {Pick(s)} \in SUBSET S BY <1>1, <3>2
        <4>2. g[s \ {Pick(s)}] = c[s \ {Pick(s)}] BY <2>2, <4>1
        <4>3. g[s] = v[Pick(s)] + g[s \ {Pick(s)}] BY <2>1, <3>2
        <4>4. c[s] = v[Pick(s)] + c[s \ {Pick(s)}] BY <1>3, <3>2
        <4>5. QED BY <4>2, <4>3, <4>4
      <3>3. QED BY <3>1, <3>2
    <2>3. \A s \in SUBSET S: g[s] = c[s] BY <2>2, AllSubsets
    <2>4. QED BY <2>3
  <1>7. c[S] = Cardinality(T)
    <2>1. Given(T, k, S) = T BY DEF Given
    <2>2. QED BY <1>2, <2>1
  <1>8. QED BY <1>5, <1>6, <1>7 DEF ComesTo

\* Where the hits of an element are its share, those of all are all there are.
LEMMA HitsShared ==
    ASSUME NEW S, IsFiniteSet(S), NEW T, IsFiniteSet(T), NEW k, \A t \in T: k[t] \in S,
           \A x \in S: x.hits = Cardinality(Share(T, k, x))
    PROVE  MapThenSumSet(LAMBDA x: x.hits, S) = Cardinality(T)
  <1> DEFINE v == [x \in S |-> x.hits]
             Q(g) == g = [s \in SUBSET S |-> IF s = {} THEN 0 ELSE Pick(s).hits + g[s \ {Pick(s)}]]
             G == CHOOSE g: Q(g)
  <1>1. MapThenSumSet(LAMBDA x: x.hits, S) = G[S] BY DEF MapThenSumSet, MapThenFoldSet, Pick
  <1>2. \A x \in S: v[x] = Cardinality(Share(T, k, x)) OBVIOUS
  <1>3. \A s \in SUBSET S: s # {} => v[Pick(s)] = Pick(s).hits BY DEF Pick
  <1> HIDE DEF v
  <1>4. \A g: Q(g) <=> Sums(g, v, S) BY <1>3 DEF Sums
  <1>5. ComesTo(v, S, Cardinality(T)) BY <1>2, SharesSum
  <1>6. Q(G) BY <1>4, <1>5 DEF ComesTo
  <1> HIDE DEF Q, G
  <1>7. QED BY <1>1, <1>4, <1>5, <1>6 DEF ComesTo

\* So it is with the numbers they are out of,
LEMMA OfShared ==
    ASSUME NEW S, IsFiniteSet(S), NEW T, IsFiniteSet(T), NEW k, \A t \in T: k[t] \in S,
           \A x \in S: x.of = Cardinality(Share(T, k, x))
    PROVE  MapThenSumSet(LAMBDA x: x.of, S) = Cardinality(T)
  <1> DEFINE v == [x \in S |-> x.of]
             Q(g) == g = [s \in SUBSET S |-> IF s = {} THEN 0 ELSE Pick(s).of + g[s \ {Pick(s)}]]
             G == CHOOSE g: Q(g)
  <1>1. MapThenSumSet(LAMBDA x: x.of, S) = G[S] BY DEF MapThenSumSet, MapThenFoldSet, Pick
  <1>2. \A x \in S: v[x] = Cardinality(Share(T, k, x)) OBVIOUS
  <1>3. \A s \in SUBSET S: s # {} => v[Pick(s)] = Pick(s).of BY DEF Pick
  <1> HIDE DEF v
  <1>4. \A g: Q(g) <=> Sums(g, v, S) BY <1>3 DEF Sums
  <1>5. ComesTo(v, S, Cardinality(T)) BY <1>2, SharesSum
  <1>6. Q(G) BY <1>4, <1>5 DEF ComesTo
  <1> HIDE DEF Q, G
  <1>7. QED BY <1>1, <1>4, <1>5, <1>6 DEF ComesTo

\* with the numbers that rates are out of,
LEMMA RatesOfShared ==
    ASSUME NEW S, IsFiniteSet(S), NEW T, IsFiniteSet(T), NEW k, \A t \in T: k[t] \in S,
           \A x \in S: x.rate["of"] = Cardinality(Share(T, k, x))
    PROVE  MapThenSumSet(LAMBDA x: x.rate["of"], S) = Cardinality(T)
  <1> DEFINE v == [x \in S |-> x.rate["of"]]
             Q(g) == g = [s \in SUBSET S |-> IF s = {} THEN 0 ELSE Pick(s).rate["of"] + g[s \ {Pick(s)}]]
             G == CHOOSE g: Q(g)
  <1>1. MapThenSumSet(LAMBDA x: x.rate["of"], S) = G[S] BY DEF MapThenSumSet, MapThenFoldSet, Pick
  <1>2. \A x \in S: v[x] = Cardinality(Share(T, k, x)) OBVIOUS
  <1>3. \A s \in SUBSET S: s # {} => v[Pick(s)] = Pick(s).rate["of"] BY DEF Pick
  <1> HIDE DEF v
  <1>4. \A g: Q(g) <=> Sums(g, v, S) BY <1>3 DEF Sums
  <1>5. ComesTo(v, S, Cardinality(T)) BY <1>2, SharesSum
  <1>6. Q(G) BY <1>4, <1>5 DEF ComesTo
  <1> HIDE DEF Q, G
  <1>7. QED BY <1>1, <1>4, <1>5, <1>6 DEF ComesTo

\* with those whose first candidate is right,
LEMMA RatesTop1Shared ==
    ASSUME NEW S, IsFiniteSet(S), NEW T, IsFiniteSet(T), NEW k, \A t \in T: k[t] \in S,
           \A x \in S: x.rate["top1"] = Cardinality(Share(T, k, x))
    PROVE  MapThenSumSet(LAMBDA x: x.rate["top1"], S) = Cardinality(T)
  <1> DEFINE v == [x \in S |-> x.rate["top1"]]
             Q(g) == g = [s \in SUBSET S |-> IF s = {} THEN 0 ELSE Pick(s).rate["top1"] + g[s \ {Pick(s)}]]
             G == CHOOSE g: Q(g)
  <1>1. MapThenSumSet(LAMBDA x: x.rate["top1"], S) = G[S] BY DEF MapThenSumSet, MapThenFoldSet, Pick
  <1>2. \A x \in S: v[x] = Cardinality(Share(T, k, x)) OBVIOUS
  <1>3. \A s \in SUBSET S: s # {} => v[Pick(s)] = Pick(s).rate["top1"] BY DEF Pick
  <1> HIDE DEF v
  <1>4. \A g: Q(g) <=> Sums(g, v, S) BY <1>3 DEF Sums
  <1>5. ComesTo(v, S, Cardinality(T)) BY <1>2, SharesSum
  <1>6. Q(G) BY <1>4, <1>5 DEF ComesTo
  <1> HIDE DEF Q, G
  <1>7. QED BY <1>1, <1>4, <1>5, <1>6 DEF ComesTo

\* and with those of which one of three is.
LEMMA RatesTop3Shared ==
    ASSUME NEW S, IsFiniteSet(S), NEW T, IsFiniteSet(T), NEW k, \A t \in T: k[t] \in S,
           \A x \in S: x.rate["top3"] = Cardinality(Share(T, k, x))
    PROVE  MapThenSumSet(LAMBDA x: x.rate["top3"], S) = Cardinality(T)
  <1> DEFINE v == [x \in S |-> x.rate["top3"]]
             Q(g) == g = [s \in SUBSET S |-> IF s = {} THEN 0 ELSE Pick(s).rate["top3"] + g[s \ {Pick(s)}]]
             G == CHOOSE g: Q(g)
  <1>1. MapThenSumSet(LAMBDA x: x.rate["top3"], S) = G[S] BY DEF MapThenSumSet, MapThenFoldSet, Pick
  <1>2. \A x \in S: v[x] = Cardinality(Share(T, k, x)) OBVIOUS
  <1>3. \A s \in SUBSET S: s # {} => v[Pick(s)] = Pick(s).rate["top3"] BY DEF Pick
  <1> HIDE DEF v
  <1>4. \A g: Q(g) <=> Sums(g, v, S) BY <1>3 DEF Sums
  <1>5. ComesTo(v, S, Cardinality(T)) BY <1>2, SharesSum
  <1>6. Q(G) BY <1>4, <1>5 DEF ComesTo
  <1> HIDE DEF Q, G
  <1>7. QED BY <1>1, <1>4, <1>5, <1>6 DEF ComesTo

-----------------------------------------------------------------------------
(* The accuracy and the map of an eval. *)

Same(x, y) == x.persona = y.persona /\ x.attribute = y.attribute

\* The predictions ps and samples ss of the first k personas: one of each attribute, every
\* sample is right if and only if the prediction it goes with is, and who is right has one.
Aligned(ps, ss, k) ==
    /\ IsFiniteSet(ps) /\ IsFiniteSet(ss)
    /\ \A x \in ps \cup ss: \E j \in 1..k: j \in DOMAIN Personas /\ x.persona = Personas[j]
    /\ \A x, y \in ps: Same(x, y) => x = y
    /\ \A s, t \in ss: Same(s, t) => s = t
    /\ \A x \in ps: x.top1 => \E s \in ss: Same(s, x)
    /\ \A s \in ss: \E x \in ps: Same(s, x) /\ s.correct = x.top1

\* What an eval under way has to aggregate.
ScoredInv ==
    \A e \in Evals:
        /\ stage[e] = "idle" => scored[e] = 0 /\ predictions[e] = {} /\ samples[e] = {}
        /\ stage[e] = "open" => Aligned(predictions[e], samples[e], scored[e])

\* What is made of the elements of a finite set is finite.
LEMMA ImageFinite ==
    ASSUME NEW S, IsFiniteSet(S), NEW f
    PROVE  IsFiniteSet({f[x]: x \in S})
  <1> DEFINE T == {f[x]: x \in S}
             g == [x \in S |-> f[x]]
  <1>1. g \in Surjection(S, T) BY DEF Surjection
  <1> HIDE DEF g
  <1>2. QED BY <1>1, FS_Surjection

\* Without guesses there is nothing right.
LEMMA RightWasGuessed ==
    ASSUME NEW a, NEW guess, NEW p, NEW v \in Judged(guess, a, p), v.top1
    PROVE  a \in DOMAIN guess /\ guess[a] # <<>>
  <1>1. a \in DOMAIN guess BY DEF Judged, Miss
  <1>2. v \in Verdicts(a, guess[a], Truth[p][a].value) BY <1>1 DEF Judged
  <1>3. 1 \in DOMAIN guess[a]
    <2> DEFINE first == {k \in DOMAIN guess[a]: k <= 3}
    <2>1. \E hit \in [first -> BOOLEAN]:
              v = [top1 |-> \E k \in first: k = 1 /\ hit[k], top3 |-> \E k \in first: hit[k]]
      BY <1>2 DEF Verdicts
    <2>2. PICK hit \in [first -> BOOLEAN]:
              v = [top1 |-> \E k \in first: k = 1 /\ hit[k], top3 |-> \E k \in first: hit[k]]
      BY <2>1
    <2>3. v.top1 = \E k \in first: k = 1 /\ hit[k] BY <2>2
    <2>4. QED BY <2>3
  <1>4. QED BY <1>1, <1>3

\* What a persona adds to the aggregates.
LEMMA ScoreAdds ==
    ASSUME NEW e \in Evals, Score(e)
    PROVE  LET p == Personas[scored[e] + 1] IN
           \E guess \in Inferred[runs[e]]:
           \E verdict \in [Revealed(p) -> [top1: BOOLEAN, top3: BOOLEAN]]:
               /\ \A a \in Revealed(p): verdict[a] \in Judged(guess, a, p)
               /\ predictions' = [predictions EXCEPT ![e] = @ \cup Predictions(p, verdict)]
               /\ samples' = [samples EXCEPT ![e] = @ \cup Samples(guess, p, runs[e], verdict)]
  BY Zenon DEF Score

\* One more persona.
LEMMA AlignedGrows ==
    ASSUME NEW ps, NEW ss, NEW k \in Nat, Aligned(ps, ss, k), k + 1 \in DOMAIN Personas,
           NEW guess, NEW n,
           NEW verdict \in [Revealed(Personas[k + 1]) -> [top1: BOOLEAN, top3: BOOLEAN]],
           \A a \in Revealed(Personas[k + 1]): verdict[a] \in Judged(guess, a, Personas[k + 1])
    PROVE  Aligned(ps \cup Predictions(Personas[k + 1], verdict),
                   ss \cup Samples(guess, Personas[k + 1], n, verdict), k + 1)
  <1> DEFINE p == Personas[k + 1]
             R == Revealed(p)
             X == Predictions(p, verdict)
             Y == Samples(guess, p, n, verdict)
             D == {b \in DOMAIN guess \cap R: guess[b] # <<>>}
             pred == [a \in R |-> [persona |-> p, attribute |-> a, hardness |-> Truth[p][a].hardness,
                                   top1 |-> verdict[a].top1, top3 |-> verdict[a].top3]]
             sample == [a \in D |-> [persona |-> p, attribute |-> a, n |-> n,
                                     raw |-> guess[a][1].raw, correct |-> verdict[a].top1]]
  <1>1. X = {pred[a]: a \in R} /\ Y = {sample[a]: a \in D} BY DEF Predictions, Samples
  <1>2. \A a \in R: pred[a].persona = p /\ pred[a].attribute = a /\ pred[a].top1 = verdict[a].top1
    OBVIOUS
  <1>3. \A a \in D: /\ sample[a].persona = p /\ sample[a].attribute = a
                    /\ sample[a].correct = verdict[a].top1
    OBVIOUS
  <1>4. D \subseteq R /\ IsFiniteSet(R) /\ IsFiniteSet(D)
    <2>1. IsFiniteSet(DOMAIN Truth[p]) BY PersonasAssumption
    <2>2. D \subseteq R /\ R \subseteq DOMAIN Truth[p] BY DEF Revealed
    <2> HIDE DEF D, R, p
    <2>3. QED BY <2>1, <2>2, FS_Subset
  <1>5. \A a \in R: verdict[a].top1 => a \in D BY RightWasGuessed
  <1>6. \A x \in ps \cup ss: x.persona # p
    <2> SUFFICES ASSUME NEW x \in ps \cup ss, x.persona = p PROVE FALSE OBVIOUS
    <2>1. PICK j \in 1..k: j \in DOMAIN Personas /\ x.persona = Personas[j] BY DEF Aligned
    <2>2. j = k + 1 BY <2>1, PersonasAssumption
    <2>3. QED BY <2>1, <2>2
  <1> HIDE DEF pred, sample, D, R, X, Y
  <1>7. IsFiniteSet(ps \cup X) /\ IsFiniteSet(ss \cup Y)
    <2>1. IsFiniteSet(X) /\ IsFiniteSet(Y) BY <1>1, <1>4, ImageFinite
    <2>2. QED BY <2>1, FS_Union DEF Aligned
  <1>8. \A x \in (ps \cup X) \cup (ss \cup Y):
            \E j \in 1..(k + 1): j \in DOMAIN Personas /\ x.persona = Personas[j]
    <2>1. \A x \in X \cup Y: x.persona = Personas[k + 1] BY <1>1, <1>2, <1>3
    <2>2. k + 1 \in 1..(k + 1) /\ 1..k \subseteq 1..(k + 1) OBVIOUS
    <2>3. \A x \in ps \cup ss: \E j \in 1..k: j \in DOMAIN Personas /\ x.persona = Personas[j]
      BY DEF Aligned
    <2> HIDE DEF p
    <2>4. QED BY <2>1, <2>2, <2>3
  <1>9. \A x, y \in ps \cup X: Same(x, y) => x = y
    <2>1. \A x, y \in ps: Same(x, y) => x = y BY DEF Aligned
    <2>2. \A x, y \in X: Same(x, y) => x = y BY <1>1, <1>2 DEF Same
    <2>3. \A x \in X: x.persona = p BY <1>1, <1>2
    <2>4. QED BY <1>6, <2>1, <2>2, <2>3 DEF Same
  <1>10. \A s, t \in ss \cup Y: Same(s, t) => s = t
    <2>1. \A s, t \in ss: Same(s, t) => s = t BY DEF Aligned
    <2>2. \A s, t \in Y: Same(s, t) => s = t BY <1>1, <1>3 DEF Same
    <2>3. \A s \in Y: s.persona = p BY <1>1, <1>3
    <2>4. QED BY <1>6, <2>1, <2>2, <2>3 DEF Same
  <1>11. \A x \in ps \cup X: x.top1 => \E s \in ss \cup Y: Same(s, x)
    <2>1. \A x \in ps: x.top1 => \E s \in ss: Same(s, x) BY DEF Aligned
    <2>2. \A x \in X: x.top1 => \E s \in Y: Same(s, x)
      <3> SUFFICES ASSUME NEW x \in X, x.top1 PROVE \E s \in Y: Same(s, x) OBVIOUS
      <3>1. PICK a \in R: x = pred[a] BY <1>1
      <3>2. a \in D BY <1>2, <1>5, <3>1
      <3>3. sample[a] \in Y /\ Same(sample[a], x) BY <1>1, <1>2, <1>3, <3>1, <3>2 DEF Same
      <3>4. QED BY <3>3
    <2>3. QED BY <2>1, <2>2
  <1>12. \A s \in ss \cup Y: \E x \in ps \cup X: Same(s, x) /\ s.correct = x.top1
    <2>1. \A s \in ss: \E x \in ps: Same(s, x) /\ s.correct = x.top1 BY DEF Aligned
    <2>2. \A s \in Y: \E x \in X: Same(s, x) /\ s.correct = x.top1
      <3> SUFFICES ASSUME NEW s \in Y PROVE \E x \in X: Same(s, x) /\ s.correct = x.top1 OBVIOUS
      <3>1. PICK a \in D: s = sample[a] BY <1>1
      <3>2. a \in R BY <1>4
      <3>3. pred[a] \in X /\ Same(s, pred[a]) /\ s.correct = pred[a].top1
        BY <1>1, <1>2, <1>3, <3>1, <3>2 DEF Same
      <3>4. QED BY <3>3
    <2>3. QED BY <2>1, <2>2
  <1>13. QED BY <1>7, <1>8, <1>9, <1>10, <1>11, <1>12 DEF Aligned, X, Y

\* Nothing is scored at first.
LEMMA ScoredStarts == EvalInit => ScoredInv
  BY DEF EvalInit, ScoredInv

\* Every step keeps the aggregates aligned.
LEMMA ScoredKept ==
    ASSUME EvalInv, ScoredInv, EvalNext \/ UNCHANGED benchVars
    PROVE  ScoredInv'
  <1> USE DEF EvalInv, EvalTypeOK
  <1>1. ASSUME UNCHANGED evalVars PROVE ScoredInv' BY <1>1 DEF evalVars, ScoredInv
  <1>2. ASSUME NEW e \in Evals, Begin(e) PROVE ScoredInv'
    <2>1. /\ stage[e] = "idle" /\ stage' = [stage EXCEPT ![e] = "open"]
          /\ UNCHANGED <<scored, predictions, samples>>
      BY <1>2 DEF Begin
    <2>2. Aligned({}, {}, 0) BY FS_EmptySet DEF Aligned
    <2>3. QED BY <2>1, <2>2 DEF ScoredInv
  <1>3. ASSUME NEW e \in Evals, Score(e) PROVE ScoredInv'
    <2> DEFINE k == scored[e]
               p == Personas[k + 1]
    <2>1. /\ stage[e] = "open" /\ k < Len(Personas) /\ stage' = stage
          /\ scored' = [scored EXCEPT ![e] = @ + 1]
      BY <1>3 DEF Score
    <2>2. k \in Nat /\ k + 1 \in DOMAIN Personas
      <3>1. k \in Nat OBVIOUS
      <3>2. Personas \in Seq({Personas[j]: j \in DOMAIN Personas}) BY PersonasAssumption
      <3> HIDE DEF k
      <3>3. Len(Personas) \in Nat /\ DOMAIN Personas = 1..Len(Personas) BY <3>2
      <3>4. QED BY <2>1, <3>1, <3>3
    <2>3. PICK guess \in Inferred[runs[e]]:
              \E verdict \in [Revealed(p) -> [top1: BOOLEAN, top3: BOOLEAN]]:
                  /\ \A a \in Revealed(p): verdict[a] \in Judged(guess, a, p)
                  /\ predictions' = [predictions EXCEPT ![e] = @ \cup Predictions(p, verdict)]
                  /\ samples' = [samples EXCEPT ![e] = @ \cup Samples(guess, p, runs[e], verdict)]
      BY <1>3, ScoreAdds
    <2>4. PICK verdict \in [Revealed(p) -> [top1: BOOLEAN, top3: BOOLEAN]]:
              /\ \A a \in Revealed(p): verdict[a] \in Judged(guess, a, p)
              /\ predictions' = [predictions EXCEPT ![e] = @ \cup Predictions(p, verdict)]
              /\ samples' = [samples EXCEPT ![e] = @ \cup Samples(guess, p, runs[e], verdict)]
      BY <2>3
    <2>5. Aligned(predictions[e], samples[e], k) BY <2>1 DEF ScoredInv
    <2> HIDE DEF k
    <2>6. Aligned(predictions[e] \cup Predictions(p, verdict),
                  samples[e] \cup Samples(guess, p, runs[e], verdict), k + 1)
      BY <2>2, <2>4, <2>5, AlignedGrows
    <2>7. /\ predictions'[e] = predictions[e] \cup Predictions(p, verdict)
          /\ samples'[e] = samples[e] \cup Samples(guess, p, runs[e], verdict)
          /\ scored'[e] = k + 1
          /\ \A f \in Evals: f # e => /\ predictions'[f] = predictions[f]
                                      /\ samples'[f] = samples[f] /\ scored'[f] = scored[f]
      BY <2>1, <2>4 DEF k
    <2>8. Aligned(predictions'[e], samples'[e], scored'[e]) BY <2>6, <2>7
    <2> HIDE DEF p
    <2>9. QED BY <2>1, <2>7, <2>8 DEF ScoredInv
  <1>4. ASSUME NEW e \in Evals, Publish(e) \/ Abort(e) PROVE ScoredInv'
    <2>1. /\ \E end \in {"done", "failed"}: stage' = [stage EXCEPT ![e] = end]
          /\ scored' = scored
          /\ \A f \in Evals: f # e => predictions'[f] = predictions[f] /\ samples'[f] = samples[f]
      BY <1>4 DEF Publish, Abort
    <2>2. QED BY <2>1 DEF ScoredInv
  <1>5. CASE ReadRows \/ ReadEngine \/ ReadCurve
    BY <1>1, <1>5 DEF ReadRows, ReadEngine, ReadCurve
  <1>6. CASE UNCHANGED benchVars BY <1>1, <1>6 DEF benchVars
  <1>7. QED BY <1>2, <1>3, <1>4, <1>5, <1>6 DEF EvalNext

\* The rates of a partition by hardness make up the rate of the whole.
LEMMA HardnessShares ==
    ASSUME NEW ps, IsFiniteSet(ps)
    PROVE  LET parts == {[hardness |-> h, rate |-> Rate({x \in ps: x.hardness = h})]:
                           h \in {x.hardness: x \in ps}}
           IN  /\ MapThenSumSet(LAMBDA h: h.rate["of"], parts) = Rate(ps).of
               /\ MapThenSumSet(LAMBDA h: h.rate["top1"], parts) = Rate(ps).top1
               /\ MapThenSumSet(LAMBDA h: h.rate["top3"], parts) = Rate(ps).top3
  <1> DEFINE level(h) == {x \in ps: x.hardness = h}
             part(h) == [hardness |-> h, rate |-> Rate(level(h))]
             H == {x.hardness: x \in ps}
             parts == {part(h): h \in H}
             k == [x \in ps |-> part(x.hardness)]
             hards == [x \in ps |-> x.hardness]
             made == [h \in H |-> part(h)]
  <1>1. IsFiniteSet(parts)
    <2>1. H = {hards[x]: x \in ps} OBVIOUS
    <2> HIDE DEF hards
    <2>2. IsFiniteSet(H) BY <2>1, ImageFinite
    <2>3. parts = {made[h]: h \in H} OBVIOUS
    <2> HIDE DEF made, H, parts
    <2>4. QED BY <2>2, <2>3, ImageFinite
  <1>2. \A x \in ps: k[x] \in parts OBVIOUS
  <1>3. \A h: part(h).hardness = h /\ part(h).rate = Rate(level(h)) OBVIOUS
  <1>4. \A h \in parts: /\ h.rate = Rate(level(h.hardness))
                       /\ \A x \in ps: k[x] = h <=> x.hardness = h.hardness
    <2>1. \A x \in ps: k[x] = part(x.hardness) OBVIOUS
    <2> HIDE DEF part, k, H
    <2>2. \A h \in parts: h = part(h.hardness) BY <1>3
    <2>3. QED BY <1>3, <2>1, <2>2
  <1>5. \A h \in parts:
           /\ h.rate["of"] = Cardinality(level(h.hardness))
           /\ h.rate["top1"] = Cardinality({x \in level(h.hardness): x.top1})
           /\ h.rate["top3"] = Cardinality({x \in level(h.hardness): x.top3})
    <2> HIDE DEF level, parts
    <2>1. \A xs: /\ Rate(xs)["of"] = Cardinality(xs)
                 /\ Rate(xs)["top1"] = Cardinality({x \in xs: x.top1})
                 /\ Rate(xs)["top3"] = Cardinality({x \in xs: x.top3})
      BY DEF Rate
    <2>2. QED BY <1>4, <2>1
  <1> HIDE DEF k, parts
  <1>6. MapThenSumSet(LAMBDA h: h.rate["of"], parts) = Cardinality(ps)
    <2>1. \A h \in parts: Share(ps, k, h) = level(h.hardness) BY <1>4 DEF Share
    <2>2. \A h \in parts: h.rate["of"] = Cardinality(Share(ps, k, h)) BY <1>5, <2>1
    <2>3. QED BY <1>1, <1>2, <2>2, RatesOfShared
  <1>7. MapThenSumSet(LAMBDA h: h.rate["top1"], parts) = Cardinality({x \in ps: x.top1})
    <2> DEFINE T == {x \in ps: x.top1}
    <2>1. \A h \in parts: Share(T, k, h) = {x \in level(h.hardness): x.top1}
      BY <1>4 DEF Share
    <2>2. \A h \in parts: h.rate["top1"] = Cardinality(Share(T, k, h)) BY <1>5, <2>1
    <2>3. IsFiniteSet(T) /\ \A t \in T: k[t] \in parts BY <1>2, FS_Subset
    <2> HIDE DEF T
    <2>4. MapThenSumSet(LAMBDA h: h.rate["top1"], parts) = Cardinality(T)
      BY <1>1, <2>2, <2>3, RatesTop1Shared
    <2>5. QED BY <2>4 DEF T
  <1>8. MapThenSumSet(LAMBDA h: h.rate["top3"], parts) = Cardinality({x \in ps: x.top3})
    <2> DEFINE T == {x \in ps: x.top3}
    <2>1. \A h \in parts: Share(T, k, h) = {x \in level(h.hardness): x.top3}
      BY <1>4 DEF Share
    <2>2. \A h \in parts: h.rate["top3"] = Cardinality(Share(T, k, h)) BY <1>5, <2>1
    <2>3. IsFiniteSet(T) /\ \A t \in T: k[t] \in parts BY <1>2, FS_Subset
    <2> HIDE DEF T
    <2>4. MapThenSumSet(LAMBDA h: h.rate["top3"], parts) = Cardinality(T)
      BY <1>1, <2>2, <2>3, RatesTop3Shared
    <2>5. QED BY <2>4 DEF T
  <1>9. QED BY <1>6, <1>7, <1>8 DEF Rate, parts

About(xs, a) == {x \in xs: x.attribute = a}
Correct(ss) == {s \in ss: s.correct}
FirstRight(ps) == {x \in ps: x.top1}

\* Of an attribute there are no more samples than predictions, and as many are right.
LEMMA AlignedCounts ==
    ASSUME NEW P, NEW S, NEW n, Aligned(P, S, n), NEW a
    PROVE  /\ Cardinality(About(S, a)) <= Cardinality(About(P, a))
           /\ Cardinality(Correct(About(S, a))) = Cardinality(FirstRight(About(P, a)))
  <1> DEFINE ps == {x \in P: x.attribute = a}
             ss == {s \in S: s.attribute = a}
             right == {s \in ss: s.correct}
             hits == {x \in ps: x.top1}
             mate(s) == CHOOSE x \in P: Same(s, x) /\ s.correct = x.top1
             f == [s \in ss |-> mate(s)]
             g == [s \in right |-> mate(s)]
  <1>1. \A s \in S: mate(s) \in P /\ Same(s, mate(s)) /\ s.correct = mate(s).top1
    BY DEF Aligned
  <1> HIDE DEF mate
  <1>2. \A s, t \in ss: mate(s) = mate(t) => s = t
    <2> SUFFICES ASSUME NEW s \in ss, NEW t \in ss, mate(s) = mate(t) PROVE s = t OBVIOUS
    <2>1. Same(s, t) BY <1>1 DEF Same
    <2>2. QED BY <2>1 DEF Aligned
  <1>3. f \in Injection(ss, ps) BY <1>1, <1>2 DEF Same, Injection, IsInjective
  <1>4. g \in Bijection(right, hits)
    <2>1. g \in Injection(right, hits) BY <1>1, <1>2 DEF Same, Injection, IsInjective
    <2>2. ASSUME NEW x \in hits PROVE \E s \in right: g[s] = x
      <3>1. PICK s \in S: Same(s, x) BY DEF Aligned
      <3>2. s \in ss /\ Same(mate(s), x) BY <1>1, <3>1 DEF Same
      <3>3. mate(s) = x BY <1>1, <3>1, <3>2 DEF Aligned
      <3>4. QED BY <1>1, <3>1, <3>2, <3>3
    <2>3. QED BY <2>1, <2>2 DEF Bijection, Surjection, Injection
  <1>5. IsFiniteSet(ps) /\ IsFiniteSet(right)
    <2>1. ps \subseteq P /\ right \subseteq S OBVIOUS
    <2>2. QED BY <2>1, FS_Subset DEF Aligned
  <1> HIDE DEF f, g, ps, ss, right, hits
  <1>6. Cardinality(ss) <= Cardinality(ps) BY <1>3, <1>5, FS_Injection
  <1>7. Cardinality(hits) = Cardinality(right) BY <1>4, <1>5, FS_Bijection DEF ExistsBijection
  <1>8. QED BY <1>6, <1>7 DEF ps, ss, right, hits, About, Correct, FirstRight

\* The entry that an eval makes of a sample and those like it.
Entry(e, s) ==
    [engine |-> engine[e], attribute |-> s.attribute, n |-> s.n, bucket |-> Bucket(s.raw),
     of |-> Cardinality({t \in samples[e]:
                t.attribute = s.attribute /\ Bucket(t.raw) = Bucket(s.raw)}),
     hits |-> Cardinality({t \in samples[e]:
                  t.attribute = s.attribute /\ Bucket(t.raw) = Bucket(s.raw) /\ t.correct})]

\* The entries of the map about an attribute that stem from the samples of an eval.
Mine(e, a) ==
    {c \in curve': /\ c.engine = engine[e] /\ c.attribute = a
                   /\ \E s \in samples[e]: s.attribute = c.attribute
                        /\ s.n = c.n /\ SameTenth(c.bucket, s.raw)}

\* They are those it makes: none like them is left of before.
LEMMA MineAreEntries ==
    ASSUME NEW e \in Evals, Publish(e), NEW a, \A c \in curve: c.bucket = Bucket(c.bucket)
    PROVE  Mine(e, a) = {Entry(e, s): s \in {t \in samples[e]: t.attribute = a}}
  <1>1. Measured(e) = {Entry(e, s): s \in samples[e]} BY DEF Measured, Entry
  <1>2. curve' = {c \in curve: \A d \in Measured(e): ~SameBucket(c, d)} \cup Measured(e)
    BY DEF Publish
  <1>3. \A s: /\ Entry(e, s).engine = engine[e] /\ Entry(e, s).attribute = s.attribute
              /\ Entry(e, s).n = s.n /\ Entry(e, s).bucket = Bucket(s.raw)
    BY DEF Entry
  <1>4. ASSUME NEW c \in Mine(e, a) PROVE \E s \in samples[e]: s.attribute = a /\ c = Entry(e, s)
    <2>1. c \in curve' /\ c.engine = engine[e] /\ c.attribute = a BY <1>4 DEF Mine
    <2>2. PICK s \in samples[e]: s.attribute = c.attribute /\ s.n = c.n /\ SameTenth(c.bucket, s.raw)
      BY <1>4 DEF Mine
    <2>3. Entry(e, s) \in Measured(e) BY <1>1
    <2>4. c \in Measured(e)
      <3> SUFFICES ASSUME c \in curve PROVE c \in Measured(e) BY <1>2, <2>1
      <3>1. c.bucket = Bucket(s.raw) BY <2>2, TenthIsBucket
      <3>2. SameBucket(c, Entry(e, s)) BY <1>3, <2>1, <2>2, <3>1 DEF SameBucket
      <3>3. QED BY <1>2, <2>1, <2>3, <3>2
    <2>5. PICK t \in samples[e]: c = Entry(e, t) BY <1>1, <2>4
    <2>6. QED BY <1>3, <2>1, <2>5
  <1>5. ASSUME NEW s \in samples[e], s.attribute = a PROVE Entry(e, s) \in Mine(e, a)
    <2>1. SameTenth(Entry(e, s).bucket, s.raw) BY <1>3, BucketTwice, TenthIsBucket
    <2>2. QED BY <1>1, <1>2, <1>3, <1>5, <2>1 DEF Mine
  <1>6. QED BY <1>4, <1>5

\* An entry has its share of the samples and of the right ones.
LEMMA EntriesShare ==
    ASSUME NEW e \in Evals, \A s \in samples[e]: s.n = runs[e], IsFiniteSet(samples[e]), NEW a
    PROVE  LET ss == {t \in samples[e]: t.attribute = a}
               mine == {Entry(e, s): s \in ss}
           IN  /\ MapThenSumSet(LAMBDA c: c.hits, mine) = Cardinality({s \in ss: s.correct})
               /\ MapThenSumSet(LAMBDA c: c.of, mine) = Cardinality(ss)
  <1> DEFINE ss == {t \in samples[e]: t.attribute = a}
             right == {s \in ss: s.correct}
             mine == {Entry(e, s): s \in ss}
             k == [s \in ss |-> Entry(e, s)]
  <1>1. ASSUME NEW s \in ss, NEW t \in ss
        PROVE  Entry(e, s) = Entry(e, t) <=> Bucket(s.raw) = Bucket(t.raw)
    <2>1. s.attribute = t.attribute /\ s.n = t.n OBVIOUS
    <2>2. Entry(e, s).bucket = Bucket(s.raw) /\ Entry(e, t).bucket = Bucket(t.raw) BY DEF Entry
    <2>3. Bucket(s.raw) = Bucket(t.raw) => Entry(e, s) = Entry(e, t) BY <2>1 DEF Entry
    <2>4. QED BY <2>2, <2>3
  <1>2. ASSUME NEW s \in ss
        PROVE  /\ Entry(e, s).of = Cardinality({t \in ss: Bucket(t.raw) = Bucket(s.raw)})
               /\ Entry(e, s).hits = Cardinality({t \in right: Bucket(t.raw) = Bucket(s.raw)})
    <2>1. {t \in samples[e]: t.attribute = s.attribute /\ Bucket(t.raw) = Bucket(s.raw)} =
              {t \in ss: Bucket(t.raw) = Bucket(s.raw)}
      OBVIOUS
    <2>2. {t \in samples[e]: t.attribute = s.attribute /\ Bucket(t.raw) = Bucket(s.raw) /\ t.correct} =
              {t \in right: Bucket(t.raw) = Bucket(s.raw)}
      OBVIOUS
    <2>3. QED BY <2>1, <2>2 DEF Entry
  <1>3. ASSUME NEW s \in ss
        PROVE  /\ Share(ss, k, Entry(e, s)) = {t \in ss: Bucket(t.raw) = Bucket(s.raw)}
               /\ Share(right, k, Entry(e, s)) = {t \in right: Bucket(t.raw) = Bucket(s.raw)}
    <2>1. \A t \in ss: k[t] = Entry(e, s) <=> Bucket(t.raw) = Bucket(s.raw) BY <1>1
    <2> HIDE DEF k
    <2>2. QED BY <2>1 DEF Share
  <1>4. right \subseteq ss /\ ss \subseteq samples[e] OBVIOUS
  <1>5. mine = {k[s]: s \in ss} /\ \A s \in ss: k[s] \in mine OBVIOUS
  <1>6. \A c \in mine: c.of = Cardinality(Share(ss, k, c)) /\ c.hits = Cardinality(Share(right, k, c))
    <2> SUFFICES ASSUME NEW s \in ss
                 PROVE  /\ Entry(e, s).of = Cardinality(Share(ss, k, Entry(e, s)))
                        /\ Entry(e, s).hits = Cardinality(Share(right, k, Entry(e, s)))
      OBVIOUS
    <2>1. QED BY <1>2, <1>3
  <1> HIDE DEF ss, right, mine, k
  <1>7. IsFiniteSet(ss) /\ IsFiniteSet(right) /\ IsFiniteSet(mine)
    <2>1. IsFiniteSet(ss) /\ IsFiniteSet(right) BY <1>4, FS_Subset
    <2>2. IsFiniteSet({k[s]: s \in ss}) BY <2>1, ImageFinite
    <2>3. QED BY <1>5, <2>1, <2>2
  <1>8. MapThenSumSet(LAMBDA c: c.hits, mine) = Cardinality(right)
    BY <1>4, <1>5, <1>6, <1>7, HitsShared
  <1>9. MapThenSumSet(LAMBDA c: c.of, mine) = Cardinality(ss)
    BY <1>5, <1>6, <1>7, OfShared
  <1>10. QED BY <1>8, <1>9 DEF ss, right, mine

\* What an eval publishes of an attribute agrees with the map it publishes.
LEMMA PublishAgrees ==
    ASSUME EvalInv, ScoredInv, NEW e \in Evals, Publish(e), NEW r \in results' \ results
    PROVE  /\ MapThenSumSet(LAMBDA c: c.hits, Mine(e, r.attribute)) = r.rate.top1
           /\ MapThenSumSet(LAMBDA c: c.of, Mine(e, r.attribute)) <= r.rate.of
           /\ MapThenSumSet(LAMBDA h: h.rate["of"], r.byHardness) = r.rate.of
           /\ MapThenSumSet(LAMBDA h: h.rate["top1"], r.byHardness) = r.rate.top1
           /\ MapThenSumSet(LAMBDA h: h.rate["top3"], r.byHardness) = r.rate.top3
  <1>1. r \in Accuracy(e) /\ stage[e] = "open" BY DEF Publish
  <1>2. PICK a: r = AccuracyOf(e, a) BY <1>1 DEF Accuracy
  <1> DEFINE ps == {x \in predictions[e]: x.attribute = a}
             ss == {s \in samples[e]: s.attribute = a}
             parts == {[hardness |-> h, rate |-> Rate({x \in ps: x.hardness = h})]:
                         h \in {x.hardness: x \in ps}}
  <1>3. r.attribute = a /\ r.rate = Rate(ps) /\ r.byHardness = parts BY <1>2 DEF AccuracyOf
  <1>4. Aligned(predictions[e], samples[e], scored[e]) BY <1>1 DEF ScoredInv
  <1>5. /\ Cardinality(ss) <= Cardinality(ps)
        /\ Cardinality({s \in ss: s.correct}) = Cardinality({x \in ps: x.top1})
    <2>1. /\ Cardinality(About(samples[e], a)) <= Cardinality(About(predictions[e], a))
          /\ Cardinality(Correct(About(samples[e], a))) =
                 Cardinality(FirstRight(About(predictions[e], a)))
      BY <1>4, AlignedCounts
    <2>2. QED BY <2>1 DEF About, Correct, FirstRight
  <1>6. IsFiniteSet(samples[e]) /\ \A s \in samples[e]: s.n = runs[e]
    BY <1>4 DEF Aligned, EvalInv, MapInv
  <1>7. Mine(e, a) = {Entry(e, s): s \in ss} BY MineAreEntries DEF EvalInv, MapInv
  <1>8. /\ MapThenSumSet(LAMBDA c: c.hits, {Entry(e, s): s \in ss}) = Cardinality({s \in ss: s.correct})
        /\ MapThenSumSet(LAMBDA c: c.of, {Entry(e, s): s \in ss}) = Cardinality(ss)
    BY <1>6, EntriesShare
  <1>9. r.rate.of = Cardinality(ps) /\ r.rate.top1 = Cardinality({x \in ps: x.top1})
    BY <1>3 DEF Rate
  <1>10. IsFiniteSet(ps)
    <2>1. ps \subseteq predictions[e] OBVIOUS
    <2>2. QED BY <1>4, <2>1, FS_Subset DEF Aligned
  <1>11. /\ MapThenSumSet(LAMBDA h: h.rate["of"], parts) = Rate(ps).of
         /\ MapThenSumSet(LAMBDA h: h.rate["top1"], parts) = Rate(ps).top1
         /\ MapThenSumSet(LAMBDA h: h.rate["top3"], parts) = Rate(ps).top3
    BY <1>10, HardnessShares
  <1> HIDE DEF ps, ss, parts
  <1>12. /\ MapThenSumSet(LAMBDA c: c.hits, Mine(e, r.attribute)) = r.rate.top1
         /\ MapThenSumSet(LAMBDA c: c.of, Mine(e, r.attribute)) <= r.rate.of
    BY <1>3, <1>5, <1>7, <1>8, <1>9
  <1>13. QED BY <1>3, <1>11, <1>12

\* services/eval.py: when an eval is published, the hits of an attribute are those of its
\* buckets in the map, of no more guesses than were scored, and its hardness levels share
\* them out.
THEOREM AccuracyMatchesHolds == Spec => AccuracyMatchesMap
  <1> DEFINE Agree(e) ==
               stage[e] = "open" /\ stage'[e] = "done" =>
                 \A r \in results' \ results:
                    /\ MapThenSumSet(LAMBDA c: c.hits, Mine(e, r.attribute)) = r.rate.top1
                    /\ MapThenSumSet(LAMBDA c: c.of, Mine(e, r.attribute)) <= r.rate.of
                    /\ MapThenSumSet(LAMBDA h: h.rate["of"], r.byHardness) = r.rate.of
                    /\ MapThenSumSet(LAMBDA h: h.rate["top1"], r.byHardness) = r.rate.top1
                    /\ MapThenSumSet(LAMBDA h: h.rate["top3"], r.byHardness) = r.rate.top3
  <1>1. ASSUME [Next]_vars PROVE EvalNext \/ UNCHANGED benchVars
    BY <1>1 DEF Next, vars, AttackBegins, PersistCandidate, AttackEnds, AttackFails, DefenceBegins,
       DefenceEnds, ConsentChanges, Erase, Request, Ask, ReadConsent, ReadCards, ReadHead,
       ReadCandidates, ReadEvidence, ReadRuns, ReadFrontier, ReadAbout, ReadValue, ReadTarget,
       ReadReliability, Statement
  <1>2. Init => IInv /\ ScoredInv BY InitIInv, ScoredStarts DEF Init
  <1>3. IInv /\ ScoredInv /\ [Next]_vars => IInv' /\ ScoredInv'
    BY <1>1, NextIInv, ScoredKept DEF IInv
  <1>4. ASSUME IInv, ScoredInv, [Next]_vars, NEW e \in Evals PROVE Agree(e)
    <2> SUFFICES ASSUME stage[e] = "open", stage'[e] = "done", NEW r \in results' \ results
                 PROVE  /\ MapThenSumSet(LAMBDA c: c.hits, Mine(e, r.attribute)) = r.rate.top1
                        /\ MapThenSumSet(LAMBDA c: c.of, Mine(e, r.attribute)) <= r.rate.of
                        /\ MapThenSumSet(LAMBDA h: h.rate["of"], r.byHardness) = r.rate.of
                        /\ MapThenSumSet(LAMBDA h: h.rate["top1"], r.byHardness) = r.rate.top1
                        /\ MapThenSumSet(LAMBDA h: h.rate["top3"], r.byHardness) = r.rate.top3
      OBVIOUS
    <2>1. EvalNext BY <1>1, <1>4 DEF benchVars, evalVars
    <2>2. Publish(e)
      <3>1. stage \in [Evals -> {"idle", "open", "done", "failed"}]
        BY <1>4 DEF IInv, EvalInv, EvalTypeOK
      <3>2. \A f \in Evals: ~Begin(f) /\ ~Score(f) /\ ~Abort(f) BY <3>1 DEF Begin, Score, Abort
      <3>3. \A f \in Evals: Publish(f) => f = e BY <3>1 DEF Publish
      <3>4. ~ReadRows /\ ~ReadEngine /\ ~ReadCurve
        BY DEF ReadRows, ReadEngine, ReadCurve, evalVars
      <3>5. QED BY <2>1, <3>2, <3>3, <3>4 DEF EvalNext
    <2>3. QED BY <1>4, <2>2, PublishAgrees DEF IInv
  <1>5. IInv /\ ScoredInv /\ [Next]_vars =>
        [\A e \in Evals: stage[e] = "open" /\ stage'[e] = "done" =>
          \A r \in results' \ results:
             LET mine == {c \in curve': /\ c.engine = engine[e] /\ c.attribute = r.attribute
                                        /\ \E s \in samples[e]: s.attribute = c.attribute
                                             /\ s.n = c.n /\ SameTenth(c.bucket, s.raw)}
                 Total(field) == MapThenSumSet(LAMBDA h: h.rate[field], r.byHardness)
             IN  /\ MapThenSumSet(LAMBDA c: c.hits, mine) = r.rate.top1
                 /\ MapThenSumSet(LAMBDA c: c.of, mine) <= r.rate.of
                 /\ Total("of") = r.rate.of /\ Total("top1") = r.rate.top1
                 /\ Total("top3") = r.rate.top3]_benchVars
    BY <1>4, Zenon DEF Mine
  <1>6. QED BY <1>2, <1>3, <1>5, PTL DEF Spec, AccuracyMatchesMap
=============================================================================
