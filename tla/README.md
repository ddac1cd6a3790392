# TLA+ verification of glasshouse-backend

glasshouse-backend infers what strangers can learn about a user from the user's own posts
(an *attack* run) and proves edits that defend against it (a *remediation* run). A FastAPI
process accepts requests, arq workers over Redis execute runs, and Postgres holds all state
under row-level security. This directory holds TLA+ modules of it, TLC configurations that
check them on small instances, and proofs for every size that TLAPS checks.

`PROJECT.json` maps every definition to the lines it models. Run a check with
`tlc -config MCStream.cfg MCRunStream`, a proof with `tlapm RunStreamProofs.tla`.

## 1. Inventory

| Component (src/app) | State | Operations | What is hard | What makes it correct |
|---|---|---|---|---|
| Run requests: api/v1/runs.py, repositories/runs.py, profiles.py, api/deps.py | `runs` rows, self `profiles`, one transaction per request | create (attack, remediation), cancel | two systems (Postgres, Redis) written one after the other; retries with one Idempotency-Key race; the commit comes after the response | one run per key; no run without a job; answers name the caller's runs |
| Run reads: api/v1/runs.py, pagination.py | a cursor held by the client; a polling generator per stream | list, status, event stream | rows appear while a client pages; the row changes between read and event; disconnects | no repeat, no skip; what a stream says is true, complete and never goes back |
| Workers: workers/attack.py, remediation.py | one work transaction and its row lock | execute, mark failed | redelivery while the first execution goes on; cancel during work; CancelledError passes every except | one executor; a cancel that committed is final; the run settles |
| Queue: arq, workers/queue.py | jobs, tries, in-progress marks | enqueue, hand out, expire, dead-letter | at-least-once delivery | external; what it guarantees is an assumption |
| Execution: services/inference.py, remediation.py | inferences, evidence, remediations, run metrics | claim, compute, persist, finish | partial failure; art. 9 and decoy gates evaluated at two times | all outputs or none, each kind under its consent |
| Consent: services/consent.py | consent records | require, decoy, special category | revoked between request and execution | nothing is produced without a consent valid since the pickup |
| Consensus: domain/consistency.py, services/occupation.py | none beyond a call | cluster, rank, threshold, geo level rule | ties at the threshold, silent runs, a tolerance that is not transitive, places named to different depths | half of all runs stand behind what is surfaced, an abstention is real, the level is the finest possible |
| Ablation, frontier: services/ablation.py, anonymize.py, remediation.py | none beyond a probe counter | greedy minimal set, prune, hop loop, re-attacks | the probe cap cuts a round; recovery need not be monotone | reports a defence only if a re-attack failed |
| Ingestion: services/ingestion.py, repositories/items.py | `items`, `import_sources` | normalise, dedupe, insert | overlapping imports insert the same keys in different orders | a committed import has all its texts stored |
| Accounts: services/webhooks.py, repositories/users.py | `users` and everything below it | upsert, delete (cascade) | reordered events; a cascade against a worker's locks; a user without data key | an erasure is whole, final for its id, and carried out |
| Evaluation: services/eval.py, domain/calibration.py, api/v1/evals.py | eval results, calibration | publish, two public reads, bucket lookup | an eval run commits between two statements of one read; bucket edges | one answer describes one engine; what a user is told was measured |
| Result reads: api/v1/inferences.py, remediations.py | none | dashboard, finding, frontier | consent masking over several statements | masked without consent; several statements answer as one |
| Retrieval: retrieval/retriever.py | none | select evidence under a token budget | mandatory items can use the budget up; an import commits between the searches | only flagged items exceed the budget, none of them is left out |
| Access, slots: auth/, gateway/slots.py, db/rls.py | none | static tables, RLS context | none for a model checker | |
| Gateway, prompts, parsers, stubs | none | I/O and formatting | none for a model checker | |

How they interact: a request inserts a run, enqueues a job whose id is the run's, answers,
commits. A worker is handed the job, reads the run and the consents, claims the run by a
guarded UPDATE (`queued` to `running`) and keeps that row lock until the work commits or is
rolled back; after a rollback a second transaction marks the run failed. A cancel request and
a late worker meet at the same guarded UPDATE. Readers see only what is committed. The hazards
that follow from this are listed, each at its line, in `PROJECT.json`.

## 2. Modules

| Module | Models | Rests on |
|---|---|---|
| `RunContract` | what the API promises about a run: created `queued`, one move to a terminal status, outputs only with success | |
| `RunLifecycle` | requests, cancel, queue, workers and execution of runs | implements `RunContract` |
| `RunRequests` | POST /v1/runs as a transaction: idempotency, self profile, enqueue, response, commit | |
| `RunPages` | the keyset list | |
| `RunStream` | the event stream of a run | the run in it is `RunContract` |
| `Ablation` | the search for the items that cause a leak | |
| `Remediation` | the options made from them, their proofs, and what is persisted | extends `Ablation` |
| `Retrieval` | which items the model is shown | |
| `Consensus` | what an ensemble's answers about one attribute come to | |
| `Attack` | the computation of an attack: evidence, ensemble, consensus, rows | extends `Retrieval` and `Consensus` |
| `AccountContract` | what a user is promised about data under an id: erasure is whole and final | |
| `Accounts` | Clerk events, imports, requests and workers as transactions with locks, cascades and deadlocks | implements `AccountContract` |
| `Normalize` | what a stated phrase becomes, and what a geocoder makes of a place | |
| `EvalMatch` | whether a prediction of the benchmark is right | extends `Normalize` |
| `Evaluation` | the benchmark, the accuracy and the calibration map it publishes, the public reads | extends `EvalMatch` |
| `Results` | attack and remediation runs as they persist, and every read of a user | extends `Evaluation` |
| `MC...` | instances for TLC | |
| `...Proofs` | theorems | |

### RunLifecycle

`status` and `results` are committed rows, `lock[r]` the transaction that has an uncommitted
UPDATE on the row, `jobs` and `tries` Redis, `pc[w]` the statement a worker's task is at. A
statement of the code that touches shared state is an action: `ReadRun`, `CheckConsent`,
`CheckArt9`, `CheckDecoy` are the SELECTs, each seeing what is committed at that moment (READ
COMMITTED); `Claim` is the guarded UPDATE, which waits for another holder and then looks at the
row again; `Succeed` writes the outputs and commits; `Raise` stands for an exception anywhere,
`MarkFailed` and `MarkError` for the second transaction; `Interrupt` for the death of a worker
and for CancelledError, which no `except` catches. What the model calls answer is any answer;
of the rows written only the kind is kept, because that is what the consent gates decide on.
`window[w]` and the state "blocked" of a cancel are history: no guard reads them, but the
properties about consent and about a cancel in mid-run are stated with them.

The branch `run is None` after the claim does not exist: a claimed run cannot vanish, for the
row is locked and erasing users is not part of this module.

### RunRequests

One action per statement of `create_run`: `Lookup` and `FindProfile` see committed rows, and
`InsertRun` waits for an open transaction that holds the same key, then finds the key taken or
free. `Respond` comes before `Commit`: with the FastAPI of `uv.lock` the exit code of a
dependency, here the commit of `get_scoped_session`, runs after the response was sent. `Abort`
may happen at any point of the transaction. Keys are unique over all users (`db/models.py:238`)
while the lookup sees only the caller's rows, so another user's key is a conflict.

### RunPages

A number stands for `(created_at, id)`. `created_at` is the start of the inserting transaction,
so `Insert` may add a row anywhere in the order, also below rows that were listed. `Fetch` is one
request: read `limit + 1` rows below the cursor, keep `limit`, return a cursor if there were more.

### RunStream

`RunEvents` is the read before the response, `Poll` a turn of the loop, `First`, `Change` and
`Done` the events, which are sent some time after the read they report. The run moves by the
actions of `RunContract` alone; since `RunLifecycle` is proved to implement that contract, what
holds here holds of runs as the workers execute them. `life` and `earlier` are history.

### Ablation, Remediation

`find_minimal_set` calls the adversary once per step, so an action is one pass: `Baseline`, `Try`
(a candidate of a round, in sorted order), `Prune` (an item put back); `TakeBest` ends a round.
The adversary is any function of the items shown, settled where it is first asked (`known`),
because a probe is one run at temperature 0. `maxProbes` is a parameter, so the ceiling cuts the
search wherever it can. Nothing is assumed of the adversary: that one sees more and still loses is
possible, so `EveryMemberIsNeeded` says of a member what the pruning has seen, and minimality follows
for an adversary that never loses by seeing more.

`Remediation` goes on with the set that was found: `SampleBefore` attacks the original N times,
`Hop` is one edit of one item with the feedback adversary's verdict, `Rewrite`, `RemoveItems` and
`Decoy` prove an option and add it, `Persist` is the commit, `Fail` an exception anywhere. These
attacks are stochastic: a sample is any answer, and the bootstrap's lower end is known only to
lie between the least and the greatest paired drop, so `Significant` is forced where all drops
clear the floor or none does, and either way in between. When the search has returned, its locals
are reset, and of earlier options only the key and whether one is a win are kept.

### Retrieval, Consensus, Attack

What `RunLifecycle` does in one step, `Attack` takes apart. `Search` is the read of the texts and
the searches, each a statement with its own snapshot, so ids of a later import (`Late`) may be
found; the rankings of the index and the flags of the PII detector are any answer. `Consider` is
one turn of the selection loop. Of the eight attributes one is followed, since the code handles
each by itself: an age (within a tolerance), an income (equality, as for all categories), an
occupation (whatever the judge says) or a place (its names, finest level first). `Answer` is one
run of the ensemble, `Scan` one level, `Compare` one comparison with a cluster's leader, `Conclude`
the ranking and the threshold. `Persist` keeps of the references those to items that were shown,
and looks the confidence bucket up in the calibration map; `Fail` rolls everything back.

A single run keeps every candidate it states, ranked as it ranked them, so `CandidatesAreRanked` speaks
of ensembles only. Searches may return fewer items than asked for, as a filtered index does. Not kept:
the reasoning text, and GeoNames ids, which stand for names.

### Accounts

One person of Clerk, every `users.id` that person ever has, and the rows of six tables below them.
`db` is committed; `new[t]`, `held[t]` and `gone[e]` are what open transactions have inserted,
updated and deleted, and the locks follow from them. An `Insert` shares the rows its foreign keys
name and waits for a deletion of one of them, or for an uncommitted row with the same unique key,
also where `ON CONFLICT DO NOTHING` would skip it. `Delete` takes the row of `users`, `Cascade` one
row at a time in any order, `CommitErase` ends it. `WaitsFor` is the graph of those waits, `Victim`
the server undoing one transaction of a cycle, `Fault` any other exception of a delivery; `Undone` leads
back to "pending", because the handler then answers an error and Svix delivers again. Deliveries
come in any order and may be repeated. `Resolve` reads the user's id on a connection of its own, so
a request may hold an id that is erased before its first insert. `Provision` is nobody's step in
`src/app` but the benchmark seed's; without it `Refuse` is what an encrypted insert does.

No endpoint calls `ingest_and_persist` yet (imports answer 501); it is modelled as a request would
call it, in the request's transaction, which is how the integration tests use it.

### Normalize, EvalMatch

Pure operators. A phrase is a record of what the parsers can find in a text (a decade, modifiers,
numerals, the separators among them, tokens), never the text. Every operator gives the set of possible outcomes, for three
reasons: a phrase that names two synonyms is decided by the iteration order of a set of strings,
a geocoder may miss or be down, and a judge may say anything.

### Evaluation

`run_eval` is one transaction (`scripts/run_eval.py` opens it). `Begin` fixes its `created_at`, the
engine of the process and the number of runs; `Score` is one persona, from the emission of the model
over parsing, the agreement of the ensemble (`Guesses`: none or up to three of the candidates, in any
order, see `Consensus`; that a place may be cut to a coarser level is not kept), the judging of them, to a
prediction and a sample; `Publish` writes accuracy and map and
commits. Evals may overlap, so the one that commits last need not be the latest. `ReadRows`,
`ReadEngine`, `ReadCurve` are the statements of the public reads. `view.moved` is history. Rates are
kept as hits out of a number, so that sums can be compared. (The samples of an eval are kept after
its end as history too: the properties compare the map with them.)

### Results

`AttackBegins` takes guesses as `Evaluation` infers them, those of art. 9 attributes only under the
consent, `PersistCandidate` looks each up in the map as it is at that moment, `AttackEnds` commits.
`DefenceBegins` and `DefenceEnds` leave options about an inference, each of which wins or does not, or none. A request is a sequence of
statements (`ReadHead`, `ReadCandidates`, `ReadEvidence`; `ReadRuns`, `ReadFrontier`, `ReadAbout`,
`ReadValue`; ...), each with a snapshot of its own. The consent is read once, before them, as in the code: an
answer that is on its way when the consent is withdrawn keeps what it was permitted. `read.looks` is history: the whole answer as it would have been in
one look at the moment of each statement. How runs are claimed, cancelled and retried is in
`RunLifecycle`; here an execution just ends or fails.

`ReliabilityWasMeasured` has two halves: what a user is told was measured by a done eval, and a candidate is
persisted without a reliability only if no done eval measured guesses like it. Both compare the confidences
themselves (`SameTenth`) and not the buckets that `Bucket` files them in, so that a map and a lookup that
disagree about where a bucket begins would break the second.

`RevealsArt9` is FALSE: the field has that default (`domain/output_schema.py:162`) and no code sets it.

## 3. Runs

| Run | Instance | Shows |
|---|---|---|
| `lifecycle` | one remediation that needs every consent, two workers, two tries, a cancel, crashes, redelivery, fair | one executor, no undone cancel, no output without consent, the client's contract; a delivered run settles or is dead-lettered, and a cancel is answered |
| `requests` | two users, a request with a concurrent retry, the other user's request with the same key, a remediation without a key | one run per key, each enqueued, each on a committed profile; answers name the caller's committed runs |
| `pages` | five rows, pages of one or two, inserts at any moment and place | newest first without repeat or skip; a cursor leads on |
| `stream` | a run, a stream and its reconnection, three polls | a `done` event is true for good, every change is sent, nothing goes back; a stream ends, and reports the end if it could still poll |
| `remediation` | three items, ceilings 5, 8 and 12, two hops, two samples, three edits | nothing is reported that was not seen to work; what is shown was proved; `proven` is an honest win; the frontier is whole |
| `attack` | three items, one of them late, a budget of two tokens; one, two or four runs; four ages in a chain, two labels, places of two levels | the selection keeps the budget and its flags; half of all runs stand behind a surfaced value; an abstention is real; a place is as fine as can be; no run counts twice |
| `accounts` | two ids, a `user.updated` and a `user.deleted` of which one may be repeated or fail, two imports of the same two texts in opposite orders, one request and its worker, fair | imports lose no text, under the profile they were made to; an erasure is whole and final (`AccountContract`); it is carried out in spite of locks and deadlocks |
| `results` | two personas, three emissions, evals of one or two engines and ensembles of one or two, an attack run, two remediation runs, a request | reliabilities were measured, and are given wherever something was; the trust view is of one engine; art. 9 values are masked; answers of several statements are one look; accuracy and map agree |
| `lost_run` (violated) | | the job is visible before the row, so a fast worker uses it up and the run stays queued |
| `cancel_mid_run` (violated) | | a cancel that arrives while the run executes loses to its success |
| `retry` (violated) | | a retry meets a run already marked failed, which it may not claim |
| `masked_reasoning` (violated) | the instance of `results` | the reasoning of a birthplace is shown without the consent |

Bounds. A run's transactions meet only at its own row, key and job, so one run with two workers
has every conflict between executors, and a third worker adds none: at most two transactions
contend for one row lock while others wait. Two tries let a job be lost, redelivered to a
second worker while the first goes on, and dead-lettered. Three polls let a run change before, between
and after polls. Five rows and pages of one or two give listings of up to five pages with
inserts between any two. The proofs below remove the bounds for the safety properties.

Three items give redundant causes, joint causes and non-monotone adversaries; a full search takes
at most ten passes, so 12 is never met, 5 cuts the second round and 8 the pruning. Two samples
have a tie, and two hops a repair.

Four runs split two to two at the threshold, and two runs one to one; one run takes the path
without clustering. Ages 20, 23, 26, 29 agree only with their neighbours, the least chain in which
joining any member instead of the leader loses the common answer. The four places have a name
that two places share at the fine level and a place named only at the coarse one.

`accounts`: two ids are an erased one and the one that comes back; two imports are the least that can
wait for each other, and with a worker and an erasure there are cycles of two and of three. Each task is
one transaction, so that more of a kind would repeat a conflict. `MaxRetries` is one: a repetition or a
failure, not both.

`results`: `OneThingAtATime` (in `MCResults`) names what the instance leaves out: the trust view is read
before any attack run and without a consent, because it shares no rows with them; a request comes when at
most one eval has begun; evals are over before a run is done or a consent given; with two evals or with
remediation runs, all ensembles are of one run. After a failed attack run nothing is left to read, so no
request follows it, and an erasure comes during a request, where it can tear one. Emissions have a birthplace the gazetteer refines, an age with three
candidates of which the second or third may be the right one, an income range, and a phrase of two synonyms.
Two engines and two ensembles give the map buckets that differ in one part of their key only.

Deadlock is checked everywhere except in `stream`, `remediation`, `attack`, `accounts`, `results` and
`masked_reasoning`, where the system may stop: all streams have ended and the run is finished or erased;
the one execution ends; every delivery is answered and every task over; runs and requests are over.
`RunRequests` ends in `Finished`, and `RunLifecycle` never stops, because consent may always change.

Fairness. `FairSpec` of `RunLifecycle`: a worker goes on with its task, an idle worker takes
a waiting job, arq lets marks expire and drops exhausted jobs, and a cancel's transaction goes
on. That is what a running event loop, arq's poll and Postgres give; nothing is assumed of
requests, consents, exceptions and crashes. `FairSpec` of `RunStream`: the event loop goes on
with the generator. Nothing is assumed of the run, whose end may never come. `FairSpec` of `Accounts`: Svix delivers what
was not answered (weak fairness of a delivery), Postgres finds deadlocks (weak fairness of `Victim`), and
tasks go on (strong fairness of all tasks together, of which each takes finitely many steps: a lock's
queue is first come, first served, so that a waiter is not passed over for ever). Nothing is assumed of
`Fault`, `Lose`, `Provision` and repetitions.

What the four violated properties quote from the code is in `PROJECT.json` under "findings".

Disagreements that no run reports: a retry of a request whose lookup comes before the first commit gets an
integrity error, where `api/v1/runs.py:54` promises the original run; a footprint smaller than the budget
does not pass whole (`retrieval/retriever.py:5`) if no search returns an item and nothing flags it. Met
while modelling, and left as the code has them in the modules:

* a remediation read shows the target's value under no consent flag (`get_inference_target` has none), which
  `MaskedUnlessConsented` therefore leaves out;
* after a remediation that localized nothing, the reads show the older frontier and never `cant_break`;
* if an eval commits between the statements of the trust view, its halves are of two engines, where
  `api/v1/evals.py:47` says "(so both halves describe one engine)"; `TrustViewIsOneEngine` therefore
  speaks of the views during which none does;
* a bucket that was measured before and is not any more stays in the map of the same engine;
* of a phrase with two synonyms the result depends on string hashing;
* "80-100k" is 80 to 100000 (`_two_numbers` scales each side by itself);
* with one run, a candidate that cannot be parsed leaves a hole in the ranks: a card looks for rank one
  and shows nothing, the benchmark and the finding take the first that is left;
* a country that was not geocoded is a city of that name to the matcher, and never matches a label that
  names only the country; a city is matched by name alone.

## 4. Proofs

| Theorem | For every value of the constants |
|---|---|
| `RunLifecycleProofs`: `Invariance`, `TypeCorrect`, `OneExecutorHolds`, `AnsweredCancelIsFinal`, `ConsentIsRespected`, `LifecycleImplementsContract` | any runs, requests, workers and number of tries |
| `RunRequestsProofs`: `Invariance`, `KeysAreUnique`, `RunsAreEnqueued`, `RunsKeepProfiles`, `AnswersHold` | any requests, users, keys and types |
| `RunPagesProofs`: `Invariance`, `PagesNeverRepeat`, `PagesSkipNothing`, `CursorsLeadOn` | any keys and page sizes |
| `RunStreamProofs`: `Invariance`, `DoneEventsAreTrue`, `StreamsMissNothing`, `StreamsNeverGoBack` | any runs, streams and deadline |
| `RemediationProofs`: `Invariance`, `CapHolds`, `ReportedRemovalsWork`, `EffectsAreOfMembers`, `MembersAreNeeded`, `GivingUpHolds`, `ShownHolds`, `FrontierHolds`, `ProvenWinsAreHonest` | any items, ceilings, answers, samples, hops and edits |
| `AttackProofs`: `SelectionHolds`, `SurfacedHolds`, `AbstentionHolds`, `LevelHolds`, `CandidatesHold` | any items, tokens, budget, rankings and flags; any ensemble, ages, tolerance, labels and places |
| `AccountsProofs`: `Invariance`, `TypeCorrect`, `AccountsImplementContract`, `NoTextIsLost` | any ids, deliveries, imports, requests, workers, texts and retries |
| `ResultsProofs`: `Invariance`, `ReliabilityHolds`, `TrustViewHolds`, `MaskingHolds`, `SnapshotsHold`, `AccuracyMatchesHolds` | any personas, attributes, truths, emissions, engines, ensembles, evals, runs |

Every safety property of the passing runs is stated by a theorem. The assumptions are the named ASSUMEs
of the modules: the types of constants, that what a sum or a search goes through is finite
(`DefencesAssumption`, `RetrievalItemsAssumption`), and that the benchmark's profiles are told apart
(`PersonasAssumption`; `list_profile_ids` reads primary keys). Each proof has one shape: an inductive
invariant, called `IInv` where a module has one for all, and every property from it. TLC found the invariants
to hold on the instances of the runs; the runs themselves check the properties.

* `RunLifecycle`. `OneExecutor` alone says nothing of how a lock relates to a status.
  `LockInv` adds that whoever is at work holds the lock of its run, and that the status below
  a lock is still `queued`; then a second claim must wait, and finds a settled row when it goes
  on. `OutcomeInv` says that `running` is never committed, the fact behind `AnsweredCancelHolds`
  and the refinement: `Succeed` maps to the contract's step, `MarkFailed`, `MarkError` and
  `CommitCancel` to `GiveUp`, `CommitPost` to `Submit`, everything else to a stutter.
  `ConsentInv` carries what a task has seen of consent to its commit.
* `RunRequests`. A key has one holder among committed *and* open transactions (`KeyInv`), which
  is what the waiting INSERT keeps up; uniqueness among committed runs does not follow from itself.
  `AnswersAreRuns` is inductive with it, because a committed run is never taken back.
* `RunPages`. What was there at the start is listed or lies below the cursor, and what is listed
  lies above it. Two lemmas on finite sets carry the pages: `TopAll` (a short page holds all) and
  `TopCut` (the last row of a full page separates it from the rest, and there is a rest).
* `RunStream`. A terminal status that was read is the run's for good, because the contract lets it
  move once; so a stream that opens after another one has shown the end can read nothing else.
  `StreamsMissNothing` is proved from the few shapes that the past of a run (`LifeInv`) and the events of
  a stream (`SentInv`) can have: the contract leaves a poll at most two statuses to see.

* `Remediation`. `SearchInv` says why a result needs no probe of its own: in a round everything but
  the removed items is present and the best removal was probed; while it is pruned, the items
  outside the minimal set were shown last when the adversary failed. So the ceiling may cut the
  pruning anywhere. `RemovedInv` adds that every item is removed once, so that pruning one leaves the
  others; with it `EffectInv` follows the effects from the items removed to those kept, and `NeedInv` says
  that a member the pruning has passed was seen to be needed: the set only shrinks afterwards, so what
  was shown then stays outside it. `KeysInv` fixes the proved options by the stage. `TargetsInv` says that
  the items to be edited are distinct and the load-bearing one is among them, without which two hops
  could end with one text proved and another one shown. `ProvenWinsAreHonest` needs no invariant: one
  lemma reads it off the proof of an option.
* `Attack`. `RetrievalInv` says why the budget holds though flagged items ignore it: as long as one of them
  is pending nothing else is shown. The ensemble needs an invariant per phase. `ClusterInv` says that clusters are
  disjoint, each with its leader, and together with the queue hold every answer; `AgreeInv` that who is
  in a cluster agrees with its leader and with the leader of no earlier one. Tolerance is not transitive, so this
  is all that is known of two members, and enough: equal answers are in one cluster
  (`AbstentionHolds`), and the leader is the answer all others agree with (`SurfacedHolds`). `LevelInv` says that no
  place at the levels passed over had half of the runs. The ranking is by a sort, of which the proof uses that it
  is a permutation and ordered.

* `Accounts`. That an erasure leaves nothing behind does not follow from the cascade: a row may be
  inserted while it goes on. `TaskInv` says that the parents of an inserted row are stored or of the same
  transaction, `ErasureInv` that nobody deletes what a transaction holds; so at `CommitErase`, when the
  cascade has nothing left to delete (`Frontier`), all rows of the id are gone, along the foreign keys
  from `users` down. Then `Upsert` maps to `Mirror` or a stutter, `CommitErase` to `Erase`, `Commit` and
  `Provision` to `Store`, everything else to a stutter. `ImportInv` carries the source and the texts of an
  import, under one profile: each is stored, inserted or still to be inserted (`Brought`), and rows only move
  in that direction (`ImportStays`).
* `Results`. `OrderInv` makes the latest eval unique. `MapInv` says that the map holds only what done
  evals measured *and* every bucket one of them did: the first half gives `ReliabilityHolds` through
  `FoundInv` (what an open execution has found stays true when a bucket is replaced, because the eval that
  measured it stays done), the second its other half, since a lookup that finds nothing finds the map without
  the bucket, and `TrustViewHolds` through `ViewInv`. `SeenInv` and `DetailInv` say
  how far a request is and under which consent each part of its answer was made.

  `SnapshotsHold`: `RunsInv` and `TurnInv` say what a committed run leaves, whatever commits next: its rows
  do not change, its options are of one inference that has a value, and runs begin one after the other.
  `Answering` then names, statement by statement, the one look that the answer so far is a part of and that
  the rest will complete: for a list of frontiers, or of none, the look taken when the runs were read, because a
  run that is done has all its options; for a single frontier the one at its options, because the inference
  they are about is older. An erasure is what breaks it, hence `torn`.

  `AccuracyMatchesHolds` compares sums, which the library defines by recursion over sets. What a recursive
  definition computes needs an induction; here it is had without one. A number of things shared out
  among the elements of a set obeys the recursion for every subset (`SharesSum`), and nothing else does: two functions that
  obey it would differ at a smallest subset, and the naturals are well founded. With the sums as
  numbers of guesses, `ScoredInv` says that samples and predictions go together one to one, and the
  equality is one of cardinalities.

Only model-checked: the liveness properties (`RunSettles`, `CancelIsAnswered`, `StreamEnds`,
`EndIsReported`, `ErasureCompletes`), which are out of the prover's reach. The properties of the four violated runs are
false and have no theorem.

## 5. Not modelled, and why

* Row-level security is assumed: apart from `RunRequests`, where two users share a key space,
  a module describes the data of one user.
* The connection pool is not modelled. A cancel that waits for a row lock keeps a connection
  (listed as a hazard).
* arq and Postgres are modelled from how the code uses them. arq's choice whether a task that
  raised is handed out again is nondeterministic (`RaisedOutcome`).
* Model gateway, prompts, parsers of exports, DTOs, settings and the endpoints that
  answer 501: I/O and formatting without state.
* Of a normalised value the ranges and the GeoNames ids; of a finding the severity, the spans and the texts
  of the cited items, which are copied; of an eval the spot checks, the noise and the calibration error, the
  inferences it persists for its personas, and the floor gate, a comparison of numbers.
* Of an import the parsing before the inserts (`normalize`, `drop_third_party`) and the embeddings.

## 6. Plan

1. `RunLifecycle`, `RunContract` (done): the order of commits, locks and deliveries is the core of the system.
2. `RunRequests` (done). 3. `RunPages`, `RunStream` (done).
4., 5. `Accounts`, `AccountContract` (done): erasure against open transactions, and imports against the
   unique index, composed by the foreign keys they lock.
6. `Ablation`, `Remediation` (done). Left to prove: that the search implements "any subset whose removal
   defeats the adversary, or none".
7. `Consensus`, `Retrieval`, `Attack` (done).
8. `Normalize`, `EvalMatch`, `Evaluation` (done). 9. `Results` (done), composed with consent and with 8.

Left besides: the connection pool, and the composition of `RunLifecycle` with `Accounts` (a run erased
while its job waits).
