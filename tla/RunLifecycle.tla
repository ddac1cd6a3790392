---------------------------- MODULE RunLifecycle ----------------------------
(***************************************************************************)
(* The life of a run (src/app/api/v1/runs.py, src/app/workers,             *)
(* src/app/services/inference.py and remediation.py, src/app/repositories/ *)
(* runs.py): the request that inserts and enqueues it, the arq job that    *)
(* carries it, the workers that execute it, and the cancel request.        *)
(*                                                                         *)
(* Every variable of the database part is COMMITTED state.  A transaction  *)
(* that has updated a row of runs holds that row's lock until it ends, and *)
(* what it wrote is visible to nobody else until then (READ COMMITTED).    *)
(* All runs belong to one user: row-level security hides them from others. *)
(***************************************************************************)
EXTENDS Naturals, FiniteSets

CONSTANTS
    Runs,       \* run ids: one POST /v1/runs each
    Workers,    \* arq worker slots
    Req,        \* Req[r]: what the POST of r asked for
    MaxTries,   \* WorkerSettings.max_tries
    NoRun       \* the run of an idle worker

Purposes == {"self_audit", "art9_inference", "decoy"}
Outputs == {"metrics", "plain", "art9", "decoy"}
Terminal == {"succeeded", "failed", "canceled"}

\* art9: the targeted inference is a special-category one (remediation only);
\* decoy: the body asked for the decoy option (remediation only).
Request == [kind: {"attack", "remediation"}, art9: BOOLEAN, decoy: BOOLEAN]

ASSUME ReqAssumption == Req \in [Runs -> Request]
ASSUME TriesAssumption == MaxTries \in Nat \ {0}
ASSUME NamesAssumption ==
    /\ NoRun \notin Runs
    /\ "free" \notin Workers
    /\ "cancel" \notin Workers

VARIABLES
    \* --- database, committed
    consent,    \* the purposes the user has an active consent for
    status,     \* runs.status of each run, "absent" while it has no row
    results,    \* the output rows of each run
    \* --- database, transactions in progress
    lock,       \* who holds the row lock of each run: "free", "cancel" or a worker
    \* --- API requests
    post,       \* how far the POST of each run has come
    cancel,     \* how far the cancel request of each run has come
    \* --- arq
    jobs,       \* the job of each run in Redis
    tries,      \* how often it was handed to a worker
    \* --- workers
    pc,         \* what each worker is about to do
    run,        \* the run it works on
    art9,       \* its local allow_art9
    decoy,      \* its local decoy flag
    \* --- history, read by properties only
    window      \* the purposes consented to at some moment since the job was picked up

dbVars == <<consent, status, results, lock>>
apiVars == <<post, cancel>>
arqVars == <<jobs, tries>>
workerVars == <<pc, run, art9, decoy, window>>
vars == <<dbVars, apiVars, arqVars, workerVars>>

\* The points at which the work transaction of a worker is open.
InWork == {"read", "consent", "art9", "decoy", "claim", "work"}
\* The points of the except blocks, before _mark_failed.
InMark == {"mark_denied", "mark_error"}

Init ==
    /\ consent \in SUBSET Purposes
    /\ status = [r \in Runs |-> "absent"]
    /\ results = [r \in Runs |-> {}]
    /\ lock = [r \in Runs |-> "free"]
    /\ post = [r \in Runs |-> "none"]
    /\ cancel = [r \in Runs |-> "none"]
    /\ jobs = [r \in Runs |-> "none"]
    /\ tries = [r \in Runs |-> 0]
    /\ pc = [w \in Workers |-> "idle"]
    /\ run = [w \in Workers |-> NoRun]
    /\ art9 = [w \in Workers |-> FALSE]
    /\ decoy = [w \in Workers |-> FALSE]
    /\ window = [w \in Workers |-> {}]

-----------------------------------------------------------------------------
(* Consent records change at any moment, in transactions of their own.     *)

Grant(p) ==
    /\ p \notin consent
    /\ consent' = consent \cup {p}
    /\ window' = [w \in Workers |-> IF pc[w] = "idle" THEN {} ELSE window[w] \cup {p}]
    /\ UNCHANGED <<status, results, lock, apiVars, arqVars, pc, run, art9, decoy>>

Revoke(p) ==
    /\ p \in consent
    /\ consent' = consent \ {p}
    /\ UNCHANGED <<status, results, lock, apiVars, arqVars, workerVars>>

-----------------------------------------------------------------------------
(* POST /v1/runs: create_run and _create_remediation_run in the request's  *)
(* transaction, which get_scoped_session commits after the handler.        *)

\* The consent gates and the INSERT, which nobody else sees yet.
InsertRun(r) ==
    /\ post[r] = "none"
    /\ "self_audit" \in consent
    /\ Req[r].decoy => "decoy" \in consent
    /\ post' = [post EXCEPT ![r] = "inserted"]
    /\ UNCHANGED <<dbVars, cancel, arqVars, workerVars>>

\* enqueue_job, still inside the request's transaction.
Enqueue(r) ==
    /\ post[r] = "inserted"
    /\ post' = [post EXCEPT ![r] = "enqueued"]
    /\ jobs' = [jobs EXCEPT ![r] = "ready"]
    /\ UNCHANGED <<dbVars, cancel, tries, workerVars>>

\* The commit at the edge.
CommitPost(r) ==
    /\ post[r] = "enqueued"
    /\ post' = [post EXCEPT ![r] = "committed"]
    /\ status' = [status EXCEPT ![r] = "queued"]
    /\ UNCHANGED <<consent, results, lock, cancel, arqVars, workerVars>>

\* Redis refuses the job, or the commit fails: the row never existed.
AbortPost(r) ==
    /\ post[r] \in {"inserted", "enqueued"}
    /\ post' = [post EXCEPT ![r] = "aborted"]
    /\ UNCHANGED <<dbVars, cancel, arqVars, workerVars>>

-----------------------------------------------------------------------------
(* POST /v1/runs/{id}:cancel.                                              *)

RequestCancel(r) ==
    /\ cancel[r] = "none"
    /\ post[r] \in {"enqueued", "committed"}
    /\ cancel' = [cancel EXCEPT ![r] = "waiting"]
    /\ UNCHANGED <<dbVars, post, arqVars, workerVars>>

\* The guarded UPDATE meets a matching row that a worker holds, and waits.
BlockCancel(r) ==
    /\ cancel[r] = "waiting"
    /\ lock[r] \in Workers
    /\ cancel' = [cancel EXCEPT ![r] = "blocked"]
    /\ UNCHANGED <<dbVars, post, arqVars, workerVars>>

\* The guarded UPDATE applies; the handler reads the row back.
UpdateCanceled(r) ==
    /\ cancel[r] \in {"waiting", "blocked"}
    /\ status[r] \in {"queued", "running"}
    /\ lock[r] = "free"
    /\ lock' = [lock EXCEPT ![r] = "cancel"]
    /\ cancel' = [cancel EXCEPT ![r] = "updated"]
    /\ UNCHANGED <<consent, status, results, post, arqVars, workerVars>>

\* No row (404) or a terminal one (unchanged): the UPDATE matches nothing, at
\* once or when it looks again at the row it waited for.
CancelTooLate(r) ==
    /\ cancel[r] \in {"waiting", "blocked"}
    /\ status[r] \notin {"queued", "running"}
    /\ cancel' = [cancel EXCEPT ![r] = "refused"]
    /\ UNCHANGED <<dbVars, post, arqVars, workerVars>>

CommitCancel(r) ==
    /\ cancel[r] = "updated"
    /\ cancel' = [cancel EXCEPT ![r] = "done"]
    /\ lock' = [lock EXCEPT ![r] = "free"]
    /\ status' = [status EXCEPT ![r] = "canceled"]
    /\ UNCHANGED <<consent, results, post, arqVars, workerVars>>

\* The connection is lost before the commit.
AbortCancel(r) ==
    /\ cancel[r] = "updated"
    /\ cancel' = [cancel EXCEPT ![r] = "refused"]
    /\ lock' = [lock EXCEPT ![r] = "free"]
    /\ UNCHANGED <<consent, status, results, post, arqVars, workerVars>>

-----------------------------------------------------------------------------
(* arq, as the workers use it: a job is handed out again when its worker   *)
(* is lost or its task raises, at most MaxTries times, and then dropped.   *)

\* Mutant: max_tries is not enforced.
PickupUnlimited(w, r) ==
    /\ pc[w] = "idle"
    /\ jobs[r] = "ready"
    /\ jobs' = [jobs EXCEPT ![r] = "taken"]
    /\ tries' = [tries EXCEPT ![r] = @ + 1]
    /\ pc' = [pc EXCEPT ![w] = "read"]
    /\ run' = [run EXCEPT ![w] = r]
    /\ window' = [window EXCEPT ![w] = consent]
    /\ UNCHANGED <<dbVars, apiVars, art9, decoy>>

Pickup(w, r) ==
    /\ pc[w] = "idle"
    /\ jobs[r] = "ready"
    /\ tries[r] < MaxTries
    /\ jobs' = [jobs EXCEPT ![r] = "taken"]
    /\ tries' = [tries EXCEPT ![r] = @ + 1]
    /\ pc' = [pc EXCEPT ![w] = "read"]
    /\ run' = [run EXCEPT ![w] = r]
    /\ window' = [window EXCEPT ![w] = consent]
    /\ UNCHANGED <<dbVars, apiVars, art9, decoy>>

\* The in-progress mark of a job runs out: its worker died, or is slow.
Expire(r) ==
    /\ jobs[r] = "taken"
    /\ jobs' = [jobs EXCEPT ![r] = "ready"]
    /\ UNCHANGED <<dbVars, apiVars, tries, workerVars>>

DeadLetter(r) ==
    /\ jobs[r] = "ready"
    /\ tries[r] = MaxTries
    /\ jobs' = [jobs EXCEPT ![r] = "dead"]
    /\ UNCHANGED <<dbVars, apiVars, tries, workerVars>>

\* The task of w is over: what becomes of its job, and w is free again.
Leave(w, outcome) ==
    /\ jobs' = [jobs EXCEPT ![run[w]] = IF @ \in {"ready", "taken"} THEN outcome ELSE @]
    /\ pc' = [pc EXCEPT ![w] = "idle"]
    /\ run' = [run EXCEPT ![w] = NoRun]
    /\ art9' = [art9 EXCEPT ![w] = FALSE]
    /\ decoy' = [decoy EXCEPT ![w] = FALSE]
    /\ window' = [window EXCEPT ![w] = {}]
    /\ UNCHANGED tries

-----------------------------------------------------------------------------
(* The tasks attack_run and remediation_run.                               *)

\* Only pc moves.
Goto(w, label) ==
    /\ pc' = [pc EXCEPT ![w] = label]
    /\ UNCHANGED <<run, window>>

\* What the rollback of w's work transaction does to the locks.
Released(w) == [r \in Runs |-> IF lock[r] = w THEN "free" ELSE lock[r]]

\* get_run: gone or canceled means nothing to do.
ReadRun(w) ==
    /\ pc[w] = "read"
    /\ \/ /\ status[run[w]] \in {"absent", "canceled"}
          /\ Leave(w, "done")
       \/ /\ status[run[w]] \notin {"absent", "canceled"}
          /\ Goto(w, "consent")
          /\ UNCHANGED <<arqVars, art9, decoy>>
    /\ UNCHANGED <<dbVars, apiVars>>

\* require_consent("self_audit") again, at execution.
CheckConsent(w) ==
    /\ pc[w] = "consent"
    /\ Goto(w, IF "self_audit" \in consent THEN "art9" ELSE "mark_denied")
    /\ UNCHANGED <<dbVars, apiVars, arqVars, art9, decoy>>

\* has_special_category_consent.
CheckArt9(w) ==
    /\ pc[w] = "art9"
    /\ art9' = [art9 EXCEPT ![w] = "art9_inference" \in consent]
    /\ Goto(w, IF Req[run[w]].decoy THEN "decoy" ELSE "claim")
    /\ UNCHANGED <<dbVars, apiVars, arqVars, decoy>>

\* Mutant: the decoy flag of the request is trusted.
CheckDecoySkipped(w) ==
    /\ pc[w] = "decoy"
    /\ decoy' = [decoy EXCEPT ![w] = TRUE]
    /\ Goto(w, "claim")
    /\ UNCHANGED <<dbVars, apiVars, arqVars, art9>>

\* The decoy consent again: without it, truthful options only.
CheckDecoy(w) ==
    /\ pc[w] = "decoy"
    /\ decoy' = [decoy EXCEPT ![w] = "decoy" \in consent]
    /\ Goto(w, "claim")
    /\ UNCHANGED <<dbVars, apiVars, arqVars, art9>>

\* Mutant: the claim reads the status without locking the row.
ClaimUnlocked(w) ==
    /\ pc[w] = "claim"
    /\ \/ /\ status[run[w]] = "queued"
          /\ lock' = [lock EXCEPT ![run[w]] = w]
          /\ Goto(w, "work")
          /\ UNCHANGED <<arqVars, art9, decoy>>
       \/ /\ status[run[w]] # "queued"
          /\ Leave(w, "done")
          /\ UNCHANGED lock
    /\ UNCHANGED <<consent, status, results, apiVars>>

\* Mutant: a failed run is claimed again by the retry of its job.
ClaimFailed(w) ==
    /\ pc[w] = "claim"
    /\ \/ /\ status[run[w]] \in {"queued", "failed"}
          /\ lock[run[w]] = "free"
          /\ lock' = [lock EXCEPT ![run[w]] = w]
          /\ Goto(w, "work")
          /\ UNCHANGED <<arqVars, art9, decoy>>
       \/ /\ status[run[w]] \notin {"queued", "failed"}
          /\ Leave(w, "done")
          /\ UNCHANGED lock
    /\ UNCHANGED <<consent, status, results, apiVars>>

\* queued -> running under the row lock, or nothing to do.
Claim(w) ==
    /\ pc[w] = "claim"
    /\ \/ /\ status[run[w]] = "queued"
          /\ lock[run[w]] = "free"
          /\ lock' = [lock EXCEPT ![run[w]] = w]
          /\ Goto(w, "work")
          /\ UNCHANGED <<arqVars, art9, decoy>>
       \/ /\ status[run[w]] # "queued"
          /\ Leave(w, "done")
          /\ UNCHANGED lock
    /\ UNCHANGED <<consent, status, results, apiVars>>

\* A special-category target is not remediated without that consent.
Denied(w) == Req[run[w]].kind = "remediation" /\ Req[run[w]].art9 /\ ~art9[w]

Deny(w) ==
    /\ pc[w] = "work"
    /\ Denied(w)
    /\ lock' = Released(w)
    /\ Goto(w, "mark_denied")
    /\ UNCHANGED <<consent, status, results, apiVars, arqVars, art9, decoy>>

\* The sets of rows execute_attack_run or execute_remediation_run may write.
\* A remediation whose target is missing or abstained writes none at all.
Written(w) ==
    LET kinds == IF Req[run[w]].kind = "attack"
                 THEN {"plain"} \cup IF art9[w] THEN {"art9"} ELSE {}
                 ELSE {IF Req[run[w]].art9 THEN "art9" ELSE "plain"}
                        \cup IF decoy[w] THEN {"decoy"} ELSE {}
        full == {{"metrics"} \cup rows: rows \in SUBSET kinds}
    IN  CASE Req[run[w]].kind = "attack" -> full
          [] Denied(w) -> {{}}
          [] OTHER -> full \cup {{}}

\* Rows, metrics, running -> succeeded, and the commit.
Succeed(w) ==
    /\ pc[w] = "work"
    /\ \E rows \in Written(w): results' = [results EXCEPT ![run[w]] = rows]
    /\ status' = [status EXCEPT ![run[w]] = "succeeded"]
    /\ lock' = Released(w)
    /\ Leave(w, "done")
    /\ UNCHANGED <<consent, apiVars>>

\* Mutant: the failed work transaction is left open.
RaiseOpen(w) ==
    /\ pc[w] \in InWork
    /\ Goto(w, "mark_error")
    /\ UNCHANGED <<dbVars, apiVars, arqVars, art9, decoy>>

\* Any step of the work transaction raises: rollback, then the except block.
Raise(w) ==
    /\ pc[w] \in InWork
    /\ lock' = Released(w)
    /\ Goto(w, "mark_error")
    /\ UNCHANGED <<consent, status, results, apiVars, arqVars, art9, decoy>>

\* How a task that raised leaves the queue: handed out again, or dropped.
RaisedOutcome == {"ready", "dead"}

\* Mutant: _mark_failed without allowed_from.
MarkFailedAlways(w) ==
    /\ pc[w] \in InMark
    /\ status[run[w]] # "absent"
    /\ lock[run[w]] = "free"
    /\ status' = [status EXCEPT ![run[w]] = "failed"]
    /\ \E outcome \in IF pc[w] = "mark_denied" THEN {"done"} ELSE RaisedOutcome:
           Leave(w, outcome)
    /\ UNCHANGED <<consent, results, lock, apiVars>>

\* Mutant: _mark_failed only from "running", which the rollback has undone.
MarkFailedRunning(w) ==
    /\ pc[w] \in InMark
    /\ status' = [r \in Runs |->
                    IF r = run[w] /\ status[r] = "running" THEN "failed" ELSE status[r]]
    /\ \E outcome \in IF pc[w] = "mark_denied" THEN {"done"} ELSE RaisedOutcome:
           Leave(w, outcome)
    /\ UNCHANGED <<consent, results, lock, apiVars>>

\* _mark_failed in a transaction of its own; a generic error is re-raised.
MarkFailed(w) ==
    /\ pc[w] \in InMark
    /\ \/ /\ status[run[w]] \in {"queued", "running"}
          /\ lock[run[w]] = "free"
          /\ status' = [status EXCEPT ![run[w]] = "failed"]
       \/ /\ status[run[w]] \notin {"queued", "running"}
          /\ UNCHANGED status
    /\ \E outcome \in IF pc[w] = "mark_denied" THEN {"done"} ELSE RaisedOutcome:
           Leave(w, outcome)
    /\ UNCHANGED <<consent, results, lock, apiVars>>

\* The transaction of _mark_failed raises: the run stays as it was.
MarkError(w) ==
    /\ pc[w] \in InMark
    /\ \E outcome \in RaisedOutcome: Leave(w, outcome)
    /\ UNCHANGED <<dbVars, apiVars>>

\* The process dies or the task is cancelled (CancelledError is no Exception):
\* the server rolls back and nothing marks the run.  A lost worker's job stays
\* taken until it expires; a task cancelled by arq's job timeout is dropped.
Interrupt(w) ==
    /\ pc[w] # "idle"
    /\ lock' = Released(w)
    /\ \E outcome \in {jobs[run[w]], "dead"}: Leave(w, outcome)
    /\ UNCHANGED <<consent, status, results, apiVars>>

-----------------------------------------------------------------------------
Client(r) ==
    \/ InsertRun(r) \/ Enqueue(r) \/ CommitPost(r) \/ AbortPost(r)
    \/ RequestCancel(r) \/ BlockCancel(r) \/ UpdateCanceled(r) \/ CancelTooLate(r)
    \/ CommitCancel(r) \/ AbortCancel(r)

\* The steps of a task that goes on.
Progress(w) ==
    \/ ReadRun(w) \/ CheckConsent(w) \/ CheckArt9(w) \/ CheckDecoy(w)
    \/ Claim(w) \/ Deny(w) \/ Succeed(w) \/ MarkFailed(w)

Task(w) == Progress(w) \/ Raise(w) \/ MarkError(w) \/ Interrupt(w)

Queue(r) == (\E w \in Workers: Pickup(w, r)) \/ Expire(r) \/ DeadLetter(r)

Next ==
    \/ \E p \in Purposes: Grant(p) \/ Revoke(p)
    \/ \E r \in Runs: Client(r) \/ Queue(r)
    \/ \E w \in Workers: Task(w)

Spec == Init /\ [][Next]_vars

\* A task that is not interrupted goes on; arq hands out waiting jobs, lets the
\* mark of a lost worker run out and drops a job out of tries; the database
\* grants a free lock to a waiting cancel and commits it.  No client is obliged
\* to post, commit, cancel, grant or revoke.
Fairness ==
    /\ \A w \in Workers: WF_vars(Progress(w))
    /\ \A r \in Runs:
           /\ WF_vars(\E w \in Workers: Pickup(w, r))
           /\ WF_vars(Expire(r))
           /\ WF_vars(DeadLetter(r))
           /\ WF_vars(UpdateCanceled(r) \/ CancelTooLate(r) \/ CommitCancel(r))

FairSpec == Spec /\ Fairness

-----------------------------------------------------------------------------
(* Properties *)

TypeOK ==
    /\ consent \subseteq Purposes
    /\ status \in [Runs -> {"absent", "queued", "running"} \cup Terminal]
    /\ results \in [Runs -> SUBSET Outputs]
    /\ lock \in [Runs -> {"free", "cancel"} \cup Workers]
    /\ post \in [Runs -> {"none", "inserted", "enqueued", "committed", "aborted"}]
    /\ cancel \in [Runs -> {"none", "waiting", "blocked", "updated", "refused", "done"}]
    /\ jobs \in [Runs -> {"none", "ready", "taken", "done", "dead"}]
    /\ tries \in [Runs -> 0..MaxTries]
    /\ pc \in [Workers -> {"idle"} \cup InWork \cup InMark]
    /\ run \in [Workers -> Runs \cup {NoRun}]
    /\ art9 \in [Workers -> BOOLEAN]
    /\ decoy \in [Workers -> BOOLEAN]
    /\ window \in [Workers -> SUBSET Purposes]

\* A run is never executed by two workers at once, however often arq hands out
\* its job: the guarded claim (execute_attack_run, execute_remediation_run)
\* holds the row until the work is committed or undone.
OneExecutor ==
    \A v, w \in Workers:
        pc[v] = "work" /\ pc[w] = "work" /\ run[v] = run[w] => v = w

\* A run whose cancel was committed stays canceled and has no output, whatever
\* workers, retries and late failures do afterwards (set_run_status_where: "a
\* canceled run is never resurrected").
AnsweredCancelHolds ==
    \A r \in Runs: cancel[r] = "done" => status[r] = "canceled" /\ results[r] = {}

\* A worker commits a success only if self_audit was consented to at some moment
\* since it picked the job up, special-category rows only if art9_inference was,
\* and decoy rows only if decoy was: a consent revoked before the pickup is
\* never relied on, though it was valid when the run was posted.
ResultsWereConsented ==
    [][\A r \in Runs: status[r] # "succeeded" /\ status'[r] = "succeeded" =>
        \E w \in Workers:
            /\ run[w] = r
            /\ pc[w] = "work"
            /\ "self_audit" \in window[w]
            /\ "art9" \in results'[r] => "art9_inference" \in window[w]
            /\ "decoy" \in results'[r] => "decoy" \in window[w]]_vars

Contract == INSTANCE RunContract WITH
    Runs <- Runs, Outputs <- Outputs, status <- status, results <- results

\* Seen from outside, a run is created once as "queued", moves once, to a
\* terminal status, and its outputs appear in the step that makes it succeeded:
\* no reader ever sees "running", or an output of a run that did not succeed.
ImplementsContract == Contract!Spec

\* A committed run whose job still waits in the queue reaches a terminal status
\* unless arq gives the job up (_mark_failed covers every exception, a lost
\* worker's job is handed out again).
RunSettles ==
    \A r \in Runs: status[r] = "queued" /\ jobs[r] = "ready"
                      ~> status[r] \in Terminal \/ jobs[r] = "dead"

\* A cancel request does not wait for a row lock for ever.
CancelIsAnswered ==
    \A r \in Runs: cancel[r] # "none" ~> cancel[r] \in {"refused", "done"}

\* create_run: "the worker runs after this commits", so that the job of a queued
\* run is never used up by a worker that found no row.
NoLostRun == \A r \in Runs: ~(status[r] = "queued" /\ jobs[r] = "done")

\* execute_attack_run: "a cancel that landed mid-run keeps the run canceled".  A
\* cancel that lands on a run a worker is executing is not followed by its success.
CancelMidRunKept ==
    [][\A r \in Runs: cancel[r] = "blocked" => status'[r] # "succeeded"]_vars

\* attack_run: "let arq retry with backoff, then dead-letter".  A job that waits
\* for a retry belongs to a run that a retry can still execute.
RetryCanExecute == \A r \in Runs: jobs[r] = "ready" => status[r] # "failed"

-----------------------------------------------------------------------------
(* The inductive invariant behind the safety properties. *)

\* A row is visible exactly when its request committed.
RowInv == \A r \in Runs: post[r] = "committed" <=> status[r] # "absent"

\* A held lock belongs to the one transaction that changes the run, and the
\* committed status beneath it is still "queued".
LockInv ==
    /\ \A w \in Workers: pc[w] # "idle" <=> run[w] \in Runs
    /\ \A w \in Workers: pc[w] = "work" => lock[run[w]] = w
    /\ \A r \in Runs: lock[r] \in Workers => pc[lock[r]] = "work" /\ run[lock[r]] = r
    /\ \A r \in Runs: lock[r] = "cancel" <=> cancel[r] = "updated"
    /\ \A r \in Runs: lock[r] # "free" => status[r] = "queued"

\* Outputs exist only under "succeeded"; "running" is never committed.
OutcomeInv ==
    /\ \A r \in Runs: status[r] # "running"
    /\ \A r \in Runs: status[r] # "succeeded" => results[r] = {}
    /\ \A r \in Runs: cancel[r] = "done" => status[r] = "canceled"

\* What a task believes about consent was true at some moment since the pickup.
ConsentInv ==
    \A w \in Workers:
        /\ pc[w] \in {"art9", "decoy", "claim", "work"} => "self_audit" \in window[w]
        /\ art9[w] => "art9_inference" \in window[w]
        /\ decoy[w] => "decoy" \in window[w]
        /\ pc[w] # "idle" => consent \subseteq window[w]
        /\ pc[w] = "idle" => ~art9[w] /\ ~decoy[w]

IInv == TypeOK /\ RowInv /\ LockInv /\ OutcomeInv /\ ConsentInv
=============================================================================
