------------------------------ MODULE Accounts ------------------------------
(***************************************************************************)
(* One person of Clerk and the rows Postgres keeps for that person:        *)
(* webhook deliveries that mirror and erase the user                       *)
(* (src/app/services/webhooks.py, repositories/users.py), transactions     *)
(* that store data meanwhile (imports: services/ingestion.py; requests:    *)
(* api/v1/runs.py; workers: services/inference.py), the foreign keys of    *)
(* db/models.py and the data key of db/crypto.py.                          *)
(*                                                                         *)
(* db is COMMITTED state.  A transaction holds, until it ends, a share     *)
(* lock on the parents of the rows it inserted, the rows it updated and    *)
(* the rows it deleted; these locks follow from new, held and gone.        *)
(* Statements are READ COMMITTED; a deadlock is broken by undoing one of   *)
(* the transactions in it.                                                 *)
(***************************************************************************)
EXTENDS Naturals, Sequences, FiniteSets

CONSTANTS
    Ids,        \* values of users.id, numbered in the order they are handed out
    Deliveries, \* webhook events of the person
    Deletes,    \* those that say user.deleted; the others created or updated
    Imports,    \* calls of ingest_and_persist
    Requests,   \* POST /v1/runs requests
    Workers,    \* worker tasks
    RunOf,      \* RunOf[w]: the request whose run w executes
    Contents,   \* normalised texts
    Texts,      \* Texts[t]: the texts that import t brings, in order
    MaxRetries, \* bound: deliveries that fail for other reasons than a deadlock, or
                \* are repeated although they were answered
    NoId        \* no users.id

Tasks == Imports \cup Requests \cup Workers
Procs == Tasks \cup Deliveries

ASSUME AccountsAssumption ==
    /\ Deletes \subseteq Deliveries
    /\ Tasks \cap Deliveries = {}
    /\ Imports \cap Workers = {} /\ Requests \cap Workers = {}
    /\ Imports \cap Requests = {}
    /\ Texts \in [Imports -> Seq(Contents)]
    /\ RunOf \in [Workers -> Requests]
    /\ NoId \notin Ids
    /\ MaxRetries \in Nat
    /\ Ids \subseteq Nat

VARIABLES
    db,         \* the committed rows
    ids,        \* the ids handed out so far
    stage,      \* what became of each delivery
    gone,       \* the rows its transaction has deleted
    retries,
    pc,         \* how far each task is
    me,         \* the users.id it works for
    todo,       \* the rows it is still to insert, in order
    new,        \* the rows it has inserted
    held        \* the rows it has updated

webVars == <<stage, gone, retries>>
taskVars == <<pc, me, todo, new, held>>
vars == <<db, ids, webVars, taskVars>>

-----------------------------------------------------------------------------
(* Rows: the table, the id they belong to, the task that created their     *)
(* profile, and what else tells them apart.                                *)

Row(table, i, p, what) == [table |-> table, of |-> i, profile |-> p, what |-> what]
User(i) == Row("users", i, "none", "none")
Key(i) == Row("data_keys", i, "none", "none")
Profile(i, p) == Row("profiles", i, p, "none")
Source(i, p, t) == Row("import_sources", i, p, t)
Item(i, p, x) == Row("items", i, p, x)
Run(i, p, t) == Row("runs", i, p, t)
Result(run) == Row("inferences", run.of, run.profile, run.what)

Tables == {"users", "data_keys", "profiles", "import_sources", "items", "runs", "inferences"}
Rows == [table: Tables, of: Ids, profile: Tasks \cup {"none"},
         what: Tasks \cup Contents \cup {"none"}]

\* Mutant: runs.profile_id without its cascade.
ParentsLooseRuns(r) ==
    CASE r.table \in {"data_keys", "profiles"} -> {User(r.of)}
      [] r.table = "import_sources" -> {Profile(r.of, r.profile)}
      [] r.table = "items" -> {Profile(r.of, r.profile), User(r.of)}
      [] r.table = "inferences" -> {Run(r.of, r.profile, r.what)}
      [] OTHER -> {}

\* The rows that a row's ON DELETE CASCADE foreign keys name.
Parents(r) ==
    CASE r.table \in {"data_keys", "profiles"} -> {User(r.of)}
      [] r.table \in {"import_sources", "runs"} -> {Profile(r.of, r.profile)}
      [] r.table = "items" -> {Profile(r.of, r.profile), User(r.of)}
      [] r.table = "inferences" ->
             {Profile(r.of, r.profile), Run(r.of, r.profile, r.what)}
      [] OTHER -> {}

\* encrypt_field raises without a data key.
Encrypted == {"items", "inferences"}

Shared(t) == UNION {Parents(r): r \in new[t]}

Init ==
    /\ db = {}
    /\ ids = {}
    /\ stage = [e \in Deliveries |-> "pending"]
    /\ gone = [e \in Deliveries |-> {}]
    /\ retries = 0
    /\ pc = [t \in Tasks |-> "idle"]
    /\ me = [t \in Tasks |-> NoId]
    /\ todo = [t \in Tasks |-> <<>>]
    /\ new = [t \in Tasks |-> {}]
    /\ held = [t \in Tasks |-> {}]

-----------------------------------------------------------------------------
(* Who waits for whom. *)

\* An insert waits for a deletion of a parent, and for the fate of a row with the
\* same unique key, also when it would do nothing on a conflict.
InsertBlockers(t) ==
    IF pc[t] # "open" \/ todo[t] = <<>> THEN {}
    ELSE LET r == Head(todo[t]) IN
         {e \in Deliveries: gone[e] \cap (Parents(r) \cup {r}) # {}}
             \cup {s \in Tasks \ {t}: r \in new[s]}

\* A row that somebody else's transaction keeps from being deleted.
Holders(r, e) ==
    {t \in Tasks: r \in Shared(t) \cup held[t]} \cup {d \in Deliveries \ {e}: r \in gone[d]}

\* The rows the cascade of e still has to delete.
Frontier(e) == {r \in db \ gone[e]: Parents(r) \cap gone[e] # {}}

WaitsFor(p) ==
    IF p \in Tasks THEN InsertBlockers(p)
    ELSE IF gone[p] = {} THEN {} ELSE UNION {Holders(r, p): r \in Frontier(p)}

Deadlocked(p) ==
    LET Waiting == {q \in Procs: WaitsFor(q) # {}} IN
    p \in Waiting /\ \E S \in SUBSET Waiting: p \in S /\ \A q \in S: WaitsFor(q) \cap S # {}

-----------------------------------------------------------------------------
(* Webhook deliveries: one transaction each. *)

Erasing(i) == \E e \in Deliveries: User(i) \in gone[e]

\* upsert_user: clerk_user_id is unique, so it waits for an erasure in progress.
Upsert(e) ==
    /\ stage[e] = "pending" /\ e \notin Deletes
    /\ \A i \in Ids: ~Erasing(i)
    /\ \/ /\ \E i \in Ids: User(i) \in db
          /\ UNCHANGED <<db, ids>>
       \/ /\ \A i \in Ids: User(i) \notin db
          /\ \E i \in Ids:
                 /\ \A j \in Ids: j \in ids <=> j < i
                 /\ db' = db \cup {User(i)}
                 /\ ids' = ids \cup {i}
    /\ stage' = [stage EXCEPT ![e] = "answered"]
    /\ UNCHANGED <<gone, retries, taskVars>>

\* delete_user_by_clerk_id: the row of users, once nobody holds it.
Delete(e) ==
    /\ stage[e] = "pending" /\ e \in Deletes
    /\ \/ /\ \A i \in Ids: User(i) \notin db
          /\ stage' = [stage EXCEPT ![e] = "answered"]
          /\ UNCHANGED gone
       \/ \E i \in Ids:
              /\ User(i) \in db
              /\ Holders(User(i), e) = {}
              /\ stage' = [stage EXCEPT ![e] = "erasing"]
              /\ gone' = [gone EXCEPT ![e] = {User(i)}]
    /\ UNCHANGED <<db, ids, retries, taskVars>>

\* The foreign keys delete what belongs to it, in whatever order the server takes.
Cascade(e) ==
    /\ stage[e] = "erasing"
    /\ \E r \in Frontier(e):
           /\ Holders(r, e) = {}
           /\ gone' = [gone EXCEPT ![e] = @ \cup {r}]
    /\ UNCHANGED <<db, ids, stage, retries, taskVars>>

CommitErase(e) ==
    /\ stage[e] = "erasing" /\ Frontier(e) = {}
    /\ db' = db \ gone[e]
    /\ stage' = [stage EXCEPT ![e] = "answered"]
    /\ gone' = [gone EXCEPT ![e] = {}]
    /\ UNCHANGED <<ids, retries, taskVars>>

\* Mutant: the handler swallows the error and answers 204.
UndoneSilently(e) ==
    /\ stage' = [stage EXCEPT ![e] = "answered"]
    /\ gone' = [gone EXCEPT ![e] = {}]
    /\ UNCHANGED <<db, ids, taskVars>>

\* The handler raises: the caller sees an error and Svix delivers again.
Undone(e) ==
    /\ stage' = [stage EXCEPT ![e] = "pending"]
    /\ gone' = [gone EXCEPT ![e] = {}]
    /\ UNCHANGED <<db, ids, taskVars>>

Fault(e) ==
    /\ stage[e] = "erasing" /\ retries < MaxRetries
    /\ retries' = retries + 1
    /\ Undone(e)

\* Delivery is at least once and in no order.
Redeliver(e) ==
    /\ stage[e] = "answered" /\ retries < MaxRetries
    /\ stage' = [stage EXCEPT ![e] = "pending"]
    /\ retries' = retries + 1
    /\ UNCHANGED <<db, ids, gone, taskVars>>

-----------------------------------------------------------------------------
(* Tasks. *)

\* get_current_user: the id, read on a connection of its own; 401 if there is none.
Resolve(t) ==
    /\ pc[t] = "idle" /\ t \notin Workers
    /\ \/ \E i \in Ids:
              /\ User(i) \in db
              /\ me' = [me EXCEPT ![t] = i]
              /\ pc' = [pc EXCEPT ![t] = "known"]
       \/ /\ \A i \in Ids: User(i) \notin db
          /\ pc' = [pc EXCEPT ![t] = "failed"]
          /\ UNCHANGED me
    /\ UNCHANGED <<db, ids, webVars, todo, new, held>>

\* persist_items, create_run: what is inserted on profile p of user i.
Script(t, i, p) ==
    IF t \in Requests THEN <<Run(i, p, t)>>
    ELSE <<Source(i, p, t)>> \o [k \in DOMAIN Texts[t] |-> Item(i, p, Texts[t][k])]

\* get_or_create_self_profile: any committed one, else one of its own.
FindProfile(t) ==
    /\ pc[t] = "known"
    /\ pc' = [pc EXCEPT ![t] = "open"]
    /\ \/ \E p \in Imports \cup Requests:
              /\ Profile(me[t], p) \in db
              /\ todo' = [todo EXCEPT ![t] = Script(t, me[t], p)]
       \/ /\ \A p \in Imports \cup Requests: Profile(me[t], p) \notin db
          /\ todo' = [todo EXCEPT ![t] = <<Profile(me[t], t)>> \o Script(t, me[t], t)]
    /\ UNCHANGED <<db, ids, webVars, me, new, held>>

\* The guarded UPDATE of execute_attack_run: it waits for a deletion of the row.
Claim(t) ==
    /\ pc[t] = "idle" /\ t \in Workers
    /\ \E run \in db:
           /\ run.table = "runs" /\ run.what = RunOf[t]
           /\ \A e \in Deliveries: run \notin gone[e]
           /\ held' = [held EXCEPT ![t] = {run}]
           /\ todo' = [todo EXCEPT ![t] = <<Result(run)>>]
           /\ me' = [me EXCEPT ![t] = run.of]
    /\ pc' = [pc EXCEPT ![t] = "open"]
    /\ UNCHANGED <<db, ids, webVars, new>>

\* What the next insert needs: the parents, and for an encrypted column the key.
Allowed(t) ==
    LET r == Head(todo[t]) IN
    /\ Parents(r) \subseteq db \cup new[t]
    /\ r.table \in Encrypted => Key(r.of) \in db

\* Mutant: ON CONFLICT DO NOTHING also gives way to a row that is not committed.
InsertYielding(t) ==
    /\ pc[t] = "open" /\ todo[t] # <<>>
    /\ InsertBlockers(t) \cap Deliveries = {}
    /\ Allowed(t)
    /\ new' = [new EXCEPT ![t] =
                   @ \cup ({Head(todo[t])} \ (db \cup UNION {new[s]: s \in Tasks}))]
    /\ todo' = [todo EXCEPT ![t] = Tail(@)]
    /\ UNCHANGED <<db, ids, webVars, pc, me, held>>

\* A row that is there is not inserted again: ON CONFLICT DO NOTHING.
Insert(t) ==
    /\ pc[t] = "open" /\ todo[t] # <<>>
    /\ InsertBlockers(t) = {}
    /\ Allowed(t)
    /\ new' = [new EXCEPT ![t] = @ \cup ({Head(todo[t])} \ db)]
    /\ todo' = [todo EXCEPT ![t] = Tail(@)]
    /\ UNCHANGED <<db, ids, webVars, pc, me, held>>

Commit(t) ==
    /\ pc[t] = "open" /\ todo[t] = <<>>
    /\ db' = db \cup new[t]
    /\ pc' = [pc EXCEPT ![t] = "committed"]
    /\ new' = [new EXCEPT ![t] = {}]
    /\ held' = [held EXCEPT ![t] = {}]
    /\ UNCHANGED <<ids, webVars, me, todo>>

Rollback(t) ==
    /\ pc' = [pc EXCEPT ![t] = "failed"]
    /\ todo' = [todo EXCEPT ![t] = <<>>]
    /\ new' = [new EXCEPT ![t] = {}]
    /\ held' = [held EXCEPT ![t] = {}]
    /\ UNCHANGED <<db, ids, webVars, me>>

\* The insert raises: a parent was erased, or there is no key.
Refuse(t) ==
    /\ pc[t] = "open" /\ todo[t] # <<>>
    /\ InsertBlockers(t) = {}
    /\ ~Allowed(t)
    /\ Rollback(t)

\* The process or the connection is lost.
Lose(t) == pc[t] = "open" /\ Rollback(t)

\* provision_user_dek, which only the benchmark seed calls: for a mirrored user it
\* is somebody else's step, as in the integration tests.
Provision(i) ==
    /\ User(i) \in db /\ Key(i) \notin db
    /\ ~Erasing(i)
    /\ db' = db \cup {Key(i)}
    /\ UNCHANGED <<ids, webVars, taskVars>>

\* The server undoes one transaction of a deadlock.
Victim ==
    \/ \E t \in Tasks: Deadlocked(t) /\ Rollback(t)
    \/ \E e \in Deliveries: Deadlocked(e) /\ Undone(e) /\ UNCHANGED retries

Deliver(e) == Upsert(e) \/ Delete(e) \/ Cascade(e) \/ CommitErase(e)
Step(t) == Resolve(t) \/ FindProfile(t) \/ Claim(t) \/ Insert(t) \/ Commit(t) \/ Refuse(t)

Next ==
    \/ \E e \in Deliveries: Deliver(e) \/ Fault(e) \/ Redeliver(e)
    \/ \E t \in Tasks: Step(t) \/ Lose(t)
    \/ \E i \in Ids: Provision(i)
    \/ Victim

Spec == Init /\ [][Next]_vars

\* Svix delivers what was not answered; a statement that waits for a lock is first
\* in its queue and gets it when the holder ends; the server finds deadlocks.  (Each
\* task takes finitely many steps, so this is fairness to each of them.)
Fairness ==
    /\ \A e \in Deliveries: WF_vars(Deliver(e))
    /\ SF_vars(\E t \in Tasks: Step(t))
    /\ WF_vars(Victim)

FairSpec == Spec /\ Fairness

-----------------------------------------------------------------------------
(* Properties *)

TypeOK ==
    /\ db \subseteq Rows
    /\ ids \subseteq Ids
    /\ stage \in [Deliveries -> {"pending", "erasing", "answered"}]
    /\ gone \in [Deliveries -> SUBSET Rows]
    /\ retries \in 0..MaxRetries
    /\ pc \in [Tasks -> {"idle", "known", "open", "committed", "failed"}]
    /\ me \in [Tasks -> Ids \cup {NoId}]
    /\ todo \in [Tasks -> Seq(Rows)]
    /\ new \in [Tasks -> SUBSET Rows]
    /\ held \in [Tasks -> SUBSET Rows]

live == {i \in Ids: User(i) \in db}

Contract == INSTANCE AccountContract WITH
    Ids <- Ids,
    Rows <- Rows,
    users <- live,
    erased <- ids \ live,
    data <- [i \in Ids |-> {r \in db: r.of = i /\ r.table # "users"}]

\* Whatever imports, requests and workers are under way when user.deleted arrives,
\* and however events are repeated and reordered: nothing is stored under an id
\* that is gone, an erasure takes everything at once (users.py: "FK cascades drop
\* owned rows + the DEK"), and an id that comes back through a late event is a new
\* one without data.
ImplementsContract == Contract!Spec

\* The texts that are stored under the profile an import chose, which its source names.
StoredTexts(t) ==
    {r.what: r \in {x \in db: /\ x.table = "items" /\ x.of = me[t]
                              /\ Source(me[t], x.profile, t) \in db}}

\* Two imports of overlapping texts, in any order and with one of them rolled back:
\* ON CONFLICT DO NOTHING never drops a text that nobody stores in the end.  Once an
\* import is committed, each of its texts is there under the profile it was imported to,
\* until its user is erased.
DedupeLosesNothing ==
    \A t \in Imports:
        pc[t] = "committed" /\ me[t] \in live =>
            {Texts[t][k]: k \in DOMAIN Texts[t]} \subseteq StoredTexts(t)

\* user.deleted is carried out: tasks that hold rows of the user, deadlocks with
\* them and failed deliveries only delay it.
ErasureCompletes ==
    \A e \in Deletes: \A i \in Ids:
        stage[e] # "answered" /\ User(i) \in db ~> User(i) \notin db

-----------------------------------------------------------------------------
(* The inductive invariant behind them. *)

\* Foreign keys hold in what is committed, and every user that exists was handed out.
StoredInv ==
    /\ \A r \in db: Parents(r) \subseteq db
    /\ \A i \in Ids: User(i) \in db => i \in ids

\* A transaction works on rows of one user, none of them the user's own, and nobody
\* deletes what they hang from.
TaskInv ==
    /\ \A t \in Tasks: pc[t] # "open" => todo[t] = <<>> /\ new[t] = {} /\ held[t] = {}
    /\ \A t \in Tasks: \A k \in DOMAIN todo[t]:
           todo[t][k].of = me[t] /\ todo[t][k].table # "users"
    /\ \A t \in Tasks: \A r \in new[t]:
           /\ r.of = me[t] /\ r.table # "users"
           /\ Parents(r) \subseteq db \cup new[t]
    /\ \A t \in Imports \cup Requests: me[t] # NoId => me[t] \in ids
    /\ \A t \in Tasks: pc[t] = "known" => t \notin Workers /\ me[t] \in Ids

\* An erasure takes committed rows of one user, which nobody else holds or deletes.
ErasureInv ==
    /\ \A e \in Deliveries: gone[e] \subseteq db
    /\ \A e \in Deliveries: stage[e] = "erasing" =>
           \E i \in Ids: User(i) \in gone[e] /\ \A r \in gone[e]: r.of = i
    /\ \A e \in Deliveries: stage[e] # "erasing" => gone[e] = {}
    /\ \A e \in Deliveries: \A t \in Tasks: gone[e] \cap (Shared(t) \cup held[t]) = {}
    /\ \A e, d \in Deliveries: e # d => gone[e] \cap gone[d] = {}

\* What is stored, or a task has inserted or is still to insert.
Brought(t) == db \cup new[t] \cup {todo[t][j]: j \in DOMAIN todo[t]}

\* The source and the texts of import t, under profile p of user i.
Wanted(t, i, p) ==
    {Source(i, p, t)} \cup {Item(i, p, Texts[t][k]): k \in DOMAIN Texts[t]}

\* Everything an import wants is that, under one profile, as long as its user exists.
ImportInv ==
    \A t \in Imports: pc[t] \in {"open", "committed"} /\ me[t] \in live =>
        \E p \in Imports \cup Requests: Wanted(t, me[t], p) \subseteq Brought(t)

IInv == TypeOK /\ StoredInv /\ TaskInv /\ ErasureInv /\ ImportInv
=============================================================================
