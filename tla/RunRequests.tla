---------------------------- MODULE RunRequests ----------------------------
(***************************************************************************)
(* POST /v1/runs seen from the database (src/app/api/v1/runs.py,           *)
(* src/app/repositories/runs.py and profiles.py): the Idempotency-Key, the *)
(* caller's self profile, and the one transaction each request runs in.    *)
(*                                                                         *)
(* A run and a self profile are named by the request that inserts them.    *)
(* Transactions are READ COMMITTED: a SELECT sees what is committed, an    *)
(* INSERT of a key that another open transaction has inserted waits for    *)
(* that transaction to end.  get_scoped_session commits when the response  *)
(* has been sent: the exit code of a FastAPI dependency runs after it.     *)
(***************************************************************************)
EXTENDS Naturals, FiniteSets

CONSTANTS
    Posts,      \* the requests, a client's retries included
    Owner,      \* Owner[p]: the caller
    Key,        \* Key[p]: the Idempotency-Key header
    Kind,       \* Kind[p]: the type in the body
    NoKey,      \* the header is absent
    None        \* no request

ASSUME KindAssumption == Kind \in [Posts -> {"attack", "remediation"}]
ASSUME NoneAssumption == None \notin Posts

VARIABLES
    runs,       \* committed rows of runs
    profiles,   \* committed self profiles
    jobs,       \* jobs in Redis
    pc,         \* what each request is about to do
    profile,    \* the self profile it found or inserted
    reply,      \* the response it was sent
    answer      \* the run an accepting response names

vars == <<runs, profiles, jobs, pc, profile, reply, answer>>

\* The request has inserted its run and not ended: it holds the key's entry in
\* the unique index.
Holding == {"enqueue", "respond", "commit"}
Running == {"lookup", "profile", "insert_profile", "insert"} \cup Holding

Init ==
    /\ runs = {}
    /\ profiles = {}
    /\ jobs = {}
    /\ pc = [p \in Posts |-> "new"]
    /\ profile = [p \in Posts |-> None]
    /\ reply = [p \in Posts |-> "none"]
    /\ answer = [p \in Posts |-> None]

SameKey(p, q) == Key[p] = Key[q] /\ Key[p] # NoKey

\* The request ends with a rollback and this error.
Fail(p, error) ==
    /\ pc' = [pc EXCEPT ![p] = "end"]
    /\ reply' = [reply EXCEPT ![p] = error]
    /\ UNCHANGED <<runs, profiles, profile, answer>>

Goto(p, label) ==
    /\ pc' = [pc EXCEPT ![p] = label]
    /\ UNCHANGED <<runs, profiles, reply, answer>>

\* require_consent, the 501 for type "eval" and the 422 for bad params.
CheckRequest(p) ==
    /\ pc[p] = "new"
    /\ \/ Goto(p, "lookup") /\ UNCHANGED profile
       \/ Fail(p, "refused")
    /\ UNCHANGED jobs

\* Mutant: the lookup also finds a run that is not committed yet.
LookupDirty(p) ==
    LET found == {r \in Posts: (r \in runs \/ pc[r] \in Holding)
                                 /\ SameKey(r, p) /\ Owner[r] = Owner[p]}
    IN  /\ pc[p] = "lookup"
        /\ \/ /\ found # {}
              /\ \E r \in found: answer' = [answer EXCEPT ![p] = r]
              /\ reply' = [reply EXCEPT ![p] = "accepted"]
              /\ pc' = [pc EXCEPT ![p] = "end"]
              /\ UNCHANGED <<runs, profiles>>
           \/ /\ found = {}
              /\ Goto(p, IF Kind[p] = "attack" THEN "profile" ELSE "insert")
        /\ UNCHANGED <<jobs, profile>>

\* get_run_by_idempotency_key: the caller's committed run with the key, if any,
\* is the answer; nothing else happens.
Lookup(p) ==
    LET found == {r \in runs: SameKey(r, p) /\ Owner[r] = Owner[p]}
    IN  /\ pc[p] = "lookup"
        /\ \/ /\ found # {}
              /\ \E r \in found: answer' = [answer EXCEPT ![p] = r]
              /\ reply' = [reply EXCEPT ![p] = "accepted"]
              /\ pc' = [pc EXCEPT ![p] = "end"]
              /\ UNCHANGED <<runs, profiles>>
           \/ /\ found = {}
              /\ Goto(p, IF Kind[p] = "attack" THEN "profile" ELSE "insert")
        /\ UNCHANGED <<jobs, profile>>

\* Mutant: the profile of a request that has not committed is used as well.
FindProfileDirty(p) ==
    LET found == {q \in Posts: Owner[q] = Owner[p] /\ (q \in profiles \/ profile[q] = q)}
    IN  /\ pc[p] = "profile"
        /\ \/ /\ \E q \in found: profile' = [profile EXCEPT ![p] = q]
              /\ Goto(p, "insert")
           \/ /\ found = {}
              /\ Goto(p, "insert_profile")
              /\ UNCHANGED profile
        /\ UNCHANGED jobs

\* get_or_create_self_profile, the SELECT: any of the caller's self profiles.
FindProfile(p) ==
    LET found == {q \in profiles: Owner[q] = Owner[p]}
    IN  /\ pc[p] = "profile"
        /\ \/ /\ \E q \in found: profile' = [profile EXCEPT ![p] = q]
              /\ Goto(p, "insert")
           \/ /\ found = {}
              /\ Goto(p, "insert_profile")
              /\ UNCHANGED profile
        /\ UNCHANGED jobs

\* get_or_create_self_profile, the INSERT.
InsertProfile(p) ==
    /\ pc[p] = "insert_profile"
    /\ profile' = [profile EXCEPT ![p] = p]
    /\ Goto(p, "insert")
    /\ UNCHANGED jobs

\* The inference named by a remediation is missing or hidden (404), or the decoy
\* consent is missing (403).
RefuseRemediation(p) ==
    /\ pc[p] = "insert"
    /\ Kind[p] = "remediation"
    /\ Fail(p, "refused")
    /\ UNCHANGED jobs

\* Mutant: a check in the application instead of a unique index.
InsertRunUnlocked(p) ==
    /\ pc[p] = "insert"
    /\ \/ /\ \A r \in runs: ~SameKey(p, r)
          /\ Goto(p, "enqueue")
          /\ UNCHANGED profile
       \/ /\ \E r \in runs: SameKey(p, r)
          /\ Fail(p, "conflict")
    /\ UNCHANGED jobs

\* insert_run_v2: waits for an open transaction that inserted the key; the key of
\* a committed run, of any user, is an integrity error.
InsertRun(p) ==
    /\ pc[p] = "insert"
    /\ \A q \in Posts: pc[q] \in Holding => ~SameKey(p, q)
    /\ \/ /\ \A r \in runs: ~SameKey(p, r)
          /\ Goto(p, "enqueue")
          /\ UNCHANGED profile
       \/ /\ \E r \in runs: SameKey(p, r)
          /\ Fail(p, "conflict")
    /\ UNCHANGED jobs

\* Mutant: a Redis that does not answer is ignored.
EnqueueBestEffort(p) ==
    /\ pc[p] = "enqueue"
    /\ Goto(p, "respond")
    /\ jobs' \in {jobs, jobs \cup {p}}
    /\ UNCHANGED profile

\* enqueue_job, or the exception of a Redis that does not answer.
Enqueue(p) ==
    /\ pc[p] = "enqueue"
    /\ \/ Goto(p, "respond") /\ UNCHANGED profile /\ jobs' = jobs \cup {p}
       \/ Fail(p, "error") /\ UNCHANGED jobs

Respond(p) ==
    /\ pc[p] = "respond"
    /\ reply' = [reply EXCEPT ![p] = "accepted"]
    /\ answer' = [answer EXCEPT ![p] = p]
    /\ pc' = [pc EXCEPT ![p] = "commit"]
    /\ UNCHANGED <<runs, profiles, jobs, profile>>

Commit(p) ==
    /\ pc[p] = "commit"
    /\ pc' = [pc EXCEPT ![p] = "end"]
    /\ runs' = runs \cup {p}
    /\ profiles' = IF profile[p] = p THEN profiles \cup {p} ELSE profiles
    /\ UNCHANGED <<jobs, profile, reply, answer>>

\* The connection, the process or the database is lost: rollback, whatever the
\* client has been told.
Abort(p) ==
    /\ pc[p] \in Running
    /\ pc' = [pc EXCEPT ![p] = "end"]
    /\ reply' = [reply EXCEPT ![p] = IF @ = "none" THEN "error" ELSE @]
    /\ UNCHANGED <<runs, profiles, jobs, profile, answer>>

\* Every request has ended.
Finished ==
    /\ \A p \in Posts: pc[p] = "end"
    /\ UNCHANGED vars

Step(p) ==
    \/ CheckRequest(p) \/ Lookup(p) \/ FindProfile(p) \/ InsertProfile(p)
    \/ RefuseRemediation(p) \/ InsertRun(p) \/ Enqueue(p) \/ Respond(p) \/ Commit(p)

Next == (\E p \in Posts: Step(p) \/ Abort(p)) \/ Finished

Spec == Init /\ [][Next]_vars

-----------------------------------------------------------------------------
(* Properties *)

TypeOK ==
    /\ runs \subseteq Posts
    /\ profiles \subseteq Posts
    /\ jobs \subseteq Posts
    /\ pc \in [Posts -> {"new", "end"} \cup Running]
    /\ profile \in [Posts -> Posts \cup {None}]
    /\ reply \in [Posts -> {"none", "refused", "error", "conflict", "accepted"}]
    /\ answer \in [Posts -> Posts \cup {None}]

\* However requests with one Idempotency-Key interleave, at most one of them
\* leaves a run (create_run: "a repeated Idempotency-Key returns the original run").
OneRunPerKey == \A p, q \in runs: SameKey(p, q) => p = q

\* "without re-enqueuing": no run is committed whose job was not enqueued, so a
\* retry that is answered with the run may rely on its job.
EveryRunEnqueued == runs \subseteq jobs

\* A request answered with another request's run is told a run that is committed,
\* is the caller's own and has the caller's key.
AnswersAreRuns ==
    \A p \in Posts: reply[p] = "accepted" /\ answer[p] # p =>
        /\ answer[p] \in runs
        /\ SameKey(p, answer[p])
        /\ Owner[p] = Owner[answer[p]]

\* A committed attack run belongs to a committed self profile of the caller, also
\* when the request that inserted that profile was another one.
RunsHaveProfiles ==
    \A p \in runs: Kind[p] = "attack" =>
        profile[p] \in profiles /\ Owner[profile[p]] = Owner[p]

-----------------------------------------------------------------------------
(* The inductive invariant behind them. *)

\* A key has one holder, committed or not; what is committed was enqueued first.
KeyInv ==
    /\ \A p \in runs: pc[p] = "end" /\ p \in jobs
    /\ \A p \in Posts: pc[p] \in {"respond", "commit"} => p \in jobs
    /\ \A p, q \in runs \cup {r \in Posts: pc[r] \in Holding}: SameKey(p, q) => p = q

\* A request uses a profile that is committed, or its own.
ProfileInv ==
    /\ \A p \in runs \cup {r \in Posts: pc[r] \in {"insert"} \cup Holding}:
           Kind[p] = "attack" =>
               /\ profile[p] \in Posts
               /\ Owner[profile[p]] = Owner[p]
               /\ profile[p] = p \/ profile[p] \in profiles
    /\ \A p \in runs: Kind[p] = "attack" => profile[p] \in profiles

IInv == TypeOK /\ KeyInv /\ ProfileInv /\ AnswersAreRuns
=============================================================================
