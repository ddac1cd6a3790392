----------------------------- MODULE RunContract -----------------------------
(***************************************************************************)
(* What the runs API promises a client about one run, whatever workers,    *)
(* queue and database do: it appears as "queued", it moves at most once,   *)
(* to one terminal status, and its outputs appear in that same step and    *)
(* only if the status is "succeeded".                                      *)
(***************************************************************************)
CONSTANTS
    Runs,       \* run ids
    Outputs     \* kinds of row a run can produce

VARIABLES
    status,     \* the committed runs.status, "absent" before the row exists
    results     \* the committed output rows of each run

vars == <<status, results>>

Init ==
    /\ status = [r \in Runs |-> "absent"]
    /\ results = [r \in Runs |-> {}]

\* A client's request is accepted.
Submit(r) ==
    /\ status[r] = "absent"
    /\ status' = [status EXCEPT ![r] = "queued"]
    /\ UNCHANGED results

\* The run ends well, with all of its outputs at once.
Succeed(r) ==
    /\ status[r] = "queued"
    /\ status' = [status EXCEPT ![r] = "succeeded"]
    /\ \E rows \in SUBSET Outputs: results' = [results EXCEPT ![r] = rows]

\* The run ends without outputs.
GiveUp(r) ==
    /\ status[r] = "queued"
    /\ \E s \in {"failed", "canceled"}: status' = [status EXCEPT ![r] = s]
    /\ UNCHANGED results

Next == \E r \in Runs: Submit(r) \/ Succeed(r) \/ GiveUp(r)

Spec == Init /\ [][Next]_vars
=============================================================================
