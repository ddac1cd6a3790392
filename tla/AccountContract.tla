--------------------------- MODULE AccountContract ---------------------------
(***************************************************************************)
(* What a user is promised about the data kept under a users.id: it is     *)
(* added only while the id exists, and an erasure takes the id and all of  *)
(* it in one step, after which the id is never used again.                 *)
(***************************************************************************)
CONSTANTS
    Ids,        \* values of users.id
    Rows        \* whatever can be stored under one of them

VARIABLES
    users,      \* the ids that exist
    erased,     \* the ids that existed and were erased
    data        \* data[i]: the rows stored under i

vars == <<users, erased, data>>

Init ==
    /\ users = {}
    /\ erased = {}
    /\ data = [i \in Ids |-> {}]

\* Clerk reports a person: a new id, which has no data.
Mirror(i) ==
    /\ i \notin users \cup erased
    /\ users' = users \cup {i}
    /\ UNCHANGED <<erased, data>>

\* A transaction stores rows for an existing user.
Store(i) ==
    /\ i \in users
    /\ data[i] \subseteq data'[i] /\ data'[i] \subseteq Rows
    /\ data' = [data EXCEPT ![i] = data'[i]]
    /\ UNCHANGED <<users, erased>>

\* Erasure is complete and final.
Erase(i) ==
    /\ i \in users
    /\ users' = users \ {i}
    /\ erased' = erased \cup {i}
    /\ data' = [data EXCEPT ![i] = {}]

Next == \E i \in Ids: Mirror(i) \/ Store(i) \/ Erase(i)

Spec == Init /\ [][Next]_vars
=============================================================================
