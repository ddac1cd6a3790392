---------------------------- MODULE MCRunRequests ----------------------------
(* Bounded instances of RunRequests for TLC. *)
EXTENDS RunRequests

CONSTANTS first, retry, other, defend, k

\* A request and its retry, a second user with the same key, and a remediation of
\* the first user without a key.
MCOwner == [p \in Posts |-> IF p = other THEN "bob" ELSE "ann"]
MCKey == [p \in Posts |-> IF p = defend THEN NoKey ELSE k]
MCKind == [p \in Posts |-> IF p = defend THEN "remediation" ELSE "attack"]
=============================================================================
