--------------------------- MODULE MCRunLifecycle ---------------------------
(* Bounded instances of RunLifecycle for TLC. *)
EXTENDS RunLifecycle, TLC

CONSTANTS attackRun, remediationRun

Attack == [kind |-> "attack", art9 |-> FALSE, decoy |-> FALSE]

\* A remediation that needs every gate: special-category target, decoy asked for.
Remediation == [kind |-> "remediation", art9 |-> TRUE, decoy |-> TRUE]

MCReq == [r \in Runs |-> IF r = attackRun THEN Attack ELSE Remediation]

WorkerSymmetry == Permutations(Workers)
=============================================================================
