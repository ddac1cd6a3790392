---------------------------- MODULE MCRemediation ----------------------------
(* One remediation of three items, with a cost ceiling that cuts a round, one that *)
(* cuts the pruning and one that is never met.                                     *)
EXTENDS Remediation

MCCaps == {5, 8, 12}
MCEdits == {[op |-> "generalize", text |-> "vague"],
            [op |-> "remove_item", text |-> ""],
            [op |-> "remove_item", text |-> "vague"]}
=============================================================================
