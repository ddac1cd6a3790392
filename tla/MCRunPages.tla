----------------------------- MODULE MCRunPages -----------------------------
(* A bounded instance of RunPages for TLC. *)
EXTENDS RunPages

MCKeys == 1..5
MCLimits == {1, 2}
=============================================================================
