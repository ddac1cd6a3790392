---------------------------- MODULE MCRunStream ----------------------------
(* A bounded instance of RunStream for TLC: a client and its reconnection. *)
EXTENDS RunStream

CONSTANTS run

MCWatch == [s \in Streams |-> run]
=============================================================================
