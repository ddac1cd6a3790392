----------------------------- MODULE MCAccounts -----------------------------
(* A person mirrored and erased while two imports, a run request and the      *)
(* worker of that run store data.                                             *)
EXTENDS Accounts

CONSTANTS up, del, ia, ib, q, w, x, y

MCTexts == [t \in {ia, ib} |-> IF t = ia THEN <<x, y>> ELSE <<y, x>>]
MCRunOf == [t \in {w} |-> q]
=============================================================================
