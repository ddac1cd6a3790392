------------------------------ MODULE MCAttack ------------------------------
(* Up to four runs about one attribute.  Ages agree in a chain, 20 with 23, 23 with    *)
(* 26, 26 with 29; places have two levels, or name the first only.                     *)
EXTENDS Attack, TLC

MCTokens == (1 :> 2) @@ (2 :> 1) @@ (3 :> 1)
MCPlaces == {<<"a", "x">>, <<"a", "y">>, <<"b", "x">>, <<"a", NoName>>}
MCFinest == ("location" :> 2) @@ ("birthplace" :> 1)
MCCalibrated == {<<1, 1>>, <<2, 5>>, <<4, 7>>}
=============================================================================
