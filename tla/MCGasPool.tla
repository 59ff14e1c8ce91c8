----------------------------- MODULE MCGasPool -----------------------------
(* Three workers; one message uses half of its limit, one two thirds, and   *)
(* one with limit 0 cannot pay its intrinsic gas.                           *)
EXTENDS GasPool

CONSTANTS w1, w2, w3

MCClient == {w1, w2, w3}
MCMessages == {[gas |-> 0, used |-> 1], [gas |-> 2, used |-> 1], [gas |-> 3, used |-> 2]}
=============================================================================
