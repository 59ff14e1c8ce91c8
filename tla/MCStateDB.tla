----------------------------- MODULE MCStateDB -----------------------------
(* Small instances of StateDB: an ordinary address x and the precompile.    *)
EXTENDS StateDB

CONSTANTS x

Acc(nonce, balance, code, value) ==
  [data |-> [f \in Field |-> CASE f = "nonce" -> nonce [] f = "balance" -> balance [] f = "code" -> code],
   storage |-> [k \in Slot |-> value]]

\* x is missing, externally owned or a contract with storage; the precompile
\* is missing or was left behind empty.
MCReaders == {[a \in Address |-> IF a = x THEN v ELSE w] :
                v \in {None, Acc(0, 1, 0, 0), Acc(1, 0, 1, 1)}, w \in {None, Acc(0, 0, 0, 0)}}
=============================================================================
