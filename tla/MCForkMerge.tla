---------------------------- MODULE MCForkMerge ----------------------------
(* Small instances of ForkMerge: an account, the precompile and the coinbase, *)
(* two workers.                                                               *)
EXTENDS ForkMerge

CONSTANTS x, y, z,    \* y is the precompile, z the coinbase
          v, w

Acc(nonce, balance, code, value) ==
  [data |-> [f \in Field |-> CASE f = "nonce" -> nonce [] f = "balance" -> balance [] f = "code" -> code],
   storage |-> [k \in Slot |-> value]]

\* Each account is missing, left behind empty, funded, or (x only) a contract
\* with storage; of the precompile and the coinbase one at least is missing.
MCReaders == {r \in [Address -> {None, Acc(0, 0, 0, 0), Acc(0, 1, 0, 0), Acc(1, 0, 1, 1)}] :
                /\ \A a \in Address \ {x} : r[a] # Acc(1, 0, 1, 1)
                /\ None \in {r[y], r[z]}}

WorkerSymmetry == Permutations(Workers)
============================================================================
