---------------------------- MODULE MCTxScratch ----------------------------
(* Small instances of TxScratch: two addresses, two slots.                  *)
EXTENDS TxScratch

CONSTANTS x, y, k, l

\* No list, one with a slot, one that names an address twice.
MCLists == {<< >>, <<<<x, <<k>>>>>>, <<<<x, <<k>>>>, <<y, << >>>>, <<x, <<l>>>>>>}
=============================================================================
