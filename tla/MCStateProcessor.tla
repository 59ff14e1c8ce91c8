-------------------------- MODULE MCStateProcessor --------------------------
(* Blocks for StateProcessor: three senders and a coinbase.                 *)
EXTENDS StateProcessor

CONSTANTS a, b, c, miner

MCAddress == {a, b, c, miner}

M(f, t, wr, g, u, p, l, x) ==
  [from |-> f, to |-> t, al |-> {}, generated |-> {}, writes |-> wr,
   gas |-> g, used |-> u, tip |-> p, logs |-> l, fault |-> x]

\* Good transactions only: one that changes a, one that changes b and reads a,
\* one that changes b, one that changes c.
GoodTxs == { M(a, Nil, {a}, 2, 1, 1, 1, "none"), M(b, a, {b}, 1, 1, 0, 2, "none"),
             M(b, Nil, {b}, 2, 2, 2, 0, "none"), M(c, Nil, {c}, 2, 1, 3, 1, "none") }

\* One that changes a, one that reads a and changes b, one that changes c, and
\* one for each way of failing.
MixedTxs == { M(a, Nil, {a}, 2, 1, 1, 1, "none"), M(b, a, {b}, 1, 1, 0, 2, "none"),
              M(c, Nil, {c}, 2, 2, 3, 1, "none"), M(b, Nil, {b}, 2, 1, 1, 0, "db"),
              M(c, Nil, {}, 2, 1, 1, 0, "early"), M(c, Nil, {}, 1, 1, 1, 0, "late"),
              M(c, Nil, {c}, 1, 1, 1, 1, "request"),
              M(NoSender, a, {}, 1, 1, 1, 0, "none") }

\* Blocks in which the coinbase is a sender, as when a builder pays from it.
CoinbaseTxs == { M(a, Nil, {a}, 1, 1, 1, 0, "none"), M(b, Nil, {b}, 1, 1, 1, 0, "none"),
                 M(miner, c, {miner, c}, 1, 1, -1, 0, "none") }

\* Gas limits that fit one after the other but not all at once.
TightTxs == { M(a, Nil, {a}, 2, 1, 1, 0, "none"), M(b, Nil, {b}, 2, 1, 1, 0, "none"),
              M(a, b, {a, b}, 1, 1, 1, 0, "none"), M(a, Nil, {a}, 2, 2, 1, 0, "none") }
=============================================================================
