--------------------------- MODULE MCWaveGrouping ---------------------------
(* Blocks over three addresses.                                             *)
EXTENDS WaveGrouping

CONSTANTS a, b, c

\* One transaction for every non-empty set of declared addresses over three
\* addresses, spread over the four ways of declaring one, and one whose sender
\* cannot be recovered.
MCAddress == {a, b, c}

T(f, t, l, g) == [from |-> f, to |-> t, al |-> l, generated |-> g]

MCTxs == { T(a, Nil, {}, {}),  T(b, b, {}, {}),     T(c, Nil, {c}, {}),
           T(a, b, {}, {}),    T(b, Nil, {}, {c}),  T(c, Nil, {a}, {c}),
           T(a, b, {a}, {c}),  T(NoSender, a, {}, {}) }
=============================================================================
