------------------------------ MODULE ForkMerge ------------------------------
(***************************************************************************)
(* The forks of a StateDB in the wave loop of StateProcessor.Process, at   *)
(* the level of the account cache: each worker clones the parent once per  *)
(* wave and runs its transactions on the clone, the parent then takes over *)
(* the accounts the clones changed and sets the coinbase to what they      *)
(* earned together.  A twin runs the same transactions one after the other *)
(* on a single StateDB, which is what sequential execution does.           *)
(* StateProcessor abstracts an account to the transactions it has seen;    *)
(* this module checks, on the real cache, the merge it builds on.          *)
(*                                                                         *)
(* Forks share nothing but the read-only pre-state, so a transaction is    *)
(* one step.  The transactions of a wave have disjoint accounts, and each  *)
(* works on one besides paying its fee to the coinbase.                    *)
(***************************************************************************)
EXTENDS StateObjects

CONSTANTS Readers,      \* pre-states
          Coinbase,     \* the fee recipient, which no transaction declares
          Workers,      \* the worker goroutines of a wave
          MaxTxs,       \* bound on the transactions of a block
          MaxBalance    \* bound on the coinbase's balance: no fee is paid beyond

VARIABLES parent,       \* the canonical StateDB
          fork,         \* [Workers -> StateDB of the worker, None outside a wave]
          twin,         \* the StateDB of sequential execution
          used,         \* accounts the transactions of this wave declared
          txs           \* transactions executed

vars == <<parent, fork, twin, used, txs>>

Init == /\ \E r \in Readers : parent = New(r) /\ twin = New(r)
        /\ fork = [w \in Workers |-> None]
        /\ used = {} /\ txs = 0

-----------------------------------------------------------------------------
\* What a transaction may do to one account, in terms of the calls of the EVM.
Kind == {"touch", "pay", "spend", "clear", "write", "deploy", "destruct", "ephemeral", "fail", "failTouch"}

Deploy(s, a) == SetNonce(CreateContract(getOrNewStateObject(s, a), a), a, 1)

Possible(s, a, kind) ==
  LET o == Obj(s, a)
      runs == o # None /\ o.data["code"] # 0
  IN  CASE kind \in {"touch", "fail", "failTouch"} -> TRUE
        [] kind = "pay"   -> o # None => o.data["balance"] = 0
        [] kind = "spend" -> o # None /\ o.data["balance"] = 1
        [] kind \in {"clear", "write", "destruct"} -> runs
        [] kind \in {"deploy", "ephemeral"} ->
             a # Ripemd /\ (o # None => o.data["nonce"] = 0 /\ o.data["code"] = 0 /\ o.root = NoStorage)

Run(s, a, kind) ==
  LET k == CHOOSE j \in Slot : TRUE IN
  CASE kind = "touch"     -> AddBalance(s, a, 0)
    [] kind = "pay"       -> AddBalance(s, a, 1)
    [] kind = "spend"     -> SubBalance(s, a, 1)
    [] kind = "clear"     -> SetState(s, a, k, 0)
    [] kind = "write"     -> SetState(s, a, k, 1)
    [] kind = "deploy"    -> SetCode(SetState(Deploy(s, a), a, k, 1), a, 1)
    [] kind = "destruct"  -> SelfDestruct(s, a)
    [] kind = "ephemeral" -> SelfDestruct(SetState(Deploy(s, a), a, k, 1), a)
    [] kind = "fail"      -> RevertToSnapshot(AddBalance(Snapshot(s), a, 1), 0)
    [] kind = "failTouch" -> RevertToSnapshot(AddBalance(Snapshot(s), a, 0), 0)

\* The transaction and, at its end, the fee, which may be zero.
Apply(s, a, kind, fee) == AddBalance(Run(s, a, kind), Coinbase, fee)

-----------------------------------------------------------------------------
GetBalance(s, a) == IF Exist(s, a) THEN Obj(s, a).data["balance"] ELSE 0
SetBalance(s, a, n) == SetField(getOrNewStateObject(s, a), a, "balance", n)

Fees == {fee \in 0 .. 1 : GetBalance(twin, Coinbase) + fee <= MaxBalance}

\* The balance of the coinbase is read, then the workers of a wave start, each
\* with its own clone.
Fork == /\ txs < MaxTxs /\ \A w \in Workers : fork[w] = None
        /\ parent' = getStateObject(parent, Coinbase)
        /\ fork' = [w \in Workers |-> CopyForParallelTx(parent')]
        /\ UNCHANGED <<twin, used, txs>>

\* A job of worker w, on an account no other job of the wave uses.
RunOnFork(w, a, kind, fee) ==
  /\ fork[w] # None /\ txs < MaxTxs /\ a \notin used /\ Possible(fork[w], a, kind)
  /\ fork' = [fork EXCEPT ![w] = Finalise(Apply(@, a, kind, fee))]
  /\ twin' = Finalise(Apply(twin, a, kind, fee))
  /\ used' = used \cup {a} /\ txs' = txs + 1
  /\ UNCHANGED parent

\* The wave has a single transaction: it runs on the parent.  Before Byzantium
\* its receipt needs the state root.
RunDirect(a, kind, fee) ==
  /\ txs < MaxTxs /\ \A w \in Workers : fork[w] = None
  /\ Possible(parent, a, kind)
  /\ \/ parent' = Finalise(Apply(parent, a, kind, fee))
     \/ parent' = IntermediateRoot(Apply(parent, a, kind, fee))
  /\ twin' = Finalise(Apply(twin, a, kind, fee))
  /\ txs' = txs + 1
  /\ UNCHANGED <<fork, used>>

\* The parent has not changed since the workers started, so that its balance
\* is still coinbaseBase.
CoinbaseFinal(order) ==
  LET coinbaseBase == GetBalance(parent, Coinbase)
  IN  FoldLeft(LAMBDA n, w : n + (GetBalance(fork[w], Coinbase) - coinbaseBase), coinbaseBase, order)

MergeAccounts(order) ==
  FoldLeft(LAMBDA s, w : MergeParallelChildAccounts(s, fork[w]), parent, order)

\* All workers are done: the parent takes over their accounts, once per fork,
\* in the order of the first transaction each has run, which may be any.  Then
\* the coinbase, of which each fork brought its own version, gets the fees of
\* all.  This last write is not finalised: its journal entry stays for the next
\* wave.
Merge ==
  /\ used # {} /\ \A w \in Workers : fork[w] # None
  /\ \E order \in SetToSeqs(Workers) :
       parent' = SetBalance(MergeAccounts(order), Coinbase, CoinbaseFinal(order))
  /\ fork' = [w \in Workers |-> None]
  /\ used' = {}
  /\ UNCHANGED <<twin, txs>>

Done == txs = MaxTxs /\ (\A w \in Workers : fork[w] = None) /\ UNCHANGED vars

Next == \/ Fork \/ Merge \/ Done
        \/ \E a \in Address \ {Coinbase}, kind \in Kind, fee \in Fees :
             RunDirect(a, kind, fee) \/ \E w \in Workers : RunOnFork(w, a, kind, fee)

Spec == Init /\ [][Next]_vars

-----------------------------------------------------------------------------
Idle == \A w \in Workers : fork[w] = None

\* What a commit of s would produce: the state trie and the flat state.
Committed(s) == LET t == IntermediateRoot(s) IN [trie |-> t.trie, flat |-> stateUpdate(t)]

\* Types; only forks defer their trie writes, and a fork lists for the merge
\* only accounts of its wave and the coinbase.
TypeOK == /\ used \subseteq Address \ {Coinbase} /\ txs \in 0 .. MaxTxs
          /\ ~parent.deferTrieFlush /\ ~twin.deferTrieFlush
          /\ \A w \in Workers : fork[w] # None =>
               fork[w].deferTrieFlush /\ fork[w].parallelMergeAddrs \subseteq used \cup {Coinbase}

\* SetBalance leaves an empty coinbase in the live set until the next Finalise,
\* which no transaction but one that asks for the coinbase can see.
Shown(s, a) ==
  IF a = Coinbase /\ Exist(s, a) /\ empty(Obj(s, a)) THEN None ELSE Seen(s, a)

\* CopyForParallelTx, MergeParallelChildAccounts and the settlement of the
\* coinbase: between waves the parent shows every account as the sequential
\* StateDB does, whatever mixture of deletions, recreations, failed
\* transactions and fees the forks went through.
MergeShowsSequentialAccounts == Idle => \A a \in Address : Shown(parent, a) = Shown(twin, a)

\* The same for what a commit at this point would write.  The merge must
\* hand over the destruct markers and mark what it merges as not yet written,
\* and the journal entry of the coinbase must last until something finalises it.
MergeCommitsSequentialState == Idle => Committed(parent) = Committed(twin)

\* A fork is isolated: what its worker sees of an account none of its
\* transactions changed is what the wave began with.
ForksIsolated ==
  \A w \in Workers : fork[w] # None =>
    \A a \in Address \ fork[w].parallelMergeAddrs : Seen(fork[w], a) = Seen(parent, a)
=============================================================================
