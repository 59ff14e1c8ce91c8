------------------------------ MODULE StateDB ------------------------------
(***************************************************************************)
(* One StateDB through a block: the operations the EVM calls, nested in    *)
(* call frames that return or are reverted, the end of each transaction    *)
(* and the commit.  The guards are those of the callers in core/vm and     *)
(* core/state_transition.go, without which an operation is not called.     *)
(***************************************************************************)
EXTENDS StateObjects

CONSTANTS Readers,      \* pre-states: functions from addresses to accounts or None
          Cancuns,      \* values of rules.IsCancun
          Scopes,       \* the sets of accounts a block may touch
          MaxEntries, MaxSnapshots, MaxOps, MaxTxs, MaxNonce, MaxBalance, MaxValue   \* bounds

VARIABLES cancun,       \* rules.IsCancun of the block
          scope,        \* the accounts the block touches
          statedb,
          frames,       \* revision ids held by the open call frames
          txs,          \* transactions finished
          outcome       \* None, or what the commit returned

vars == <<cancun, scope, statedb, frames, txs, outcome>>

Init == /\ cancun \in Cancuns /\ scope \in Scopes
        /\ \E r \in Readers : (\A a \in Address \ scope : r[a] = None) /\ statedb = New(r)
        /\ frames = << >> /\ txs = 0 /\ outcome = None

\* Between two operations of a running transaction.  MaxOps bounds the entries
\* and revisions of the journal together.
Running == /\ outcome = None /\ txs < MaxTxs /\ Len(statedb.entries) < MaxEntries
           /\ Len(statedb.entries) + statedb.nextRevisionId < MaxOps

Do(t) == Running /\ statedb' = t /\ UNCHANGED <<cancun, scope, frames, txs, outcome>>

Acct(a) == Obj(statedb, a)
\* The code of a runs: it is deployed, or a is being created.
HasCode(a) == Exist(statedb, a) /\ (Acct(a).data["code"] # 0 \/ Acct(a).newContract)

-----------------------------------------------------------------------------
\* Transfer, fees and refunds of gas.
OpAddBalance(a, n) ==
  /\ (IF Exist(statedb, a) THEN Acct(a).data["balance"] ELSE 0) + n <= MaxBalance
  /\ Do(AddBalance(statedb, a, n))

\* CanTransfer holds, or the amount is zero.
OpSubBalance(a, n) ==
  /\ n <= (IF Exist(statedb, a) THEN Acct(a).data["balance"] ELSE 0)
  /\ Do(SubBalance(statedb, a, n))

\* A sender, a contract that creates another, or the authority of an EIP-7702
\* authorization, whose account may be missing.
OpSetNonce(a) ==
  LET nonce == IF Exist(statedb, a) THEN Acct(a).data["nonce"] ELSE 0 IN
  /\ a # Ripemd /\ nonce < MaxNonce
  /\ Do(SetNonce(statedb, a, nonce + 1))

\* Code 1 is deployed at the end of initcode; applyAuthorization, which has
\* counted the nonce, delegates with code 2 or clears with 0 (Prague, so after
\* Cancun).
OpSetCode(a) ==
  /\ Exist(statedb, a)
  /\ \/ /\ Acct(a).newContract
        /\ Do(SetCode(statedb, a, 1))
     \/ /\ cancun /\ ~Acct(a).newContract /\ Acct(a).data["nonce"] > 0 /\ Acct(a).data["code"] # 1
        /\ \E c \in {0, 2} : Do(SetCode(statedb, a, c))

OpSetState(a, k, v) == HasCode(a) /\ Do(SetState(statedb, a, k, v))

\* A read brings account and slot into the caches.
OpGetState(a, k) == HasCode(a) /\ Do(CacheSlot(getStateObject(statedb, a), a, k))

\* evm.Call of a missing account with a value or of a missing precompile.
OpCreateAccount(a) == ~Exist(statedb, a) /\ Do(createObject(getStateObject(statedb, a), a))

\* evm.create: no collision in nonce, code or storage; the account is created
\* if it is missing, and the nonce becomes 1.
OpCreateContract(a) ==
  /\ a # Ripemd
  /\ Exist(statedb, a) => /\ Acct(a).data["nonce"] = 0 /\ Acct(a).data["code"] = 0
                          /\ Acct(a).root = NoStorage
  /\ Do(SetNonce(CreateContract(getOrNewStateObject(statedb, a), a), a, 1))

OpSelfDestruct(a) ==
  /\ HasCode(a)
  /\ Do(IF cancun THEN SelfDestruct6780(statedb, a) ELSE SelfDestruct(statedb, a))

OpAddRefund == statedb.refund < 1 /\ Do(AddRefund(statedb, 1))

-----------------------------------------------------------------------------
\* A call frame opens with a snapshot; it returns, the revision staying
\* behind, or fails and goes back to it.
OpSnapshot ==
  /\ Running /\ statedb.nextRevisionId < MaxSnapshots
  /\ statedb' = Snapshot(statedb)
  /\ frames' = Append(frames, statedb.nextRevisionId)
  /\ UNCHANGED <<cancun, scope, txs, outcome>>

Return ==
  /\ frames # << >>
  /\ frames' = Front(frames)
  /\ UNCHANGED <<cancun, scope, statedb, txs, outcome>>

OpRevertToSnapshot ==
  /\ frames # << >>
  /\ statedb' = RevertToSnapshot(statedb, Last(frames))
  /\ frames' = Front(frames)
  /\ UNCHANGED <<cancun, scope, txs, outcome>>

\* From Byzantium on Finalise ends a transaction, before it IntermediateRoot.
EndTx ==
  /\ outcome = None /\ txs < MaxTxs /\ frames = << >>
  /\ \/ statedb' = Finalise(statedb)
     \/ ~cancun /\ statedb' = IntermediateRoot(statedb)
  /\ txs' = txs + 1
  /\ UNCHANGED <<cancun, scope, frames, outcome>>

\* Commit: the trie, and the update of the flat state.  It fails if a mutated
\* object is missing, or if storage would be wiped after Cancun.
OpCommit ==
  /\ outcome = None /\ frames = << >>
  /\ LET t == IntermediateRoot(statedb)
         missing == \E a \in Address : /\ t.mutations[a] # None /\ t.mutations[a].typ = "update"
                                       /\ t.stateObjects[a] = None
         wiping == \E a \in handleDestruction(t) : t.stateObjectsDestruct[a].origin.storage # NoStorage
     IN  /\ statedb' = t
         /\ outcome' = [err |-> missing \/ (cancun /\ wiping),
                        trie |-> t.trie, flat |-> stateUpdate(t)]
  /\ UNCHANGED <<cancun, scope, frames, txs>>

Committed == outcome # None /\ UNCHANGED vars

Next == \/ \E a \in scope :
             \/ \E n \in 0 .. 1 : OpAddBalance(a, n) \/ OpSubBalance(a, n)
             \/ OpSetNonce(a) \/ OpSetCode(a) \/ OpCreateAccount(a)
             \/ OpCreateContract(a) \/ OpSelfDestruct(a)
             \/ \E k \in Slot : OpGetState(a, k) \/ \E v \in 0 .. MaxValue : OpSetState(a, k, v)
        \/ OpAddRefund \/ OpSnapshot \/ Return \/ OpRevertToSnapshot
        \/ EndTx \/ OpCommit \/ Committed

Spec == Init /\ [][Next]_vars

-----------------------------------------------------------------------------
(***************************************************************************)
(* Properties.                                                             *)
(***************************************************************************)
View(s) == [a \in Address |-> Seen(s, a)]
DirtiedIn(entries) == {a \in Address : \E i \in DOMAIN entries : dirtied(entries[i]) /\ entries[i].addr = a}
Dirtying(s, a) == Len(SelectSeq(s.entries, LAMBDA e : dirtied(e) /\ e.addr = a))

\* The copy PlainState holds for a frame is what reverting to it now would give.
SavedFor(id) == LET t == RevertToSnapshot(statedb, id)
                IN  [acct |-> View(t), touched |-> DirtiedIn(t.entries), refund |-> t.refund]

Plain == INSTANCE PlainState WITH
  Number <- 0 .. MaxNonce + MaxBalance + MaxValue + 2,
  acct <- View(statedb),
  touched <- DirtiedIn(statedb.entries),
  sticky <- Ripemd \in Address /\ statedb.dirties[Ripemd] > Dirtying(statedb, Ripemd),
  refund <- statedb.refund,
  saved <- [i \in DOMAIN frames |-> SavedFor(frames[i])],
  disk <- IF outcome = None THEN None ELSE outcome.flat

\* Caches, journal, destruct markers and deferred writes are invisible: every
\* operation does to the accounts what it does without them, a revert brings
\* back exactly what the snapshot saw, and the flat state committed in the end
\* is what the last reader saw.
ImplementsPlainState == Plain!Spec

\* Types of the StateDB and of the variables around it.
TypeOK ==
  LET Entries == {None} \cup 0 .. MaxValue
      Data == [Field -> Nat]
      Account == {None} \cup [data : Data, storage : [Slot -> Nat]]
      Object == {None} \cup
                [origin : Account, data : Data, root : [Slot -> Nat],
                 originStorage : [Slot -> Entries], dirtyStorage : [Slot -> Entries],
                 pendingStorage : [Slot -> Entries], uncommittedStorage : [Slot -> Entries],
                 selfDestructed : BOOLEAN, newContract : BOOLEAN]
  IN  /\ \A a \in Address :
           /\ statedb.reader[a] \in Account /\ statedb.trie[a] \in Account
           /\ statedb.stateObjects[a] \in Object /\ statedb.stateObjectsDestruct[a] \in Object
           /\ statedb.mutations[a] \in {None} \cup [typ : {"update", "deletion"}, applied : BOOLEAN]
           /\ statedb.dirties[a] \in Nat
      /\ scope \subseteq Address /\ frames \in Seq(Nat) /\ txs \in 0 .. MaxTxs

\* commit: the state root and the flat state written beside it describe the
\* same accounts, whatever was destructed, recreated or set back on the way.
\* The two are computed from different caches (uncommittedStorage and
\* originStorage).
RootMatchesFlatState == outcome # None => outcome.trie = outcome.flat

\* commit: no state the EVM can produce is refused, neither for a missing
\* object nor, after Cancun, for an account that had storage before the block
\* and is deleted in it ("unexpected storage wiping").
CommitNeverFails == outcome # None => ~outcome.err

\* journal.revertToSnapshot: the revision an open frame holds is always found,
\* so "revision id %v cannot be reverted" is never reached, and the dirty
\* counts agree with the entries (Ripemd apart), so that a full revert leaves
\* nothing for Finalise to touch.
JournalConsistent ==
  /\ \A i \in DOMAIN frames :
       \E j \in DOMAIN statedb.validRevisions : statedb.validRevisions[j].id = frames[i]
  /\ \A a \in Address \ {Ripemd} : statedb.dirties[a] = Dirtying(statedb, a)

\* IntermediateRoot dereferences the object of every pending update and commit
\* refuses to go on without it: a mutation is an update exactly when the
\* account has a live object, unless that object was created in the running
\* transaction.
MutationsHaveObjects ==
  \A a \in Address : statedb.mutations[a] # None =>
    IF statedb.mutations[a].typ = "update" THEN statedb.stateObjects[a] # None
    ELSE statedb.stateObjects[a] = None \/ statedb.dirties[a] > 0
=============================================================================
