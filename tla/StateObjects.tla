---------------------------- MODULE StateObjects ----------------------------
(***************************************************************************)
(* The account cache of a StateDB: core/state/statedb.go, state_object.go  *)
(* and journal.go, as operators on one StateDB, which is a record.  The    *)
(* modules StateDB and ForkMerge build their actions from them.            *)
(*                                                                         *)
(* A Go map that may lack a key is a function with the value None there.   *)
(* The hash of a storage trie is represented by the content it stands for. *)
(* Database errors, logs, preimages, the access list and transient storage *)
(* are kept elsewhere or left out.                                         *)
(***************************************************************************)
EXTENDS Integers, SequencesExt

CONSTANTS Address, Slot, None,
          Ripemd           \* the precompile that stays dirty when reverted

Field == {"nonce", "balance", "code"}

NoData == [f \in Field |-> 0]
NoStorage == [k \in Slot |-> 0]       \* the empty storage trie
NoEntry == [k \in Slot |-> None]      \* an empty Storage map

-----------------------------------------------------------------------------
(***************************************************************************)
(* State objects.                                                          *)
(***************************************************************************)
\* acct is what the reader found, or None.
newObject(acct) ==
  [origin |-> acct,
   data |-> IF acct = None THEN NoData ELSE acct.data,
   root |-> IF acct = None THEN NoStorage ELSE acct.storage,
   originStorage |-> NoEntry, dirtyStorage |-> NoEntry,
   pendingStorage |-> NoEntry, uncommittedStorage |-> NoEntry,
   selfDestructed |-> FALSE, newContract |-> FALSE]

empty(o) == o.data = NoData

New(reader) ==
  [reader |-> reader,
   stateObjects |-> [a \in Address |-> None],
   stateObjectsDestruct |-> [a \in Address |-> None],
   mutations |-> [a \in Address |-> None],
   trie |-> reader,
   refund |-> 0,
   entries |-> << >>, dirties |-> [a \in Address |-> 0],
   validRevisions |-> << >>, nextRevisionId |-> 0,
   deferTrieFlush |-> FALSE, parallelMergeAddrs |-> {}]

\* The state in which the object of a, if the account exists, is in the live
\* set.  An account destructed in this block is not read again.
getStateObject(s, a) ==
  IF s.stateObjects[a] # None \/ s.stateObjectsDestruct[a] # None \/ s.reader[a] = None
    THEN s
    ELSE [s EXCEPT !.stateObjects[a] = newObject(s.reader[a])]

Obj(s, a) == getStateObject(s, a).stateObjects[a]
Exist(s, a) == Obj(s, a) # None

\* For an object of the live set.
GetCommittedState(s, a, k) ==
  LET o == s.stateObjects[a] IN
  IF o.pendingStorage[k] # None THEN o.pendingStorage[k]
  ELSE IF o.originStorage[k] # None THEN o.originStorage[k]
  ELSE IF s.stateObjectsDestruct[a] # None \/ s.reader[a] = None THEN 0
  ELSE s.reader[a].storage[k]

GetState(s, a, k) ==
  LET d == s.stateObjects[a].dirtyStorage[k]
  IN  IF d # None THEN d ELSE GetCommittedState(s, a, k)

\* A read leaves the slot in originStorage unless a pending write hides it.
CacheSlot(s, a, k) ==
  IF s.stateObjects[a].pendingStorage[k] # None THEN s
  ELSE [s EXCEPT !.stateObjects[a].originStorage[k] = GetCommittedState(s, a, k)]

\* setState: a value equal to the original one is not dirty.
setState(o, k, value, origin) ==
  [o EXCEPT !.dirtyStorage[k] = IF value = origin THEN None ELSE value]

-----------------------------------------------------------------------------
(***************************************************************************)
(* The journal.  An entry has the fields its kind needs, the others None.  *)
(***************************************************************************)
Entry(kind, a, key, prev, origin) ==
  [kind |-> kind, addr |-> a, key |-> key, prev |-> prev, origin |-> origin]

dirtied(e) == e.kind \notin {"createContract", "refund"}

\* Mutated form: an entry does not count its address as dirty.
append_Uncounted(s, e) == [s EXCEPT !.entries = Append(@, e)]

append(s, e) ==
  [s EXCEPT !.entries = Append(@, e),
            !.dirties = [a \in Address |-> IF dirtied(e) /\ a = e.addr THEN @[a] + 1 ELSE @[a]]]

createObject(s, a) ==
  [append(s, Entry("createObject", a, None, None, None))
     EXCEPT !.stateObjects[a] = newObject(None)]

getOrNewStateObject(s, a) ==
  IF Exist(s, a) THEN getStateObject(s, a) ELSE createObject(getStateObject(s, a), a)

\* SetBalance, SetNonce and SetCode of a live object.  SetCode journals the
\* code as far as it was loaded; its callers have read it before (create has
\* found the code hash empty, an EIP-7702 authority's code is parsed), so that
\* this is the account's code.
SetField(s, a, f, v) ==
  [append(s, Entry("field", a, f, s.stateObjects[a].data[f], None))
     EXCEPT !.stateObjects[a].data[f] = v]

\* Mutated form: a reverted touch of Ripemd is forgotten.
touch_NotSticky(s, a) == append(s, Entry("touch", a, None, None, None))

touch(s, a) ==
  [append(s, Entry("touch", a, None, None, None))
     EXCEPT !.dirties[a] = IF a = Ripemd THEN @ + 1 ELSE @]

AddBalance(s, a, n) ==
  LET t == getOrNewStateObject(s, a)
      o == t.stateObjects[a]
  IN  IF n # 0 THEN SetField(t, a, "balance", o.data["balance"] + n)
      ELSE IF empty(o) THEN touch(t, a) ELSE t

SubBalance(s, a, n) ==
  LET t == getOrNewStateObject(s, a)
  IN  IF n = 0 THEN t
      ELSE SetField(t, a, "balance", t.stateObjects[a].data["balance"] - n)

SetNonce(s, a, n) == SetField(getOrNewStateObject(s, a), a, "nonce", n)
SetCode(s, a, c) == SetField(getOrNewStateObject(s, a), a, "code", c)

SetState(s, a, k, v) ==
  LET t == CacheSlot(getOrNewStateObject(s, a), a, k)
      prev == GetState(t, a, k)
      origin == GetCommittedState(t, a, k)
  IN  IF prev = v THEN t
      ELSE [append(t, Entry("storage", a, k, prev, origin))
              EXCEPT !.stateObjects[a] = setState(@, k, v, origin)]

CreateContract(s, a) ==
  IF Obj(s, a).newContract THEN getStateObject(s, a)
  ELSE [append(getStateObject(s, a), Entry("createContract", a, None, None, None))
          EXCEPT !.stateObjects[a].newContract = TRUE]

SelfDestruct(s, a) ==
  LET t == getStateObject(s, a)
      u == IF t.stateObjects[a].data["balance"] = 0 THEN t ELSE SetField(t, a, "balance", 0)
  IN  IF t.stateObjects[a] = None THEN t
      ELSE IF u.stateObjects[a].selfDestructed THEN u
      ELSE [append(u, Entry("destruct", a, None, None, None))
              EXCEPT !.stateObjects[a].selfDestructed = TRUE]

\* Mutated form: any contract may be destructed.
SelfDestruct6780_AnyContract(s, a) == SelfDestruct(s, a)

SelfDestruct6780(s, a) ==
  IF Exist(s, a) /\ Obj(s, a).newContract THEN SelfDestruct(s, a) ELSE getStateObject(s, a)

AddRefund(s, n) == [append(s, Entry("refund", None, None, s.refund, None)) EXCEPT !.refund = @ + n]

-----------------------------------------------------------------------------
(***************************************************************************)
(* Snapshots.                                                              *)
(***************************************************************************)
Snapshot(s) ==
  [s EXCEPT !.validRevisions = Append(@, [id |-> s.nextRevisionId, journalIndex |-> Len(s.entries)]),
            !.nextRevisionId = @ + 1]

\* The undoing of one entry, dirty count included.
revert(s, e) ==
  LET a == e.addr
      t == CASE e.kind = "createObject"   -> [s EXCEPT !.stateObjects[a] = None]
             [] e.kind = "field"          -> [s EXCEPT !.stateObjects[a].data[e.key] = e.prev]
             [] e.kind = "storage"        -> [s EXCEPT !.stateObjects[a] = setState(@, e.key, e.prev, e.origin)]
             [] e.kind = "createContract" -> [s EXCEPT !.stateObjects[a].newContract = FALSE]
             [] e.kind = "destruct"       -> [s EXCEPT !.stateObjects[a].selfDestructed = FALSE]
             [] e.kind = "touch"          -> s
             [] e.kind = "refund"         -> [s EXCEPT !.refund = e.prev]
  IN  IF dirtied(e) THEN [t EXCEPT !.dirties[a] = @ - 1] ELSE t

\* Mutated form: the dirty counts are left as they are.
RevertToSnapshot_KeepDirties(s, id) ==
  LET i == CHOOSE j \in DOMAIN s.validRevisions : s.validRevisions[j].id = id
      n == s.validRevisions[i].journalIndex
      t == FoldRight(LAMBDA e, u : revert(u, e), SubSeq(s.entries, n + 1, Len(s.entries)), s)
  IN  [t EXCEPT !.entries = SubSeq(@, 1, n), !.validRevisions = SubSeq(@, 1, i - 1),
                !.dirties = s.dirties]

\* The revision with this id is the i-th valid one; the code panics if there
\* is none.
RevertToSnapshot(s, id) ==
  LET i == CHOOSE j \in DOMAIN s.validRevisions : s.validRevisions[j].id = id
      n == s.validRevisions[i].journalIndex
      t == FoldRight(LAMBDA e, u : revert(u, e), SubSeq(s.entries, n + 1, Len(s.entries)), s)
  IN  [t EXCEPT !.entries = SubSeq(@, 1, n), !.validRevisions = SubSeq(@, 1, i - 1)]

-----------------------------------------------------------------------------
(***************************************************************************)
(* The end of a transaction and of a block, from EIP-158 on (empty objects *)
(* are deleted).                                                           *)
(***************************************************************************)
\* Mutated form: a slot written again is no longer marked as changed.
finalise_Unmark(s, a) ==
  LET o == s.stateObjects[a]
      d == o.dirtyStorage
      Uncommitted(k) == LET u == o.uncommittedStorage[k] IN
                        IF d[k] = None THEN u
                        ELSE IF u = None THEN GetCommittedState(s, a, k) ELSE None
  IN  [o EXCEPT !.uncommittedStorage = [k \in Slot |-> Uncommitted(k)],
                !.pendingStorage = [k \in Slot |-> IF d[k] = None THEN @[k] ELSE d[k]],
                !.dirtyStorage = NoEntry,
                !.newContract = FALSE]

\* stateObject.finalise
finalise(s, a) ==
  LET o == s.stateObjects[a]
      d == o.dirtyStorage
      Uncommitted(k) == LET u == o.uncommittedStorage[k] IN
                        IF d[k] = None THEN u
                        ELSE IF u = None THEN GetCommittedState(s, a, k)
                        ELSE IF u = d[k] THEN None ELSE u
  IN  [o EXCEPT !.uncommittedStorage = [k \in Slot |-> Uncommitted(k)],
                !.pendingStorage = [k \in Slot |-> IF d[k] = None THEN @[k] ELSE d[k]],
                !.dirtyStorage = NoEntry,
                !.newContract = FALSE]

\* A dirty address without an object is passed over.
Dirty(s) == {a \in Address : s.dirties[a] > 0 /\ s.stateObjects[a] # None}
Deleted(s) == {a \in Dirty(s) : s.stateObjects[a].selfDestructed \/ empty(s.stateObjects[a])}

\* Mutated form: a deletion is recorded as an update.
mutation_AlwaysUpdate(typ) == [typ |-> "update", applied |-> FALSE]

mutation(typ) == [typ |-> typ, applied |-> FALSE]

Finalise(s) ==
  LET del == Deleted(s)
      upd == Dirty(s) \ del
  IN  [s EXCEPT
         !.stateObjects = [a \in Address |-> IF a \in del THEN None
                                             ELSE IF a \in upd THEN finalise(s, a) ELSE @[a]],
         !.stateObjectsDestruct = [a \in Address |-> IF a \in del /\ @[a] = None
                                                       THEN s.stateObjects[a] ELSE @[a]],
         !.mutations = [a \in Address |-> IF a \in del THEN mutation("deletion")
                                          ELSE IF a \in upd THEN mutation("update") ELSE @[a]],
         !.parallelMergeAddrs = IF s.deferTrieFlush THEN @ \cup {a \in Address : s.dirties[a] > 0} ELSE @,
         !.entries = << >>, !.dirties = [a \in Address |-> 0],
         !.validRevisions = << >>, !.nextRevisionId = 0,
         !.refund = 0]

\* updateTrie and updateRoot: a slot marked as changed is written unless it
\* has its old value again.
updateRoot(o) ==
  [o EXCEPT
     !.root = [k \in Slot |-> IF /\ o.uncommittedStorage[k] # None
                                 /\ o.pendingStorage[k] \notin {None, o.uncommittedStorage[k]}
                                THEN o.pendingStorage[k] ELSE @[k]],
     !.uncommittedStorage = NoEntry]

IntermediateRoot(s) ==
  LET t == Finalise(s)
      Due(typ) == {a \in Address : t.mutations[a] # None /\ ~t.mutations[a].applied
                                                         /\ t.mutations[a].typ = typ}
      objs == [a \in Address |-> IF a \in Due("update") THEN updateRoot(t.stateObjects[a])
                                                        ELSE t.stateObjects[a]]
  IN  IF s.deferTrieFlush THEN t
      ELSE [t EXCEPT
              !.stateObjects = objs,
              !.trie = [a \in Address |->
                          IF a \in Due("update") THEN [data |-> objs[a].data, storage |-> objs[a].root]
                          ELSE IF a \in Due("deletion") THEN None ELSE @[a]],
              !.mutations = [a \in Address |-> IF @[a] = None THEN None ELSE [@[a] EXCEPT !.applied = TRUE]]]

\* Accounts of the block's first state whose storage must be wiped.
handleDestruction(s) ==
  {a \in Address : s.stateObjectsDestruct[a] # None /\ s.stateObjectsDestruct[a].origin # None}

\* newStateUpdate: what the flat state (snapshot layers, trie database)
\* becomes: deletions first, then accounts and the slots commitStorage finds
\* changed.
stateUpdate(s) ==
  LET gone == handleDestruction(s)
      Base(a) == IF a \in gone THEN None ELSE s.reader[a]
      Stored(a, k) == LET o == s.stateObjects[a]
                          was == IF o.originStorage[k] = None THEN 0 ELSE o.originStorage[k]
                      IN  IF o.pendingStorage[k] \notin {None, was} THEN o.pendingStorage[k]
                          ELSE IF Base(a) = None THEN 0 ELSE Base(a).storage[k]
  IN  [a \in Address |->
         IF s.mutations[a] # None /\ s.mutations[a].typ = "update"
           THEN [data |-> s.stateObjects[a].data, storage |-> [k \in Slot |-> Stored(a, k)]]
           ELSE Base(a)]

-----------------------------------------------------------------------------
(***************************************************************************)
(* Forks.                                                                  *)
(***************************************************************************)
\* Mutated form: the fork writes to the trie.
CopyForParallelTx_Flushing(s) ==
  [New(s.reader) EXCEPT !.stateObjects = s.stateObjects,
                        !.stateObjectsDestruct = s.stateObjectsDestruct,
                        !.mutations = s.mutations]

\* Mutated form: the fork does not know what was destructed.
CopyForParallelTx_NoDestruct(s) ==
  [New(s.reader) EXCEPT !.stateObjects = s.stateObjects,
                        !.mutations = s.mutations,
                        !.deferTrieFlush = TRUE]

\* deepCopy of every object: a value here is never shared, so that the model
\* cannot show a map which the copy would alias by mistake.
CopyForParallelTx(s) ==
  [New(s.reader) EXCEPT !.stateObjects = s.stateObjects,
                        !.stateObjectsDestruct = s.stateObjectsDestruct,
                        !.mutations = s.mutations,
                        !.deferTrieFlush = TRUE]

\* Mutated form: the destruct marker stays behind in the fork.
MergeParallelChildAccounts_NoDestruct(s, c) ==
  LET IsDelete(a) == c.mutations[a] # None /\ c.mutations[a].typ = "deletion"
      del == {a \in c.parallelMergeAddrs : IsDelete(a)}
      upd == {a \in c.parallelMergeAddrs : ~IsDelete(a) /\ c.stateObjects[a] # None}
  IN  [s EXCEPT
         !.stateObjects = [a \in Address |-> IF a \in del THEN None
                                             ELSE IF a \in upd THEN c.stateObjects[a] ELSE @[a]],
         !.mutations = [a \in Address |-> IF a \in del THEN mutation("deletion")
                                          ELSE IF a \in upd THEN mutation("update") ELSE @[a]]]

\* Mutated form: an account already written in this block is not marked again.
MergeParallelChildAccounts_KeepApplied(s, c) ==
  LET IsDelete(a) == c.mutations[a] # None /\ c.mutations[a].typ = "deletion"
      del == {a \in c.parallelMergeAddrs : IsDelete(a)}
      upd == {a \in c.parallelMergeAddrs : ~IsDelete(a) /\ c.stateObjects[a] # None}
  IN  [s EXCEPT
         !.stateObjects = [a \in Address |-> IF a \in del THEN None
                                             ELSE IF a \in upd THEN c.stateObjects[a] ELSE @[a]],
         !.stateObjectsDestruct = [a \in Address |->
                                     IF a \in del /\ c.stateObjectsDestruct[a] # None
                                       THEN c.stateObjectsDestruct[a] ELSE @[a]],
         !.mutations = [a \in Address |->
                          IF a \in del THEN mutation("deletion")
                          ELSE IF a \in upd /\ @[a] = None THEN mutation("update") ELSE @[a]]]

MergeParallelChildAccounts(s, c) ==
  LET IsDelete(a) == c.mutations[a] # None /\ c.mutations[a].typ = "deletion"
      del == {a \in c.parallelMergeAddrs : IsDelete(a)}
      upd == {a \in c.parallelMergeAddrs : ~IsDelete(a) /\ c.stateObjects[a] # None}
  IN  [s EXCEPT
         !.stateObjects = [a \in Address |-> IF a \in del THEN None
                                             ELSE IF a \in upd THEN c.stateObjects[a] ELSE @[a]],
         !.stateObjectsDestruct = [a \in Address |->
                                     IF a \in del /\ c.stateObjectsDestruct[a] # None
                                       THEN c.stateObjectsDestruct[a] ELSE @[a]],
         !.mutations = [a \in Address |-> IF a \in del THEN mutation("deletion")
                                          ELSE IF a \in upd THEN mutation("update") ELSE @[a]]]

-----------------------------------------------------------------------------
\* The account a reader of the StateDB sees at a, through all the caches.
Seen(s, a) ==
  LET t == getStateObject(s, a)
      o == t.stateObjects[a]
  IN  IF o = None THEN None
      ELSE [data |-> o.data, storage |-> [k \in Slot |-> GetState(t, a, k)],
            selfDestructed |-> o.selfDestructed, newContract |-> o.newContract]
=============================================================================
