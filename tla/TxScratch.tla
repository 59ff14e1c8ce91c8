----------------------------- MODULE TxScratch -----------------------------
(***************************************************************************)
(* What a StateDB keeps for the running transaction beside the accounts:   *)
(* the access list of EIP-2929 (core/state/access_list.go), the transient  *)
(* storage of EIP-1153 and the logs, all undone through the same journal.  *)
(* The access list keeps the slots of an address in a slice and the        *)
(* address's position in it; undoing cuts the slice, which is right only   *)
(* if additions are undone strictly in reverse.                            *)
(***************************************************************************)
EXTENDS Integers, SequencesExt

CONSTANTS Address, Slot, None,
          Lists,                              \* access lists: sequences of <<address, slots>>
          MaxEntries, MaxSnapshots, MaxTxs    \* bounds

VARIABLES scratch,    \* [addresses, slots, transient, logs, logSize]
          entries,    \* journal entries
          revisions,  \* validRevisions with nextRevisionId as their ids
          nextId,
          frames,     \* open frames: revision id, and the scratch when it was taken
          txIndex,    \* SetTxContext: the running transaction
          panicked

vars == <<scratch, entries, revisions, nextId, frames, txIndex, panicked>>

newAccessList == [addresses |-> [a \in Address |-> None], slots |-> << >>]
newTransientStorage == [a \in Address |-> [k \in Slot |-> 0]]

-----------------------------------------------------------------------------
\* The access list.  addresses[a] is None, -1, or a position in slots (from 0).
AddAddress(al, a) == IF al.addresses[a] # None THEN al ELSE [al EXCEPT !.addresses[a] = -1]

AddSlot(al, a, k) ==
  IF al.addresses[a] \in {None, -1}
    THEN [al EXCEPT !.addresses[a] = Len(al.slots), !.slots = Append(@, {k})]
    ELSE [al EXCEPT !.slots[al.addresses[a] + 1] = @ \cup {k}]

DeleteSlotPanics(al, a) == al.addresses[a] = None \/ al.addresses[a] \notin 0 .. Len(al.slots) - 1

\* Mutated form: the address keeps its position when its last slot goes.
DeleteSlot_KeepPosition(al, a, k) ==
  LET i == al.addresses[a] + 1 IN
  IF al.slots[i] \ {k} = {}
    THEN [al EXCEPT !.slots = SubSeq(@, 1, i - 1)]
    ELSE [al EXCEPT !.slots[i] = @ \ {k}]

\* Mutated form: an emptied slot map is kept.
DeleteSlot_KeepEmpty(al, a, k) == [al EXCEPT !.slots[al.addresses[a] + 1] = @ \ {k}]

DeleteSlot(al, a, k) ==
  LET i == al.addresses[a] + 1 IN
  IF al.slots[i] \ {k} = {}
    THEN [al EXCEPT !.slots = SubSeq(@, 1, i - 1), !.addresses[a] = -1]
    ELSE [al EXCEPT !.slots[i] = @ \ {k}]

DeleteAddress(al, a) == [al EXCEPT !.addresses[a] = None]

ContainsAddress(al, a) == al.addresses[a] # None
ContainsSlot(al, a, k) == al.addresses[a] \notin {None, -1} /\ k \in al.slots[al.addresses[a] + 1]

\* The list a transaction starts with: its sender and recipient (from and to
\* are any two addresses), precompiles and coinbase among them, and its
\* declared slots.  None of it is journalled.
Prepared(warm, list) ==
  LET AddTuple(al, el) == FoldLeft(LAMBDA l, k : AddSlot(l, el[1], k), AddAddress(al, el[1]), el[2])
  IN  FoldLeft(AddTuple, [newAccessList EXCEPT !.addresses = [a \in Address |-> IF a \in warm THEN -1 ELSE None]],
               list)

-----------------------------------------------------------------------------
Entry(kind, a, k, prev) == [kind |-> kind, addr |-> a, key |-> k, prev |-> prev]

\* Mutated form: a reverted log leaves its number used up.
revert_KeepLogSize(sc, e) ==
  IF sc = None THEN None
  ELSE CASE e.kind = "account" -> [sc EXCEPT !.al = DeleteAddress(@, e.addr)]
         [] e.kind = "slot" -> IF DeleteSlotPanics(sc.al, e.addr) THEN None
                               ELSE [sc EXCEPT !.al = DeleteSlot(@, e.addr, e.key)]
         [] e.kind = "transient" -> [sc EXCEPT !.transient[e.addr][e.key] = e.prev]
         [] e.kind = "log" -> [sc EXCEPT !.logs[e.prev] = Front(@)]

\* The undoing of one entry; None once an undoing has panicked.
revert(sc, e) ==
  IF sc = None THEN None
  ELSE CASE e.kind = "account" -> [sc EXCEPT !.al = DeleteAddress(@, e.addr)]
         [] e.kind = "slot" -> IF DeleteSlotPanics(sc.al, e.addr) THEN None
                               ELSE [sc EXCEPT !.al = DeleteSlot(@, e.addr, e.key)]
         [] e.kind = "transient" -> [sc EXCEPT !.transient[e.addr][e.key] = e.prev]
         [] e.kind = "log" -> [sc EXCEPT !.logs[e.prev] = Front(@), !.logSize = @ - 1]

\* journal.revert: from the last entry down to position n.
Undone(n) == FoldRight(LAMBDA e, sc : revert(sc, e), SubSeq(entries, n + 1, Len(entries)), scratch)

-----------------------------------------------------------------------------
Init == /\ scratch = [al |-> newAccessList, transient |-> newTransientStorage,
                      logs |-> [t \in 1 .. MaxTxs |-> << >>], logSize |-> 0]
        /\ entries = << >> /\ revisions = << >> /\ nextId = 0 /\ frames = << >>
        /\ txIndex = 0 /\ panicked = FALSE

\* SetTxContext and Prepare; the previous transaction's Finalise has reset the
\* journal.
StartTx ==
  /\ ~panicked /\ frames = << >> /\ txIndex < MaxTxs
  /\ txIndex' = txIndex + 1
  /\ \E warm \in SUBSET Address, list \in Lists :
       scratch' = [scratch EXCEPT !.al = Prepared(warm, list), !.transient = newTransientStorage]
  /\ entries' = << >> /\ revisions' = << >> /\ nextId' = 0
  /\ UNCHANGED <<frames, panicked>>

Record(sc, new) == /\ ~panicked /\ txIndex > 0 /\ Len(entries) < MaxEntries
                   /\ scratch' = sc
                   /\ entries' = entries \o new
                   /\ UNCHANGED <<revisions, nextId, frames, txIndex, panicked>>

AddAddressToAccessList(a) ==
  Record([scratch EXCEPT !.al = AddAddress(@, a)],
         IF ContainsAddress(scratch.al, a) THEN << >> ELSE <<Entry("account", a, None, None)>>)

\* Mutated form: the two entries are journalled in the wrong order.
AddSlotToAccessList_Swapped(a, k) ==
  Record([scratch EXCEPT !.al = AddSlot(@, a, k)],
         (IF ContainsSlot(scratch.al, a, k) THEN << >> ELSE <<Entry("slot", a, k, None)>>)
         \o (IF ContainsAddress(scratch.al, a) THEN << >> ELSE <<Entry("account", a, None, None)>>))

AddSlotToAccessList(a, k) ==
  Record([scratch EXCEPT !.al = AddSlot(@, a, k)],
         (IF ContainsAddress(scratch.al, a) THEN << >> ELSE <<Entry("account", a, None, None)>>)
         \o (IF ContainsSlot(scratch.al, a, k) THEN << >> ELSE <<Entry("slot", a, k, None)>>))

\* Mutated form: the change is not journalled.
SetTransientState_NoJournal(a, k, v) ==
  v # scratch.transient[a][k] /\ Record([scratch EXCEPT !.transient[a][k] = v], << >>)

SetTransientState(a, k, v) ==
  /\ v # scratch.transient[a][k]
  /\ Record([scratch EXCEPT !.transient[a][k] = v], <<Entry("transient", a, k, scratch.transient[a][k])>>)

\* A log carries its index in the block.
AddLog ==
  Record([scratch EXCEPT !.logs[txIndex] = Append(@, scratch.logSize), !.logSize = @ + 1],
         <<Entry("log", None, None, txIndex)>>)

Snapshot ==
  /\ ~panicked /\ txIndex > 0 /\ nextId < MaxSnapshots
  /\ revisions' = Append(revisions, [id |-> nextId, journalIndex |-> Len(entries)])
  /\ frames' = Append(frames, [id |-> nextId, copy |-> scratch])
  /\ nextId' = nextId + 1
  /\ UNCHANGED <<scratch, entries, txIndex, panicked>>

Return == /\ ~panicked /\ frames # << >>
          /\ frames' = Front(frames)
          /\ UNCHANGED <<scratch, entries, revisions, nextId, txIndex, panicked>>

\* sort.Search finds the first revision with an id not below the wanted one.
RevertToSnapshot ==
  /\ ~panicked /\ frames # << >>
  /\ LET id == Last(frames).id
         found == {i \in DOMAIN revisions : revisions[i].id >= id}
         i == CHOOSE j \in found : \A m \in found : j <= m
         sc == Undone(revisions[i].journalIndex)
     IN  IF found = {} \/ revisions[i].id # id \/ sc = None
           THEN panicked' = TRUE /\ UNCHANGED <<scratch, entries, revisions, frames>>
           ELSE /\ scratch' = sc
                /\ entries' = SubSeq(entries, 1, revisions[i].journalIndex)
                /\ revisions' = SubSeq(revisions, 1, i - 1)
                /\ frames' = Front(frames)
                /\ UNCHANGED panicked
  /\ UNCHANGED <<nextId, txIndex>>

\* The block ends.
Finished == txIndex = MaxTxs /\ frames = << >> /\ UNCHANGED vars

Next == \/ \E a \in Address : \/ AddAddressToAccessList(a)
                              \/ \E k \in Slot : \/ AddSlotToAccessList(a, k)
                                                 \/ \E v \in 0 .. 1 : SetTransientState(a, k, v)
        \/ AddLog \/ Snapshot \/ Return \/ RevertToSnapshot \/ StartTx \/ Finished

Spec == Init /\ [][Next]_vars

-----------------------------------------------------------------------------
\* Types; an address of the access list never points past the slice of slots.
TypeOK == /\ scratch.al.addresses \in [Address -> {None} \cup (-1 .. Len(scratch.al.slots) - 1)]
          /\ scratch.al.slots \in Seq(SUBSET Slot)
          /\ scratch.logSize \in Nat /\ txIndex \in 0 .. MaxTxs

\* DeleteSlot and revertToSnapshot never panic: no access-list entry is undone
\* after the entry it builds on, and the revision of an open frame is known.
NeverPanics == ~panicked

\* RevertToSnapshot: from whatever follows a snapshot, nested frames that
\* returned or failed included, undoing the journal down to it gives back the
\* very scratch state the snapshot was taken of, slice positions included.
RevertRestores ==
  \A f \in DOMAIN frames : \A i \in DOMAIN revisions :
    revisions[i].id = frames[f].id => Undone(revisions[i].journalIndex) = frames[f].copy

\* access_list.go: two addresses never share a slot map, no slot map is empty
\* or without an address.  Cutting the slice in DeleteSlot relies on it.
SlotMapsOwned ==
  \A i \in DOMAIN scratch.al.slots :
    /\ scratch.al.slots[i] # {}
    /\ \E a \in Address : /\ scratch.al.addresses[a] = i - 1
                          /\ \A b \in Address \ {a} : scratch.al.addresses[b] # i - 1

\* AddLog: on one StateDB the logs of the block are numbered without gaps in
\* the order of the transactions, reverted logs leaving no trace.
LogsDense ==
  LET all == FlattenSeq([t \in 1 .. MaxTxs |-> scratch.logs[t]])
  IN  all = [i \in 1 .. scratch.logSize |-> i - 1]
=============================================================================
