---------------------------- MODULE WaveGrouping ----------------------------
(***************************************************************************)
(* BuildTransactionStorageParallelGroups (core/parallel_processor.go): the *)
(* greedy packing of a block's transactions into waves of pairwise         *)
(* disjoint declared address sets, one action per iteration of its loops.  *)
(* A group is kept as the set of its indices: the code appends them in     *)
(* ascending order and Process sorts them again.                           *)
(***************************************************************************)
EXTENDS WaveSchedule, Sequences

CONSTANT Txs   \* transactions a block may hold

ASSUME GroupingAssumption == Txs \subseteq Tx

VARIABLES ParallelTxGroupingByStorageOverlap,  \* package flag, set before the call
          pc,             \* "collect", "seed", "scan", "done" or "error"
          txs,            \* the block's transactions, by index
          addrSets,       \* declared addresses, by index
          unassigned,     \* indices in no group yet
          groups,         \* finished groups, in wave order
          group,          \* the group being built
          groupAddresses, \* union of addrSets over group
          j               \* scan position of the inner loop

vars == <<ParallelTxGroupingByStorageOverlap, pc, txs, addrSets, unassigned,
          groups, group, groupAddresses, j>>

Init == /\ ParallelTxGroupingByStorageOverlap \in BOOLEAN
        /\ pc = "collect"
        /\ txs \in [Idx -> Txs]
        /\ addrSets = [i \in Idx |-> {}]
        /\ unassigned = {}
        /\ groups = << >>
        /\ group = {}
        /\ groupAddresses = {}
        /\ j = 0

-----------------------------------------------------------------------------
(***************************************************************************)
(* Entry: the empty block, the flag turned off (one group per transaction, *)
(* signatures not looked at), and collectDeclaredAddressSets, which gives  *)
(* up on the first sender it cannot recover.                               *)
(***************************************************************************)
\* The code returns one singleton group per index; the empty block is the
\* case of no index.
Sequential ==
  /\ pc = "collect"
  /\ ~(N > 0 /\ ParallelTxGroupingByStorageOverlap)
  /\ groups' = [w \in 1 .. N |-> {w - 1}]
  /\ pc' = "done"
  /\ UNCHANGED <<ParallelTxGroupingByStorageOverlap,
                 txs, addrSets, unassigned, group, groupAddresses, j>>

collectDeclaredAddressSets ==
  /\ pc = "collect"
  /\ N > 0 /\ ParallelTxGroupingByStorageOverlap
  /\ IF \E i \in Idx : txs[i].from = NoSender
       THEN /\ pc' = "error"
            /\ UNCHANGED <<addrSets, unassigned>>
       ELSE /\ pc' = "seed"
            /\ addrSets' = [i \in Idx |-> DeclaredAddresses(txs[i])]
            /\ unassigned' = Idx
  /\ UNCHANGED <<ParallelTxGroupingByStorageOverlap,
                 txs, groups, group, groupAddresses, j>>

-----------------------------------------------------------------------------
IsSeed(i) == i \in unassigned /\ \A k \in unassigned : i <= k

\* Open a group at the smallest unassigned index.
Seed ==
  /\ pc = "seed"
  /\ \E i \in Idx :
       /\ IsSeed(i)
       /\ group' = {i}
       /\ groupAddresses' = addrSets[i]
       /\ unassigned' = unassigned \ {i}
       /\ j' = i + 1
  /\ pc' = "scan"
  /\ UNCHANGED <<ParallelTxGroupingByStorageOverlap, txs, addrSets, groups>>

\* seed == -1: every index is in a group.
Finish ==
  /\ pc = "seed"
  /\ unassigned = {}
  /\ pc' = "done"
  /\ UNCHANGED <<ParallelTxGroupingByStorageOverlap,
                 txs, addrSets, unassigned, groups, group, groupAddresses, j>>

\* Mutated form: a pending transaction blocks whichever side of k it is on.
Blocked_ByAnyPending(k) ==
  \E e \in unassigned \ {k} : declaredAddressSetsOverlap(addrSets[k], addrSets[e])

\* An earlier conflicting transaction that is in no group yet.
Blocked(k) ==
  \E e \in unassigned : e < k /\ declaredAddressSetsOverlap(addrSets[k], addrSets[e])

\* Mutated form: the packing before the causality fix.
Joins_NoCausality(k) ==
  k \in unassigned /\ ~declaredAddressSetsOverlap(addrSets[k], groupAddresses)

\* Mutated form: the inner loop does not skip assigned indices.
Joins_AssignedToo(k) ==
  ~declaredAddressSetsOverlap(addrSets[k], groupAddresses) /\ ~Blocked(k)

Joins(k) == /\ k \in unassigned
            /\ ~declaredAddressSetsOverlap(addrSets[k], groupAddresses)
            /\ ~Blocked(k)

\* Mutated form: the scan runs one index too far.
Scan_PastEnd ==
  /\ pc = "scan"
  /\ j <= N
  /\ j' = j + 1
  /\ UNCHANGED <<ParallelTxGroupingByStorageOverlap, pc, txs, addrSets,
                 unassigned, groups, group, groupAddresses>>

\* Mutated form: "continue" without advancing the index.
Scan_SkipWithoutAdvance ==
  /\ pc = "scan"
  /\ j < N
  /\ Joins(j)
  /\ group' = group \cup {j}
  /\ unassigned' = unassigned \ {j}
  /\ groupAddresses' = groupAddresses \cup addrSets[j]
  /\ j' = j + 1
  /\ UNCHANGED <<ParallelTxGroupingByStorageOverlap, pc, txs, addrSets, groups>>

\* One iteration of the inner loop: j joins the open group or is passed over.
Scan ==
  /\ pc = "scan"
  /\ j < N
  /\ IF Joins(j)
       THEN /\ group' = group \cup {j}
            /\ unassigned' = unassigned \ {j}
            /\ groupAddresses' = groupAddresses \cup addrSets[j]
       ELSE UNCHANGED <<group, unassigned, groupAddresses>>
  /\ j' = j + 1
  /\ UNCHANGED <<ParallelTxGroupingByStorageOverlap,
                 pc, txs, addrSets, groups>>

\* End of the inner loop: the group is appended.
Close ==
  /\ pc = "scan"
  /\ j = N
  /\ groups' = Append(groups, group)
  /\ group' = {}
  /\ groupAddresses' = {}
  /\ pc' = "seed"
  /\ UNCHANGED <<ParallelTxGroupingByStorageOverlap,
                 txs, addrSets, unassigned, j>>

\* The function has returned.
Returned == pc \in {"done", "error"} /\ UNCHANGED vars

Next == \/ Sequential \/ collectDeclaredAddressSets
        \/ Seed \/ Finish \/ Scan \/ Close
        \/ Returned

\* A single goroutine runs the function to its return.
Spec == Init /\ [][Next]_vars /\ WF_vars(Next)
-----------------------------------------------------------------------------
\* Types; the scan index never passes the end of the slice.
TypeOK ==
  /\ ParallelTxGroupingByStorageOverlap \in BOOLEAN
  /\ pc \in {"collect", "seed", "scan", "done", "error"}
  /\ txs \in [Idx -> Txs]
  /\ addrSets \in [Idx -> SUBSET (Address \cup {NoSender})]
  /\ unassigned \subseteq Idx
  /\ groups \in Seq(SUBSET Idx)
  /\ group \subseteq Idx
  /\ groupAddresses \subseteq Address \cup {NoSender}
  /\ j \in 0 .. N

\* What each transaction declares, whether or not the function looked at it.
Declared == [i \in Idx |-> DeclaredAddresses(txs[i])]

\* The wave a transaction was put in.
waveOf == [i \in Idx |-> CHOOSE w \in DOMAIN groups : i \in groups[w]]

(***************************************************************************)
(* The returned groups are a partition of the block: every transaction is  *)
(* executed, and none twice (Process walks the groups and indexes receipts *)
(* by transaction).                                                        *)
(***************************************************************************)
EveryTxInExactlyOneGroup ==
  pc = "done" =>
    \A i \in Idx : \E w \in DOMAIN groups :
      i \in groups[w] /\ \A v \in DOMAIN groups : i \in groups[v] => v = w

(***************************************************************************)
(* The two conditions of the function's comment, as one: of two            *)
(* transactions whose declared sets overlap, the one earlier in the block  *)
(* is in a strictly earlier wave.  So waves are pairwise disjoint and a    *)
(* later nonce never rides before its predecessor.                         *)
(***************************************************************************)
ConflictsKeepBlockOrder ==
  pc = "done" => CausallyOrdered(Declared, waveOf)

(***************************************************************************)
(* The packing wastes no wave: a transaction is in wave w > 1 only because *)
(* an earlier conflicting transaction is in wave w - 1, so the number of   *)
(* waves is the length of the longest chain of conflicts.  Only claimed    *)
(* when ParallelTxGroupingByStorageOverlap is on.                          *)
(***************************************************************************)
NoNeedlessWave ==
  pc = "done" /\ ParallelTxGroupingByStorageOverlap
    => AsSoonAsPossible(Declared, waveOf)

(***************************************************************************)
(* The function returns: the outer loop assigns at least its seed on every *)
(* turn.                                                                   *)
(***************************************************************************)
Terminates == <>(pc \in {"done", "error"})
=============================================================================
