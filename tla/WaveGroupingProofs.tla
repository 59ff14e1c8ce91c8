------------------------- MODULE WaveGroupingProofs -------------------------
(***************************************************************************)
(* Proofs about the greedy wave packing, for every block length, every set *)
(* of addresses and every transaction.                                     *)
(***************************************************************************)
EXTENDS WaveGrouping, TLAPS

Clash(i, k) == Conflict(Declared, i, k)

\* No index is in two closed groups.
Unique == \A w, v \in DOMAIN groups : \A i \in Idx :
            i \in groups[w] /\ i \in groups[v] => w = v

\* The conflicting predecessors of a grouped index are in earlier groups.
PredecessorsFirst ==
  \A w \in DOMAIN groups : \A i \in groups[w] : \A k \in Idx :
    k < i /\ Clash(k, i) => \E v \in DOMAIN groups : v < w /\ k \in groups[v]

\* A grouped index has a conflicting predecessor in the group just before.
Reason ==
  ParallelTxGroupingByStorageOverlap =>
    \A w \in DOMAIN groups : w > 1 =>
      \A k \in groups[w] : \E i \in groups[w - 1] : i < k /\ Clash(i, k)

Placed == pc = "done" => \A i \in Idx : \E w \in DOMAIN groups : i \in groups[w]

Untouched == pc \in {"collect", "error"} => groups = << >> /\ group = {}

\* While the loops run: every index is unassigned, in the open group or in a
\* closed one, and in one of these only.
Located ==
  /\ \A i \in Idx : i \in unassigned \/ i \in group \/ \E w \in DOMAIN groups : i \in groups[w]
  /\ \A w \in DOMAIN groups : \A i \in groups[w] : i \notin unassigned /\ i \notin group
  /\ \A i \in group : i \notin unassigned

\* The open group continues the packing correctly.
OpenPredecessors ==
  \A i \in group : \A k \in Idx :
    k < i /\ Clash(k, i) => \E v \in DOMAIN groups : k \in groups[v]

OpenReason ==
  Len(groups) > 0 =>
    \A k \in group : \E i \in groups[Len(groups)] : i < k /\ Clash(i, k)

\* Why an index was passed over in the last closed group: an earlier conflict
\* was in that group or still pending, and what was pending may since have
\* joined the open group.
PassedOver ==
  Len(groups) > 0 =>
    \A k \in unassigned : \E i \in Idx :
      /\ i < k /\ Clash(i, k)
      /\ i \in groups[Len(groups)] \/ i \in group \/ i \in unassigned

\* The same for the open group and the indices already scanned.
Scanned ==
  /\ \A i \in group : i < j
  /\ \A x \in Address \cup {NoSender} :
       x \in groupAddresses <=> \E i \in group : x \in addrSets[i]
  /\ \A k \in unassigned : k < j => \E i \in Idx :
       i < k /\ Clash(i, k) /\ (i \in group \/ i \in unassigned)

Running ==
  pc \in {"seed", "scan"} =>
    /\ ParallelTxGroupingByStorageOverlap
    /\ addrSets = Declared
    /\ Located /\ OpenPredecessors /\ OpenReason /\ PassedOver
    /\ pc = "seed" => group = {}
    /\ pc = "scan" => Scanned

IInv == /\ TypeOK /\ Unique /\ PredecessorsFirst /\ Reason
        /\ Placed /\ Untouched /\ Running
-----------------------------------------------------------------------------
LEMMA DeclaredType ==
  ASSUME TypeOK PROVE Declared \in [Idx -> SUBSET (Address \cup {NoSender})]
BY GroupingAssumption DEF TypeOK, Declared, DeclaredAddresses, WaveAccessList, Tx

LEMMA InitIInv == Init => IInv
BY ScheduleAssumption, GroupingAssumption
   DEF Init, IInv, TypeOK, Unique, PredecessorsFirst, Reason, Placed, Untouched,
       Running, Idx

\* A step that leaves the transactions alone leaves what they declare alone.
LEMMA DeclaredStable ==
  ASSUME Next \/ UNCHANGED vars PROVE Declared' = Declared
BY DEF Next, vars, Declared, Sequential, collectDeclaredAddressSets, Seed, Finish,
       Scan, Close, Returned

LEMMA SequentialStep == IInv /\ Sequential => IInv'
<1> SUFFICES ASSUME IInv, Sequential PROVE IInv'
  OBVIOUS
<1>1. Declared' = Declared
  BY DeclaredStable DEF Next
<1>2. groups' = [w \in 1 .. N |-> {w - 1}]
  BY DEF Sequential
<1>3. DOMAIN groups' = 1 .. N /\ Len(groups') = N /\ groups' \in Seq(SUBSET Idx)
  BY <1>2, ScheduleAssumption DEF Idx
<1>4. TypeOK'
  BY <1>3 DEF IInv, TypeOK, Sequential
<1>5. Unique'
  BY <1>2, <1>3, ScheduleAssumption DEF Unique, Idx
<1>6. PredecessorsFirst'
  <2> SUFFICES ASSUME NEW w \in DOMAIN groups', NEW i \in groups'[w], NEW k \in Idx, k < i
               PROVE  \E v \in DOMAIN groups' : v < w /\ k \in groups'[v]
    BY DEF PredecessorsFirst
  <2>1. w \in 1 .. N /\ i = w - 1
    BY <1>2, <1>3
  <2>2. k + 1 \in 1 .. N /\ k + 1 < w /\ groups'[k + 1] = {k}
    BY <1>2, <2>1, ScheduleAssumption DEF Idx
  <2> QED
    BY <2>2, <1>3
<1>7. Reason'
  BY <1>3, ScheduleAssumption DEF Reason, Sequential, IInv, TypeOK
<1>8. Placed'
  <2> SUFFICES ASSUME NEW i \in Idx PROVE \E w \in DOMAIN groups' : i \in groups'[w]
    BY DEF Placed
  <2>1. i + 1 \in 1 .. N /\ i \in groups'[i + 1]
    BY <1>2, ScheduleAssumption DEF Idx
  <2> QED
    BY <2>1, <1>3
<1>9. Untouched' /\ Running'
  BY DEF Untouched, Running, Sequential
<1> QED
  BY <1>4, <1>5, <1>6, <1>7, <1>8, <1>9 DEF IInv

LEMMA CollectStep == IInv /\ collectDeclaredAddressSets => IInv'
<1> SUFFICES ASSUME IInv, collectDeclaredAddressSets PROVE IInv'
  OBVIOUS
<1>1. Declared' = Declared
  BY DeclaredStable DEF Next
<1>2. groups = << >> /\ groups' = << >> /\ group = {} /\ group' = {}
  BY DEF IInv, Untouched, collectDeclaredAddressSets
<1>3. TypeOK'
  <2>1. TypeOK
    BY DEF IInv
  <2> QED
    BY <2>1, DeclaredType, ScheduleAssumption DEF TypeOK, collectDeclaredAddressSets, Declared
<1>4. Unique' /\ PredecessorsFirst' /\ Reason' /\ Untouched' /\ Placed'
  BY <1>2 DEF Unique, PredecessorsFirst, Reason, Untouched, Placed, collectDeclaredAddressSets
<1>5. Running'
  BY <1>1, <1>2 DEF IInv, Running, collectDeclaredAddressSets, Located, OpenPredecessors,
                    OpenReason, PassedOver, Declared, TypeOK
<1> QED
  BY <1>3, <1>4, <1>5 DEF IInv

\* The seed is the smallest unassigned index, so what it conflicts with before
\* it is in a closed group.
LEMMA SeedStep == IInv /\ Seed => IInv'
<1> SUFFICES ASSUME IInv, Seed PROVE IInv'
  OBVIOUS
<1>1. Declared' = Declared
  BY DeclaredStable DEF Next
<1>2. PICK s \in Idx : /\ IsSeed(s)
                       /\ group' = {s}
                       /\ groupAddresses' = addrSets[s]
                       /\ unassigned' = unassigned \ {s}
                       /\ j' = s + 1
  BY DEF Seed
<1>3. /\ ParallelTxGroupingByStorageOverlap /\ addrSets = Declared /\ group = {}
      /\ Located /\ OpenPredecessors /\ OpenReason /\ PassedOver
  BY DEF IInv, Running, Seed
<1>4. pc' = "scan" /\ groups' = groups /\ addrSets' = addrSets
  BY DEF Seed
<1>5. TypeOK'
  BY <1>2, <1>4, ScheduleAssumption DEF IInv, TypeOK, Seed, Idx
<1>6. Unique' /\ PredecessorsFirst' /\ Reason'
  BY <1>1, <1>4 DEF IInv, Unique, PredecessorsFirst, Reason, Clash, Conflict, Seed
<1>7. Placed' /\ Untouched'
  BY <1>4 DEF Placed, Untouched
<1>8. Located'
  BY <1>2, <1>3, <1>4 DEF Located, IsSeed
<1>9. OpenPredecessors'
  <2> SUFFICES ASSUME NEW k \in Idx, k < s, Clash(k, s)
               PROVE  \E v \in DOMAIN groups : k \in groups[v]
    BY <1>1, <1>2, <1>4 DEF OpenPredecessors, Clash, Conflict
  <2>1. k \notin unassigned
    BY <1>2 DEF IsSeed, Idx
  <2> QED
    BY <2>1, <1>3 DEF Located
<1>10. OpenReason'
  <2> SUFFICES ASSUME Len(groups) > 0
               PROVE  \E i \in groups[Len(groups)] : i < s /\ Clash(i, s)
    BY <1>1, <1>2, <1>4 DEF OpenReason, Clash, Conflict
  <2>1. PICK i \in Idx : /\ i < s /\ Clash(i, s)
                         /\ i \in groups[Len(groups)] \/ i \in unassigned
    BY <1>2, <1>3 DEF PassedOver, IsSeed
  <2>2. i \notin unassigned
    BY <2>1, <1>2 DEF IsSeed, Idx
  <2> QED
    BY <2>1, <2>2
<1>11. PassedOver'
  BY <1>1, <1>2, <1>3, <1>4 DEF PassedOver, Clash, Conflict
<1>12. Scanned'
  BY <1>2, <1>4, ScheduleAssumption DEF Scanned, IsSeed, Idx, IInv, TypeOK
<1>13. Running'
  BY <1>1, <1>3, <1>4, <1>8, <1>9, <1>10, <1>11, <1>12 DEF Running, Seed
<1> QED
  BY <1>5, <1>6, <1>7, <1>13 DEF IInv

LEMMA FinishStep == IInv /\ Finish => IInv'
<1> SUFFICES ASSUME IInv, Finish PROVE IInv'
  OBVIOUS
<1>1. Declared' = Declared
  BY DeclaredStable DEF Next
<1>2. groups' = groups /\ pc' = "done" /\ pc = "seed" /\ unassigned = {}
  BY DEF Finish
<1>3. TypeOK'
  BY DEF IInv, TypeOK, Finish
<1>4. Unique' /\ PredecessorsFirst' /\ Reason'
  BY <1>1, <1>2 DEF IInv, Unique, PredecessorsFirst, Reason, Clash, Conflict, Finish
<1>5. Placed' /\ Untouched' /\ Running'
  BY <1>2 DEF IInv, Placed, Untouched, Running, Located
<1> QED
  BY <1>3, <1>4, <1>5 DEF IInv

\* j joins only if it clashes with nothing in the open group and nothing
\* pending before it, so everything it clashes with before it is in a closed
\* group; if it is passed over, what it clashed with is the reason.
LEMMA ScanStep == IInv /\ Scan => IInv'
<1> SUFFICES ASSUME IInv, Scan PROVE IInv'
  OBVIOUS
<1>1. Declared' = Declared
  BY DeclaredStable DEF Next
<1>2. /\ ParallelTxGroupingByStorageOverlap /\ addrSets = Declared
      /\ Located /\ OpenPredecessors /\ OpenReason /\ PassedOver /\ Scanned
  BY DEF IInv, Running, Scan
<1>3. /\ pc' = "scan" /\ groups' = groups /\ addrSets' = addrSets /\ j' = j + 1
      /\ j \in Idx
  BY ScheduleAssumption DEF Scan, IInv, TypeOK, Idx
<1>4. TypeOK'
  BY <1>3, ScheduleAssumption DEF IInv, TypeOK, Scan, Idx
<1>5. Unique' /\ PredecessorsFirst' /\ Reason'
  BY <1>1, <1>3 DEF IInv, Unique, PredecessorsFirst, Reason, Clash, Conflict, Scan
<1>6. Placed' /\ Untouched'
  BY <1>3 DEF Placed, Untouched
<1>7. CASE Joins(j)
  <2>1. /\ group' = group \cup {j} /\ unassigned' = unassigned \ {j}
        /\ groupAddresses' = groupAddresses \cup addrSets[j] /\ j \in unassigned
    BY <1>7 DEF Scan, Joins
  <2>2. \A k \in Idx : k < j /\ Clash(k, j) => k \notin group /\ k \notin unassigned
    <3> SUFFICES ASSUME NEW k \in Idx, k < j, Clash(k, j)
                 PROVE  k \notin group /\ k \notin unassigned
      OBVIOUS
    <3>1. PICK x \in addrSets[j] : x \in addrSets[k]
      BY <1>2, <1>3 DEF Clash, Conflict, declaredAddressSetsOverlap
    <3>2. x \in Address \cup {NoSender}
      BY <3>1, <1>3 DEF IInv, TypeOK
    <3>3. k \notin unassigned
      BY <1>7, <3>1 DEF Joins, Blocked, declaredAddressSetsOverlap
    <3>4. k \notin group
      BY <1>2, <1>7, <3>1, <3>2 DEF Joins, Scanned, declaredAddressSetsOverlap
    <3> QED
      BY <3>3, <3>4
  <2>3. Located'
    BY <1>2, <1>3, <2>1 DEF Located
  <2>4. OpenPredecessors'
    <3> SUFFICES ASSUME NEW i \in group', NEW k \in Idx, k < i, Clash(k, i)
                 PROVE  \E v \in DOMAIN groups : k \in groups[v]
      BY <1>1, <1>3 DEF OpenPredecessors, Clash, Conflict
    <3>1. CASE i = j
      BY <1>2, <2>2, <3>1 DEF Located
    <3>2. CASE i \in group
      BY <1>2, <3>2 DEF OpenPredecessors
    <3> QED
      BY <2>1, <3>1, <3>2
  <2>5. OpenReason'
    <3> SUFFICES ASSUME Len(groups) > 0
                 PROVE  \E i \in groups[Len(groups)] : i < j /\ Clash(i, j)
      BY <1>1, <1>2, <1>3, <2>1 DEF OpenReason, Clash, Conflict
    <3> QED
      BY <1>2, <2>1, <2>2 DEF PassedOver
  <2>6. PassedOver'
    BY <1>1, <1>2, <1>3, <2>1 DEF PassedOver, Clash, Conflict
  <2>7. Scanned'
    <3>1. \A i \in group' : i < j'
      BY <1>2, <1>3, <2>1 DEF Scanned, IInv, TypeOK, Idx
    <3>2. \A x \in Address \cup {NoSender} :
            x \in groupAddresses' <=> \E i \in group' : x \in addrSets'[i]
      BY <1>2, <1>3, <2>1 DEF Scanned
    <3>3. ASSUME NEW k \in unassigned', k < j'
          PROVE  \E i \in Idx : i < k /\ Clash(i, k)' /\ (i \in group' \/ i \in unassigned')
      <4>1. k \in unassigned /\ k < j
        BY <3>3, <1>3, <2>1 DEF IInv, TypeOK, Idx
      <4> QED
        BY <1>1, <1>2, <2>1, <4>1 DEF Scanned, Clash, Conflict
    <3> QED
      BY <3>1, <3>2, <3>3 DEF Scanned
  <2> QED
    BY <1>1, <1>2, <1>3, <1>4, <1>5, <1>6, <2>3, <2>4, <2>5, <2>6, <2>7
       DEF IInv, Running, Scan
<1>8. CASE ~Joins(j)
  <2>1. UNCHANGED <<group, unassigned, groupAddresses>>
    BY <1>8 DEF Scan
  <2>2. Located' /\ OpenPredecessors' /\ OpenReason' /\ PassedOver'
    BY <1>1, <1>2, <1>3, <2>1
       DEF Located, OpenPredecessors, OpenReason, PassedOver, Clash, Conflict
  <2>3. j \in unassigned => \E i \in Idx :
          i < j /\ Clash(i, j) /\ (i \in group \/ i \in unassigned)
    <3> SUFFICES ASSUME j \in unassigned
                 PROVE  \E i \in Idx : i < j /\ Clash(i, j) /\ (i \in group \/ i \in unassigned)
      OBVIOUS
    <3>1. CASE Blocked(j)
      BY <1>2, <3>1 DEF Blocked, Clash, Conflict, declaredAddressSetsOverlap, IInv, TypeOK
    <3>2. CASE declaredAddressSetsOverlap(addrSets[j], groupAddresses)
      <4>1. PICK x \in addrSets[j] : x \in groupAddresses
        BY <3>2 DEF declaredAddressSetsOverlap
      <4>2. x \in Address \cup {NoSender}
        BY <4>1 DEF IInv, TypeOK
      <4>3. PICK i \in group : x \in addrSets[i]
        BY <1>2, <4>1, <4>2 DEF Scanned
      <4>4. i \in Idx /\ i < j /\ Clash(i, j)
        BY <1>2, <4>1, <4>3
           DEF Scanned, Clash, Conflict, declaredAddressSetsOverlap, IInv, TypeOK
      <4> QED
        BY <4>3, <4>4
    <3> QED
      BY <1>8, <3>1, <3>2 DEF Joins
  <2>4. Scanned'
    <3>1. ASSUME NEW k \in unassigned', k < j'
          PROVE  \E i \in Idx : i < k /\ Clash(i, k)' /\ (i \in group' \/ i \in unassigned')
      <4>1. k \in unassigned /\ (k < j \/ k = j)
        BY <3>1, <1>3, <2>1 DEF IInv, TypeOK, Idx
      <4> QED
        BY <1>1, <1>2, <2>1, <2>3, <4>1 DEF Scanned, Clash, Conflict
    <3>2. \A i \in group' : i < j'
      BY <1>2, <1>3, <2>1 DEF Scanned, IInv, TypeOK, Idx
    <3> QED
      BY <1>2, <1>3, <2>1, <3>1, <3>2 DEF Scanned
  <2> QED
    BY <1>1, <1>2, <1>3, <1>4, <1>5, <1>6, <2>2, <2>4 DEF IInv, Running, Scan
<1> QED
  BY <1>7, <1>8

\* The open group becomes the last closed one; what was scanned and passed
\* over is what PassedOver says of it.
LEMMA CloseStep == IInv /\ Close => IInv'
<1> SUFFICES ASSUME IInv, Close PROVE IInv'
  OBVIOUS
<1>1. Declared' = Declared
  BY DeclaredStable DEF Next
<1>2. /\ ParallelTxGroupingByStorageOverlap /\ addrSets = Declared
      /\ Located /\ OpenPredecessors /\ OpenReason /\ Scanned
  BY DEF IInv, Running, Close
<1>3. /\ groups \in Seq(SUBSET Idx) /\ group \in SUBSET Idx
      /\ unassigned \subseteq Idx /\ j = N
  BY DEF IInv, TypeOK, Close
<1>4. /\ groups' = Append(groups, group) /\ group' = {} /\ pc' = "seed"
      /\ unassigned' = unassigned /\ addrSets' = addrSets /\ j' = j
  BY DEF Close
<1>5. /\ groups' \in Seq(SUBSET Idx)
      /\ Len(groups') = Len(groups) + 1
      /\ Len(groups) \in Nat
      /\ DOMAIN groups = 1 .. Len(groups)
      /\ DOMAIN groups' = 1 .. Len(groups) + 1
      /\ \A w \in DOMAIN groups : groups'[w] = groups[w]
      /\ groups'[Len(groups) + 1] = group
  BY <1>3, <1>4
<1>6. TypeOK'
  BY <1>5 DEF IInv, TypeOK, Close
<1>7. Unique'
  BY <1>2, <1>5 DEF IInv, Unique, Located
<1>8. PredecessorsFirst'
  <2> SUFFICES ASSUME NEW w \in DOMAIN groups', NEW i \in groups'[w], NEW k \in Idx,
                      k < i, Clash(k, i)
               PROVE  \E v \in DOMAIN groups' : v < w /\ k \in groups'[v]
    BY <1>1 DEF PredecessorsFirst, Clash, Conflict
  <2>1. CASE w \in DOMAIN groups
    BY <1>5, <2>1 DEF IInv, PredecessorsFirst
  <2>2. CASE w = Len(groups) + 1
    BY <1>2, <1>5, <2>2 DEF OpenPredecessors
  <2> QED
    BY <1>5, <2>1, <2>2
<1>9. Reason'
  <2> SUFFICES ASSUME NEW w \in DOMAIN groups', w > 1, NEW k \in groups'[w]
               PROVE  \E i \in groups'[w - 1] : i < k /\ Clash(i, k)
    BY <1>1 DEF Reason, Clash, Conflict
  <2>1. w - 1 \in DOMAIN groups
    BY <1>5
  <2>2. CASE w \in DOMAIN groups
    BY <1>2, <1>5, <2>1, <2>2 DEF IInv, Reason
  <2>3. CASE w = Len(groups) + 1
    BY <1>2, <1>5, <2>1, <2>3 DEF OpenReason
  <2> QED
    BY <1>5, <2>2, <2>3
<1>10. Placed' /\ Untouched'
  BY <1>4 DEF Placed, Untouched
<1>11. Located'
  <2>1. ASSUME NEW i \in Idx
        PROVE  i \in unassigned' \/ i \in group' \/ \E w \in DOMAIN groups' : i \in groups'[w]
    BY <1>2, <1>4, <1>5 DEF Located
  <2>2. ASSUME NEW w \in DOMAIN groups', NEW i \in groups'[w]
        PROVE  i \notin unassigned' /\ i \notin group'
    BY <1>2, <1>4, <1>5 DEF Located
  <2> QED
    BY <1>4, <2>1, <2>2 DEF Located
<1>12. PassedOver'
  <2> SUFFICES ASSUME NEW k \in unassigned
               PROVE  \E i \in Idx : i < k /\ Clash(i, k) /\ (i \in group \/ i \in unassigned)
    BY <1>1, <1>4, <1>5 DEF PassedOver, Clash, Conflict
  <2>1. k < j
    BY <1>3, ScheduleAssumption DEF Idx
  <2> QED
    BY <1>2, <2>1 DEF Scanned
<1>13. OpenPredecessors' /\ OpenReason'
  BY <1>4 DEF OpenPredecessors, OpenReason
<1>14. Running'
  BY <1>1, <1>2, <1>4, <1>11, <1>12, <1>13 DEF Running, Close
<1> QED
  BY <1>6, <1>7, <1>8, <1>9, <1>10, <1>14 DEF IInv

LEMMA StutterStep == IInv /\ UNCHANGED vars => IInv'
<1> SUFFICES ASSUME IInv, UNCHANGED vars PROVE IInv'
  OBVIOUS
<1>1. Declared' = Declared
  BY DeclaredStable
<1> QED
  BY <1>1 DEF vars, IInv, TypeOK, Unique, PredecessorsFirst, Reason, Placed, Untouched,
              Running, Located, OpenPredecessors, OpenReason, PassedOver, Scanned,
              Clash, Conflict

LEMMA Invariance == Spec => []IInv
<1>1. IInv /\ [Next]_vars => IInv'
  BY SequentialStep, CollectStep, SeedStep, FinishStep, ScanStep, CloseStep, StutterStep
     DEF Next, Returned
<1> QED
  BY InitIInv, <1>1, PTL DEF Spec

\* The wave of an index is the one group that holds it.
LEMMA WaveOfIsTheGroup ==
  ASSUME IInv, pc = "done"
  PROVE  \A i \in Idx : \A w \in DOMAIN groups : i \in groups[w] => waveOf[i] = w
BY DEF IInv, Unique, Placed, waveOf

-----------------------------------------------------------------------------
(***************************************************************************)
(* The state of BuildTransactionStorageParallelGroups keeps its types.     *)
(***************************************************************************)
THEOREM TypeCorrect == Spec => []TypeOK
<1>1. IInv => TypeOK
  BY DEF IInv
<1> QED
  BY Invariance, <1>1, PTL

(***************************************************************************)
(* For every block, every transaction is in exactly one returned group.    *)
(***************************************************************************)
THEOREM Partition == Spec => []EveryTxInExactlyOneGroup
<1>1. IInv => EveryTxInExactlyOneGroup
  BY DEF IInv, Unique, Placed, EveryTxInExactlyOneGroup
<1> QED
  BY Invariance, <1>1, PTL

(***************************************************************************)
(* For every block, transactions that declare a common address are in      *)
(* different waves, in block order.                                        *)
(***************************************************************************)
THEOREM CausalOrder == Spec => []ConflictsKeepBlockOrder
<1>1. IInv => ConflictsKeepBlockOrder
  <2> SUFFICES ASSUME IInv, pc = "done", NEW i \in Idx, NEW k \in Idx, i < k, Clash(i, k)
               PROVE  waveOf[i] < waveOf[k]
    BY DEF ConflictsKeepBlockOrder, CausallyOrdered, Clash
  <2>1. PICK w \in DOMAIN groups : k \in groups[w]
    BY DEF IInv, Placed
  <2>2. PICK v \in DOMAIN groups : v < w /\ i \in groups[v]
    BY <2>1 DEF IInv, PredecessorsFirst
  <2> QED
    BY <2>1, <2>2, WaveOfIsTheGroup
<1> QED
  BY Invariance, <1>1, PTL

(***************************************************************************)
(* For every block, the number of a transaction's wave is the length of a  *)
(* chain of conflicts that ends in it: no schedule that keeps conflicting  *)
(* transactions in block order can place it earlier.                       *)
(***************************************************************************)
THEOREM Earliest == Spec => []NoNeedlessWave
<1>1. IInv => NoNeedlessWave
  <2> SUFFICES ASSUME IInv, pc = "done", ParallelTxGroupingByStorageOverlap,
                      NEW k \in Idx, waveOf[k] > 1
               PROVE  \E i \in Idx : i < k /\ Clash(i, k) /\ waveOf[i] = waveOf[k] - 1
    BY DEF NoNeedlessWave, AsSoonAsPossible, Clash
  <2>1. PICK w \in DOMAIN groups : k \in groups[w]
    BY DEF IInv, Placed
  <2>2. waveOf[k] = w
    BY <2>1, WaveOfIsTheGroup
  <2>3. PICK i \in groups[w - 1] : i < k /\ Clash(i, k)
    BY <2>1, <2>2 DEF IInv, Reason
  <2>4. w - 1 \in DOMAIN groups /\ i \in Idx
    BY <2>1, <2>2, <2>3 DEF IInv, TypeOK
  <2> QED
    BY <2>2, <2>3, <2>4, WaveOfIsTheGroup
<1> QED
  BY Invariance, <1>1, PTL
=============================================================================
