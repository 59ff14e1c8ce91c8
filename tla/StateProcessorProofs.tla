------------------------ MODULE StateProcessorProofs ------------------------
(***************************************************************************)
(* The wait, the merge and the end of the block keep the invariant, and    *)
(* with the steps of StateProcessorInvariant and StateProcessorWorkers it  *)
(* holds throughout: the theorems about block execution, for every block,  *)
(* every number of workers and every wave size.                            *)
(***************************************************************************)
EXTENDS StateProcessorWorkers

LEMMA WaitStep ==
  ASSUME IInv, Wait
  PROVE  IInv'
<1> USE DEF Wait, params, pool, merging
<1>0. /\ TypeOK /\ Running /\ Forks /\ Covered /\ \A k \in Workers : ~Busy(k)
  BY Zenon DEF IInv, AtParallel, Busy
<1>1. TypeOK'
  BY <1>0, Zenon DEF TypeOK, Group
<1>2. Reads' /\ Ran' = Ran /\ Ordered' /\ Dense'
  BY Frame, Elsewhere, Zenon DEF IInv
<1>3. CASE firstErr # None
  BY <1>1, <1>2, <1>3, ErrStep, Zenon
<1>4. CASE firstErr = None
  <2>1. Done = Group(w)
    <3>1. PICK k \in Workers : wpc[k] # "off"
      BY <1>0, Zenon DEF Covered
    <3>2. wpc[k] = "exit"
      BY <3>1, Zenon
    <3>3. jobs = {}
      BY <1>0, <1>4, <3>2, Zenon DEF Covered
    <3> QED
      BY <1>0, <1>4, <3>3, Zenon DEF Covered, Running
  <2>2. Group(w)' = Group(w) /\ Before(w)' = Before(w) /\ Done' = Done
    BY Elsewhere, Zenon DEF Done
  <2>3. \A k \in Workers : DoneBy(k)' = DoneBy(k) /\ (DoneBy(k) # {} => ForkHolds(k)')
    <3>1. ASSUME NEW k \in Workers PROVE DoneBy(k)' = DoneBy(k)
      BY Zenon DEF DoneBy
    <3>2. ASSUME NEW k \in Workers, DoneBy(k) # {} PROVE ForkHolds(k)'
      <4>1. ForkHolds(k)
        BY <1>0, <3>2, Zenon DEF Forks
      <4> QED
        BY <2>2, <3>1, <4>1, Zenon DEF ForkHolds, Holds, Eff
    <3> QED
      BY <3>1, <3>2, Zenon
  <2>4. Holds(statedb, Before(w) \cup {i \in Done : txForks[i] \in mergedForks})'
    BY <1>0, <2>2, ZenonT(30) DEF Running, Holds, Eff
  <2>5. AtAccounts'
    BY <1>0, <1>2, <2>1, <2>2, <2>3, <2>4, Zenon DEF AtAccounts, Running
  <2>6. Started' /\ Nonempty' /\ pc' = "accounts"
    BY <1>4, <2>2, Zenon DEF IInv, Started, Nonempty
  <2> QED
    BY <1>1, <1>2, <2>5, <2>6, Zenon DEF IInv, AtGroup, AtWave, AtDirect, AtParallel, AtLogs, AtEnd
<1> QED
  BY <1>3, <1>4, Zenon

\* A merge replaces whole accounts.  Within a wave no two transactions change
\* the same one, so nothing of an earlier merge is lost.
LEMMA MergeHolds ==
  ASSUME TypeOK, CausallyOrdered(Declared, wave), Done \subseteq Group(w),
         NEW k \in Workers, ForkHolds(k), NEW M \in SUBSET Workers, k \notin M,
         Holds(statedb, Before(w) \cup {i \in Done : txForks[i] \in M})
  PROVE  Holds(MergeParallelChildAccounts(statedb, fork[k]),
               Before(w) \cup {i \in Done : txForks[i] \in M \cup {k}})
<1> DEFINE B == Before(w)
           P == {i \in Done : txForks[i] \in M}
           D == DoneBy(k)
<1>1. {i \in Done : txForks[i] \in M \cup {k}} = P \cup D /\ D \subseteq Group(w) /\ P \subseteq Group(w)
  BY ProcessorAssumption DEF Done, DoneBy, Workers
<1> SUFFICES ASSUME NEW a \in Address \ Unclaimed
             PROVE  MergeParallelChildAccounts(statedb, fork[k]).acct[a] = Eff(B \cup (P \cup D), a)
  BY <1>1, Zenon DEF Holds
<1>2. /\ MergeParallelChildAccounts(statedb, fork[k]).acct[a]
           = IF a \in fork[k].mergeAddrs THEN fork[k].acct[a] ELSE statedb.acct[a]
      /\ fork[k].acct[a] = Eff(B \cup D, a) /\ statedb.acct[a] = Eff(B \cup P, a)
  BY MergeAccountsFacts, ZenonT(30) DEF TypeOK, ForkHolds, Holds
<1> HIDE DEF B, P, D
<1>3. CASE a = Coinbase
  <2>1. \A i \in Idx : a \notin txs[i].writes
    BY <1>3, TxFacts, Zenon DEF Unclaimed, CoinbaseUntouched, TypeOK, Declared
  <2>2. B \subseteq Idx /\ P \subseteq Idx /\ D \subseteq Idx
    BY <1>1, Zenon DEF B, Before, Group
  <2> QED
    BY <1>2, <2>1, <2>2, Zenon DEF Eff
<1>4. CASE a # Coinbase /\ a \notin fork[k].mergeAddrs
  <2>1. \A i \in D : a \notin txs[i].writes
    BY <1>4, Zenon DEF ForkHolds, D
  <2> QED
    BY <1>2, <1>4, <2>1, Zenon DEF Eff
<1>5. CASE a # Coinbase /\ a \in fork[k].mergeAddrs
  <2>1. PICK i \in D : a \in txs[i].writes
    BY <1>5, Zenon DEF ForkHolds, D
  <2>2. ASSUME NEW m \in P, a \in txs[m].writes PROVE FALSE
    <3>1. m \in Idx /\ i \in Idx /\ wave[m] = w /\ wave[i] = w
      BY <1>1, Zenon DEF Group
    <3>2. m # i
      BY Zenon DEF P, D, DoneBy
    <3>3. Conflict(Declared, m, i) /\ Conflict(Declared, i, m)
      BY <2>1, <2>2, <3>1, TxFacts, Zenon DEF Conflict, declaredAddressSetsOverlap
    <3>4. (m < i \/ i < m) /\ w \in Int
      BY <3>1, <3>2, ScheduleAssumption DEF Idx, TypeOK
    <3> QED
      BY <3>1, <3>3, <3>4 DEF CausallyOrdered
  <2> QED
    BY <1>2, <1>5, <2>2, Zenon DEF Eff
<1> QED
  BY <1>3, <1>4, <1>5, Zenon

LEMMA MergeAccountsStep ==
  ASSUME IInv, MergeAccounts
  PROVE  IInv'
<1> USE DEF MergeAccounts, params, pool
<1>0. /\ TypeOK /\ CausallyOrdered(Declared, wave) /\ Done = Group(w)
      /\ Ran = Before(w) \cup Group(w) /\ todo \subseteq Group(w)
      /\ \A k \in Workers : DoneBy(k) # {} => ForkHolds(k)
      /\ Holds(statedb, Before(w) \cup {i \in Done : txForks[i] \in mergedForks})
      /\ \A i \in Group(w) \ todo : txForks[i] \in mergedForks
  BY Zenon DEF IInv, AtAccounts, Ordered
<1>1. PICK i \in todo :
        /\ IF txForks[i] \in mergedForks THEN UNCHANGED <<statedb, mergedForks, coinbaseFinal>>
           ELSE /\ mergedForks' = mergedForks \cup {txForks[i]}
                /\ coinbaseFinal' = coinbaseFinal + (fork[txForks[i]].coinbase - coinbaseBase)
                /\ statedb' = MergeParallelChildAccounts(statedb, fork[txForks[i]])
        /\ todo' = todo \ {i}
  BY Zenon
<1> DEFINE k == txForks[i]
<1>2. i \in Idx /\ k \in Workers /\ i \in DoneBy(k) /\ ForkHolds(k)
  BY <1>0, Zenon DEF Group, Done, DoneBy, TypeOK
<1>3. fork[k] \in StateDBs /\ fork[k].coinbase \in Int
  BY <1>0, <1>2, Zenon DEF TypeOK, StateDBs
<1>4. statedb' \in StateDBs /\ coinbaseFinal' \in Int /\ mergedForks' \subseteq Workers
  BY <1>0, <1>1, <1>2, <1>3, MergeAccountsFacts DEF TypeOK
<1>5. TypeOK'
  BY <1>0, <1>1, <1>4, Zenon DEF TypeOK
<1>6. /\ Reads' /\ Ran' = Ran /\ Ordered' /\ Dense'
      /\ Group(w)' = Group(w) /\ Before(w)' = Before(w) /\ Done' = Done
  BY Frame, Elsewhere, Zenon DEF IInv, Done
<1>7. mergedForks' = mergedForks \cup {k}
  BY <1>1, Zenon
<1>8. Holds(statedb, Before(w) \cup {m \in Done : txForks[m] \in mergedForks})'
  <2>1. CASE k \in mergedForks
    BY <1>0, <1>1, <1>6, <2>1 DEF Holds, Eff
  <2>2. CASE k \notin mergedForks
    <3>1. Holds(MergeParallelChildAccounts(statedb, fork[k]),
                Before(w) \cup {m \in Done : txForks[m] \in mergedForks \cup {k}})
      BY <1>0, <1>2, <2>2, MergeHolds, ZenonT(30) DEF TypeOK
    <3> QED
      BY <1>1, <1>6, <1>7, <2>2, <3>1 DEF Holds, Eff
  <2> QED
    BY <2>1, <2>2, Zenon
<1>9. \A l \in Workers : DoneBy(l)' = DoneBy(l) /\ (ForkHolds(l) => ForkHolds(l)')
  BY <1>6, ZenonT(30) DEF DoneBy, ForkHolds, Holds, Eff
<1>10. AtAccounts'
  BY <1>0, <1>1, <1>6, <1>7, <1>8, <1>9, Zenon DEF AtAccounts
<1>11. Started' /\ Nonempty'
  BY <1>6, Zenon DEF IInv, Started, Nonempty
<1> QED
  BY <1>5, <1>6, <1>10, <1>11, Zenon DEF IInv, AtGroup, AtWave, AtDirect, AtParallel, AtLogs, AtEnd

LEMMA AccountsMergedStep ==
  ASSUME IInv, AccountsMerged
  PROVE  IInv'
<1> USE DEF AccountsMerged, params, pool, merging
<1>1. TypeOK'
  BY Zenon DEF IInv, TypeOK, Group
<1>2. /\ Reads' /\ Ran' = Ran /\ Ordered' /\ Dense'
      /\ Group(w)' = Group(w) /\ Before(w)' = Before(w) /\ Done' = Done
  BY Frame, Elsewhere, Zenon DEF IInv, Done
<1>3. /\ Ran = Before(w) \cup Group(w) /\ Done = Group(w)
      /\ {i \in Done : txForks[i] \in mergedForks} = Group(w)
      /\ Holds(statedb, Before(w) \cup Group(w))
  BY Zenon DEF IInv, AtAccounts
<1>4. AtLogs'
  BY <1>2, <1>3, Zenon DEF AtLogs, Holds, Eff
<1>5. Started' /\ Nonempty'
  BY <1>2, Zenon DEF IInv, Started, Nonempty
<1> QED
  BY <1>1, <1>2, <1>4, <1>5, Zenon DEF IInv, AtGroup, AtWave, AtDirect, AtParallel, AtAccounts, AtEnd

LEMMA MergeLogsStep ==
  ASSUME IInv, MergeLogs
  PROVE  IInv'
<1> USE DEF MergeLogs, params, pool, merging
<1>0. PICK i \in todo : /\ statedb' = MergeParallelChildLogs(statedb, fork[txForks[i]], i)
                        /\ todo' = todo \ {i}
  BY Zenon
<1>1. /\ i \in Idx /\ TypeOK /\ statedb \in StateDBs /\ fork[txForks[i]] \in StateDBs
      /\ todo \subseteq Group(w)
  BY Zenon DEF IInv, AtLogs, Done, Group, TypeOK
<1>2. statedb' \in StateDBs /\ statedb'.acct = statedb.acct
  BY <1>0, <1>1, MergeLogsFacts, Zenon
<1>3. TypeOK'
  BY <1>0, <1>1, <1>2, Zenon DEF TypeOK
<1>4. /\ Reads' /\ Ran' = Ran /\ Ordered' /\ Dense'
      /\ Group(w)' = Group(w) /\ Before(w)' = Before(w) /\ Done' = Done
  BY Frame, Elsewhere, Zenon DEF IInv, Done
<1>5. AtLogs'
  BY <1>0, <1>1, <1>2, <1>4, ZenonT(30) DEF IInv, AtLogs, Holds, Eff
<1>6. Started' /\ Nonempty'
  BY <1>4, Zenon DEF IInv, Started, Nonempty
<1> QED
  BY <1>3, <1>4, <1>5, <1>6, Zenon DEF IInv, AtGroup, AtWave, AtDirect, AtParallel, AtAccounts, AtEnd

LEMMA SettleCoinbaseStep ==
  ASSUME IInv, SettleCoinbase
  PROVE  IInv'
<1> USE DEF SettleCoinbase, params, pool, merging
<1>1. w \in Nat /\ w >= 1 /\ w <= N
  BY ScheduleAssumption DEF IInv, TypeOK, Started, Nonempty, Group
<1>2. statedb' \in StateDBs /\ statedb'.acct = statedb.acct
  <2>1. statedb \in StateDBs /\ coinbaseFinal \in Int
    BY Zenon DEF IInv, TypeOK
  <2> QED
    BY <2>1, Zenon DEF StateDBs
<1>3. TypeOK'
  BY <1>1, <1>2, ScheduleAssumption DEF IInv, TypeOK
<1>4. Reads' /\ Ran' = Ran /\ Ordered' /\ Dense'
  BY Frame, Elsewhere, Zenon DEF IInv
<1>5. CASE statedb.dbErr
  BY <1>3, <1>4, <1>5, ErrStep, Zenon
<1>6. CASE ~statedb.dbErr
  <2>1. Before(w)' = Before(w) \cup Group(w)
    BY NextWave, <1>1, Zenon DEF IInv
  <2>2. AtWave'
    BY <1>2, <1>4, <2>1, Zenon DEF IInv, AtLogs, AtWave, Holds, Eff
  <2> QED
    BY <1>1, <1>3, <1>4, <1>6, <2>2
       DEF IInv, AtGroup, AtDirect, AtParallel, AtAccounts, AtLogs, AtEnd, Started, Nonempty
<1> QED
  BY <1>5, <1>6, Zenon

LEMMA StartNormalizeStep ==
  ASSUME IInv, StartNormalize
  PROVE  IInv'
<1> USE DEF StartNormalize, params, pool, merging
<1>1. TypeOK'
  BY Zenon DEF IInv, TypeOK
<1>2. Reads' /\ Ran' = Ran /\ Ordered' /\ Dense'
  BY Frame, Elsewhere, Zenon DEF IInv
<1>3. Before(w) = Idx
  BY EmptyWaveIsLast, Zenon DEF IInv
<1>4. AtEnd'
  BY <1>2, <1>3, Zenon DEF IInv, AtWave, AtEnd, Holds, Eff
<1> QED
  BY <1>1, <1>2, <1>4, Zenon
     DEF IInv, AtGroup, AtWave, AtDirect, AtParallel, AtAccounts, AtLogs, Started, Nonempty

LEMMA NormalizeStep ==
  ASSUME IInv, normalizeReceiptCumulativeGas
  PROVE  IInv'
<1> USE DEF normalizeReceiptCumulativeGas, params, pool, merging
<1>0. PICK i \in todo : /\ usedGas' = usedGas + receipts[i].gasUsed
                        /\ receipts' = [receipts EXCEPT ![i].cumulativeGasUsed = usedGas']
                        /\ todo' = todo \ {i}
  BY Zenon
<1>1. i \in Idx /\ receipts[i] \in Receipts /\ receipts[i] # None /\ usedGas \in Nat /\ Ran = Idx
  BY Zenon DEF IInv, TypeOK, AtEnd, Ran, HasRun
<1>2. usedGas' \in Nat
  BY <1>0, <1>1 DEF Receipts
<1> DEFINE r == [receipts[i] EXCEPT !.cumulativeGasUsed = usedGas']
<1>3. r \in Receipts /\ r.view = receipts[i].view /\ r # None
  BY <1>1, <1>2, ProcessorAssumption, Zenon DEF Receipts
<1>4. receipts' = [receipts EXCEPT ![i] = r] /\ receipts \in [Idx -> Receipts \cup {None}]
  BY <1>0, Zenon DEF IInv, TypeOK
<1> HIDE DEF r
<1>5. TypeOK'
  BY <1>0, <1>2, <1>3, <1>4 DEF IInv, TypeOK
<1>6. \A k \in Idx : receipts'[k].view = receipts[k].view /\ receipts'[k] # None /\ receipts[k] # None
  BY <1>1, <1>3, <1>4, Zenon DEF Ran, HasRun
<1>7. Reads' /\ Ran' = Idx
  BY <1>6 DEF IInv, Reads, Declared, Ran, HasRun
<1>8. Ordered' /\ Dense'
  BY Elsewhere, Zenon DEF IInv
<1>9. AtEnd'
  BY <1>7, Zenon DEF IInv, AtEnd, Holds, Eff
<1> QED
  BY <1>5, <1>7, <1>8, <1>9, Zenon
     DEF IInv, AtGroup, AtWave, AtDirect, AtParallel, AtAccounts, AtLogs, Started, Nonempty

LEMMA FinishStep ==
  ASSUME IInv, Finish
  PROVE  IInv'
<1> USE DEF Finish, params, pool, merging
<1>1. TypeOK'
  BY Zenon DEF IInv, TypeOK
<1>2. Reads' /\ Ran' = Ran /\ Ordered' /\ Dense'
  BY Frame, Elsewhere, Zenon DEF IInv
<1>3. AtEnd'
  BY <1>2, Zenon DEF IInv, AtEnd, Holds, Eff
<1> QED
  BY <1>1, <1>2, <1>3, Zenon
     DEF IInv, AtGroup, AtWave, AtDirect, AtParallel, AtAccounts, AtLogs, Started, Nonempty

LEMMA StutterStep ==
  ASSUME IInv, UNCHANGED vars
  PROVE  IInv'
<1> USE DEF vars, params, pool, merging
<1>1. TypeOK'
  BY Zenon DEF IInv, TypeOK
<1>2. Reads' /\ Ordered' /\ Dense' /\ Ran' = Ran
  BY Frame, Zenon DEF IInv, Ordered, Dense
<1>3. /\ Group(w)' = Group(w) /\ Before(w)' = Before(w) /\ Done' = Done
      /\ \A k \in Workers : DoneBy(k)' = DoneBy(k) /\ Busy(k)' = Busy(k)
  BY Zenon DEF Group, Before, Done, DoneBy, Busy
<1>4. AtGroup' /\ AtWave' /\ AtDirect' /\ AtLogs' /\ AtEnd' /\ Started' /\ Nonempty'
  BY <1>2, <1>3
     DEF IInv, AtGroup, AtWave, AtDirect, AtLogs, AtEnd, Started, Nonempty, Holds, Eff
<1>5. \A k \in Workers : ForkHolds(k)' = ForkHolds(k)
  BY <1>3, ZenonT(30) DEF ForkHolds, Holds, Eff
<1>6. AtAccounts'
  BY <1>2, <1>3, <1>5, ZenonT(30) DEF IInv, AtAccounts, Holds, Eff
<1>7. AtParallel'
  <2>1. Running => Running'
    BY <1>2, <1>3, Zenon DEF Running, Holds, Eff
  <2>2. Forks => Forks'
    BY <1>3, <1>5, Zenon DEF Forks
  <2>3. Exclusive => Exclusive'
    BY <1>3, Zenon DEF Exclusive, FailsEarly
  <2>4. Covered => Covered'
    BY <1>3, Zenon DEF Covered
  <2> QED
    BY <2>1, <2>2, <2>3, <2>4, Zenon DEF IInv, AtParallel
<1> QED
  BY <1>1, <1>2, <1>4, <1>6, <1>7, Zenon DEF IInv

LEMMA NextIInv ==
  ASSUME IInv, [Next]_vars
  PROVE  IInv'
<1>1. ASSUME NEW k \in Workers, Worker(k) PROVE IInv'
  BY <1>1, WorkerForkStep, WorkerTakeStep, WorkerDrainedStep, WorkerBuyGasStep, WorkerFailStep,
     WorkerApplyStep, Zenon DEF Worker
<1>2. CASE Main
  BY <1>2, BuildGroupsStep, StartDirectStep, DirectFailStep, DirectApplyStep, DirectDoneStep,
     StartParallelStep, WaitStep, MergeAccountsStep, AccountsMergedStep, MergeLogsStep,
     SettleCoinbaseStep, StartNormalizeStep, NormalizeStep, FinishStep, StutterStep, Zenon
     DEF Main, Returned
<1> QED
  BY <1>1, <1>2, StutterStep, Zenon DEF Next

-----------------------------------------------------------------------------
LEMMA Invariance == Spec => []IInv
<1>1. IInv /\ [Next]_vars => IInv'
  BY NextIInv, Zenon
<1> QED
  BY <1>1, InitIInv, PTL DEF Spec

(***************************************************************************)
(* Every variable keeps its type; with it the gas pool never goes below    *)
(* zero, no worker executes without a transaction and no merge step reads  *)
(* a fork or a receipt that is not there.                                  *)
(***************************************************************************)
THEOREM TypeCorrect == Spec => []TypeOK
<1>1. IInv => TypeOK
  BY Zenon DEF IInv
<1> QED
  BY <1>1, Invariance, PTL

(***************************************************************************)
(* Parallel execution shows every transaction the state of sequential      *)
(* execution, for blocks in which no transaction declares the coinbase.    *)
(***************************************************************************)
THEOREM Serializable == CoinbaseUntouched /\ Spec => []ReadsMatchBlockOrder
<1> SUFFICES ASSUME CoinbaseUntouched PROVE Spec => []ReadsMatchBlockOrder
  BY Zenon
<1>1. IInv => ReadsMatchBlockOrder
  BY Zenon DEF IInv, Reads, Unclaimed, ReadsMatchBlockOrder
<1> QED
  BY <1>1, Invariance, PTL

(***************************************************************************)
(* The accounts of an accepted block are those of sequential execution.    *)
(***************************************************************************)
THEOREM FinalState == CoinbaseUntouched /\ Spec => []FinalAccountsMatchBlockOrder
<1> SUFFICES ASSUME CoinbaseUntouched PROVE Spec => []FinalAccountsMatchBlockOrder
  BY Zenon
<1>1. IInv => FinalAccountsMatchBlockOrder
  BY Zenon DEF IInv, AtEnd, Holds, Unclaimed, Eff, FinalAccountsMatchBlockOrder
<1> QED
  BY <1>1, Invariance, PTL

\* ReadsMatchBlockOrder and FinalAccountsMatchBlockOrder but for the coinbase.
OthersMatchBlockOrder ==
  /\ \A i \in Idx : HasRun(i) =>
       \A a \in Declared[i] \ {Coinbase} :
         receipts[i].view[a] = {k \in Idx : k < i /\ a \in txs[k].writes}
  /\ pc = "ok" => \A a \in Address \ {Coinbase} :
                    statedb.acct[a] = {k \in Idx : a \in txs[k].writes}

(***************************************************************************)
(* Whatever the block declares, the reads and the accounts an accepted     *)
(* block leaves are those of sequential execution except at the coinbase:  *)
(* the accounts that several forks change are confined to that one.        *)
(***************************************************************************)
THEOREM CoinbaseAlone == Spec => []OthersMatchBlockOrder
<1>1. Unclaimed \subseteq {Coinbase}
  BY Zenon DEF Unclaimed
<1>2. IInv => OthersMatchBlockOrder
  BY <1>1, Zenon DEF IInv, Reads, AtEnd, Holds, Eff, OthersMatchBlockOrder
<1> QED
  BY <1>2, Invariance, PTL

(***************************************************************************)
(* The merge loops find a fork and a receipt for every transaction.        *)
(***************************************************************************)
THEOREM MergeComplete == Spec => []MergeFindsEveryFork
<1>1. IInv => MergeFindsEveryFork
  BY Zenon DEF IInv, AtAccounts, AtLogs, Ran, Done, MergeFindsEveryFork
<1> QED
  BY <1>1, Invariance, PTL

-----------------------------------------------------------------------------
(***************************************************************************)
(* Refinement: recording a receipt is the abstract step, every other step  *)
(* stutters.                                                               *)
(***************************************************************************)
LEMMA AbstractExecute ==
  ASSUME TypeOK, CausallyOrdered(Declared, wave), UNCHANGED txs,
         NEW i \in Idx, i \notin Ran, ~FailsEarly(i), NEW s \in StateDBs,
         receipts' = [receipts EXCEPT ![i] = MakeReceipt(s, i)],
         \A a \in Declared[i] : s.acct[a] = {k \in Idx : k < i /\ a \in txs[k].writes},
         Before(wave[i]) \subseteq Ran, \A k \in Ran : wave[k] <= wave[i]
  PROVE  CO!Execute(i)
<1>1. Declared' = Declared /\ Ran' = Ran \cup {i} /\ [k \in Idx |-> txs[k].writes]' = [k \in Idx |-> txs[k].writes]
  BY ReceiptStep, Zenon DEF Declared
<1>2. \A k \in Idx : k < i /\ Declared[k] \cap Declared[i] # {} => k \in Ran
  <2>1. \A k \in Idx : wave[k] \in Int
    BY DEF TypeOK
  <2> QED
    BY <2>1, Zenon DEF CausallyOrdered, Conflict, declaredAddressSetsOverlap, Before
<1>3. \A a \in Declared[i] : s.acct[a] = {k \in Ran : a \in [m \in Idx |-> txs[m].writes][k]}
  <2>1. Ran \in SUBSET (Idx \ {i})
    BY Zenon DEF Ran
  <2>2. \A a \in Declared[i] : Eff(Ran, a) = {k \in Idx : k < i /\ a \in txs[k].writes}
    BY <2>1, WaveView, Zenon
  <2>3. \A a : Eff(Ran, a) = {k \in Ran : a \in [m \in Idx |-> txs[m].writes][k]}
    BY <2>1, Zenon DEF Eff
  <2> QED
    BY <2>2, <2>3, Zenon
<1> DEFINE empty == [a \in Address |-> {}]
           view == [k \in Idx |-> IF HasRun(k) THEN receipts[k].view ELSE empty]
           seen == [a \in Address |-> IF a \in Declared[i]
                                      THEN {k \in Ran : a \in [m \in Idx |-> txs[m].writes][k]} ELSE {}]
<1>4. MakeReceipt(s, i).view = seen /\ MakeReceipt(s, i) # None
  <2>1. MakeReceipt(s, i).view = [a \in Address |-> IF a \in Declared[i] THEN s.acct[a] ELSE {}]
    BY Zenon DEF MakeReceipt
  <2>2. MakeReceipt(s, i).view = seen
    BY <1>3, <2>1, Zenon
  <2> QED
    BY <2>2, ReceiptFacts, ProcessorAssumption
<1>5. view' = [view EXCEPT ![i] = seen]
  <2>1. receipts'[i].view = seen /\ HasRun(i)'
    BY <1>4, Zenon DEF TypeOK, HasRun
  <2>2. \A k \in Idx : k # i => receipts'[k] = receipts[k] /\ HasRun(k)' = HasRun(k)
    BY Zenon DEF TypeOK, HasRun
  <2>3. \A k \in Idx : view'[k] = IF k = i THEN seen ELSE view[k]
    <3> HIDE DEF seen
    <3> QED
      BY <2>1, <2>2
  <2> QED
    BY <2>3, Zenon
<1> QED
  BY <1>1, <1>2, <1>5, Zenon DEF CO!Execute, CO!Clashes, CO!Effects, CO!Idx, Idx, Ran

LEMMA AbstractInit == Init => CO!Init
<1> SUFFICES ASSUME Init PROVE CO!Init
  BY Zenon
<1>1. \A i \in Idx : ~HasRun(i)
  BY Zenon DEF Init, HasRun
<1>2. \A i \in Idx : txs[i].writes \subseteq Declared[i]
  BY ProcessorAssumption, Zenon DEF Init, Declared
<1> QED
  BY <1>1, <1>2, Zenon DEF CO!Init, CO!Idx, Idx

LEMMA AbstractStutter ==
  ASSUME UNCHANGED <<txs, receipts>>
  PROVE  UNCHANGED CO!vars
BY Zenon DEF CO!vars, Declared, HasRun

LEMMA AbstractDirect ==
  ASSUME CoinbaseUntouched, IInv, DirectApply
  PROVE  CO!Next
<1> USE DEF DirectApply, params
<1>0. PICK i \in todo : /\ ~FailsEarly(i)
                        /\ receipts' = [receipts EXCEPT ![i] = MakeReceipt(statedb, i)]
  BY Zenon
<1> DEFINE S == Before(w) \cup (Group(w) \ todo)
<1>1. /\ i \in Idx /\ i \in Group(w) /\ wave[i] = w /\ TypeOK /\ statedb \in StateDBs
      /\ Ran = S /\ Holds(statedb, S) /\ CausallyOrdered(Declared, wave)
  BY Zenon DEF IInv, TypeOK, AtDirect, Group, Ordered
<1>2. Ran \in SUBSET (Idx \ {i}) /\ Before(wave[i]) \subseteq Ran /\ \A k \in Ran : wave[k] <= wave[i]
  BY <1>1 DEF TypeOK, Before, Group
<1>3. \A a \in Declared[i] : statedb.acct[a] = {k \in Idx : k < i /\ a \in txs[k].writes}
  <2>1. \A a \in Declared[i] : Eff(Ran, a) = {k \in Idx : k < i /\ a \in txs[k].writes}
    BY <1>1, <1>2, WaveView, ZenonT(30)
  <2>2. Declared[i] \subseteq Address
    BY <1>0, <1>1, DeclaredFacts, Zenon
  <2> QED
    BY <1>1, <2>1, <2>2, Zenon DEF Holds, Unclaimed
<1>4. CO!Execute(i)
  BY <1>0, <1>1, <1>2, <1>3, AbstractExecute, Zenon
<1> QED
  BY <1>1, <1>4, Zenon DEF CO!Next, CO!Idx, Idx

LEMMA AbstractWorker ==
  ASSUME CoinbaseUntouched, IInv, NEW k \in Workers, WorkerApply(k)
  PROVE  CO!Next
<1> USE DEF WorkerApply, shared, params
<1>0. /\ TypeOK /\ Running /\ Forks /\ Exclusive /\ CausallyOrdered(Declared, wave)
  BY Zenon DEF IInv, AtParallel, Ordered
<1> PICK i \in Idx : i = cur[k]
  BY <1>0, Zenon DEF Exclusive, Busy, Group
<1>1. i \in Group(w) /\ wave[i] = w /\ i \notin Done /\ ~FailsEarly(i)
  BY <1>0, Zenon DEF Exclusive, Busy, Group
<1>2. fork[k] \in StateDBs /\ ForkHolds(k) /\ DoneBy(k) \subseteq Done
  <2>1. fork[k] \in StateDBs /\ ForkHolds(k)
    BY <1>0, Zenon DEF TypeOK, Forks
  <2>2. k # None
    BY ProcessorAssumption DEF Workers
  <2> QED
    BY <2>1, <2>2, Zenon DEF Done, DoneBy
<1>3. Ran \in SUBSET (Idx \ {i}) /\ Before(wave[i]) \subseteq Ran /\ \A l \in Ran : wave[l] <= wave[i]
  <2>1. Ran = Before(w) \cup Done /\ Done \subseteq Group(w) /\ w \in Int /\ \A l \in Idx : wave[l] \in Int
    BY <1>0 DEF TypeOK, Running
  <2>2. Before(w) \subseteq Idx /\ Group(w) \subseteq Idx /\ i \notin Before(w)
    BY <1>1, <2>1 DEF Before, Group
  <2>3. \A l \in Before(w) \cup Group(w) : wave[l] <= w
    BY <2>1 DEF Before, Group
  <2> QED
    BY <1>1, <2>1, <2>2, <2>3, Zenon
<1>4. \A a \in Declared[i] : fork[k].acct[a] = {m \in Idx : m < i /\ a \in txs[m].writes}
  <2> DEFINE S == Before(w) \cup DoneBy(k)
  <2>1. S \in SUBSET (Idx \ {i}) /\ Before(wave[i]) \subseteq S /\ \A l \in S : wave[l] <= wave[i]
    BY <1>0, <1>1, <1>2 DEF TypeOK, Before, Group, Running
  <2>2. \A a \in Declared[i] : Eff(S, a) = {m \in Idx : m < i /\ a \in txs[m].writes}
    BY <1>0, <1>1, <2>1, WaveView, Zenon
  <2>3. Declared[i] \subseteq Address
    BY <1>0, <1>1, DeclaredFacts, Zenon
  <2> QED
    BY <1>2, <2>2, <2>3, Zenon DEF ForkHolds, Holds, Unclaimed
<1>5. CO!Execute(i)
  <2>1. receipts' = [receipts EXCEPT ![i] = MakeReceipt(fork[k], i)] /\ UNCHANGED txs /\ i \notin Ran
    BY <1>3, Zenon
  <2> QED
    BY <1>0, <1>1, <1>2, <1>3, <1>4, <2>1, AbstractExecute, ZenonT(30)
<1> QED
  BY <1>5, Zenon DEF CO!Next, CO!Idx, Idx

LEMMA AbstractNormalize ==
  ASSUME IInv, normalizeReceiptCumulativeGas
  PROVE  UNCHANGED CO!vars
<1> USE DEF normalizeReceiptCumulativeGas, params
<1>0. PICK i \in todo : receipts' = [receipts EXCEPT ![i].cumulativeGasUsed = usedGas']
  BY Zenon
<1>1. /\ i \in Idx /\ receipts \in [Idx -> Receipts \cup {None}]
      /\ \A k \in Idx : receipts[k] \in Receipts /\ receipts[k] # None
  BY Zenon DEF IInv, TypeOK, AtEnd, Ran, HasRun
<1>2. i \in Idx /\ IInv'
  BY <1>1, NormalizeStep, Zenon
<1>3. \A k \in Idx : HasRun(k)
  BY <1>1, Zenon DEF HasRun
<1>4. \A k \in Idx : HasRun(k)' /\ receipts'[k].view = receipts[k].view
  <2>1. Ran' = Idx
    BY <1>2, Zenon DEF IInv, AtEnd
  <2>2. receipts'[i].view = receipts[i].view
    BY <1>0, <1>1, ZenonT(30) DEF Receipts
  <2> QED
    BY <1>0, <1>1, <2>1, <2>2, Zenon DEF Ran
<1> QED
  BY <1>3, <1>4, Zenon DEF CO!vars, Declared

LEMMA AbstractNext ==
  ASSUME CoinbaseUntouched, IInv, [Next]_vars
  PROVE  [CO!Next]_(CO!vars)
<1> USE DEF params, pool, merging, shared
<1>1. ASSUME NEW k \in Workers, Worker(k) PROVE [CO!Next]_(CO!vars)
  <2>1. CASE WorkerApply(k)
    BY <2>1, AbstractWorker, Zenon
  <2>2. CASE ~WorkerApply(k)
    BY <1>1, <2>2, AbstractStutter, Zenon
       DEF Worker, WorkerFork, WorkerTake, WorkerDrained, WorkerBuyGas, WorkerFail
  <2> QED
    BY <2>1, <2>2, Zenon
<1>2. CASE Main
  <2>1. CASE DirectApply
    BY <2>1, AbstractDirect, Zenon
  <2>2. CASE normalizeReceiptCumulativeGas
    BY <2>2, AbstractNormalize, Zenon
  <2>3. CASE ~DirectApply /\ ~normalizeReceiptCumulativeGas
    BY <1>2, <2>3, AbstractStutter, Zenon
       DEF Main, BuildGroups, StartDirect, DirectFail, DirectDone, StartParallel, Wait, MergeAccounts,
           AccountsMerged, MergeLogs, SettleCoinbase, StartNormalize, Finish, Returned, vars
  <2> QED
    BY <2>1, <2>2, <2>3, Zenon
<1>3. CASE UNCHANGED vars
  BY <1>3, AbstractStutter, Zenon DEF vars
<1> QED
  BY <1>1, <1>2, <1>3, Zenon DEF Next

(***************************************************************************)
(* Process implements ConflictOrder: whatever the number of workers, the   *)
(* order in which they take jobs and the reuse of forks, it executes the   *)
(* transactions of a block in an order its conflicts allow, each on a      *)
(* state that holds exactly what ran before it.                            *)
(***************************************************************************)
THEOREM Refinement == CoinbaseUntouched /\ Spec => ImplementsConflictOrder
<1> SUFFICES ASSUME CoinbaseUntouched PROVE Spec => ImplementsConflictOrder
  BY Zenon
<1>1. Init => CO!Init
  BY AbstractInit, Zenon
<1>2. IInv /\ [Next]_vars => [CO!Next]_(CO!vars)
  BY AbstractNext, Zenon
<1> QED
  BY <1>1, <1>2, Invariance, PTL DEF Spec, CO!Spec, ImplementsConflictOrder
=============================================================================
