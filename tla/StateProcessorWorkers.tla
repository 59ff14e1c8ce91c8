----------------------- MODULE StateProcessorWorkers ------------------------
(***************************************************************************)
(* The steps of the worker goroutines keep the invariant.                  *)
(***************************************************************************)
EXTENDS StateProcessorInvariant

\* What all the steps of the workers have in common.
LEMMA WorkerStep ==
  ASSUME IInv, pc = "parallel", UNCHANGED shared
  PROVE  /\ Group(w)' = Group(w) /\ Before(w)' = Before(w)
         /\ TypeOK' /\ Reads' /\ Running' /\ Forks' /\ Exclusive' /\ Covered' => IInv'
<1> USE DEF shared, params, merging
<1>1. Group(w)' = Group(w) /\ Before(w)' = Before(w) /\ Ordered' /\ Dense'
  BY Elsewhere, Zenon DEF IInv
<1>2. Started' /\ Nonempty'
  BY <1>1, Zenon DEF IInv, Started, Nonempty
<1> QED
  BY <1>1, <1>2, Zenon DEF IInv, AtGroup, AtWave, AtDirect, AtParallel, AtAccounts, AtLogs, AtEnd

LEMMA WorkerForkStep ==
  ASSUME IInv, NEW k \in Workers, WorkerFork(k)
  PROVE  IInv'
<1> USE DEF WorkerFork, shared, params, merging
<1>0. /\ TypeOK /\ statedb \in StateDBs /\ Running /\ Forks /\ Exclusive /\ Covered
      /\ Group(w)' = Group(w) /\ Before(w)' = Before(w)
  BY WorkerStep, Zenon DEF IInv, TypeOK, AtParallel
<1>1. TypeOK'
  BY <1>0, CopyFacts, Zenon DEF TypeOK
<1>2. Reads' /\ Ran' = Ran
  BY Frame, Zenon DEF IInv
<1>3. Done' = Done /\ \A l \in Workers : DoneBy(l)' = DoneBy(l)
  BY Zenon DEF Done, DoneBy
<1>4. \A l \in Workers : Busy(l)' = Busy(l) /\ (l # k => wpc'[l] = wpc[l] /\ fork'[l] = fork[l])
  BY <1>0 DEF TypeOK, Busy
<1>5. Running'
  BY <1>0, <1>2, <1>3, Zenon DEF Running, Holds, Eff
<1>6. Forks'
  <2>1. ForkHolds(k)'
    <3>1. fork'[k].acct = statedb.acct /\ fork'[k].mergeAddrs = {} /\ DoneBy(k)' = {}
      BY <1>0, <1>3, CopyFacts, Zenon DEF TypeOK, Forks
    <3> QED
      BY <1>0, <3>1 DEF ForkHolds, Running, Holds, Eff
  <2>2. ASSUME NEW l \in Workers, l # k, ForkHolds(l) PROVE ForkHolds(l)'
    BY <1>0, <1>3, <1>4, <2>2, ZenonT(30) DEF ForkHolds, Holds, Eff
  <2>3. wpc'[k] = "idle"
    BY <1>0, Zenon DEF TypeOK
  <2> QED
    BY <1>0, <1>3, <1>4, <2>1, <2>2, <2>3, Zenon DEF Forks
<1>7. Exclusive'
  BY <1>0, <1>3, <1>4, Zenon DEF Exclusive, FailsEarly, TypeOK
<1>8. Covered'
  BY <1>0, <1>3, <1>4, ZenonT(30) DEF Covered, TypeOK
<1> QED
  BY <1>1, <1>2, <1>5, <1>6, <1>7, <1>8, WorkerStep, Zenon

\* The steps of a worker that change no receipt, fork or log.
LEMMA QueueStep ==
  ASSUME IInv, NEW k \in Workers, pc = "parallel",
         UNCHANGED <<shared, fork, txForks, receipts>>,
         wpc' = [wpc EXCEPT ![k] = wpc'[k]],
         wpc[k] \notin {"off", "start"}, wpc'[k] \notin {"off", "start"},
         TypeOK', Exclusive', Covered'
  PROVE  IInv'
<1> USE DEF shared, params, merging
<1>0. /\ TypeOK /\ Running /\ Forks
      /\ Group(w)' = Group(w) /\ Before(w)' = Before(w)
  BY WorkerStep, Zenon DEF IInv, TypeOK, AtParallel
<1>2. Reads' /\ Ran' = Ran
  BY Frame, Zenon DEF IInv
<1>3. Done' = Done /\ \A l \in Workers : DoneBy(l)' = DoneBy(l)
  BY Zenon DEF Done, DoneBy
<1>5. Running'
  BY <1>0, <1>2, <1>3, ZenonT(30) DEF Running, Holds, Eff
<1>6. Forks'
  <2>1. ASSUME NEW l \in Workers, ForkHolds(l) PROVE ForkHolds(l)'
    BY <1>0, <1>3, <2>1, Zenon DEF ForkHolds, Holds, Eff
  <2>2. \A l \in Workers : wpc'[l] = wpc[l] \/ l = k
    BY <1>0, Zenon DEF TypeOK
  <2> QED
    BY <1>0, <1>3, <2>1, <2>2, Zenon DEF Forks
<1> QED
  BY <1>2, <1>5, <1>6, WorkerStep, Zenon

LEMMA WorkerTakeStep ==
  ASSUME IInv, NEW k \in Workers, WorkerTake(k)
  PROVE  IInv'
<1> USE DEF WorkerTake, shared, params, merging
<1>0. /\ TypeOK /\ Running /\ Exclusive /\ Covered
      /\ Group(w)' = Group(w) /\ Before(w)' = Before(w)
  BY WorkerStep, Zenon DEF IInv, TypeOK, AtParallel
<1>1. PICK i \in jobs : jobs' = jobs \ {i} /\ cur' = [cur EXCEPT ![k] = i]
  BY Zenon
<1>2. i \in Idx /\ TypeOK'
  BY <1>0, <1>1, Zenon DEF TypeOK
<1>3. Done' = Done
  BY Zenon DEF Done
<1>4. /\ wpc'[k] = "check" /\ cur'[k] = i /\ Busy(k)' /\ ~Busy(k)
      /\ \A l \in Workers : l # k => Busy(l)' = Busy(l) /\ cur'[l] = cur[l] /\ wpc'[l] = wpc[l]
  BY <1>0, <1>1, Zenon DEF TypeOK, Busy
<1>5. Exclusive'
  BY <1>0, <1>1, <1>3, <1>4 DEF Exclusive, FailsEarly
<1>6. Covered'
  BY <1>0, <1>1, <1>3, <1>4 DEF Covered
<1> QED
  BY <1>0, <1>2, <1>4, <1>5, <1>6, QueueStep, Zenon DEF TypeOK

LEMMA WorkerDrainedStep ==
  ASSUME IInv, NEW k \in Workers, WorkerDrained(k)
  PROVE  IInv'
<1> USE DEF WorkerDrained, shared, params, merging
<1>0. /\ TypeOK /\ Running /\ Exclusive /\ Covered
      /\ Group(w)' = Group(w) /\ Before(w)' = Before(w)
  BY WorkerStep, Zenon DEF IInv, TypeOK, AtParallel
<1>2. TypeOK'
  BY <1>0, Zenon DEF TypeOK
<1>3. Done' = Done
  BY Zenon DEF Done
<1>4. /\ wpc'[k] = "exit" /\ ~Busy(k)' /\ ~Busy(k)
      /\ \A l \in Workers : l # k => Busy(l)' = Busy(l) /\ wpc'[l] = wpc[l]
  BY <1>0, Zenon DEF TypeOK, Busy
<1>5. Exclusive'
  BY <1>0, <1>3, <1>4, Zenon DEF Exclusive, FailsEarly
<1>6. Covered'
  BY <1>0, <1>3, <1>4, ZenonT(30) DEF Covered
<1> QED
  BY <1>0, <1>2, <1>4, <1>5, <1>6, QueueStep, Zenon DEF TypeOK

LEMMA WorkerBuyGasStep ==
  ASSUME IInv, NEW k \in Workers, WorkerBuyGas(k)
  PROVE  IInv'
<1> USE DEF WorkerBuyGas, shared, params, merging
<1>0. /\ TypeOK /\ Running /\ Exclusive /\ Covered
      /\ Group(w)' = Group(w) /\ Before(w)' = Before(w)
  BY WorkerStep, Zenon DEF IInv, TypeOK, AtParallel
<1>1. cur[k] \in Idx
  BY <1>0, Zenon DEF Exclusive, Busy, Group
<1>2. TypeOK'
  <2>1. gp \in Nat /\ txs[cur[k]].gas \in Nat
    BY <1>0, <1>1, TxFacts, Zenon DEF TypeOK
  <2> QED
    BY <1>0, <2>1 DEF TypeOK
<1>3. Done' = Done
  BY Zenon DEF Done
<1>4. /\ wpc'[k] = "bought" /\ Busy(k)' /\ Busy(k)
      /\ \A l \in Workers : l # k => Busy(l)' = Busy(l) /\ wpc'[l] = wpc[l]
  BY <1>0, Zenon DEF TypeOK, Busy
<1>5. Exclusive'
  BY <1>0, <1>3, <1>4, Zenon DEF Exclusive, FailsEarly
<1>6. Covered'
  BY <1>0, <1>3, <1>4, ZenonT(30) DEF Covered
<1> QED
  BY <1>0, <1>2, <1>4, <1>5, <1>6, QueueStep, Zenon DEF TypeOK

LEMMA WorkerFailStep ==
  ASSUME IInv, NEW k \in Workers, WorkerFail(k)
  PROVE  IInv'
<1> USE DEF WorkerFail, shared, params, merging
<1>0. /\ TypeOK /\ Running /\ Exclusive /\ Covered
      /\ Group(w)' = Group(w) /\ Before(w)' = Before(w)
  BY WorkerStep, Zenon DEF IInv, TypeOK, AtParallel
<1>1. cur[k] \in Idx /\ cur[k] # None /\ firstErr' # None
  BY <1>0, ProcessorAssumption DEF Exclusive, Busy, Group, Idx
<1>2. TypeOK'
  BY <1>0, <1>1, Zenon DEF TypeOK
<1>3. Done' = Done
  BY Zenon DEF Done
<1>4. /\ wpc'[k] = "exit" /\ ~Busy(k)' /\ Busy(k)
      /\ \A l \in Workers : l # k => Busy(l)' = Busy(l) /\ wpc'[l] = wpc[l]
  BY <1>0, Zenon DEF TypeOK, Busy
<1>5. Exclusive'
  BY <1>0, <1>3, <1>4, Zenon DEF Exclusive, FailsEarly
<1>6. Covered'
  BY <1>0, <1>1, <1>4, Zenon DEF Covered
<1> QED
  BY <1>0, <1>2, <1>4, <1>5, <1>6, QueueStep, Zenon DEF TypeOK, Busy

LEMMA WorkerApplyStep ==
  ASSUME IInv, NEW k \in Workers, WorkerApply(k)
  PROVE  IInv'
<1> USE DEF WorkerApply, shared, params, merging
<1> DEFINE i == cur[k]
<1>0. /\ TypeOK /\ Running /\ Forks /\ Exclusive /\ Covered /\ Reads
      /\ Group(w)' = Group(w) /\ Before(w)' = Before(w)
      /\ CausallyOrdered(Declared, wave)
  BY WorkerStep, Zenon DEF IInv, AtParallel, Ordered
<1>1. /\ i \in Idx /\ i \in Group(w) /\ wave[i] = w /\ i \notin jobs /\ i \notin Done
      /\ ~FailsEarly(i)
  BY <1>0, Zenon DEF Exclusive, Busy, Group
<1>2. fork[k] \in StateDBs /\ ForkHolds(k) /\ k # None
  BY <1>0, ProcessorAssumption DEF TypeOK, Forks, Workers
<1>3. Apply(fork[k], i) \in StateDBs
  BY <1>0, <1>1, <1>2, ApplyFacts, Zenon
<1>4. Ran' = Ran \cup {i} /\ receipts' \in [Idx -> Receipts \cup {None}]
  BY <1>0, <1>1, <1>2, ReceiptStep, Zenon
<1>5. TypeOK'
  <2>1. gp \in Nat /\ txs[i].gas \in Nat /\ txs[i].used \in Nat /\ txs[i].used <= txs[i].gas
    BY <1>0, <1>1, TxFacts, Zenon DEF TypeOK
  <2>2. gp' \in Nat
    BY <2>1
  <2> QED
    BY <1>0, <1>1, <1>3, <1>4, <2>2, Zenon DEF TypeOK
<1>6. /\ Done' = Done \cup {i} /\ DoneBy(k)' = DoneBy(k) \cup {i}
      /\ \A l \in Workers : l # k => DoneBy(l)' = DoneBy(l)
  <2>1. txForks[i] = None /\ \A l \in Workers : l # None
    BY <1>1, ProcessorAssumption DEF Done, Workers
  <2>2. \A m \in Idx : txForks'[m] = IF m = i THEN k ELSE txForks[m]
    BY <1>0, <1>1, Zenon DEF TypeOK
  <2> HIDE DEF i
  <2> QED
    BY <1>1, <2>1, <2>2, Zenon DEF Done, DoneBy
<1>7. /\ wpc'[k] = "idle" /\ ~Busy(k)' /\ Busy(k) /\ fork'[k] = Apply(fork[k], i)
      /\ \A l \in Workers : l # k => Busy(l)' = Busy(l) /\ wpc'[l] = wpc[l] /\ fork'[l] = fork[l]
  BY <1>0, Zenon DEF TypeOK, Busy
<1>8. DoneBy(k) \subseteq Done
  BY <1>2, Zenon DEF Done, DoneBy
<1>9. Reads'
  <2> DEFINE S == Before(w) \cup DoneBy(k)
  <2>1. S \in SUBSET (Idx \ {i}) /\ Before(wave[i]) \subseteq S /\ \A l \in S : wave[l] <= wave[i]
    BY <1>0, <1>1, <1>8 DEF TypeOK, Before, Group, Running, DoneBy
  <2>2. \A a \in Declared[i] : Eff(S, a) = {m \in Idx : m < i /\ a \in txs[m].writes}
    BY <1>0, <1>1, <2>1, WaveView, Zenon
  <2>3. Declared[i] \subseteq Address
    BY <1>0, <1>1, DeclaredFacts, Zenon
  <2>4. \A a \in Declared[i] \ Unclaimed : fork[k].acct[a] = {m \in Idx : m < i /\ a \in txs[m].writes}
    BY <1>2, <2>2, <2>3, Zenon DEF ForkHolds, Holds
  <2> QED
    BY <1>0, <1>1, <1>2, <2>4, ReadsStep, Zenon
<1>10. Running'
  BY <1>0, <1>1, <1>4, <1>6 DEF Running, Holds, Eff
<1>11. Forks'
  <2>1. Holds(fork[k], Before(w) \cup DoneBy(k))'
    <3>1. Holds(Apply(fork[k], i), (Before(w) \cup DoneBy(k)) \cup {i})
      BY <1>0, <1>1, <1>2, ApplyHolds, Zenon DEF ForkHolds, Before, DoneBy
    <3>2. (Before(w) \cup DoneBy(k))' = (Before(w) \cup DoneBy(k)) \cup {i}
      BY <1>0, <1>6, Zenon
    <3> QED
      BY <1>7, <3>1, <3>2, ZenonT(30) DEF Holds, Eff
  <2>2. ASSUME NEW a \in Address \ {Coinbase}
        PROVE  a \in fork'[k].mergeAddrs <=> \E m \in DoneBy(k)' : a \in txs'[m].writes
    <3>1. fork'[k].mergeAddrs = fork[k].mergeAddrs \cup Dirties(fork[k], i)
      BY <1>0, <1>1, <1>2, <1>7, ApplyFacts
    <3>2. a \in Dirties(fork[k], i) <=> a \in txs[i].writes
      BY Zenon DEF Dirties
    <3> QED
      BY <1>2, <1>6, <3>1, <3>2, Zenon DEF ForkHolds
  <2>3. ForkHolds(k)'
    BY <2>1, <2>2, Zenon DEF ForkHolds
  <2>4. ASSUME NEW l \in Workers, l # k, ForkHolds(l) PROVE ForkHolds(l)'
    BY <1>0, <1>6, <1>7, <2>4, ZenonT(30) DEF ForkHolds, Holds, Eff
  <2> QED
    BY <1>0, <1>6, <1>7, <2>3, <2>4, Zenon DEF Forks
<1>12. Exclusive'
  BY <1>0, <1>1, <1>6, <1>7, ZenonT(30) DEF Exclusive, FailsEarly
<1>13. Covered'
  BY <1>0, <1>1, <1>6, <1>7 DEF Covered
<1> QED
  BY <1>5, <1>9, <1>10, <1>11, <1>12, <1>13, WorkerStep, Zenon
=============================================================================
