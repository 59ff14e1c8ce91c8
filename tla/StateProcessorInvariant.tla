---------------------- MODULE StateProcessorInvariant -----------------------
(***************************************************************************)
(* The inductive invariant of block execution, what the operators of the   *)
(* model compute, and the steps of the main goroutine up to the start of a *)
(* parallel wave.  Everything is for every block, every number of workers  *)
(* and every wave size; about the coinbase account only as long as no      *)
(* transaction declares it.                                                *)
(***************************************************************************)
EXTENDS StateProcessor, FiniteSetTheorems, WellFoundedInduction, TLAPS

\* The effects on account a of the transactions of S.
Eff(S, a) == {k \in S : a \in txs[k].writes}

Ran == {i \in Idx : HasRun(i)}
Before(v) == {i \in Idx : wave[i] < v}
DoneBy(k) == {i \in Idx : txForks[i] = k}
Done == {i \in Idx : txForks[i] # None}
Busy(k) == wpc[k] \in {"check", "bought"}

\* No transaction has the coinbase as sender, recipient or access-list entry.
CoinbaseUntouched == \A t \in Txs : Coinbase \notin DeclaredAddresses(t)

\* When one has, nothing is claimed about the coinbase account: a fork that paid
\* it a fee overwrites it.
Unclaimed == IF CoinbaseUntouched THEN {} ELSE {Coinbase}

Holds(s, S) == \A a \in Address \ Unclaimed : s.acct[a] = Eff(S, a)

Reads ==
  \A i \in Idx : HasRun(i) =>
    \A a \in Declared[i] \ Unclaimed :
      receipts[i].view[a] = {k \in Idx : k < i /\ a \in txs[k].writes}

Ordered == pc \notin {"group", "err"} => CausallyOrdered(Declared, wave)

AtGroup == pc = "group" => Ran = {} /\ Holds(statedb, {}) /\ wave = [i \in Idx |-> 0]

AtWave == pc = "wave" => Ran = Before(w) /\ Holds(statedb, Before(w))

AtDirect ==
  pc = "direct" => /\ todo \subseteq Group(w)
                   /\ Ran = Before(w) \cup (Group(w) \ todo)
                   /\ Holds(statedb, Before(w) \cup (Group(w) \ todo))

\* What a fork holds, from the moment it is made to the end of its merge.
ForkHolds(k) ==
  /\ Holds(fork[k], Before(w) \cup DoneBy(k))
  /\ \A a \in Address \ {Coinbase} :
       a \in fork[k].mergeAddrs <=> \E i \in DoneBy(k) : a \in txs[i].writes

\* While the workers run, the live StateDB is as it was when the wave started.
Running == /\ Ran = Before(w) \cup Done
           /\ Done \subseteq Group(w)
           /\ Holds(statedb, Before(w))
           /\ mergedForks = {}

Forks == \A k \in Workers : IF wpc[k] \in {"off", "start"} THEN DoneBy(k) = {} ELSE ForkHolds(k)

\* A transaction is queued, being executed by one worker, or done, and in only
\* one of these states.
Exclusive ==
  /\ jobs \subseteq Group(w) \ Done
  /\ \A k \in Workers : Busy(k) => cur[k] \in Group(w) \ (jobs \cup Done)
  /\ \A k, l \in Workers : Busy(k) /\ Busy(l) /\ cur[k] = cur[l] => k = l
  /\ \A k \in Workers : wpc[k] = "bought" => ~FailsEarly(cur[k])

\* None is forgotten unless a worker has failed.
Covered ==
  /\ \E k \in Workers : wpc[k] # "off"
  /\ firstErr = None =>
       /\ \A i \in Group(w) : i \in jobs \/ i \in Done \/ \E k \in Workers : Busy(k) /\ cur[k] = i
       /\ (\E k \in Workers : wpc[k] = "exit") => jobs = {}

AtParallel == pc = "parallel" => Running /\ Forks /\ Exclusive /\ Covered

AtAccounts ==
  pc = "accounts" =>
    /\ Ran = Before(w) \cup Group(w)
    /\ Done = Group(w)
    /\ \A k \in Workers : DoneBy(k) # {} => ForkHolds(k)
    /\ Holds(statedb, Before(w) \cup {i \in Done : txForks[i] \in mergedForks})
    /\ todo \subseteq Group(w)
    /\ \A i \in Group(w) \ todo : txForks[i] \in mergedForks

AtLogs ==
  pc = "logs" => /\ Ran = Before(w) \cup Group(w)
                 /\ Done = Group(w)
                 /\ todo \subseteq Group(w)
                 /\ Holds(statedb, Before(w) \cup Group(w))

\* The waves are numbered without a gap.
Dense == pc \notin {"group", "err"} =>
           \A k \in Idx : wave[k] \in 1 .. N /\ (wave[k] > 1 => \E i \in Idx : wave[i] = wave[k] - 1)

AtEnd == pc \in {"normalize", "ok"} => Ran = Idx /\ Holds(statedb, Idx)

Started == pc \notin {"group", "err"} => w >= 1
Nonempty == pc \in {"direct", "parallel", "accounts", "logs"} => Group(w) # {}

IInv == /\ TypeOK /\ Reads /\ Ordered /\ Dense /\ AtGroup /\ AtWave
        /\ AtDirect /\ AtParallel /\ AtAccounts /\ AtLogs /\ AtEnd /\ Started /\ Nonempty

-----------------------------------------------------------------------------
(***************************************************************************)
(* Facts about the operators.                                              *)
(***************************************************************************)
LEMMA TxFacts ==
  ASSUME TypeOK, NEW i \in Idx
  PROVE  /\ txs[i] \in Message
         /\ txs[i].writes \subseteq Address
         /\ txs[i].writes \subseteq Declared[i]
         /\ txs[i].gas \in Nat /\ txs[i].used \in Nat /\ txs[i].used <= txs[i].gas
         /\ txs[i].tip \in Int /\ txs[i].logs \in Nat
<1>1. txs[i] \in Txs
  BY Zenon DEF TypeOK
<1>2. txs[i] \in Message
  BY <1>1, ProcessorAssumption, Zenon
<1>3. txs[i].writes \subseteq Declared[i] /\ txs[i].used <= txs[i].gas
  BY <1>1, ProcessorAssumption, Zenon DEF Declared
<1> QED
  BY <1>2, <1>3, Zenon DEF Message

LEMMA DeclaredFacts ==
  ASSUME TypeOK, NEW i \in Idx, ~FailsEarly(i)
  PROVE  Declared[i] \subseteq Address
<1>1. txs[i] \in Message /\ txs[i].from # NoSender
  BY TxFacts, Zenon DEF FailsEarly
<1> QED
  BY <1>1, Zenon DEF Declared, DeclaredAddresses, WaveAccessList, Message

LEMMA NumberedFacts ==
  ASSUME TypeOK, NEW s \in StateDBs, NEW i \in Idx
  PROVE  LET t == [s EXCEPT !.logs[i] = s.logSize, !.logSize = @ + txs[i].logs]
         IN  t \in StateDBs /\ t.acct = s.acct /\ t.mergeAddrs = s.mergeAddrs
<1>1. s.logSize \in Nat /\ txs[i].logs \in Nat /\ s.logs \in [Idx -> Nat \cup {None}]
  BY TxFacts, Zenon DEF StateDBs
<1> DEFINE L == [s.logs EXCEPT ![i] = s.logSize]
           n == s.logSize + txs[i].logs
           t == [s EXCEPT !.logs = L, !.logSize = n]
<1>2. L \in [Idx -> Nat \cup {None}] /\ n \in Nat
  BY <1>1
<1>3. [s EXCEPT !.logs[i] = s.logSize, !.logSize = @ + txs[i].logs] = t
  BY Zenon DEF StateDBs
<1> HIDE DEF L, n
<1>4. t \in StateDBs /\ t.acct = s.acct /\ t.mergeAddrs = s.mergeAddrs
  BY <1>2, Zenon DEF StateDBs
<1> QED
  BY <1>3, <1>4, Zenon

LEMMA AddLogsFacts ==
  ASSUME TypeOK, NEW s \in StateDBs, NEW i \in Idx
  PROVE  /\ AddLogs(s, i) \in StateDBs
         /\ AddLogs(s, i).acct = s.acct
         /\ AddLogs(s, i).mergeAddrs = s.mergeAddrs
<1>1. CASE txs[i].logs = 0
  BY <1>1, Zenon DEF AddLogs
<1>2. CASE txs[i].logs # 0
  BY <1>2, NumberedFacts, Zenon DEF AddLogs
<1> QED
  BY <1>1, <1>2, Zenon

LEMMA ApplyFacts ==
  ASSUME TypeOK, NEW s \in StateDBs, NEW i \in Idx
  PROVE  /\ Apply(s, i) \in StateDBs
         /\ \A a \in Address : Apply(s, i).acct[a] =
              IF a \in txs[i].writes THEN s.acct[a] \cup {i} ELSE s.acct[a]
         /\ Apply(s, i).mergeAddrs = s.mergeAddrs \cup Dirties(s, i)
<1> DEFINE t == AddLogs(s, i)
<1>1. t \in StateDBs /\ t.acct = s.acct /\ t.mergeAddrs = s.mergeAddrs
  BY AddLogsFacts, Zenon
<1>2. txs[i].tip \in Int /\ Dirties(s, i) \subseteq Address
  BY TxFacts, ProcessorAssumption, Zenon DEF Dirties
<1>3. Apply(s, i) = [t EXCEPT
         !.acct = [a \in Address |-> IF a \in txs[i].writes THEN t.acct[a] \cup {i} ELSE t.acct[a]],
         !.coinbase = t.coinbase + txs[i].tip,
         !.dbErr = t.dbErr \/ txs[i].fault = "db",
         !.mergeAddrs = t.mergeAddrs \cup Dirties(s, i)]
  BY Zenon DEF Apply
<1> HIDE DEF t
<1>4. /\ t.acct \in [Address -> SUBSET Idx] /\ t.coinbase \in Int /\ t.dbErr \in BOOLEAN
      /\ t.logs \in [Idx -> Nat \cup {None}] /\ t.logSize \in Nat
      /\ t.mergeAddrs \in SUBSET Address
  BY <1>1, Zenon DEF StateDBs
<1>5. [a \in Address |-> IF a \in txs[i].writes THEN t.acct[a] \cup {i} ELSE t.acct[a]]
        \in [Address -> SUBSET Idx]
  BY <1>4, Zenon
<1>6. t.coinbase + txs[i].tip \in Int /\ t.mergeAddrs \cup Dirties(s, i) \in SUBSET Address
  BY <1>2, <1>4
<1>7. (t.dbErr \/ txs[i].fault = "db") \in BOOLEAN
  BY <1>4, Zenon
<1>8. Apply(s, i) \in StateDBs
  BY <1>1, <1>3, <1>5, <1>6, <1>7, Zenon DEF StateDBs
<1>9. /\ Apply(s, i).acct = [a \in Address |-> IF a \in txs[i].writes THEN t.acct[a] \cup {i} ELSE t.acct[a]]
      /\ Apply(s, i).mergeAddrs = t.mergeAddrs \cup Dirties(s, i)
  BY <1>1, <1>3, Zenon DEF StateDBs
<1> QED
  BY <1>1, <1>8, <1>9, Zenon

LEMMA ReceiptFacts ==
  ASSUME TypeOK, NEW s \in StateDBs, NEW i \in Idx
  PROVE  /\ MakeReceipt(s, i) \in Receipts
         /\ \A a \in Address : a \in Declared[i] => MakeReceipt(s, i).view[a] = s.acct[a]
<1>1. AddLogs(s, i) \in StateDBs /\ txs[i].used \in Nat
  BY AddLogsFacts, TxFacts, Zenon
<1>2. AddLogs(s, i).logs[i] \in Nat \cup {None} /\ s.acct \in [Address -> SUBSET Idx]
  BY <1>1, Zenon DEF StateDBs
<1> QED
  BY <1>1, <1>2, Zenon DEF MakeReceipt, Receipts

LEMMA CopyFacts ==
  ASSUME NEW s \in StateDBs
  PROVE  /\ CopyForParallelTx(s) \in StateDBs
         /\ CopyForParallelTx(s).acct = s.acct
         /\ CopyForParallelTx(s).mergeAddrs = {}
BY Zenon DEF CopyForParallelTx, StateDBs

LEMMA MergeAccountsFacts ==
  ASSUME NEW s \in StateDBs, NEW c \in StateDBs
  PROVE  /\ MergeParallelChildAccounts(s, c) \in StateDBs
         /\ \A a \in Address : MergeParallelChildAccounts(s, c).acct[a] =
              IF a \in c.mergeAddrs THEN c.acct[a] ELSE s.acct[a]
BY Zenon DEF MergeParallelChildAccounts, StateDBs

LEMMA MergeLogsFacts ==
  ASSUME TypeOK, NEW s \in StateDBs, NEW c \in StateDBs, NEW i \in Idx
  PROVE  /\ MergeParallelChildLogs(s, c, i) \in StateDBs
         /\ MergeParallelChildLogs(s, c, i).acct = s.acct
<1>1. CASE c.logs[i] = None
  BY <1>1, Zenon DEF MergeParallelChildLogs
<1>2. CASE c.logs[i] # None
  BY <1>2, NumberedFacts, Zenon DEF MergeParallelChildLogs
<1> QED
  BY <1>1, <1>2, Zenon

\* Why the waves are right: on a state that holds every earlier wave, and
\* perhaps other transactions of its own wave, a transaction sees block order.
LEMMA WaveView ==
  ASSUME TypeOK, CausallyOrdered(Declared, wave), NEW i \in Idx,
         NEW S \in SUBSET (Idx \ {i}),
         Before(wave[i]) \subseteq S,
         \A k \in S : wave[k] <= wave[i],
         NEW a \in Declared[i]
  PROVE  Eff(S, a) = {k \in Idx : k < i /\ a \in txs[k].writes}
<1>1. \A k \in Idx : a \in txs[k].writes => Conflict(Declared, k, i) /\ Conflict(Declared, i, k)
  BY TxFacts, Zenon DEF Conflict, declaredAddressSetsOverlap
<1>2. \A k \in Idx : wave[k] \in Int /\ k \in Int
  BY ScheduleAssumption DEF TypeOK, Idx
<1>3. ASSUME NEW k \in S, a \in txs[k].writes PROVE k < i
  BY <1>1, <1>2, <1>3 DEF CausallyOrdered
<1>4. ASSUME NEW k \in Idx, k < i, a \in txs[k].writes PROVE k \in S
  BY <1>1, <1>2, <1>4, Zenon DEF CausallyOrdered, Before
<1> QED
  BY <1>3, <1>4, Zenon DEF Eff

\* A set of natural numbers has a least element.
LEMMA Least ==
  ASSUME NEW T \in SUBSET Nat, T # {}
  PROVE  \E m \in T : \A n \in T : m <= n
<1> DEFINE R == {ss \in Nat \X Nat : ss[1] < ss[2]}
<1>1. R = OpToRel(<, Nat)
  BY Zenon DEF OpToRel
<1>2. IsWellFoundedOn(R, Nat)
  BY <1>1, NatLessThanWellFounded, Zenon
<1> HIDE DEF R
<1>3. PICK m \in T : \A n \in T : ~(<<n, m>> \in R)
  BY <1>2, WFMin, Zenon
<1>4. ASSUME NEW n \in T PROVE m <= n
  <2>1. n < m => <<n, m>> \in R
    BY Zenon DEF R
  <2> QED
    BY <1>3, <2>1
<1> QED
  BY <1>4, Zenon

\* Waves are numbered without a gap, so an empty one is past the last.
LEMMA EmptyWaveIsLast ==
  ASSUME TypeOK, Dense, Started, pc = "wave", Group(w) = {}
  PROVE  Before(w) = Idx
<1> SUFFICES ASSUME NEW k \in Idx, ~(wave[k] < w)
             PROVE  FALSE
  BY Zenon DEF Before
<1> DEFINE T == {v \in Nat : v >= w /\ \E i \in Idx : wave[i] = v}
<1>1. wave[k] \in T /\ w \in Nat /\ w >= 1
  BY ScheduleAssumption DEF TypeOK, Started
<1>2. PICK m \in T : \A n \in T : m <= n
  <2> HIDE DEF T
  <2>1. T # {}
    BY <1>1, Zenon
  <2>2. T \in SUBSET Nat
    BY Zenon DEF T
  <2> QED
    BY <2>1, <2>2, Least, Zenon
<1>3. m \in Nat /\ m > w
  BY <1>1 DEF Group
<1>4. m - 1 \in T
  BY <1>1, <1>3 DEF Dense
<1> QED
  BY <1>2, <1>3, <1>4

LEMMA NextWave ==
  ASSUME TypeOK, w' = w + 1, UNCHANGED wave
  PROVE  Before(w)' = Before(w) \cup Group(w)
BY DEF TypeOK, Before, Group

\* What the step that records a receipt does to what has run and was seen.
LEMMA ReceiptStep ==
  ASSUME TypeOK, NEW s \in StateDBs, NEW i \in Idx,
         receipts' = [receipts EXCEPT ![i] = MakeReceipt(s, i)]
  PROVE  /\ receipts' \in [Idx -> Receipts \cup {None}]
         /\ Ran' = Ran \cup {i}
<1>1. MakeReceipt(s, i) \in Receipts /\ MakeReceipt(s, i) # None
  BY ReceiptFacts, ProcessorAssumption, Zenon
<1>2. receipts \in [Idx -> Receipts \cup {None}]
  BY Zenon DEF TypeOK
<1> QED
  BY <1>1, <1>2, Zenon DEF Ran, HasRun

LEMMA ReadsStep ==
  ASSUME TypeOK, Reads, NEW s \in StateDBs, NEW i \in Idx, UNCHANGED txs,
         ~FailsEarly(i),
         receipts' = [receipts EXCEPT ![i] = MakeReceipt(s, i)],
         \A a \in Declared[i] \ Unclaimed : s.acct[a] = {k \in Idx : k < i /\ a \in txs[k].writes}
  PROVE  Reads'
<1>1. receipts \in [Idx -> Receipts \cup {None}]
  BY Zenon DEF TypeOK
<1>2. Declared' = Declared /\ Declared[i] \subseteq Address
  BY DeclaredFacts, Zenon DEF Declared
<1>3. \A a \in Declared[i] \ Unclaimed : receipts'[i].view[a] = {k \in Idx : k < i /\ a \in txs[k].writes}
  BY <1>1, <1>2, ReceiptFacts
<1>4. \A j \in Idx : j # i => receipts'[j] = receipts[j]
  BY <1>1, Zenon
<1> QED
  BY <1>2, <1>3, <1>4 DEF Reads, HasRun

LEMMA ApplyHolds ==
  ASSUME TypeOK, NEW s \in StateDBs, NEW i \in Idx, NEW S \in SUBSET Idx, Holds(s, S)
  PROVE  Holds(Apply(s, i), S \cup {i})
<1> SUFFICES ASSUME NEW a \in Address \ Unclaimed
             PROVE  Apply(s, i).acct[a] = Eff(S \cup {i}, a)
  BY Zenon DEF Holds
<1>1. s.acct[a] = Eff(S, a)
  BY Zenon DEF Holds
<1>2. Apply(s, i).acct[a] = IF a \in txs[i].writes THEN s.acct[a] \cup {i} ELSE s.acct[a]
  BY ApplyFacts, Zenon
<1> QED
  BY <1>1, <1>2, Zenon DEF Eff

-----------------------------------------------------------------------------
(***************************************************************************)
(* The invariant holds initially and every step keeps it.                  *)
(***************************************************************************)
LEMMA InitIInv == Init => IInv
<1> SUFFICES ASSUME Init PROVE IInv
  BY Zenon
<1>1. NewStateDB \in StateDBs /\ Holds(NewStateDB, {})
  BY ProcessorAssumption DEF NewStateDB, StateDBs, Holds, Eff
<1>2. TypeOK
  <2>1. \A i \in Idx : 0 \in 0 .. N
    BY ScheduleAssumption
  <2> QED
    BY <1>1, <2>1, ProcessorAssumption, ScheduleAssumption DEF Init, TypeOK
<1>3. Ran = {}
  BY Zenon DEF Init, Ran, HasRun
<1> QED
  BY <1>1, <1>2, <1>3, Zenon
     DEF Init, IInv, Reads, HasRun, Ordered, Dense, AtGroup, AtWave, AtDirect,
         AtParallel, AtAccounts, AtLogs, AtEnd, Started, Nonempty

\* Steps that change neither the block, the waves nor the receipts keep what
\* depends on them only.
LEMMA Frame ==
  ASSUME UNCHANGED <<txs, wave, receipts>>
  PROVE  /\ Declared' = Declared /\ Ran' = Ran
         /\ Reads => Reads'
         /\ CausallyOrdered(Declared, wave) => CausallyOrdered(Declared, wave)'
BY DEF Declared, Ran, HasRun, Reads, CausallyOrdered, Conflict

LEMMA BuildGroupsStep ==
  ASSUME IInv, BuildGroups
  PROVE  IInv'
<1> USE DEF BuildGroups, params, pool, merging
<1>1. wave' \in [Idx -> 0 .. N] /\ w' \in 0 .. N + 1
  BY ScheduleAssumption DEF IInv, TypeOK, Idx
<1>2. TypeOK'
  BY <1>1, Zenon DEF IInv, TypeOK
<1>3. pc' = "wave" => /\ wave' \in [Idx -> 1 .. N] /\ w' = 1 /\ CausallyOrdered(Declared, wave)'
                      /\ \A k \in Idx : wave'[k] > 1 => \E i \in Idx : wave'[i] = wave'[k] - 1
  <2>1. Declared' = Declared
    BY Zenon DEF Declared
  <2>2. CASE ~ParallelTxGroupingByStorageOverlap
    <3>1. wave' = [i \in Idx |-> i + 1] /\ w' = 1
      BY <2>2, Zenon
    <3>2. \A i \in Idx : wave'[i] = i + 1 /\ i \in Int /\ i >= 0 /\ i < N
      BY <3>1, ScheduleAssumption DEF Idx
    <3>3. \A k \in Idx : wave'[k] > 1 => k - 1 \in Idx /\ wave'[k - 1] = wave'[k] - 1
      BY <3>2, ScheduleAssumption DEF Idx
    <3>4. wave' \in [Idx -> 1 .. N]
      BY <3>1, <3>2, ScheduleAssumption
    <3>5. CausallyOrdered(Declared, wave)'
      BY <3>2 DEF CausallyOrdered
    <3> QED
      BY <3>1, <3>3, <3>4, <3>5, Zenon
  <2>3. CASE ParallelTxGroupingByStorageOverlap
    BY <2>1, <2>3, Zenon DEF Schedule, AsSoonAsPossible, CausallyOrdered, Conflict
  <2> QED
    BY <2>2, <2>3, Zenon
<1>4. pc' = "wave" => Before(w)' = {}
  BY <1>3, ScheduleAssumption DEF Before
<1>5. Ran' = {} /\ Holds(statedb, {})' /\ Reads'
  BY Zenon DEF IInv, AtGroup, Ran, HasRun, Holds, Eff, Reads, Declared
<1>6. pc' \in {"wave", "err"}
  BY Zenon DEF IInv
<1>7. AtWave'
  BY <1>4, <1>5, Zenon DEF AtWave, Holds
<1>8. Ordered' /\ Dense' /\ Started'
  BY <1>3, <1>6 DEF Ordered, Dense, Started
<1> QED
  BY <1>2, <1>5, <1>6, <1>7, <1>8, Zenon
     DEF IInv, AtGroup, AtDirect, AtParallel, AtAccounts, AtLogs, AtEnd, Nonempty

\* What a step that leaves the block and the waves alone has to show.
LEMMA Elsewhere ==
  ASSUME UNCHANGED <<txs, wave>>, pc # "group"
  PROVE  /\ \A v : {i \in Idx : wave'[i] = v} = Group(v)
         /\ w' = w => Group(w)' = Group(w) /\ Before(w)' = Before(w)
         /\ Ordered /\ pc # "err" => Ordered'
         /\ Dense /\ pc # "err" => Dense'
BY Zenon DEF Group, Before, Ordered, Dense, CausallyOrdered, Conflict, Declared

\* An error leaves nothing to show but types and what was seen.
LEMMA ErrStep ==
  ASSUME TypeOK', Reads', pc' = "err"
  PROVE  IInv'
BY Zenon DEF IInv, Ordered, Dense, AtGroup, AtWave, AtDirect, AtParallel, AtAccounts, AtLogs, AtEnd,
       Started, Nonempty

LEMMA StartDirectStep ==
  ASSUME IInv, StartDirect
  PROVE  IInv'
<1> USE DEF StartDirect, params, pool, merging
<1>1. TypeOK'
  BY Zenon DEF IInv, TypeOK, Group
<1>2. Reads' /\ Ran' = Ran /\ Ordered' /\ Dense'
  BY Frame, Elsewhere, Zenon DEF IInv
<1>3. Group(w)' = Group(w) /\ Before(w)' = Before(w)
  BY Elsewhere, Zenon
<1>4. todo' = Group(w) /\ Ran = Before(w) /\ Holds(statedb, Before(w))
  BY Zenon DEF IInv, AtWave
<1>5. AtDirect'
  BY <1>2, <1>3, <1>4, Zenon DEF AtDirect, Holds, Eff
<1>6. Started' /\ Nonempty'
  BY <1>3, Zenon DEF IInv, Started, Nonempty
<1> QED
  BY <1>1, <1>2, <1>5, <1>6, Zenon DEF IInv, AtGroup, AtWave, AtParallel, AtAccounts, AtLogs, AtEnd

LEMMA DirectFailStep ==
  ASSUME IInv, DirectFail
  PROVE  IInv'
<1> USE DEF DirectFail, params, pool, merging
<1>1. gp' \in Nat
  <2>1. gp \in Nat /\ \A i \in todo : txs[i].gas \in Nat
    BY TxFacts, Zenon DEF IInv, TypeOK
  <2> QED
    BY <2>1
<1>2. TypeOK'
  BY <1>1, Zenon DEF IInv, TypeOK
<1>3. Reads'
  BY Frame, Zenon DEF IInv
<1> QED
  BY <1>2, <1>3, ErrStep, Zenon

LEMMA DirectApplyStep ==
  ASSUME IInv, DirectApply
  PROVE  IInv'
<1> USE DEF DirectApply, params, pool, merging
<1>0. PICK i \in todo : /\ ~(FailsEarly(i) \/ gp < txs[i].gas \/ FailsLate(i))
                        /\ statedb' = Apply(statedb, i)
                        /\ receipts' = [receipts EXCEPT ![i] = MakeReceipt(statedb, i)]
                        /\ gp' = gp - txs[i].used
                        /\ todo' = todo \ {i}
  BY Zenon
<1> DEFINE S == Before(w) \cup (Group(w) \ todo)
<1>1. /\ i \in Idx /\ i \in Group(w) /\ wave[i] = w /\ TypeOK /\ statedb \in StateDBs
      /\ pc = "direct" /\ pc' = "direct" /\ w' = w /\ UNCHANGED <<txs, wave>>
      /\ todo \subseteq Group(w) /\ Ran = S /\ Holds(statedb, S)
      /\ CausallyOrdered(Declared, wave)
  BY Zenon DEF IInv, TypeOK, AtDirect, Group, Ordered
<1>2. gp' \in Nat
  <2>1. gp \in Nat /\ txs[i].gas \in Nat /\ txs[i].used \in Nat /\ txs[i].used <= txs[i].gas
    BY <1>1, TxFacts, Zenon DEF TypeOK
  <2> QED
    BY <1>0, <2>1
<1>3. Apply(statedb, i) \in StateDBs /\ receipts' \in [Idx -> Receipts \cup {None}]
  BY <1>0, <1>1, ApplyFacts, ReceiptStep, Zenon
<1>4. TypeOK'
  BY <1>0, <1>1, <1>2, <1>3, ZenonT(30) DEF TypeOK
<1>5. \A a \in Declared[i] \ Unclaimed : statedb.acct[a] = {k \in Idx : k < i /\ a \in txs[k].writes}
  <2>1. S \in SUBSET (Idx \ {i}) /\ Before(wave[i]) \subseteq S /\ \A k \in S : wave[k] <= wave[i]
    BY <1>1 DEF TypeOK, Before, Group
  <2>2. \A a \in Declared[i] : Eff(S, a) = {k \in Idx : k < i /\ a \in txs[k].writes}
    BY <1>1, <2>1, WaveView, Zenon
  <2>3. Declared[i] \subseteq Address
    BY <1>0, <1>1, DeclaredFacts, Zenon
  <2> QED
    BY <1>1, <2>2, <2>3, Zenon DEF Holds
<1>6. Reads'
  BY <1>0, <1>1, <1>5, ReadsStep, Zenon DEF IInv
<1>7. Group(w)' = Group(w) /\ Before(w)' = Before(w) /\ Ordered' /\ Dense'
  BY <1>1, Elsewhere, Zenon DEF IInv
<1>8. AtDirect'
  <2>1. S' = S \cup {i}
    BY <1>0, <1>1, <1>7, Zenon
  <2>2. Ran' = S'
    BY <1>0, <1>1, <2>1, ReceiptStep, Zenon
  <2>3. Holds(Apply(statedb, i), S \cup {i})
    BY <1>1, ApplyHolds, Zenon DEF TypeOK, Before, Group
  <2>4. Holds(statedb, S)'
    BY <1>0, <1>1, <2>1, <2>3, Zenon DEF Holds, Eff
  <2> QED
    BY <1>0, <1>1, <1>7, <2>2, <2>4, Zenon DEF AtDirect
<1>9. Started' /\ Nonempty'
  BY <1>1, <1>7, Zenon DEF IInv, Started, Nonempty
<1> QED
  BY <1>1, <1>4, <1>6, <1>7, <1>8, <1>9, Zenon
     DEF IInv, AtGroup, AtWave, AtParallel, AtAccounts, AtLogs, AtEnd

LEMMA DirectDoneStep ==
  ASSUME IInv, DirectDone
  PROVE  IInv'
<1> USE DEF DirectDone, params, pool, merging
<1>1. w \in Nat /\ w >= 1 /\ w <= N
  BY ScheduleAssumption DEF IInv, TypeOK, Started, Nonempty, Group
<1>2. TypeOK'
  BY <1>1, ScheduleAssumption DEF IInv, TypeOK
<1>3. Reads' /\ Ran' = Ran /\ Ordered' /\ Dense'
  BY Frame, Elsewhere, Zenon DEF IInv
<1>4. Before(w)' = Before(w) \cup Group(w)
  BY NextWave, <1>1, Zenon DEF IInv
<1>5. AtWave'
  BY <1>3, <1>4, Zenon DEF IInv, AtDirect, AtWave, Holds, Eff
<1> QED
  BY <1>1, <1>2, <1>3, <1>5
     DEF IInv, AtGroup, AtDirect, AtParallel, AtAccounts, AtLogs, AtEnd, Started, Nonempty

LEMMA StartParallelStep ==
  ASSUME IInv, StartParallel
  PROVE  IInv'
<1> USE DEF StartParallel, params, pool, merging
<1>1. NewStateDB \in StateDBs /\ statedb.coinbase \in Int
  BY ProcessorAssumption DEF NewStateDB, StateDBs, IInv, TypeOK
<1>2. TypeOK'
  BY <1>1, Zenon DEF IInv, TypeOK, Group
<1>3. Reads' /\ Ran' = Ran /\ Ordered' /\ Dense'
  BY Frame, Elsewhere, Zenon DEF IInv
<1>4. Group(w)' = Group(w) /\ Before(w)' = Before(w)
  BY Elsewhere, Zenon
<1>5. Done' = {} /\ (\A k \in Workers : DoneBy(k)' = {}) /\ \A k \in Workers : ~Busy(k)'
  BY ProcessorAssumption DEF Done, DoneBy, Busy, Workers
<1>6. Running'
  BY <1>3, <1>4, <1>5, Zenon DEF IInv, AtWave, Running, Holds, Eff
<1>7. Forks'
  BY <1>5, Zenon DEF Forks
<1>8. Exclusive'
  BY <1>4, <1>5, Zenon DEF Exclusive
<1>9. Covered'
  <2>1. IsFiniteSet(Group(w))
    <3>1. IsFiniteSet(Idx)
      BY FS_Interval, ScheduleAssumption DEF Idx
    <3>2. Group(w) \subseteq Idx
      BY Zenon DEF Group
    <3> QED
      BY <3>1, <3>2, FS_Subset, Zenon
  <2>2. Cardinality(Group(w)) \in Nat /\ Cardinality(Group(w)) # 0
    BY <2>1, FS_CardinalityType, FS_EmptySet, Zenon
  <2>3. 1 \in Workers /\ wpc'[1] = "start"
    BY <2>2, ProcessorAssumption DEF Workers
  <2>4. \A k \in Workers : wpc'[k] # "exit"
    BY Zenon
  <2> QED
    BY <1>4, <2>3, <2>4, Zenon DEF Covered
<1> QED
  BY <1>2, <1>3, <1>4, <1>6, <1>7, <1>8, <1>9, ZenonT(30)
     DEF IInv, AtGroup, AtWave, AtDirect, AtParallel, AtAccounts, AtLogs, AtEnd, Started, Nonempty
=============================================================================
