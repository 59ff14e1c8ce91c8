--------------------------- MODULE StateProcessor ---------------------------
(***************************************************************************)
(* StateProcessor.Process (core/state_processor.go): the waves of a block  *)
(* run one after the other on the live StateDB, the transactions of a      *)
(* large wave concurrently, on forks of it that are merged when all the    *)
(* workers have returned.                                                  *)
(*                                                                         *)
(* Accounts are abstracted to the set of transactions whose effect they    *)
(* hold, execution of a transaction to the accounts it changes, the gas it *)
(* uses, the fee it pays and the number of logs it emits.  The gas pool is *)
(* the atomic one that GasPool implements.                                 *)
(***************************************************************************)
EXTENDS WaveSchedule, FiniteSets

CONSTANTS Txs,                                   \* transactions a block may hold
          Coinbase,                              \* header.Coinbase
          CoinbaseBalance,                       \* its balance before the block
          GasLimit,                              \* block.GasLimit()
          ParallelTxWorkers,                     \* package variables
          ParallelTxDirectExecutionMaxWaveSize,
          ExecutionFlags,                        \* values of ParallelTxWaveExecution
          None                                   \* nil

\* gas: limit of the message; used: gas used; tip: change of the coinbase
\* balance; logs: number of logs; fault: where it fails.  "early" is a check
\* before SubGas, "late" one after it, "db" a failed database read, "request" a
\* deposit log that ParseDepositLogs rejects.
Message == [from : Address \cup {NoSender}, to : Address \cup {Nil},
            al : SUBSET Address, generated : SUBSET Address,
            writes : SUBSET Address, gas : Nat, used : Nat, tip : Int, logs : Nat,
            fault : {"none", "early", "late", "db", "request"}]

\* A receipt; view is in no field of the code (see MakeReceipt).
Receipts == [gasUsed : Nat, cumulativeGasUsed : Nat, firstLog : Nat \cup {None},
             view : [Address -> SUBSET Idx]]

\* What the code itself assumes of a block: "access lists completely declare
\* touched accounts" (core/parallel_processor.go:19).
ASSUME ProcessorAssumption ==
  /\ Txs \subseteq Message
  /\ \A t \in Txs : t.writes \subseteq DeclaredAddresses(t) /\ t.used <= t.gas
  /\ Coinbase \in Address /\ CoinbaseBalance \in Nat
  /\ GasLimit \in Nat
  /\ ParallelTxWorkers \in Nat \ {0}
  /\ ParallelTxDirectExecutionMaxWaveSize \in Nat
  /\ ExecutionFlags \subseteq BOOLEAN
  /\ None \notin Int \cup Receipts \cup {"read", "deposit", "queue"}

Workers == 1 .. ParallelTxWorkers

VARIABLES ParallelTxGroupingByStorageOverlap, ParallelTxWaveExecution,
          txs,            \* the block's transactions
          pc,             \* "group", "wave", "direct", "parallel", "accounts", "logs",
                          \* "normalize", or the outcome "ok" or "err"
          wave,           \* the group of each transaction
          w,              \* the wave being executed
          todo,           \* indices left in the loop over sortedIdx
          statedb, gp,
          jobs, wpc, cur, fork, txForks, firstErr,   \* of the parallel wave
          mergedForks, coinbaseBase, coinbaseFinal,
          receipts, usedGas,
          requests        \* None (nil), "read", or what failed: "deposit", "queue"

params == <<ParallelTxGroupingByStorageOverlap, ParallelTxWaveExecution, txs>>
pool == <<jobs, wpc, cur, fork, txForks, firstErr>>
merging == <<mergedForks, coinbaseBase, coinbaseFinal>>
vars == <<params, pc, wave, w, todo, statedb, gp, pool, merging, receipts, usedGas, requests>>

Declared == [i \in Idx |-> DeclaredAddresses(txs[i])]
Group(v) == {i \in Idx : wave[i] = v}
IsFirst(i, S) == i \in S /\ \A k \in S : i <= k

-----------------------------------------------------------------------------
(***************************************************************************)
(* StateDB, as far as Process depends on it.  coinbase is the balance of   *)
(* the coinbase account; acct[Coinbase] is the rest of it.  logs[i] is the *)
(* index of the first log of transaction i.                                *)
(***************************************************************************)
NewStateDB == [acct       |-> [a \in Address |-> {}],
               coinbase   |-> CoinbaseBalance,
               logs       |-> [i \in Idx |-> None],
               logSize    |-> 0,
               dbErr      |-> FALSE,
               mergeAddrs |-> {}]

\* Accounts are deep-copied; logs, their count and the merge list start empty.
CopyForParallelTx(s) == [s EXCEPT !.logs = [i \in Idx |-> None],
                                  !.logSize = 0,
                                  !.mergeAddrs = {}]

\* What Finalise finds dirty after transaction i on s.  A fee of zero touches the
\* coinbase only if it is missing or empty; Finalise then deletes it again.
Dirties(s, i) ==
  LET emptyCoinbase == s.coinbase = 0 /\ s.acct[Coinbase] = {}
  IN  txs[i].writes \cup (IF txs[i].tip = 0 /\ ~emptyCoinbase THEN {} ELSE {Coinbase})

AddLogs(s, i) ==
  IF txs[i].logs = 0 THEN s
  ELSE [s EXCEPT !.logs[i] = s.logSize, !.logSize = @ + txs[i].logs]

\* Mutated form: Finalise resets the merge list of a reused fork.
Apply_ResetMergeList(s, i) ==
  [AddLogs(s, i) EXCEPT
     !.acct = [a \in Address |-> IF a \in txs[i].writes THEN @[a] \cup {i} ELSE @[a]],
     !.coinbase = @ + txs[i].tip,
     !.dbErr = @ \/ txs[i].fault = "db",
     !.mergeAddrs = Dirties(s, i)]

\* The state after a successful ApplyTransactionWithEVM.
Apply(s, i) ==
  [AddLogs(s, i) EXCEPT
     !.acct = [a \in Address |-> IF a \in txs[i].writes THEN @[a] \cup {i} ELSE @[a]],
     !.coinbase = @ + txs[i].tip,
     !.dbErr = @ \/ txs[i].fault = "db",
     !.mergeAddrs = @ \cup Dirties(s, i)]

\* Mutated form: every cached account of the fork is merged, touched or not.
MergeParallelChildAccounts_Untouched(s, c) ==
  [s EXCEPT !.acct = c.acct, !.coinbase = c.coinbase, !.dbErr = @ \/ c.dbErr]

\* Mutated form: the database error stays on the fork.
MergeParallelChildAccounts_DropError(s, c) ==
  [s EXCEPT
     !.acct = [a \in Address |-> IF a \in c.mergeAddrs THEN c.acct[a] ELSE @[a]],
     !.coinbase = IF Coinbase \in c.mergeAddrs THEN c.coinbase ELSE @]

\* Whole account objects replace the parent's, for the addresses on the list.
MergeParallelChildAccounts(s, c) ==
  [s EXCEPT
     !.acct = [a \in Address |-> IF a \in c.mergeAddrs THEN c.acct[a] ELSE @[a]],
     !.coinbase = IF Coinbase \in c.mergeAddrs THEN c.coinbase ELSE @,
     !.dbErr = @ \/ c.dbErr]

\* Mutated form: the copies keep the indices they had on the fork.
MergeParallelChildLogs_KeepIndex(s, c, i) ==
  IF c.logs[i] = None THEN s
  ELSE [s EXCEPT !.logs[i] = c.logs[i], !.logSize = @ + txs[i].logs]

\* The copies made for the parent get new indices.
MergeParallelChildLogs(s, c, i) ==
  IF c.logs[i] = None THEN s
  ELSE [s EXCEPT !.logs[i] = s.logSize, !.logSize = @ + txs[i].logs]

\* The receipt of i when it is executed on s: its own gas as the cumulative
\* one, the indices of the logs of s, and (in no field of the code) what the
\* transaction saw of the accounts it declares.
MakeReceipt(s, i) ==
  [gasUsed |-> txs[i].used,
   cumulativeGasUsed |-> txs[i].used,
   firstLog |-> AddLogs(s, i).logs[i],
   view |-> [a \in Address |-> IF a \in Declared[i] THEN s.acct[a] ELSE {}]]

\* Errors of TransactionToMessage and of the checks before SubGas.
FailsEarly(i) == txs[i].from = NoSender \/ txs[i].fault = "early"
FailsLate(i) == txs[i].fault = "late"

-----------------------------------------------------------------------------
Init == /\ ParallelTxGroupingByStorageOverlap \in BOOLEAN
        /\ ParallelTxWaveExecution \in ExecutionFlags
        /\ txs \in [Idx -> Txs]
        /\ pc = "group"
        /\ wave = [i \in Idx |-> 0] /\ w = 0 /\ todo = {}
        /\ statedb = NewStateDB
        /\ gp = GasLimit
        /\ jobs = {}
        /\ wpc = [k \in Workers |-> "off"]
        /\ cur = [k \in Workers |-> None]
        /\ fork = [k \in Workers |-> NewStateDB]
        /\ txForks = [i \in Idx |-> None]
        /\ firstErr = None
        /\ mergedForks = {} /\ coinbaseBase = 0 /\ coinbaseFinal = 0
        /\ receipts = [i \in Idx |-> None]
        /\ usedGas = 0 /\ requests = None

\* Mutated form: groups are pairwise disjoint but the block order is not kept.
BuildGroups_DisjointOnly ==
  /\ pc = "group"
  /\ wave' \in [Idx -> 1 .. N]
  /\ \A i, k \in Idx : i # k /\ wave'[i] = wave'[k] => ~Conflict(Declared, i, k)
  /\ \A i \in Idx : wave'[i] > 1 => \E k \in Idx : wave'[k] = wave'[i] - 1
  /\ pc' = "wave" /\ w' = 1
  /\ UNCHANGED <<params, todo, statedb, gp, pool, merging, receipts, usedGas, requests>>

\* The groups BuildTransactionStorageParallelGroups returns: with the flag off
\* one per transaction, else the schedule that WaveGrouping shows it computes.
BuildGroups ==
  /\ pc = "group"
  /\ IF ~ParallelTxGroupingByStorageOverlap
       THEN wave' = [i \in Idx |-> i + 1] /\ pc' = "wave" /\ w' = 1
       ELSE IF \E i \in Idx : txs[i].from = NoSender
              THEN pc' = "err" /\ UNCHANGED <<wave, w>>
              ELSE /\ wave' \in [Idx -> 1 .. N]
                   /\ Schedule(Declared, wave')
                   /\ pc' = "wave" /\ w' = 1
  /\ UNCHANGED <<params, todo, statedb, gp, pool, merging, receipts, usedGas, requests>>

\* A small wave, or any wave when parallel execution is off, runs in place.
IsDirect(v) == \/ Cardinality(Group(v)) <= ParallelTxDirectExecutionMaxWaveSize
               \/ ~ParallelTxWaveExecution

StartDirect ==
  /\ pc = "wave" /\ Group(w) # {} /\ IsDirect(w)
  /\ todo' = Group(w)
  /\ pc' = "direct"
  /\ UNCHANGED <<params, wave, w, statedb, gp, pool, merging, receipts, usedGas, requests>>

\* The job channel is filled in ascending order and closed before the workers
\* start, and no more workers start than there are jobs.
StartParallel ==
  /\ pc = "wave" /\ Group(w) # {} /\ ~IsDirect(w)
  /\ jobs' = Group(w)
  /\ wpc' = [k \in Workers |-> IF k <= Cardinality(Group(w)) THEN "start" ELSE "off"]
  /\ cur' = [k \in Workers |-> None]
  /\ fork' = [k \in Workers |-> NewStateDB]
  /\ txForks' = [i \in Idx |-> None]
  /\ firstErr' = None
  /\ mergedForks' = {}
  /\ coinbaseBase' = statedb.coinbase
  /\ coinbaseFinal' = statedb.coinbase
  /\ pc' = "parallel"
  /\ UNCHANGED <<params, wave, w, todo, statedb, gp, receipts, usedGas, requests>>

-----------------------------------------------------------------------------
(***************************************************************************)
(* In place: the transactions of the wave in ascending order, the first    *)
(* error ends Process.  Nothing else runs, so a transaction is one step.   *)
(***************************************************************************)
\* An error before SubGas or of SubGas leaves the pool alone; one after it, such
\* as a limit below the intrinsic gas, has taken the whole limit.
DirectFail ==
  /\ pc = "direct"
  /\ \E i \in todo :
       /\ IsFirst(i, todo)
       /\ \/ (FailsEarly(i) \/ gp < txs[i].gas) /\ UNCHANGED gp
          \/ ~FailsEarly(i) /\ txs[i].gas <= gp /\ FailsLate(i) /\ gp' = gp - txs[i].gas
  /\ pc' = "err"
  /\ UNCHANGED <<params, wave, w, todo, statedb, pool, merging, receipts, usedGas, requests>>

\* Mutated form: gas is taken from the pool without looking at what is left.
DirectApply_PoolUnchecked ==
  /\ pc = "direct"
  /\ \E i \in todo :
       /\ IsFirst(i, todo)
       /\ ~(FailsEarly(i) \/ FailsLate(i))
       /\ statedb' = Apply(statedb, i)
       /\ receipts' = [receipts EXCEPT ![i] = MakeReceipt(statedb, i)]
       /\ gp' = gp - txs[i].used
       /\ todo' = todo \ {i}
  /\ UNCHANGED <<params, pc, wave, w, pool, merging, usedGas, requests>>

DirectApply ==
  /\ pc = "direct"
  /\ \E i \in todo :
       /\ IsFirst(i, todo)
       /\ ~(FailsEarly(i) \/ gp < txs[i].gas \/ FailsLate(i))
       /\ statedb' = Apply(statedb, i)
       /\ receipts' = [receipts EXCEPT ![i] = MakeReceipt(statedb, i)]
       /\ gp' = gp - txs[i].used
       /\ todo' = todo \ {i}
  /\ UNCHANGED <<params, pc, wave, w, pool, merging, usedGas, requests>>

DirectDone ==
  /\ pc = "direct" /\ todo = {}
  /\ w' = w + 1
  /\ pc' = "wave"
  /\ UNCHANGED <<params, wave, todo, statedb, gp, pool, merging, receipts, usedGas, requests>>

-----------------------------------------------------------------------------
(***************************************************************************)
(* The goroutines of a parallel wave.  They share the job channel, the gas *)
(* pool, firstErr (under errMu) and, at distinct indices, receipts and     *)
(* txForks; each step touches the shared state at most once.               *)
(***************************************************************************)
shared == <<params, pc, wave, w, todo, statedb, merging, usedGas, requests>>

WorkerFork(k) ==
  /\ pc = "parallel" /\ wpc[k] = "start"
  /\ fork' = [fork EXCEPT ![k] = CopyForParallelTx(statedb)]
  /\ wpc' = [wpc EXCEPT ![k] = "idle"]
  /\ UNCHANGED <<shared, gp, jobs, cur, txForks, firstErr, receipts>>

WorkerTake(k) ==
  /\ pc = "parallel" /\ wpc[k] = "idle"
  /\ \E i \in jobs : /\ IsFirst(i, jobs)
                     /\ jobs' = jobs \ {i}
                     /\ cur' = [cur EXCEPT ![k] = i]
  /\ wpc' = [wpc EXCEPT ![k] = "check"]
  /\ UNCHANGED <<shared, gp, fork, txForks, firstErr, receipts>>

\* The channel is closed and drained.
WorkerDrained(k) ==
  /\ pc = "parallel" /\ wpc[k] = "idle" /\ jobs = {}
  /\ wpc' = [wpc EXCEPT ![k] = "exit"]
  /\ UNCHANGED <<shared, gp, jobs, cur, fork, txForks, firstErr, receipts>>

\* preCheck and buyGas pass: SubGas takes the whole gas limit of the message.
WorkerBuyGas(k) ==
  /\ pc = "parallel" /\ wpc[k] = "check"
  /\ ~FailsEarly(cur[k]) /\ txs[cur[k]].gas <= gp
  /\ gp' = gp - txs[cur[k]].gas
  /\ wpc' = [wpc EXCEPT ![k] = "bought"]
  /\ UNCHANGED <<shared, jobs, cur, fork, txForks, firstErr, receipts>>

\* Mutated form: after an error the worker tries the same transaction again.
WorkerFail_Retry(k) ==
  /\ pc = "parallel"
  /\ \/ wpc[k] = "check" /\ (FailsEarly(cur[k]) \/ gp < txs[cur[k]].gas)
     \/ wpc[k] = "bought" /\ FailsLate(cur[k])
  /\ firstErr' = IF firstErr = None THEN cur[k] ELSE firstErr
  /\ UNCHANGED <<shared, gp, wpc, jobs, cur, fork, txForks, receipts>>

\* An error before or after SubGas, or of SubGas.  Gas already taken from the
\* pool is not put back, and the worker takes no other job.
WorkerFail(k) ==
  /\ pc = "parallel"
  /\ \/ wpc[k] = "check" /\ (FailsEarly(cur[k]) \/ gp < txs[cur[k]].gas)
     \/ wpc[k] = "bought" /\ FailsLate(cur[k])
  /\ firstErr' = IF firstErr = None THEN cur[k] ELSE firstErr
  /\ wpc' = [wpc EXCEPT ![k] = "exit"]
  /\ UNCHANGED <<shared, gp, jobs, cur, fork, txForks, receipts>>

\* Mutated form: returnGas puts the whole limit back.
WorkerApply_ReturnLimit(k) ==
  /\ pc = "parallel" /\ wpc[k] = "bought" /\ ~FailsLate(cur[k])
  /\ fork' = [fork EXCEPT ![k] = Apply(fork[k], cur[k])]
  /\ gp' = gp + txs[cur[k]].gas
  /\ receipts' = [receipts EXCEPT ![cur[k]] = MakeReceipt(fork[k], cur[k])]
  /\ txForks' = [txForks EXCEPT ![cur[k]] = k]
  /\ wpc' = [wpc EXCEPT ![k] = "idle"]
  /\ UNCHANGED <<shared, jobs, cur, firstErr>>

\* The message runs on the worker's fork and returns the gas it did not use.
WorkerApply(k) ==
  /\ pc = "parallel" /\ wpc[k] = "bought" /\ ~FailsLate(cur[k])
  /\ fork' = [fork EXCEPT ![k] = Apply(fork[k], cur[k])]
  /\ gp' = gp + (txs[cur[k]].gas - txs[cur[k]].used)
  /\ receipts' = [receipts EXCEPT ![cur[k]] = MakeReceipt(fork[k], cur[k])]
  /\ txForks' = [txForks EXCEPT ![cur[k]] = k]
  /\ wpc' = [wpc EXCEPT ![k] = "idle"]
  /\ UNCHANGED <<shared, jobs, cur, firstErr>>

Worker(k) == \/ WorkerFork(k) \/ WorkerTake(k) \/ WorkerDrained(k)
             \/ WorkerBuyGas(k) \/ WorkerFail(k) \/ WorkerApply(k)

\* Mutated form: firstErr is not looked at before the merge.
Wait_IgnoreError ==
  /\ pc = "parallel"
  /\ \A k \in Workers : wpc[k] \in {"exit", "off"}
  /\ pc' = "accounts"
  /\ todo' = Group(w)
  /\ UNCHANGED <<params, wave, w, statedb, gp, pool, merging, receipts, usedGas, requests>>

\* wg.Wait returns.
Wait ==
  /\ pc = "parallel"
  /\ \A k \in Workers : wpc[k] \in {"exit", "off"}
  /\ pc' = IF firstErr = None THEN "accounts" ELSE "err"
  /\ todo' = Group(w)
  /\ UNCHANGED <<params, wave, w, statedb, gp, pool, merging, receipts, usedGas, requests>>

-----------------------------------------------------------------------------
(***************************************************************************)
(* The merge: the accounts of each fork once, in the order of the first    *)
(* transaction each one ran; then the logs of each transaction; then the   *)
(* coinbase balance, base plus the deltas of the forks.                    *)
(***************************************************************************)
MergeAccounts ==
  /\ pc = "accounts"
  /\ \E i \in todo :
       /\ IsFirst(i, todo)
       /\ LET k == txForks[i] IN
            IF k \in mergedForks THEN UNCHANGED <<statedb, mergedForks, coinbaseFinal>>
            ELSE /\ mergedForks' = mergedForks \cup {k}
                 /\ coinbaseFinal' = coinbaseFinal + (fork[k].coinbase - coinbaseBase)
                 /\ statedb' = MergeParallelChildAccounts(statedb, fork[k])
       /\ todo' = todo \ {i}
  /\ UNCHANGED <<params, pc, wave, w, gp, pool, coinbaseBase, receipts, usedGas, requests>>

AccountsMerged ==
  /\ pc = "accounts" /\ todo = {}
  /\ todo' = Group(w)
  /\ pc' = "logs"
  /\ UNCHANGED <<params, wave, w, statedb, gp, pool, merging, receipts, usedGas, requests>>

MergeLogs ==
  /\ pc = "logs"
  /\ \E i \in todo :
       /\ IsFirst(i, todo)
       /\ statedb' = MergeParallelChildLogs(statedb, fork[txForks[i]], i)
       /\ todo' = todo \ {i}
  /\ UNCHANGED <<params, pc, wave, w, gp, pool, merging, receipts, usedGas, requests>>

\* Mutated form: the coinbase keeps the balance of the fork merged last.
SettleCoinbase_LastFork ==
  /\ pc = "logs" /\ todo = {}
  /\ pc' = IF statedb.dbErr THEN "err" ELSE "wave"
  /\ w' = w + 1
  /\ UNCHANGED <<params, wave, todo, statedb, gp, pool, merging, receipts, usedGas, requests>>

\* SetBalance of the coinbase, then the database error of the merged state.
SettleCoinbase ==
  /\ pc = "logs" /\ todo = {}
  /\ statedb' = [statedb EXCEPT !.coinbase = coinbaseFinal]
  /\ pc' = IF statedb.dbErr THEN "err" ELSE "wave"
  /\ w' = w + 1
  /\ UNCHANGED <<params, wave, todo, gp, pool, merging, receipts, usedGas, requests>>

-----------------------------------------------------------------------------
\* After the last wave: cumulative gas, recomputed in block order.
StartNormalize ==
  /\ pc = "wave" /\ Group(w) = {}
  /\ todo' = Idx
  /\ pc' = "normalize"
  /\ UNCHANGED <<params, wave, w, statedb, gp, pool, merging, receipts, usedGas, requests>>

\* Mutated form: the receipt is written before its own gas is added.
normalizeReceiptCumulativeGas_Before ==
  /\ pc = "normalize"
  /\ \E i \in todo :
       /\ IsFirst(i, todo)
       /\ usedGas' = usedGas + receipts[i].gasUsed
       /\ receipts' = [receipts EXCEPT ![i].cumulativeGasUsed = usedGas]
       /\ todo' = todo \ {i}
  /\ UNCHANGED <<params, pc, wave, w, statedb, gp, pool, merging, requests>>

normalizeReceiptCumulativeGas ==
  /\ pc = "normalize"
  /\ \E i \in todo :
       /\ IsFirst(i, todo)
       /\ usedGas' = usedGas + receipts[i].gasUsed
       /\ receipts' = [receipts EXCEPT ![i].cumulativeGasUsed = usedGas']
       /\ todo' = todo \ {i}
  /\ UNCHANGED <<params, pc, wave, w, statedb, gp, pool, merging, requests>>

DepositsFail == \E i \in Idx : txs[i].fault = "request"

\* Mutated form: the error of ParseDepositLogs is dropped.
Finish_IgnoreRequests ==
  /\ pc = "normalize" /\ todo = {}
  /\ \E isPrague, queueFails \in BOOLEAN :
       requests' = IF ~isPrague THEN None ELSE IF queueFails THEN "queue" ELSE "read"
  /\ pc' = IF requests' = "queue" THEN "err" ELSE "ok"
  /\ UNCHANGED <<params, wave, w, todo, statedb, gp, pool, merging, receipts, usedGas>>

\* From Prague on the requests are read: from the logs, in block order, then by
\* the system calls to the withdrawal and the consolidation queue, which fail or
\* not depending on those contracts.  The engine's Finalize follows.
Finish ==
  /\ pc = "normalize" /\ todo = {}
  /\ \E isPrague, queueFails \in BOOLEAN :
       requests' = IF ~isPrague THEN None
                   ELSE IF DepositsFail THEN "deposit"
                   ELSE IF queueFails THEN "queue" ELSE "read"
  /\ pc' = IF requests' \in {"deposit", "queue"} THEN "err" ELSE "ok"
  /\ UNCHANGED <<params, wave, w, todo, statedb, gp, pool, merging, receipts, usedGas>>

Returned == pc \in {"ok", "err"} /\ UNCHANGED vars

Main == \/ BuildGroups \/ StartDirect \/ DirectFail \/ DirectApply \/ DirectDone
        \/ StartParallel \/ Wait \/ MergeAccounts \/ AccountsMerged \/ MergeLogs
        \/ SettleCoinbase \/ StartNormalize \/ normalizeReceiptCumulativeGas
        \/ Finish \/ Returned

Next == Main \/ \E k \in Workers : Worker(k)

\* The Go scheduler runs every goroutine that can run.
Spec == Init /\ [][Next]_vars /\ WF_vars(Main) /\ \A k \in Workers : WF_vars(Worker(k))

-----------------------------------------------------------------------------
StateDBs == [acct : [Address -> SUBSET Idx], coinbase : Int,
             logs : [Idx -> Nat \cup {None}], logSize : Nat,
             dbErr : BOOLEAN, mergeAddrs : SUBSET Address]

\* Types; gp \in Nat says that the shared pool is never overdrawn and w <= N + 1
\* that the wave loop stops behind the last wave.
TypeOK ==
  /\ ParallelTxGroupingByStorageOverlap \in BOOLEAN
  /\ ParallelTxWaveExecution \in BOOLEAN
  /\ txs \in [Idx -> Txs]
  /\ pc \in {"group", "wave", "direct", "parallel", "accounts", "logs",
             "normalize", "ok", "err"}
  /\ wave \in [Idx -> 0 .. N]
  /\ w \in 0 .. N + 1
  /\ todo \subseteq Idx
  /\ statedb \in StateDBs
  /\ gp \in Nat
  /\ jobs \subseteq Idx
  /\ wpc \in [Workers -> {"off", "start", "idle", "check", "bought", "exit"}]
  /\ cur \in [Workers -> Idx \cup {None}]
  /\ fork \in [Workers -> StateDBs]
  /\ txForks \in [Idx -> Workers \cup {None}]
  /\ firstErr \in Idx \cup {None}
  /\ mergedForks \subseteq Workers
  /\ coinbaseBase \in Int
  /\ coinbaseFinal \in Int
  /\ receipts \in [Idx -> Receipts \cup {None}]
  /\ usedGas \in Nat
  /\ requests \in {None, "read", "deposit", "queue"}

HasRun(i) == receipts[i] # None

\* Process implements the abstract specification: the receipts tell which
\* transactions have run and what they saw.
CO == INSTANCE ConflictOrder WITH
        declared <- Declared,
        writes   <- [i \in Idx |-> txs[i].writes],
        executed <- {i \in Idx : HasRun(i)},
        view     <- [i \in Idx |-> IF HasRun(i) THEN receipts[i].view
                                   ELSE [a \in Address |-> {}]]

(***************************************************************************)
(* Process, its waves, workers, reused forks and merges included, only     *)
(* ever runs a transaction after the earlier ones it conflicts with, and   *)
(* on a state that holds exactly the effects of what ran before.           *)
(***************************************************************************)
ImplementsConflictOrder == CO!Spec

(***************************************************************************)
(* Every transaction that was executed, in place or on a fork that other   *)
(* transactions used before it, saw in each account it declares what       *)
(* sequential execution of the block would have shown it.                  *)
(***************************************************************************)
ReadsMatchBlockOrder ==
  \A i \in Idx : HasRun(i) =>
    \A a \in Declared[i] : receipts[i].view[a] = {k \in Idx : k < i /\ a \in txs[k].writes}

(***************************************************************************)
(* The accounts Process leaves behind are the sequential ones: each holds  *)
(* the effects of all the transactions that change it; no fork's merge     *)
(* overwrote another's.                                                    *)
(***************************************************************************)
FinalAccountsMatchBlockOrder ==
  pc = "ok" => \A a \in Address : statedb.acct[a] = {k \in Idx : a \in txs[k].writes}

(***************************************************************************)
(* The coinbase, which every fork changes, received every fee once: the    *)
(* deltas of the forks add up across reused forks and successive waves.    *)
(***************************************************************************)
CoinbaseReceivesEveryFee ==
  pc = "ok" =>
    statedb.coinbase = CoinbaseBalance + SumBelow([i \in Idx |-> txs[i].tip], N)

(***************************************************************************)
(* When the merge starts, every transaction of the wave has a receipt and  *)
(* a fork: the nil checks the merge loops do not make are not needed.      *)
(***************************************************************************)
MergeFindsEveryFork ==
  pc \in {"accounts", "logs"} => \A i \in Group(w) : HasRun(i) /\ txForks[i] # None

\* Gas the workers have taken from the pool for messages still executing.
Reserved(i) == IF \E k \in Workers : wpc[k] = "bought" /\ cur[k] = i THEN txs[i].gas ELSE 0
Spent(i) == IF HasRun(i) THEN txs[i].used ELSE 0

\* Messages that may have failed after they took their gas from the pool.
FailedLate ==
  {i \in Idx : /\ FailsLate(i)
              /\ \/ pc = "err" /\ IsFirst(i, todo)
                 \/ \E k \in Workers : wpc[k] = "exit" /\ cur[k] = i}

(***************************************************************************)
(* No gas is created or lost while the workers share the pool: what is in  *)
(* it, what running messages hold and what finished ones used add up to    *)
(* the block's gas limit.  Nothing puts back what a message took that then *)
(* failed, in place or on a worker: when the sum falls short, it does so   *)
(* by the limits of such messages and by nothing else.                     *)
(***************************************************************************)
GasAccounted ==
  \E S \in SUBSET FailedLate :
    gp + SumBelow([i \in Idx |-> Reserved(i) + Spent(i) + IF i \in S THEN txs[i].gas ELSE 0], N)
      = GasLimit

(***************************************************************************)
(* The gas figures of the result do not depend on the order of execution:  *)
(* cumulative gas follows block order and the total is what left the pool. *)
(***************************************************************************)
GasFiguresFollowBlockOrder ==
  pc = "ok" =>
    /\ \A i \in Idx : receipts[i].cumulativeGasUsed
                        = SumBelow([k \in Idx |-> txs[k].used], i + 1)
    /\ usedGas = GasLimit - gp

(***************************************************************************)
(* Between waves the logs kept in the StateDB have distinct indices that   *)
(* leave no gap below logSize, although forks number theirs from zero.     *)
(***************************************************************************)
StateLogIndicesDense ==
  pc \in {"wave", "ok"} =>
    LET At(i) == statedb.logs[i] .. statedb.logs[i] + txs[i].logs - 1
        Logged == {i \in Idx : statedb.logs[i] # None}
    IN  /\ Logged = {i \in Idx : HasRun(i) /\ txs[i].logs > 0}
        /\ \A i, k \in Logged : i # k => At(i) \cap At(k) = {}
        /\ UNION {At(i) : i \in Logged} = 0 .. statedb.logSize - 1

(***************************************************************************)
(* A database failure met on a fork is not lost in the merge: if the block *)
(* is not refused, the StateDB still carries the error to Commit.          *)
(***************************************************************************)
DatabaseErrorSurvives ==
  pc = "ok" /\ (\E i \in Idx : txs[i].fault = "db") => statedb.dbErr

\* A message that every state refuses, or whose logs make the requests fail.
Bad(i) == \/ txs[i].from = NoSender \/ txs[i].fault \in {"early", "late"}
          \/ requests # None /\ txs[i].fault = "request"

(***************************************************************************)
(* The verdict on a block does not depend on the schedule when its gas     *)
(* limits fit in the block together: a block with a bad transaction is     *)
(* always refused, and one is refused only for a bad transaction, a        *)
(* database failure or a queue contract that fails at the end.             *)
(***************************************************************************)
VerdictDeterminedWithAmpleGas ==
  /\ pc = "ok" => \A i \in Idx : ~Bad(i)
  /\ pc = "err" /\ SumBelow([i \in Idx |-> txs[i].gas], N) <= GasLimit
       => requests = "queue" \/ \E i \in Idx : Bad(i) \/ txs[i].fault = "db"

(***************************************************************************)
(* Process returns: no worker is left waiting on the channel, and Wait     *)
(* returns also when workers stopped at errors and left jobs behind.       *)
(***************************************************************************)
Terminates == <>(pc \in {"ok", "err"})

-----------------------------------------------------------------------------
(***************************************************************************)
(* Statements of the repository's comments that the code does not keep.    *)
(***************************************************************************)
\* What sequential execution of the block decides.
ValidInBlockOrder ==
  /\ requests # "queue"
  /\ \A i \in Idx :
       /\ ~Bad(i) /\ txs[i].fault # "db"
       /\ txs[i].gas <= GasLimit - SumBelow([k \in Idx |-> txs[k].used], i)

(***************************************************************************)
(* "An error always indicates a core error meaning that the message would  *)
(* always fail for that particular state and would never be accepted       *)
(* within a block" (core/state_transition.go:205): a block that sequential *)
(* execution accepts is not refused.                                       *)
(***************************************************************************)
ValidBlockNotRefused == ValidInBlockOrder => pc # "err"

(***************************************************************************)
(* "When false, txs in a wave still run strictly in ascending index order  *)
(* on the shared EVM -- consensus-compatible with sequential Ethereum      *)
(* execution" (core/parallel_flags.go:28): with ParallelTxWaveExecution    *)
(* off, a block is accepted only if sequential execution accepts it.       *)
(***************************************************************************)
AcceptedOnlyIfValid ==
  pc = "ok" /\ ~ParallelTxWaveExecution => ValidInBlockOrder \/ statedb.dbErr

(***************************************************************************)
(* "logs in ascending tx index for canonical indices"                      *)
(* (core/state_processor.go:261) and "index of the log in the block"       *)
(* (core/types/log.go:50): the logs of the receipts, which Process         *)
(* returns, are numbered in block order.                                   *)
(***************************************************************************)
ReceiptLogsNumberedInBlockOrder ==
  pc = "ok" => \A i \in Idx : txs[i].logs > 0 =>
    receipts[i].firstLog = SumBelow([k \in Idx |-> txs[k].logs], i)
=============================================================================
