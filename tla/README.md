# Verification of parallel transaction execution

This directory holds TLA+ models of the parallel block processor of this geth
fork: the packing of a block's transactions into waves, their execution on forks
of the state database, the merge of the forks, and the parts both rest on (the
state database with its journal, the shared gas pool, the block hash closure).
TLC checks the models on small instances. TLAPS proves the central properties
for every block, every number of workers and every schedule.

## The system

A block is executed by `StateProcessor.Process`.

1. `BuildTransactionStorageParallelGroups` packs the transactions into *waves*.
   Two transactions conflict when the addresses they declare (sender, recipient,
   access lists) overlap. The transactions of a wave do not conflict.
2. The waves run one after the other. A small wave runs *directly*, on the live
   `StateDB`. A larger one runs on a pool of worker goroutines: each worker makes
   one fork of the `StateDB`, takes transactions from a channel and executes them
   on its fork. All workers share the gas pool and the block context.
3. When all workers have returned, the accounts each fork changed replace those
   of the live `StateDB`, logs are copied in block order, and the coinbase balance
   is set to its old value plus the difference each fork made.
4. After the last wave cumulative gas is recomputed in block order, requests are
   read from the logs, and the consensus engine finalizes the block.

### Inventory

| part | state | operations | what is hard |
|---|---|---|---|
| wave grouping | unassigned indices, open group, its addresses | seed, scan, close | causality with transactions that were passed over; termination |
| block processor | wave, job channel, forks, receipts, first error | start a wave, fork, take a job, buy gas, run, fail, wait, merge, settle, normalise | interleavings of workers, partial failure, order-dependent totals, reuse of dirty forks |
| gas pool | one atomic counter | `SubGas`, `AddGas` | lost updates, overflow panic, retry loops |
| state database | object cache, journal, revisions, mutations, destruct set, trie | balance, nonce, code, storage, create, destruct, snapshot, revert, finalise, commit | three storage caches, nested reverts, destruction and re-creation |
| fork and merge | the caches of parent and forks | `CopyForParallelTx`, `MergeParallelChildAccounts` | whole-account merge, destruct markers, mutations already applied |
| transaction-scoped state | access list, transient storage, logs | add, set, log, revert | the access list panics when undone in the wrong order |
| block hashes | cache of ancestor hashes | lookup, walk | shared by all workers without a lock |

`PROJECT.json` lists the remaining packages, with the reason each is left out,
and the hazards with their source lines.

## Modules

| module | models | kind |
|---|---|---|
| `WaveSchedule` | transactions as the scheduler sees them; the contract of a schedule | vocabulary |
| `WaveGrouping` | `core/parallel_processor.go` | component |
| `StateProcessor` | `core/state_processor.go`, order of `core/state_transition.go` | component |
| `ConflictOrder` | execution that keeps the order of conflicting transactions | abstract specification |
| `GasPool` | `core/gaspool.go` and its callers | component |
| `AtomicGasPool` | the pool with atomic operations | abstract specification |
| `StateObjects` | operators of `core/state/statedb.go`, `state_object.go`, `journal.go` | operators |
| `StateDB` | one `StateDB` under the calls of the EVM, from opening to commit | component |
| `PlainState` | accounts without caches or journal | abstract specification |
| `ForkMerge` | parent and forks on the real caches, beside a sequential twin | composition |
| `TxScratch` | `access_list.go`, `transient_storage.go`, logs, their journal entries | component |
| `GetHash` | `GetHashFn` in `core/evm.go` | component |

`MC*` modules give the constants values. `*Proofs` modules hold the theorems, and `StateProcessorInvariant` and
`StateProcessorWorkers` the lemmas of one of them.
Operators whose name ends in `_Something` and whose comment starts with
*Mutated form* are deliberately wrong variants of the definition after them.
They are used by no specification. Replacing the definition by one of them breaks
a property, which shows that the property depends on that piece of the code.

### How the modules compose

The processor is too large for one model at the level of account caches, so it
is cut along contracts.

* `WaveSchedule!Schedule` is the contract of a schedule: conflicting transactions
  keep block order in different waves, and none waits needlessly. `WaveGrouping`
  is proved to meet it. `StateProcessor` runs any schedule that meets it. The two
  conditions determine the wave of every transaction, so nothing is lost.
* `StateProcessor` uses the atomic gas pool. `GasPool` is proved to implement it.
* `StateProcessor` abstracts an account to the set of transactions whose effect it
  holds, and a merge to taking those sets from the fork. `ForkMerge` checks on the
  real caches that the merged accounts, and the state committed from them, are
  those of sequential execution.
* `StateDB` shows that caches and journal do not show: to its caller a `StateDB` is
  `PlainState`.

### Correspondence with the code

*`WaveGrouping`*: one action per loop of the function. `Seed` opens a group at the
smallest unassigned index, `Scan` is one iteration of the inner loop, `Close`
appends the group. The variables are the locals of the function. Slices whose
order is that of their elements are sets.

*`StateProcessor`*: `pc` is the place of `Process`, `wpc[k]` that of worker `k`. A
worker's step touches shared state at most once: fork, receive from the channel,
`SubGas`, the rest of the message with `AddGas`. The loops of the merge take one
transaction per step. A transaction has a gas limit, the gas it uses, the
accounts it changes, what it pays the coinbase, a number of logs, and a fault:
an error before or after `SubGas`, a failed database read, or a log that makes
the requests fail. A message that fails after `SubGas` leaves its gas deducted.
`requests` is `nil` (`None`) before Prague, and then says which step of reading the
requests failed, if any: the deposit logs of the block, or a system call to one of
the queues, which may always fail. The field `view` of a receipt has no counterpart in the code. It
records what the transaction saw of the accounts it declares.

*`GasPool`*: the load and the compare-and-swap of `SubGas` and `AddGas` are
separate steps. A client buys gas for a message, fails or executes, and returns
the rest. A message whose limit is below what it must use at least, a limit of 0
included, always fails after it has bought its gas.

*`StateObjects`*: a `StateDB` is a record with the fields of the struct that matter:
objects, destruct set, mutations with their `applied` flag, journal entries and
dirty counts, revisions, refund, trie, reader and the merge list. An object has
balance, nonce, code, the origin account, the four storage maps (origin, dirty,
pending, uncommitted), and the `newContract` and `selfDestructed` flags. The trie is
its content. Code is 0 (none), 1 (a contract) or 2 (a delegation). `SetCode` of the
code journals the code as far as it was loaded; its callers have read it before, so
the model journals the code itself. Values of TLA+ cannot alias: that the copies of
`CopyForParallelTx` are deep is assumed, not checked.

*`StateDB`*: one action per exported call that the EVM and the state transition
make, guarded by what their callers check. `frames` are the open call frames.

*`ForkMerge`*: `Fork`, `RunOnFork`, `RunDirect`, `Merge` are the phases of a wave.
`twin` executes every transaction at the same time on an unforked `StateDB`. Each
transaction pays a fee, which may be zero, to a coinbase that no transaction
declares. `Merge` ends with the `SetBalance` of the coinbase, whose journal entry
stays open on the parent as in the code. It can leave an empty coinbase in the live
set, where sequential execution has deleted it, until the next `Finalise`; `Shown`
takes the two as equal for the coinbase, and for no other account.

*`TxScratch`*: the access list with its index from address to position in the
slice of slot maps, so that the positions and the panics of the code can go wrong.

*`GetHash`*: a step is one statement of the closure with its access to the shared
cache; the last known hash and its number are two. The Go memory model allows more (torn slice headers), so the model shows
a subset of the races.

## Runs

| run | instance | shows |
|---|---|---|
| `grouping` | blocks of 4 over 3 addresses, with creations, access lists, bad signatures | the schedule is total, causal and tight, and the loops end |
| `blocks` | 4 transactions of 8 kinds, one per way of failing, 3 workers, waves larger than 1 in parallel | reads, final accounts, fees and gas figures are those of block order, the logs in the `StateDB` have distinct indices without a gap (in wave order, not in block order); no nil fork in the merge, gas accounted for, errors not lost, verdict independent of the schedule when gas is ample, termination |
| `gaspool` | 3 clients, counter of width 6, limit 6, messages of limit 0, 2 and 3 | conservation, no panic, linearizability, termination |
| `statedb` | an ordinary account or precompile 3 (`Scopes`), 1 slot with 3 values, 2 transactions, 2 nested snapshots, up to 3 journal entries, before and after Cancun | caches and journal invisible (but for the sticky touch of the precompile), trie equals flat state, commit cannot fail |
| `forkmerge` | 2 accounts and the coinbase, 2 forks, 3 transactions in one to three waves, fees of 0 and 1 | merged caches and committed state equal the sequential ones, the coinbase included, forks are isolated |
| `scratch` | 2 addresses, 2 slots, 3 journal entries, 2 snapshots, 2 transactions | reverts restore everything, panics unreachable, log indices dense |
| `gethash` | 1 goroutine, 3 calls, block 5, headers from 2 | the hash corresponds to the height, the cache is the ancestor chain, the walk ends |

Five runs are expected to find a violation. In each the property is what a
comment of the repository says, and the trace is a behaviour of the code. Two of
them lie outside the conditions under which `docs/parallel/stage1-results.md:47`
claims correctness: "No accesses to block.coinbase" (line 53, `coinbase_sender`)
and "Gas is not exhausted" (line 55, `shared_gas_pool`). `Process` checks neither.

| run | comment | what happens |
|---|---|---|
| `shared_gas_pool` | `state_transition.go:205` "would never be accepted within a block" | a worker holds the full gas limit of its message, the second message is refused in the meantime, the valid block with it |
| `waves_reorder` | `parallel_flags.go:28` "consensus-compatible with sequential Ethereum execution" | waves run out of block order even with parallel execution off, and the gas limit is tested in that order |
| `receipt_logs` | `state_processor.go:261` "canonical indices" | only the copies in the `StateDB` are renumbered, the receipts keep the indices of the fork |
| `coinbase_sender` | `state_processor.go:58` "processes the state changes according to the Ethereum rules" | the coinbase is a sender, and its nonce is overwritten by a fork that only paid it a fee |
| `shared_block_hashes` | `vm/evm.go:56` "the hash corresponding to n" | a worker extends the cache between the two statements with which another takes the last hash and its number, which then finds no header; or between its lookup and its walk, which then walks past the height |

### Bounds

Four transactions are enough for a wave of two or three with a conflict before
and behind it, a worker with two jobs, and a fork reused after a merge. Three
workers leave one to fail, one to succeed and one idle. Two conflicting workers
are enough for a lost update of the pool, a third for a swap lost twice. Three
transactions on one account are the shortest way to destroy, re-create and change
it, each in a wave of its own; two forks that both pay the coinbase, and a wave
before or behind them, need three as well. (With four transactions, and every
combination of pre-states, TLC finds no violation of the invariants of `ForkMerge`
in 4,929,936 states; that takes more than ten minutes and is not among the runs.)
The workers of `forkmerge` are symmetric. Two
snapshots are one inside the other. Three values of a slot are needed to change
it to something other than the origin and back. `MaxEntries`, `MaxSnapshots`,
`MaxOps`, `MaxTxs`, `MaxNonce`, `MaxBalance`, `MaxValue` and `MaxCalls` cap what the
code leaves open. All are guards.

### Fairness

Weak fairness on the main goroutine and on every worker (`StateProcessor`), every
client (`GasPool`) and every goroutine inside the closure (`GetHash`): the Go
scheduler runs each runnable goroutine, and none of the modelled steps waits for
anything but the steps of others. `WaveGrouping` is sequential code. `StateDB`,
`ForkMerge` and `TxScratch` are libraries and state no liveness.

## Proofs

| module | theorems | assumptions |
|---|---|---|
| `WaveGroupingProofs` | `TypeCorrect`, `Partition`, `CausalOrder`, `Earliest` | types of the constants |
| `ConflictOrderProofs` | `ConflictOrderSuffices` | changed accounts are declared |
| `StateProcessorProofs` | `TypeCorrect`, `MergeComplete`, `CoinbaseAlone` | the same |
| `StateProcessorProofs` | `Serializable`, `FinalState`, `Refinement` | the same, and `CoinbaseUntouched` |
| `GasPoolProofs` | `TypeCorrect`, `PanicUnreachable`, `Linearizable` | a message uses at least 1; any set of clients |
| `GetHashProofs` | `CacheChain`, `RightHash` | `OneClient` |

Two assumptions carry weight. *Changed accounts are declared* is the code's own
("Assumes access lists completely declare touched accounts",
`core/parallel_processor.go:19`). `CoinbaseUntouched` says that no transaction
declares the coinbase. The run `coinbase_sender` shows that without it
`FinalState` is false. `CoinbaseAlone` shows that the damage stays there: without
the assumption reads and final accounts are still those of block order at every
other account. Reads of the coinbase balance inside a transaction are
outside the model, as the comment at `state_processor.go:280` puts them outside the
code.

**Wave grouping.** The property about finished groups is not inductive. The
invariant adds, for the open group, that the earlier conflicting transactions of
each member are in finished groups (`OpenPredecessors`), and for each index the
scan has passed over the reason why (`PassedOver`): a conflict with an earlier
transaction that is in the open group or still pending. At the next seed that
reason becomes the witness for `Earliest`.

**Block execution.** The invariant and the steps of the main goroutine up to a
parallel wave are in `StateProcessorInvariant`, the steps of the workers in
`StateProcessorWorkers`, the rest and the theorems in `StateProcessorProofs`. Most
leaves name `Zenon`: tlapm's translation to SMT slows down with every obligation of
a module, and the first-order leaves do not need it. `IInv` says for each place of `Process` which transactions'
effects the live `StateDB` holds: those of earlier waves (`Before(w)`), while direct
waves add members one by one, and while workers run exactly `Before(w)`. A fork
holds `Before(w)` and what its worker has done (`ForkHolds`), and its merge list names
what those changed. `Exclusive` and `Covered` say that a transaction is queued, with
one worker, or done, and that none is missing unless an error was recorded. Hence
the merge finds every fork. All of this is claimed for the accounts outside
`Unclaimed`, which is the coinbase if some transaction declares it, and empty
otherwise; so one invariant serves the theorems with and without
`CoinbaseUntouched`. Since the members of a wave are disjoint, a fork and
block order agree on the declared accounts of each (`WaveView`), and merging the
forks in any order gives the union (`MergeHolds`). The refinement maps receipts to
executed transactions; every other step stutters.

**Gas pool.** `Balanced` says that pool, gas held by clients and gas burned add up to
the block limit. Since sums over an arbitrary set of clients need induction, it
states that some measure of sets of clients has the sum as its value, and each
step changes one client's share. The overflow check follows, since a client that
returns gas was executed and so used no more than its limit (`Compared`). The linearization
points are the successful swap and the load that refuses.

**Block hashes.** The walk stands at the end of the cache, above its height
(`AtEnd`). A second client breaks exactly this.

Only model-checked: termination and the other liveness properties (beyond the
prover), gas and log totals of a block (`SumBelow` needs induction over data), the
state database, fork and merge, and the transaction-scoped state.

## Not modelled

* What the system calls before and after the transactions do to the state (that the
  closing ones may fail is modelled), `engine.Finalize`, and the validation of the
  result against the header.
* Aliasing between a fork and its parent.
* The interpreter, fee and blob arithmetic, precompiles: deterministic functions
  of the state a fork shows and of the message.
* Tries, hashing, readers, prefetchers, witnesses, verkle access events, preimages.
* `StateDB.Copy`, `SetStorage` (debug interface), `SetBalance` outside the coinbase
  settlement.
* Timing records and debug output.
* Everything outside block execution: chain insertion, transaction pool, network,
  consensus engines, RPC, tools.

## Plan

Done, in this order: grouping, processor, gas pool, their proofs; state objects,
`StateDB`, fork and merge, transaction-scoped state; block hashes.

Next:

1. Prove the merge lemma on `StateObjects` (what a parent shows of an account after
   a merge), and connect it to the abstract merge of `StateProcessor`.
2. Prove the invariants of `TxScratch` and the journal invariant of `StateDB`.
3. Model the end of a block: `Finalize`, `ValidateState`, and with them
   which of the violations above end in a refused block.
4. Model block building in `miner/worker.go`, which shares `StateDB` and gas pool.
5. Model the state prefetcher and its interruption.
