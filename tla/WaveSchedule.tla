---------------------------- MODULE WaveSchedule ----------------------------
(***************************************************************************)
(* The vocabulary of the wave scheduler of core/parallel_processor.go: the *)
(* transactions of a block as the scheduler sees them, the addresses each  *)
(* one declares, and the contract of a schedule, which is what             *)
(* BuildTransactionStorageParallelGroups promises to StateProcessor.       *)
(* WaveGrouping models the algorithm and proves that its result meets the  *)
(* contract; StateProcessor executes any schedule that meets it.           *)
(***************************************************************************)
EXTENDS Integers

CONSTANTS Address,      \* account addresses
          Nil,          \* the recipient of a contract creation (tx.To() == nil)
          NoSender,     \* what types.Sender returns for a bad signature
          N             \* number of transactions in the block

ASSUME ScheduleAssumption == /\ N \in Nat
                             /\ Nil \notin Address
                             /\ NoSender \notin Address

\* Transaction indices are Go slice indices.
Idx == 0 .. N - 1

\* A transaction, reduced to what the scheduler reads.  Only the addresses of
\* the two access lists matter to it; storage keys are dropped.
Tx == [from      : Address \cup {NoSender},
       to        : Address \cup {Nil},
       al        : SUBSET Address,
       generated : SUBSET Address]

\* Union of the protocol access list and the generated one, by address.
WaveAccessList(tx) == tx.al \cup tx.generated

\* Sender, recipient if there is one, and every access-list address.
DeclaredAddresses(tx) ==
  {tx.from} \cup ({tx.to} \ {Nil}) \cup WaveAccessList(tx)

declaredAddressSetsOverlap(a, b) == a \cap b # {}

\* Sum of f over the indices below i: the order-dependent totals of a block
\* (cumulative gas, log positions) are sums of this kind.
SumBelow(f, i) ==
  LET sum[k \in 0 .. N] == IF k = 0 THEN 0 ELSE sum[k - 1] + f[k - 1] IN sum[i]

(***************************************************************************)
(* The contract.  wave[i] is the position of the group that holds          *)
(* transaction i, counted from 1, and D[i] its declared addresses.         *)
(***************************************************************************)
Conflict(D, i, k) == declaredAddressSetsOverlap(D[i], D[k])

\* Conflicting transactions keep their block order, in different waves.
CausallyOrdered(D, wave) ==
  \A i, k \in Idx : i < k /\ Conflict(D, i, k) => wave[i] < wave[k]

\* No transaction waits without a reason: one that is not in the first wave
\* conflicts with an earlier transaction of the wave just before its own.
AsSoonAsPossible(D, wave) ==
  \A k \in Idx : wave[k] > 1 =>
    \E i \in Idx : i < k /\ Conflict(D, i, k) /\ wave[i] = wave[k] - 1

\* Together with the type of wave these determine it uniquely.
Schedule(D, wave) == CausallyOrdered(D, wave) /\ AsSoonAsPossible(D, wave)
=============================================================================
