------------------------------ MODULE GasPool ------------------------------
(***************************************************************************)
(* The block gas pool (core/gaspool.go) as the workers of a wave use it:   *)
(* each message takes its whole gas limit from the pool (buyGas, SubGas),  *)
(* runs, and puts back what it did not use (returnGas, AddGas).  Both      *)
(* operations load the counter, compute, and compare-and-swap, and start   *)
(* again when another client was faster.                                   *)
(***************************************************************************)
EXTENDS Integers, FiniteSetsExt

CONSTANTS Client,       \* the worker goroutines
          MaxUint64,
          GasLimit,     \* block.GasLimit(), the pool's first content
          Messages      \* records of the gas limit and the gas used of a message;
                        \* one whose limit is below what it must use is not executed

ASSUME GasPoolAssumption ==
  /\ MaxUint64 \in Nat
  /\ GasLimit \in 0 .. MaxUint64
  /\ Messages # {}
  /\ Messages \subseteq [gas : 0 .. MaxUint64, used : Nat \ {0}]  \* the intrinsic gas at least

VARIABLES v,        \* the atomic counter
          pc, msg,  \* per client: where it is, the message it executes
          old,      \* the value it loaded, 0 outside the loop
          burned    \* gas used by finished messages and held by failed ones

vars == <<v, pc, msg, old, burned>>

Init == /\ v = GasLimit
        /\ pc = [c \in Client |-> "idle"]
        /\ msg = [c \in Client |-> CHOOSE m \in Messages : TRUE]
        /\ old = [c \in Client |-> 0]
        /\ burned = 0

\* ApplyMessage reaches buyGas with its next message.
Begin(c, m) ==
  /\ pc[c] = "idle"
  /\ msg' = [msg EXCEPT ![c] = m]
  /\ pc' = [pc EXCEPT ![c] = "sub"]
  /\ UNCHANGED <<v, old, burned>>

\* No job is left for this worker.
Exit(c) ==
  /\ pc[c] = "idle"
  /\ pc' = [pc EXCEPT ![c] = "exit"]
  /\ UNCHANGED <<v, msg, old, burned>>

\* Mutated form: the pool is not checked against the amount.
SubGasLoad_Unchecked(c) ==
  /\ pc[c] = "sub"
  /\ old' = [old EXCEPT ![c] = v]
  /\ pc' = [pc EXCEPT ![c] = "subcas"]
  /\ UNCHANGED <<v, msg, burned>>

SubGasLoad(c) ==
  /\ pc[c] = "sub"
  /\ old' = [old EXCEPT ![c] = v]
  /\ pc' = [pc EXCEPT ![c] = IF v < msg[c].gas THEN "refused" ELSE "subcas"]
  /\ UNCHANGED <<v, msg, burned>>

\* Mutated form: a lost swap is taken for success.
SubGasCAS_NoRetry(c) ==
  /\ pc[c] = "subcas"
  /\ v' = IF v = old[c] THEN old[c] - msg[c].gas ELSE v
  /\ pc' = [pc EXCEPT ![c] = "bought"]
  /\ old' = [old EXCEPT ![c] = 0]
  /\ UNCHANGED <<msg, burned>>

\* Mutated form: a plain store in place of the swap.
SubGasCAS_Store(c) ==
  /\ pc[c] = "subcas"
  /\ v' = old[c] - msg[c].gas
  /\ pc' = [pc EXCEPT ![c] = "bought"]
  /\ old' = [old EXCEPT ![c] = 0]
  /\ UNCHANGED <<msg, burned>>

SubGasCAS(c) ==
  /\ pc[c] = "subcas"
  /\ IF v = old[c] THEN v' = old[c] - msg[c].gas /\ pc' = [pc EXCEPT ![c] = "bought"]
                   ELSE UNCHANGED v /\ pc' = [pc EXCEPT ![c] = "sub"]
  /\ old' = [old EXCEPT ![c] = 0]
  /\ UNCHANGED <<msg, burned>>

\* Mutated form: a refused client waits for gas to come back.
Return_WaitForGas(c) ==
  /\ pc[c] \in {"refused", "bought", "added"}
  /\ pc' = [pc EXCEPT ![c] = CASE pc[c] = "refused" -> "sub"
                               [] pc[c] = "bought"  -> "run"
                               [] pc[c] = "added"   -> "idle"]
  /\ UNCHANGED <<v, msg, old, burned>>

\* The call returns; ErrGasLimitReached ends the worker.
Return(c) ==
  /\ pc[c] \in {"refused", "bought", "added"}
  /\ pc' = [pc EXCEPT ![c] = CASE pc[c] = "refused" -> "exit"
                               [] pc[c] = "bought"  -> "run"
                               [] pc[c] = "added"   -> "idle"]
  /\ UNCHANGED <<v, msg, old, burned>>

\* A check after buyGas fails, the one of the intrinsic gas for instance: the
\* gas stays deducted and the worker ends.
Fail(c) ==
  /\ pc[c] = "run"
  /\ burned' = burned + msg[c].gas
  /\ pc' = [pc EXCEPT ![c] = "exit"]
  /\ UNCHANGED <<v, msg, old>>

\* The message passed the checks, was executed and reaches returnGas.
Executed(c) ==
  /\ pc[c] = "run" /\ msg[c].used <= msg[c].gas
  /\ pc' = [pc EXCEPT ![c] = "add"]
  /\ UNCHANGED <<v, msg, old, burned>>

Rest(c) == msg[c].gas - msg[c].used

AddGasLoad(c) ==
  /\ pc[c] = "add"
  /\ old' = [old EXCEPT ![c] = v]
  /\ pc' = [pc EXCEPT ![c] = IF v > MaxUint64 - Rest(c) THEN "panic" ELSE "addcas"]
  /\ UNCHANGED <<v, msg, burned>>

\* Mutated form: a plain store in place of the swap.
AddGasCAS_Store(c) ==
  /\ pc[c] = "addcas"
  /\ v' = old[c] + Rest(c)
  /\ burned' = burned + msg[c].used
  /\ pc' = [pc EXCEPT ![c] = "added"]
  /\ old' = [old EXCEPT ![c] = 0]
  /\ UNCHANGED msg

AddGasCAS(c) ==
  /\ pc[c] = "addcas"
  /\ IF v = old[c] THEN /\ v' = old[c] + Rest(c)
                        /\ burned' = burned + msg[c].used
                        /\ pc' = [pc EXCEPT ![c] = "added"]
                   ELSE UNCHANGED <<v, burned>> /\ pc' = [pc EXCEPT ![c] = "add"]
  /\ old' = [old EXCEPT ![c] = 0]
  /\ UNCHANGED msg

Step(c) == \/ Exit(c) \/ SubGasLoad(c) \/ SubGasCAS(c) \/ Return(c)
           \/ Fail(c) \/ Executed(c) \/ AddGasLoad(c) \/ AddGasCAS(c)
           \/ \E m \in Messages : Begin(c, m)

Stopped == (\A c \in Client : pc[c] = "exit") /\ UNCHANGED vars

Next == Stopped \/ \E c \in Client : Step(c)

Spec == Init /\ [][Next]_vars /\ \A c \in Client : WF_vars(Step(c))

-----------------------------------------------------------------------------
PCs == {"idle", "sub", "subcas", "refused", "bought", "run", "add", "addcas", "added", "panic", "exit"}

\* Types; the counter stays a uint64 without wrapping around.
TypeOK == /\ v \in 0 .. MaxUint64
          /\ pc \in [Client -> PCs]
          /\ msg \in [Client -> Messages]
          /\ old \in [Client -> 0 .. MaxUint64]
          /\ burned \in Nat

\* Gas a client has taken and neither used nor put back.
Held(c) == IF pc[c] \in {"bought", "run", "add", "addcas", "panic"} THEN msg[c].gas ELSE 0

(***************************************************************************)
(* No gas appears or disappears, however the loads and swaps of the        *)
(* clients interleave: pool, running messages and used gas add up to the   *)
(* block's limit.                                                          *)
(***************************************************************************)
GasConserved == v + MapThenSumSet(Held, Client) + burned = GasLimit

(***************************************************************************)
(* The panic of AddGas ("gas pool pushed above uint64") is unreachable,    *)
(* even in a block whose gas limit is the largest uint64.                  *)
(***************************************************************************)
NeverPanics == \A c \in Client : pc[c] # "panic"

\* The call each client is in, as a reader of the pool's interface sees it.
CallOf(c) ==
  LET Sub(r) == [op |-> "SubGas", amount |-> msg[c].gas, res |-> r]
      Add(r) == [op |-> "AddGas", amount |-> Rest(c), res |-> r]
  IN  CASE pc[c] \in {"sub", "subcas"}          -> Sub("pending")
        [] pc[c] = "refused"                    -> Sub("ErrGasLimitReached")
        [] pc[c] = "bought"                     -> Sub("ok")
        [] pc[c] \in {"add", "addcas", "panic"} -> Add("pending")
        [] pc[c] = "added"                      -> Add("ok")
        [] OTHER                                -> [op |-> "none", amount |-> 0, res |-> "none"]

(***************************************************************************)
(* The calls are linearizable: every SubGas and AddGas, retries included,  *)
(* acts like one atomic step, and SubGas fails only when the pool was      *)
(* really short at an instant within the call.                             *)
(***************************************************************************)
Atomic == INSTANCE AtomicGasPool WITH call <- [c \in Client |-> CallOf(c)]
ImplementsAtomicGasPool == Atomic!Spec

(***************************************************************************)
(* Though a client may lose its swap again and again, it loses only to one *)
(* that makes progress; messages use gas, so in the end all of them stop.  *)
(***************************************************************************)
Terminates == <>(\A c \in Client : pc[c] = "exit")
=============================================================================
