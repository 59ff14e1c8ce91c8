--------------------------- MODULE AtomicGasPool ---------------------------
(***************************************************************************)
(* What a gas pool promises to those who share it: a call takes effect at  *)
(* one instant between its start and its return.  SubGas deducts all or    *)
(* nothing, and fails only if the pool was short at that instant.          *)
(***************************************************************************)
EXTENDS Integers

CONSTANTS Client, MaxUint64

VARIABLES v,      \* gas in the pool
          call    \* per client, the call in progress: its name, amount and result

vars == <<v, call>>

Amounts == 0 .. MaxUint64
NoCall == [op |-> "none", amount |-> 0, res |-> "none"]

Init == v \in Amounts /\ call = [c \in Client |-> NoCall]

Start(c, op, n) ==
  /\ call[c].op = "none"
  /\ call' = [call EXCEPT ![c] = [op |-> op, amount |-> n, res |-> "pending"]]
  /\ UNCHANGED v

Pending(c, op) == call[c].op = op /\ call[c].res = "pending"

SubGas(c) ==
  /\ Pending(c, "SubGas")
  /\ IF v < call[c].amount
       THEN call' = [call EXCEPT ![c].res = "ErrGasLimitReached"] /\ UNCHANGED v
       ELSE call' = [call EXCEPT ![c].res = "ok"] /\ v' = v - call[c].amount

AddGas(c) ==
  /\ Pending(c, "AddGas")
  /\ v + call[c].amount <= MaxUint64
  /\ call' = [call EXCEPT ![c].res = "ok"] /\ v' = v + call[c].amount

Return(c) ==
  /\ call[c].res \notin {"none", "pending"}
  /\ call' = [call EXCEPT ![c] = NoCall]
  /\ UNCHANGED v

Next == \E c \in Client :
          \/ \E op \in {"SubGas", "AddGas"}, n \in Amounts : Start(c, op, n)
          \/ SubGas(c) \/ AddGas(c) \/ Return(c)

Spec == Init /\ [][Next]_vars
=============================================================================
