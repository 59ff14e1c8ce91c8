--------------------------- MODULE GasPoolProofs ---------------------------
(***************************************************************************)
(* Proofs about the gas pool, for any clients, messages and gas limit.     *)
(***************************************************************************)
EXTENDS GasPool, TLAPS

\* S gives every set of clients the gas they hold together.
Measures(S) == /\ S[{}] = 0
               /\ \A A \in SUBSET Client : \A c \in Client \ A : S[A \cup {c}] = S[A] + Held(c)

\* GasConserved, without a recursive definition of the sum.
Balanced == \E S \in [SUBSET Client -> Nat] : Measures(S) /\ v + S[Client] + burned = GasLimit

\* What the comparisons have established: after the loads, and for a message
\* that was executed that its limit covers what it used.
Compared == \A c \in Client : /\ pc[c] = "subcas" => msg[c].gas <= old[c]
                              /\ pc[c] = "addcas" => old[c] + Rest(c) <= MaxUint64
                              /\ pc[c] \in {"add", "addcas"} => msg[c].used <= msg[c].gas

IInv == TypeOK /\ Balanced /\ Compared /\ NeverPanics

LEMMA MsgFacts ==
  ASSUME TypeOK, NEW c \in Client
  PROVE  /\ msg[c] \in Messages /\ msg[c].gas \in 0 .. MaxUint64 /\ msg[c].used \in Nat
         /\ msg[c].used <= msg[c].gas => Rest(c) \in Nat /\ Rest(c) <= msg[c].gas
         /\ Held(c) \in Nat
<1>1. msg[c] \in Messages
  BY DEF TypeOK
<1>2. msg[c].gas \in 0 .. MaxUint64 /\ msg[c].used \in Nat
  BY <1>1, GasPoolAssumption
<1> QED
  BY <1>1, <1>2, GasPoolAssumption DEF Rest, Held

\* One client's share never exceeds what is missing from the pool.
LEMMA HeldBound ==
  ASSUME TypeOK, Balanced, NEW c \in Client
  PROVE  v + Held(c) <= GasLimit
<1>1. PICK S \in [SUBSET Client -> Nat] : Measures(S) /\ v + S[Client] + burned = GasLimit
  BY DEF Balanced
<1>2. S[Client] = S[Client \ {c}] + Held(c)
  <2>1. Client = (Client \ {c}) \cup {c} /\ Client \ {c} \in SUBSET Client /\ c \in Client \ (Client \ {c})
    OBVIOUS
  <2> QED
    BY <1>1, <2>1 DEF Measures
<1>3. S[Client \ {c}] \in Nat /\ S[Client] \in Nat
  OBVIOUS
<1> QED
  BY <1>1, <1>2, <1>3, MsgFacts, GasPoolAssumption DEF TypeOK

\* A step in which one client's share changes, and pool and used gas with it.
LEMMA BalancedStep ==
  ASSUME TypeOK, Balanced, NEW c \in Client,
         \A d \in Client \ {c} : Held(d)' = Held(d),
         Held(c)' \in Nat, v' \in Nat, burned' \in Nat,
         v' + Held(c)' + burned' = v + Held(c) + burned
  PROVE  Balanced'
<1>1. PICK S \in [SUBSET Client -> Nat] : Measures(S) /\ v + S[Client] + burned = GasLimit
  BY DEF Balanced
<1> DEFINE T == [A \in SUBSET Client |-> IF c \in A THEN S[A \ {c}] + Held(c)' ELSE S[A]]
<1>2. T \in [SUBSET Client -> Nat]
  OBVIOUS
<1>3. \A A \in SUBSET Client : T[A] = IF c \in A THEN S[A \ {c}] + Held(c)' ELSE S[A]
  OBVIOUS
<1>4. \A A \in SUBSET Client : S[A] \in Nat
  OBVIOUS
<1> HIDE DEF T
<1>5. T[{}] = 0
  BY <1>1, <1>3 DEF Measures
<1>6. ASSUME NEW A \in SUBSET Client, NEW d \in Client \ A
      PROVE  T[A \cup {d}] = T[A] + Held(d)'
  <2>1. CASE d = c
    <3>1. (A \cup {d}) \ {c} = A /\ c \notin A /\ A \cup {d} \in SUBSET Client
      BY <2>1
    <3> QED
      BY <1>3, <2>1, <3>1
  <2>2. CASE d # c /\ c \notin A
    <3>1. c \notin A \cup {d} /\ A \cup {d} \in SUBSET Client
      BY <2>2
    <3> QED
      BY <1>1, <1>3, <2>2, <3>1 DEF Measures
  <2>3. CASE d # c /\ c \in A
    <3>1. (A \cup {d}) \ {c} = (A \ {c}) \cup {d} /\ A \ {c} \in SUBSET Client /\ d \in Client \ (A \ {c})
      BY <2>3
    <3>2. S[(A \ {c}) \cup {d}] = S[A \ {c}] + Held(d)
      BY <1>1, <3>1 DEF Measures
    <3>3. T[A \cup {d}] = S[(A \ {c}) \cup {d}] + Held(c)' /\ T[A] = S[A \ {c}] + Held(c)'
      BY <1>3, <2>3, <3>1
    <3>4. S[A \ {c}] \in Nat /\ Held(d) \in Nat
      BY <1>4, <3>1, MsgFacts
    <3> QED
      BY <2>3, <3>2, <3>3, <3>4
  <2> QED
    BY <2>1, <2>2, <2>3
<1>7. v' + T[Client] + burned' = GasLimit
  <2>1. S[Client] = S[Client \ {c}] + Held(c)
    <3>1. Client = (Client \ {c}) \cup {c} /\ Client \ {c} \in SUBSET Client /\ c \in Client \ (Client \ {c})
      OBVIOUS
    <3> QED
      BY <1>1, <3>1 DEF Measures
  <2>2. T[Client] = S[Client \ {c}] + Held(c)'
    BY <1>3
  <2>3. S[Client \ {c}] \in Nat /\ Held(c) \in Nat /\ v \in Nat /\ burned \in Nat
    BY <1>4, MsgFacts, GasPoolAssumption DEF TypeOK
  <2> QED
    BY <1>1, <2>1, <2>2, <2>3
<1> QED
  BY <1>2, <1>5, <1>6, <1>7 DEF Balanced, Measures

\* What is left to show for a step of client c.
LEMMA ClientStep ==
  ASSUME IInv, NEW c \in Client, TypeOK',
         pc' = [pc EXCEPT ![c] = pc'[c]], msg' = [msg EXCEPT ![c] = msg'[c]],
         old' = [old EXCEPT ![c] = old'[c]],
         v' + Held(c)' + burned' = v + Held(c) + burned,
         pc'[c] = "subcas" => msg'[c].gas <= old'[c],
         pc'[c] = "addcas" => old'[c] + Rest(c)' <= MaxUint64,
         pc'[c] \in {"add", "addcas"} => msg'[c].used <= msg'[c].gas,
         pc'[c] # "panic"
  PROVE  IInv'
<1>1. \A d \in Client \ {c} : pc'[d] = pc[d] /\ msg'[d] = msg[d] /\ old'[d] = old[d]
  BY DEF IInv, TypeOK
<1>2. \A d \in Client \ {c} : Held(d)' = Held(d) /\ Rest(d)' = Rest(d)
  BY <1>1 DEF Held, Rest
<1>3. Held(c)' \in Nat
  <2>1. msg'[c] \in Messages
    BY DEF TypeOK
  <2>2. msg'[c].gas \in Nat
    BY <2>1, GasPoolAssumption
  <2> QED
    BY <2>2 DEF Held
<1>4. Balanced'
  BY <1>2, <1>3, BalancedStep, GasPoolAssumption DEF IInv, TypeOK
<1>5. Compared'
  BY <1>1, <1>2 DEF IInv, Compared
<1>6. NeverPanics'
  BY <1>1 DEF IInv, NeverPanics
<1> QED
  BY <1>4, <1>5, <1>6 DEF IInv

LEMMA LocalStep ==
  ASSUME IInv, NEW c \in Client,
         (Begin(c, msg'[c]) /\ msg'[c] \in Messages) \/ Exit(c) \/ Return(c) \/ Executed(c)
  PROVE  IInv'
<1>1. /\ TypeOK' /\ pc' = [pc EXCEPT ![c] = pc'[c]] /\ msg' = [msg EXCEPT ![c] = msg'[c]]
      /\ UNCHANGED <<v, old, burned>> /\ pc'[c] \notin {"subcas", "addcas", "panic"}
      /\ pc'[c] = "add" => msg'[c].used <= msg'[c].gas
  BY DEF IInv, TypeOK, PCs, Begin, Exit, Return, Executed
<1>2. Held(c)' = Held(c)
  BY DEF IInv, TypeOK, Begin, Exit, Return, Executed, Held
<1>3. old' = [old EXCEPT ![c] = old'[c]]
  BY <1>1 DEF IInv, TypeOK
<1> QED
  BY <1>1, <1>2, <1>3, ClientStep

LEMMA FailStep ==
  ASSUME IInv, NEW c \in Client, Fail(c)
  PROVE  IInv'
<1> USE DEF Fail
<1>1. msg[c].gas \in Nat /\ burned \in Nat /\ v \in Nat
  BY MsgFacts, GasPoolAssumption DEF IInv, TypeOK
<1>2. TypeOK' /\ pc'[c] = "exit"
  BY <1>1 DEF IInv, TypeOK, PCs
<1>3. Held(c) = msg[c].gas /\ Held(c)' = 0
  BY <1>2 DEF Held
<1>4. /\ msg' = [msg EXCEPT ![c] = msg'[c]] /\ old' = [old EXCEPT ![c] = old'[c]]
      /\ pc' = [pc EXCEPT ![c] = pc'[c]]
  BY DEF IInv, TypeOK
<1>5. v' + Held(c)' + burned' = v + Held(c) + burned
  BY <1>1, <1>3
<1> QED
  BY <1>2, <1>4, <1>5, ClientStep

LEMMA SubGasLoadStep ==
  ASSUME IInv, NEW c \in Client, SubGasLoad(c)
  PROVE  IInv'
<1> USE DEF SubGasLoad
<1>1. TypeOK' /\ old'[c] = v /\ pc'[c] = IF v < msg[c].gas THEN "refused" ELSE "subcas"
  BY DEF IInv, TypeOK, PCs
<1>2. Held(c) = 0 /\ Held(c)' = 0 /\ msg[c].gas \in Nat /\ v \in Nat
  BY <1>1, MsgFacts, GasPoolAssumption DEF IInv, TypeOK, Held
<1>3. /\ msg' = [msg EXCEPT ![c] = msg'[c]] /\ old' = [old EXCEPT ![c] = old'[c]]
      /\ pc' = [pc EXCEPT ![c] = pc'[c]]
  BY DEF IInv, TypeOK
<1>4. v' + Held(c)' + burned' = v + Held(c) + burned
  BY <1>2
<1>5. pc'[c] = "subcas" => msg'[c].gas <= old'[c]
  BY <1>1, <1>2
<1>6. pc'[c] \notin {"panic", "add", "addcas"}
  BY <1>1
<1> QED
  BY <1>1, <1>3, <1>4, <1>5, <1>6, ClientStep

LEMMA SubGasCASStep ==
  ASSUME IInv, NEW c \in Client, SubGasCAS(c)
  PROVE  IInv'
<1> USE DEF SubGasCAS
<1>1. msg[c].gas \in Nat /\ v \in 0 .. MaxUint64 /\ burned \in Nat /\ msg[c].gas <= old[c]
  BY MsgFacts DEF IInv, TypeOK, Compared
<1>2. v' \in 0 .. MaxUint64
  BY <1>1, GasPoolAssumption
<1>3. TypeOK' /\ pc'[c] = IF v = old[c] THEN "bought" ELSE "sub"
  BY <1>2, GasPoolAssumption DEF IInv, TypeOK, PCs
<1>4. Held(c) = 0 /\ Held(c)' = IF v = old[c] THEN msg[c].gas ELSE 0
  BY <1>3 DEF Held
<1>5. msg' = [msg EXCEPT ![c] = msg'[c]] /\ old' = [old EXCEPT ![c] = old'[c]]
  BY DEF IInv, TypeOK
<1>6. v' + Held(c)' + burned' = v + Held(c) + burned
  BY <1>1, <1>4, GasPoolAssumption
<1>7. pc' = [pc EXCEPT ![c] = pc'[c]]
  BY DEF IInv, TypeOK
<1> QED
  BY <1>3, <1>5, <1>6, <1>7, ClientStep

LEMMA AddGasLoadStep ==
  ASSUME IInv, NEW c \in Client, AddGasLoad(c)
  PROVE  IInv'
<1> USE DEF AddGasLoad
<1>1. /\ Rest(c) \in Nat /\ Rest(c) <= msg[c].gas /\ msg[c].gas \in Nat
      /\ v \in Nat /\ v + Held(c) <= GasLimit /\ Held(c) = msg[c].gas
      /\ msg[c].used <= msg[c].gas
  BY MsgFacts, HeldBound, GasPoolAssumption DEF IInv, TypeOK, Held, Compared
<1>2. v + Rest(c) <= MaxUint64
  BY <1>1, GasPoolAssumption
<1>3. TypeOK' /\ old'[c] = v /\ pc'[c] = "addcas"
  BY <1>1, <1>2, GasPoolAssumption DEF IInv, TypeOK, PCs
<1>4. Held(c)' = Held(c) /\ Rest(c)' = Rest(c)
  BY <1>3 DEF Held, Rest
<1>5. msg' = [msg EXCEPT ![c] = msg'[c]] /\ msg'[c] = msg[c]
  BY DEF IInv, TypeOK
<1> QED
  BY <1>1, <1>2, <1>3, <1>4, <1>5, ClientStep

LEMMA AddGasCASStep ==
  ASSUME IInv, NEW c \in Client, AddGasCAS(c)
  PROVE  IInv'
<1> USE DEF AddGasCAS
<1>1. /\ Rest(c) \in Nat /\ Rest(c) = msg[c].gas - msg[c].used /\ msg[c].used \in Nat
      /\ msg[c].gas \in Nat /\ v \in 0 .. MaxUint64 /\ burned \in Nat /\ old[c] + Rest(c) <= MaxUint64
      /\ msg[c].used <= msg[c].gas
  BY MsgFacts DEF IInv, TypeOK, Compared, Rest
<1>2. v' \in 0 .. MaxUint64 /\ burned' \in Nat
  BY <1>1, GasPoolAssumption
<1>3. TypeOK' /\ pc'[c] = IF v = old[c] THEN "added" ELSE "add"
  BY <1>2, GasPoolAssumption DEF IInv, TypeOK, PCs
<1>4. Held(c) = msg[c].gas /\ Held(c)' = IF v = old[c] THEN 0 ELSE msg[c].gas
  BY <1>3 DEF Held
<1>5. msg' = [msg EXCEPT ![c] = msg'[c]] /\ msg'[c] = msg[c] /\ old' = [old EXCEPT ![c] = old'[c]]
  BY DEF IInv, TypeOK
<1>6. v' + Held(c)' + burned' = v + Held(c) + burned
  BY <1>1, <1>4, GasPoolAssumption
<1>7. pc' = [pc EXCEPT ![c] = pc'[c]]
  BY DEF IInv, TypeOK
<1> QED
  BY <1>1, <1>3, <1>5, <1>6, <1>7, ClientStep

LEMMA StutterStep ==
  ASSUME IInv, UNCHANGED vars
  PROVE  IInv'
<1> USE DEF vars
<1>1. TypeOK' /\ Compared' /\ NeverPanics'
  BY DEF IInv, TypeOK, Compared, NeverPanics, Rest
<1>2. \A c \in Client : Held(c)' = Held(c)
  BY DEF Held
<1>3. Balanced'
  BY <1>2 DEF IInv, Balanced, Measures
<1> QED
  BY <1>1, <1>3 DEF IInv

LEMMA InitIInv == Init => IInv
<1> SUFFICES ASSUME Init PROVE IInv
  OBVIOUS
<1>1. TypeOK /\ Compared /\ NeverPanics
  BY GasPoolAssumption DEF Init, TypeOK, PCs, Compared, NeverPanics
<1>2. \A c \in Client : Held(c) = 0
  BY DEF Init, Held
<1> DEFINE S == [A \in SUBSET Client |-> 0]
<1>3. Measures(S) /\ S \in [SUBSET Client -> Nat] /\ v + S[Client] + burned = GasLimit
  BY <1>2, GasPoolAssumption DEF Measures, Init
<1>4. Balanced
  <2> HIDE DEF S
  <2> QED
    BY <1>3 DEF Balanced
<1> QED
  BY <1>1, <1>4 DEF IInv

LEMMA NextIInv ==
  ASSUME IInv, [Next]_vars
  PROVE  IInv'
<1>1. ASSUME NEW c \in Client, NEW m \in Messages, Begin(c, m) PROVE IInv'
  <2>1. msg'[c] = m
    BY <1>1 DEF Begin, IInv, TypeOK
  <2> QED
    BY <1>1, <2>1, LocalStep
<1>2. ASSUME NEW c \in Client, Step(c) PROVE IInv'
  BY <1>1, <1>2, LocalStep, FailStep, SubGasLoadStep, SubGasCASStep, AddGasLoadStep, AddGasCASStep
     DEF Step
<1> QED
  BY <1>2, StutterStep DEF Next, Stopped

LEMMA Invariance == Spec => []IInv
BY InitIInv, NextIInv, PTL DEF Spec

(***************************************************************************)
(* The pool's counter stays within a uint64 and every client's loaded      *)
(* value with it.                                                          *)
(***************************************************************************)
THEOREM TypeCorrect == Spec => []TypeOK
<1>1. IInv => TypeOK
  BY DEF IInv
<1> QED
  BY <1>1, Invariance, PTL

(***************************************************************************)
(* AddGas does not panic, whatever the number of clients and the limits of *)
(* the messages: what a client puts back was taken out before.             *)
(***************************************************************************)
THEOREM PanicUnreachable == Spec => []NeverPanics
<1>1. IInv => NeverPanics
  BY DEF IInv
<1> QED
  BY <1>1, Invariance, PTL

-----------------------------------------------------------------------------
LEMMA CallStep ==
  ASSUME TypeOK, NEW c \in Client,
         pc' = [pc EXCEPT ![c] = pc'[c]], msg' = [msg EXCEPT ![c] = msg'[c]]
  PROVE  [d \in Client |-> CallOf(d)]' = [[d \in Client |-> CallOf(d)] EXCEPT ![c] = CallOf(c)']
<1>1. \A d \in Client \ {c} : pc'[d] = pc[d] /\ msg'[d] = msg[d]
  BY DEF TypeOK
<1>2. \A d \in Client \ {c} : CallOf(d)' = CallOf(d)
  BY <1>1 DEF CallOf, Rest
<1> QED
  BY <1>2

LEMMA AbstractStep ==
  ASSUME IInv, NEW c \in Client, Step(c)
  PROVE  [Atomic!Next]_(Atomic!vars)
<1> DEFINE calls == [d \in Client |-> CallOf(d)]
<1>0. TypeOK /\ calls[c] = CallOf(c)
  BY DEF IInv
<1>1. pc' = [pc EXCEPT ![c] = pc'[c]] /\ msg' = [msg EXCEPT ![c] = msg'[c]]
  BY <1>0 DEF TypeOK, Step, Exit, SubGasLoad, SubGasCAS, Return, Fail, Executed, AddGasLoad, AddGasCAS, Begin
<1>2. calls' = [calls EXCEPT ![c] = CallOf(c)']
  BY <1>0, <1>1, CallStep
<1>3. (v' = v /\ CallOf(c)' = CallOf(c)) => UNCHANGED Atomic!vars
  BY <1>2 DEF Atomic!vars
<1>r. \A r : CallOf(c)' = [CallOf(c) EXCEPT !.res = r] => calls' = [calls EXCEPT ![c].res = r]
  BY <1>0, <1>2
<1>4. CASE \E m \in Messages : Begin(c, m)
  <2>1. PICK m \in Messages : Begin(c, m)
    BY <1>4
  <2>2. CallOf(c) = Atomic!NoCall /\ CallOf(c)' = [op |-> "SubGas", amount |-> m.gas, res |-> "pending"]
    BY <1>0, <2>1 DEF Begin, CallOf, Atomic!NoCall, TypeOK
  <2>3. m.gas \in Atomic!Amounts
    BY GasPoolAssumption DEF Atomic!Amounts
  <2>4. Atomic!Start(c, "SubGas", m.gas)
    BY <1>0, <1>2, <2>1, <2>2 DEF Atomic!Start, Atomic!NoCall, Begin
  <2> QED
    BY <2>3, <2>4 DEF Atomic!Next
<1>5. CASE Exit(c) \/ Fail(c)
  <2>1. v' = v /\ CallOf(c)' = CallOf(c)
    BY <1>0, <1>5 DEF Exit, Fail, CallOf, TypeOK
  <2> QED
    BY <1>3, <2>1
<1>6. CASE SubGasLoad(c)
  <2>1. /\ v' = v /\ CallOf(c) = [op |-> "SubGas", amount |-> msg[c].gas, res |-> "pending"]
        /\ pc'[c] = IF v < msg[c].gas THEN "refused" ELSE "subcas"
        /\ msg'[c] = msg[c]
    BY <1>0, <1>6 DEF SubGasLoad, CallOf, TypeOK
  <2>2. CASE v < msg[c].gas
    <3>1. CallOf(c)' = [CallOf(c) EXCEPT !.res = "ErrGasLimitReached"]
      BY <2>1, <2>2 DEF CallOf
    <3>2. Atomic!SubGas(c)
      <4>1. calls[c].op = "SubGas" /\ calls[c].res = "pending" /\ calls[c].amount = msg[c].gas
        BY <1>0, <2>1
      <4> QED
        BY <1>r, <2>1, <2>2, <3>1, <4>1 DEF Atomic!SubGas, Atomic!Pending
    <3> QED
      BY <3>2 DEF Atomic!Next
  <2>3. CASE ~(v < msg[c].gas)
    <3>1. CallOf(c)' = CallOf(c)
      BY <2>1, <2>3 DEF CallOf
    <3> QED
      BY <1>3, <2>1, <3>1
  <2> QED
    BY <2>2, <2>3
<1>7. CASE SubGasCAS(c)
  <2>1. /\ CallOf(c) = [op |-> "SubGas", amount |-> msg[c].gas, res |-> "pending"]
        /\ pc'[c] = (IF v = old[c] THEN "bought" ELSE "sub") /\ msg'[c] = msg[c]
        /\ v' = (IF v = old[c] THEN v - msg[c].gas ELSE v) /\ msg[c].gas <= old[c]
        /\ v \in Nat /\ msg[c].gas \in Nat
    BY <1>0, <1>7, MsgFacts, GasPoolAssumption DEF SubGasCAS, CallOf, TypeOK, IInv, Compared
  <2>2. CASE v = old[c]
    <3>1. CallOf(c)' = [CallOf(c) EXCEPT !.res = "ok"]
      BY <2>1, <2>2 DEF CallOf
    <3>2. Atomic!SubGas(c)
      <4>1. calls[c].op = "SubGas" /\ calls[c].res = "pending" /\ calls[c].amount = msg[c].gas
        BY <1>0, <2>1
      <4>2. calls' = [calls EXCEPT ![c].res = "ok"]
        BY <1>r, <3>1, SMTT(30)
      <4>3. ~(v < msg[c].gas) /\ v' = v - msg[c].gas
        BY <2>1, <2>2
      <4> HIDE DEF calls
      <4>4. Atomic!SubGas(c) <=>
              /\ calls[c].op = "SubGas" /\ calls[c].res = "pending"
              /\ IF v < calls[c].amount
                   THEN calls' = [calls EXCEPT ![c].res = "ErrGasLimitReached"] /\ UNCHANGED v
                   ELSE calls' = [calls EXCEPT ![c].res = "ok"] /\ v' = v - calls[c].amount
        BY DEF Atomic!SubGas, Atomic!Pending, calls
      <4> QED
        BY <4>1, <4>2, <4>3, <4>4
    <3> QED
      BY <3>2 DEF Atomic!Next
  <2>3. CASE v # old[c]
    <3>1. CallOf(c)' = CallOf(c)
      BY <2>1, <2>3 DEF CallOf
    <3> QED
      BY <1>3, <2>1, <2>3, <3>1
  <2> QED
    BY <2>2, <2>3
<1>8. CASE Return(c)
  <2>1. v' = v /\ CallOf(c)' = Atomic!NoCall
    BY <1>0, <1>8 DEF Return, CallOf, TypeOK, Atomic!NoCall
  <2>2. CallOf(c).res \notin {"none", "pending"}
    BY <1>0, <1>8 DEF Return, CallOf
  <2>3. Atomic!Return(c)
    BY <1>0, <1>2, <2>1, <2>2 DEF Atomic!Return
  <2> QED
    BY <2>3 DEF Atomic!Next
<1>9. CASE Executed(c)
  <2>1. /\ v' = v /\ CallOf(c).op = "none" /\ Rest(c) \in Atomic!Amounts
        /\ CallOf(c)' = [op |-> "AddGas", amount |-> Rest(c), res |-> "pending"]
    <3>1. /\ pc[c] = "run" /\ pc'[c] = "add" /\ msg'[c] = msg[c] /\ v' = v
          /\ msg[c].used <= msg[c].gas
      BY <1>0, <1>9 DEF Executed, TypeOK
    <3>2. Rest(c) \in Atomic!Amounts
      BY <1>0, <3>1, MsgFacts, GasPoolAssumption DEF Atomic!Amounts
    <3> QED
      BY <3>1, <3>2 DEF CallOf, Rest
  <2>2. Atomic!Start(c, "AddGas", Rest(c))
    BY <1>0, <1>2, <2>1 DEF Atomic!Start
  <2> QED
    BY <2>1, <2>2 DEF Atomic!Next
<1>10. CASE AddGasLoad(c)
  <2>1. v' = v /\ pc'[c] \in {"addcas", "panic"} /\ msg'[c] = msg[c] /\ pc[c] = "add"
    BY <1>0, <1>10 DEF AddGasLoad, TypeOK
  <2>2. CallOf(c)' = CallOf(c)
    BY <2>1 DEF CallOf, Rest
  <2> QED
    BY <1>3, <2>1, <2>2
<1>11. CASE AddGasCAS(c)
  <2>1. /\ CallOf(c) = [op |-> "AddGas", amount |-> Rest(c), res |-> "pending"]
        /\ pc'[c] = (IF v = old[c] THEN "added" ELSE "add") /\ msg'[c] = msg[c]
        /\ v' = (IF v = old[c] THEN v + Rest(c) ELSE v) /\ old[c] + Rest(c) <= MaxUint64
    BY <1>0, <1>11 DEF AddGasCAS, CallOf, TypeOK, IInv, Compared
  <2>2. CASE v = old[c]
    <3>1. CallOf(c)' = [CallOf(c) EXCEPT !.res = "ok"]
      BY <2>1, <2>2 DEF CallOf, Rest
    <3>2. Atomic!AddGas(c)
      <4>1. calls[c].op = "AddGas" /\ calls[c].res = "pending" /\ calls[c].amount = Rest(c)
        BY <1>0, <2>1
      <4> QED
        BY <1>r, <2>1, <2>2, <3>1, <4>1 DEF Atomic!AddGas, Atomic!Pending
    <3> QED
      BY <3>2 DEF Atomic!Next
  <2>3. CASE v # old[c]
    <3>1. CallOf(c)' = CallOf(c)
      BY <2>1, <2>3 DEF CallOf, Rest
    <3> QED
      BY <1>3, <2>1, <2>3, <3>1
  <2> QED
    BY <2>2, <2>3
<1> QED
  BY <1>4, <1>5, <1>6, <1>7, <1>8, <1>9, <1>10, <1>11 DEF Step

(***************************************************************************)
(* SubGas and AddGas, with their loads, swaps and retries, implement the   *)
(* atomic pool: what StateProcessor takes for granted.                     *)
(***************************************************************************)
THEOREM Linearizable == Spec => ImplementsAtomicGasPool
<1>1. Init => Atomic!Init
  <2>1. \A c \in Client : pc[c] = "idle" => CallOf(c) = Atomic!NoCall
    BY DEF CallOf, Atomic!NoCall
  <2> QED
    BY <2>1, GasPoolAssumption DEF Init, Atomic!Init, Atomic!Amounts
<1>2. IInv /\ [Next]_vars => [Atomic!Next]_(Atomic!vars)
  <2>1. UNCHANGED vars => UNCHANGED Atomic!vars
    BY DEF vars, Atomic!vars, CallOf, Rest
  <2> QED
    BY <2>1, AbstractStep DEF Next, Stopped
<1> QED
  BY <1>1, <1>2, Invariance, PTL DEF Spec, Atomic!Spec, ImplementsAtomicGasPool
=============================================================================
