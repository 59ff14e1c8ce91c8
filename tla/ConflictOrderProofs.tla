------------------------ MODULE ConflictOrderProofs ------------------------
(***************************************************************************)
(* The abstract specification gives every transaction the view of          *)
(* sequential execution, so everything that implements it does too.        *)
(***************************************************************************)
EXTENDS ConflictOrder, TLAPS

\* A transaction runs only after the earlier ones it clashes with.
IInv == /\ executed \subseteq Idx
        /\ DOMAIN view = Idx
        /\ \A i \in Idx : writes[i] \subseteq declared[i]
        /\ \A i \in executed : \A k \in Idx : k < i /\ Clashes(k, i) => k \in executed
        /\ SeesBlockOrder

LEMMA ExecuteStep ==
  ASSUME N \in Nat, IInv, NEW i \in Idx, Execute(i), \A k \in Idx : declared[k] \subseteq Address
  PROVE  IInv'
<1> USE DEF Execute
<1>1. \A a \in declared[i] : Effects(executed, a) = {k \in Idx : k < i /\ a \in writes[k]}
  <2> SUFFICES ASSUME NEW a \in declared[i]
               PROVE  Effects(executed, a) = {k \in Idx : k < i /\ a \in writes[k]}
    OBVIOUS
  <2>1. ASSUME NEW k \in executed, a \in writes[k] PROVE k < i
    <3>1. k \in Idx /\ Clashes(k, i) /\ Clashes(i, k) /\ k # i
      BY <2>1 DEF IInv, Clashes
    <3> QED
      BY <3>1 DEF IInv, Idx
  <2>2. ASSUME NEW k \in Idx, k < i, a \in writes[k] PROVE k \in executed
    BY <2>2 DEF IInv, Clashes
  <2> QED
    BY <2>1, <2>2 DEF Effects, IInv
<1>2. /\ \A a \in declared[i] : view'[i][a] = {k \in Idx : k < i /\ a \in writes[k]}
      /\ \A k \in Idx : k # i => view'[k] = view[k]
      /\ DOMAIN view' = Idx
  BY <1>1 DEF IInv
<1>3. SeesBlockOrder'
  BY <1>2 DEF IInv, SeesBlockOrder
<1>4. \A m \in executed' : \A k \in Idx : k < m /\ Clashes(k, m)' => k \in executed'
  BY DEF IInv, Clashes
<1> QED
  BY <1>2, <1>3, <1>4 DEF IInv

(***************************************************************************)
(* Running each transaction after the earlier ones it conflicts with is    *)
(* enough for it to see what sequential execution shows it.                *)
(***************************************************************************)
THEOREM ConflictOrderSuffices ==
  ASSUME N \in Nat
  PROVE  Spec /\ [](\A k \in Idx : declared[k] \subseteq Address) => []SeesBlockOrder
<1>1. Init => IInv
  BY DEF Init, IInv, SeesBlockOrder
<1>2. IInv /\ (\A k \in Idx : declared[k] \subseteq Address) /\ [Next]_vars => IInv'
  <2>1. ASSUME IInv, UNCHANGED vars PROVE IInv'
    BY <2>1 DEF IInv, vars, SeesBlockOrder, Clashes
  <2> QED
    BY <2>1, ExecuteStep DEF Next
<1>3. IInv => SeesBlockOrder
  BY DEF IInv
<1> QED
  BY <1>1, <1>2, <1>3, PTL DEF Spec
=============================================================================
