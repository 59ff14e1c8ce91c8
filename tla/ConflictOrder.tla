---------------------------- MODULE ConflictOrder ----------------------------
(***************************************************************************)
(* What executing a block promises, whatever runs in parallel: a           *)
(* transaction runs once, after every earlier transaction it conflicts     *)
(* with, and sees in each account it declares the effects of the           *)
(* transactions that ran before and changed that account.  The abstract    *)
(* specification that StateProcessor implements.  An account's content is  *)
(* abstracted to the set of transactions whose effect it holds.            *)
(***************************************************************************)
EXTENDS Integers

CONSTANTS N, Address

VARIABLES declared,   \* [0..N-1 -> SUBSET Address], fixed by the block
          writes,     \* [0..N-1 -> SUBSET Address], fixed by the block
          executed,   \* transactions that have run
          view        \* what each of them saw, by address

Idx == 0 .. N - 1

vars == <<declared, writes, executed, view>>

Clashes(i, k) == declared[i] \cap declared[k] # {}

Init == /\ \A i \in Idx : writes[i] \subseteq declared[i]
        /\ executed = {}
        /\ view = [i \in Idx |-> [a \in Address |-> {}]]

\* The effects that account a holds once the transactions of S have run.
Effects(S, a) == {k \in S : a \in writes[k]}

Execute(i) ==
  /\ i \notin executed
  /\ \A k \in Idx : k < i /\ Clashes(k, i) => k \in executed
  /\ executed' = executed \cup {i}
  /\ view' = [view EXCEPT ![i] =
                [a \in Address |-> IF a \in declared[i] THEN Effects(executed, a) ELSE {}]]
  /\ UNCHANGED <<declared, writes>>

Next == \E i \in Idx : Execute(i)

Spec == Init /\ [][Next]_vars

(***************************************************************************)
(* The point of the conflict order: every transaction sees what it would   *)
(* have seen had the block been executed one transaction at a time, in     *)
(* block order.                                                            *)
(***************************************************************************)
SeesBlockOrder ==
  \A i \in executed : \A a \in declared[i] :
    view[i][a] = {k \in Idx : k < i /\ a \in writes[k]}
=============================================================================
