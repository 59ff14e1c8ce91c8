----------------------------- MODULE PlainState -----------------------------
(***************************************************************************)
(* What a StateDB promises to the EVM, without caches, journal or tries:   *)
(* the accounts are a function, a snapshot is a copy of it, a revert puts  *)
(* the copy back, the end of a transaction removes the accounts that       *)
(* self-destructed or were left empty, and a commit writes what is there.  *)
(* The abstract specification that StateDB implements.                     *)
(***************************************************************************)
EXTENDS Integers, Sequences

CONSTANTS Address, Slot, None, Ripemd,
          Number     \* the amounts, nonces, codes and values in use

VARIABLES acct,      \* [Address -> account or None]
          touched,   \* accounts changed or touched in this transaction
          sticky,    \* Ripemd was touched: it stays so even when reverted
          refund,
          saved,     \* copies of all of these, one for each open call frame
          disk       \* the committed accounts, None before the commit

vars == <<acct, touched, sticky, refund, saved, disk>>

Blank == [data |-> [f \in {"nonce", "balance", "code"} |-> 0],
          storage |-> [k \in Slot |-> 0],
          selfDestructed |-> FALSE, newContract |-> FALSE]

IsEmpty(v) == v.data = Blank.data

Init == /\ acct \in [Address -> {None} \cup
                       [data : [{"nonce", "balance", "code"} -> Number], storage : [Slot -> Number],
                        selfDestructed : {FALSE}, newContract : {FALSE}]]
        /\ touched = {} /\ sticky = FALSE /\ refund = 0
        /\ saved = << >> /\ disk = None

Ensured(a) == IF acct[a] = None THEN Blank ELSE acct[a]

Put(a, v) == /\ acct' = [acct EXCEPT ![a] = v]
             /\ touched' = touched \cup {a}
             /\ UNCHANGED <<refund, saved, disk>>

Set(a, f, v) == Put(a, [Ensured(a) EXCEPT !.data[f] = v]) /\ UNCHANGED sticky

AddBalance(a, n) ==
  IF n = 0 /\ ~IsEmpty(Ensured(a)) THEN UNCHANGED vars
  ELSE /\ Put(a, [Ensured(a) EXCEPT !.data["balance"] = @ + n])
       /\ sticky' = (sticky \/ (a = Ripemd /\ n = 0))

SubBalance(a, n) ==
  IF n = 0 /\ acct[a] # None THEN UNCHANGED vars
  ELSE Set(a, "balance", Ensured(a).data["balance"] - n)

SetState(a, k, v) ==
  IF acct[a] # None /\ acct[a].storage[k] = v THEN UNCHANGED vars
  ELSE Put(a, [Ensured(a) EXCEPT !.storage[k] = v]) /\ UNCHANGED sticky

CreateAccount(a) == acct[a] = None /\ Put(a, Blank) /\ UNCHANGED sticky

CreateContract(a) ==
  /\ Put(a, [Ensured(a) EXCEPT !.newContract = TRUE, !.data["nonce"] = 1]) /\ UNCHANGED sticky

SelfDestruct(a) ==
  /\ acct[a] # None
  /\ Put(a, [acct[a] EXCEPT !.selfDestructed = TRUE, !.data["balance"] = 0]) /\ UNCHANGED sticky

AddRefund(n) == refund' = refund + n /\ UNCHANGED <<acct, touched, sticky, saved, disk>>

Snapshot ==
  /\ saved' = Append(saved, [acct |-> acct, touched |-> touched, refund |-> refund])
  /\ UNCHANGED <<acct, touched, sticky, refund, disk>>

Return == saved # << >> /\ saved' = SubSeq(saved, 1, Len(saved) - 1)
                        /\ UNCHANGED <<acct, touched, sticky, refund, disk>>

RevertToSnapshot ==
  /\ saved # << >>
  /\ LET top == saved[Len(saved)]
     IN  /\ acct' = top.acct /\ refund' = top.refund
         /\ touched' = top.touched
  /\ saved' = SubSeq(saved, 1, Len(saved) - 1)
  /\ UNCHANGED <<sticky, disk>>

\* The accounts at the end of the transaction.
Final == [a \in Address |->
            IF acct[a] = None THEN None
            ELSE IF a \notin touched /\ ~(sticky /\ a = Ripemd) THEN acct[a]
            ELSE IF acct[a].selfDestructed \/ IsEmpty(acct[a]) THEN None
            ELSE [acct[a] EXCEPT !.newContract = FALSE]]

EndTx(written) == /\ saved = << >>
                  /\ acct' = Final /\ touched' = {} /\ sticky' = FALSE /\ refund' = 0
                  /\ disk' = written
                  /\ UNCHANGED saved

Written == [a \in Address |-> IF Final[a] = None THEN None
                              ELSE [data |-> Final[a].data, storage |-> Final[a].storage]]

Next == \/ \E a \in Address :
             \/ \E n \in Number : AddBalance(a, n) \/ SubBalance(a, n)
             \/ a # Ripemd /\ \E f \in {"nonce", "code"}, v \in Number : Set(a, f, v)
             \/ \E k \in Slot, v \in Number : SetState(a, k, v)
             \/ CreateAccount(a) \/ CreateContract(a) \/ SelfDestruct(a)
        \/ \E n \in Number : AddRefund(n)
        \/ Snapshot \/ Return \/ RevertToSnapshot
        \/ EndTx(None) \/ EndTx(Written)

Spec == Init /\ [][Next]_vars
=============================================================================
