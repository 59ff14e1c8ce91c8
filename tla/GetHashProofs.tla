---------------------------- MODULE GetHashProofs ----------------------------
(***************************************************************************)
(* What the closure of GetHashFn guarantees when one goroutine uses it, as *)
(* in waves executed in place: for every block number, every set of kept   *)
(* headers and every sequence of calls.  With two goroutines both results  *)
(* fail (run shared_block_hashes).                                         *)
(***************************************************************************)
EXTENDS GetHash, TLAPS

OneClient == \A c, d \in Client : c = d

(***************************************************************************)
(* The walk of the client stands at the end of the cache, above the height *)
(* it looks for.  A second client could have appended in between.          *)
(***************************************************************************)
AtEnd(c) ==
  /\ pc[c] \in {"first", "lookup", "last", "number", "walk"} => n[c] < Number
  /\ pc[c] \in {"lookup", "last", "number", "walk"} => Len(cache) > 0
  /\ pc[c] \in {"last", "number", "walk"} => n[c] < Number - Len(cache)
  /\ pc[c] \in {"number", "walk"} => lastKnownHash[c] = Number - Len(cache)
  /\ pc[c] = "walk" => lastKnownNumber[c] = Number - Len(cache)

Inv == /\ TypeOK
       /\ CacheIsAncestorChain
       /\ HashCorrespondsToHeight
       /\ \A c \in Client : AtEnd(c)

LEMMA InitInv == Init => Inv
  BY GetHashAssumption
  DEF Init, Inv, TypeOK, CacheIsAncestorChain, HashCorrespondsToHeight, AtEnd, Height

LEMMA StepInv ==
  ASSUME OneClient, Inv, [Next]_vars
  PROVE  Inv'
<1> USE GetHashAssumption DEF Height
<1>1. ASSUME NEW c \in Client, NEW h \in Height, Call(c, h) PROVE Inv'
  BY <1>1 DEF OneClient, Call, Finish, walk,
     Inv, TypeOK, CacheIsAncestorChain, HashCorrespondsToHeight, AtEnd
<1>2. ASSUME NEW c \in Client, First(c) PROVE Inv'
  BY <1>2, SMTT(30) DEF OneClient, First, walk,
     Inv, TypeOK, CacheIsAncestorChain, HashCorrespondsToHeight, AtEnd
<1>3. ASSUME NEW c \in Client, Lookup(c) PROVE Inv'
  <2>1. CASE Number - n[c] - 1 < Len(cache)
    <3>1. /\ pc[c] = "lookup" /\ n[c] \in Int /\ n[c] < Number
          /\ Number - n[c] \in 1 .. Len(cache)
      BY <1>3, <2>1 DEF Inv, TypeOK, AtEnd, Lookup
    <3>2. cache[Number - n[c]] = n[c] /\ n[c] >= Oldest - 1
      BY <3>1, SMTT(30) DEF Inv, CacheIsAncestorChain, TypeOK
    <3>3. /\ res' = [res EXCEPT ![c] = n[c]]
          /\ pc' = [pc EXCEPT ![c] = "returned"]
          /\ UNCHANGED <<cache, n, lastKnownHash, lastKnownNumber, calls>>
      BY <1>3, <2>1, <3>1, <3>2 DEF Lookup, Finish, walk
    <3> QED
      BY <3>1, <3>2, <3>3, SMTT(30) DEF OneClient,
         Inv, TypeOK, CacheIsAncestorChain, HashCorrespondsToHeight, AtEnd
  <2>2. CASE ~(Number - n[c] - 1 < Len(cache))
    BY <1>3, <2>2 DEF OneClient, Lookup, walk,
       Inv, TypeOK, CacheIsAncestorChain, HashCorrespondsToHeight, AtEnd
  <2> QED
    BY <2>1, <2>2
<1>4. ASSUME NEW c \in Client, LastKnownHash(c) \/ LastKnownNumber(c) PROVE Inv'
  <2>1. /\ UNCHANGED <<cache, n, res, calls>> /\ pc[c] \in {"last", "number"}
        /\ Len(cache) \in 1 .. Len(cache) /\ cache[Len(cache)] = Number - Len(cache)
    BY <1>4 DEF LastKnownHash, LastKnownNumber, Inv, TypeOK, CacheIsAncestorChain, AtEnd
  <2>2. lastKnownHash' \in [Client -> Int] /\ lastKnownNumber' \in [Client -> Int]
    <3>1. Len(cache) \in Nat /\ cache[Len(cache)] \in Int /\ Number - Len(cache) \in Int
      BY <2>1 DEF Inv, TypeOK
    <3> QED
      BY <1>4, <3>1 DEF LastKnownHash, LastKnownNumber, Inv, TypeOK
  <2>3. TypeOK'
    BY <1>4, <2>1, <2>2 DEF LastKnownHash, LastKnownNumber, Inv, TypeOK
  <2>4. pc'[c] \in {"number", "walk"} /\ AtEnd(c)'
    BY <1>4, <2>1 DEF LastKnownHash, LastKnownNumber, Inv, TypeOK, AtEnd
  <2> QED
    BY <2>1, <2>3, <2>4 DEF OneClient, Inv, CacheIsAncestorChain, HashCorrespondsToHeight
<1>5. ASSUME NEW c \in Client, Walk(c) PROVE Inv'
  <2> DEFINE last == Number - Len(cache)
  <2>1. /\ pc[c] = "walk" /\ Len(cache) \in Nat /\ n[c] \in Int /\ n[c] < last
        /\ lastKnownHash[c] = last /\ lastKnownNumber[c] = last
    BY <1>5 DEF Walk, Inv, TypeOK, AtEnd
  <2>2. CASE last >= Oldest
    <3>1. /\ cache' = Append(cache, last - 1)
          /\ lastKnownHash' = [lastKnownHash EXCEPT ![c] = last - 1]
          /\ lastKnownNumber' = [lastKnownNumber EXCEPT ![c] = last - 1]
          /\ IF n[c] = last - 1 THEN Finish(c, last - 1) ELSE UNCHANGED <<res, pc>>
          /\ UNCHANGED <<n, calls>>
      BY <1>5, <2>1, <2>2 DEF Walk, GetHeader
    <3>2. cache' \in Seq(Int) /\ Len(cache') = Len(cache) + 1
      BY <3>1, <2>1 DEF Inv, TypeOK
    <3>3. ASSUME NEW i \in 1 .. Len(cache') PROVE cache'[i] = Number - i
      <4>1. CASE i = Len(cache) + 1
        BY <4>1, <3>1, <2>1 DEF Inv, TypeOK
      <4>2. CASE i \in 1 .. Len(cache)
        BY <4>2, <3>1, <2>1 DEF Inv, TypeOK, CacheIsAncestorChain
      <4> QED
        BY <4>1, <4>2, <3>2, <2>1
    <3>4. Len(cache') <= Number - Oldest + 1
      BY <2>1, <2>2, <3>2
    <3>5. CASE n[c] = last - 1
      <4>1. /\ res' = [res EXCEPT ![c] = n[c]]
            /\ pc' = [pc EXCEPT ![c] = "returned"]
        BY <3>1, <3>5 DEF Finish
      <4>2. n[c] < Number /\ n[c] >= Oldest - 1
        BY <2>1, <2>2, <3>5
      <4> QED
        BY <2>1, <3>1, <3>2, <3>3, <3>4, <4>1, <4>2 DEF OneClient,
           Inv, TypeOK, CacheIsAncestorChain, HashCorrespondsToHeight, AtEnd
    <3>6. CASE n[c] # last - 1
      <4>1. n[c] < last - 1 /\ last - 1 = Number - Len(cache')
        BY <2>1, <3>2, <3>6
      <4>2. UNCHANGED <<n, pc, res, calls>>
        BY <3>1, <3>6
      <4>3. TypeOK'
        BY <3>1, <3>2, <3>4, <4>2, <2>1 DEF Inv, TypeOK
      <4>4. HashCorrespondsToHeight'
        BY <4>2 DEF Inv, HashCorrespondsToHeight
      <4>5. AtEnd(c)'
        BY <2>1, <3>1, <3>2, <4>1, <4>2 DEF Inv, TypeOK, AtEnd
      <4> QED
        BY <3>3, <4>3, <4>4, <4>5 DEF OneClient, Inv, CacheIsAncestorChain
    <3> QED
      BY <3>5, <3>6
  <2>3. CASE ~(last >= Oldest)
    <3>1. Finish(c, None) /\ UNCHANGED <<cache, lastKnownHash, lastKnownNumber, n, calls>>
      BY <1>5, <2>1, <2>3 DEF Walk, GetHeader, walk
    <3> QED
      BY <2>1, <2>3, <3>1 DEF OneClient, Finish,
         Inv, TypeOK, CacheIsAncestorChain, HashCorrespondsToHeight, AtEnd
  <2> QED
    BY <2>2, <2>3
<1>6. ASSUME NEW c \in Client, Return(c) PROVE Inv'
  BY <1>6 DEF OneClient, Return, walk,
     Inv, TypeOK, CacheIsAncestorChain, HashCorrespondsToHeight, AtEnd
<1>7. CASE UNCHANGED vars
  BY <1>7 DEF vars, Inv, TypeOK, CacheIsAncestorChain, HashCorrespondsToHeight, AtEnd
<1> QED
  BY <1>1, <1>2, <1>3, <1>4, <1>5, <1>6, <1>7 DEF Next, Closure, Stopped

\* With one goroutine GetHashFn's cache is always a prefix of the ancestor
\* chain, as its comment says.
THEOREM CacheChain == OneClient /\ Spec => []CacheIsAncestorChain
<1> SUFFICES ASSUME OneClient PROVE Spec => []CacheIsAncestorChain
  OBVIOUS
<1>1. Inv /\ [Next]_vars => Inv'
  BY StepInv
<1>2. Inv => CacheIsAncestorChain
  BY DEF Inv
<1> QED
  BY InitInv, <1>1, <1>2, PTL DEF Spec

\* With one goroutine every call of GetHashFn's closure returns the hash of
\* the height asked for, and the zero hash only if the chain cannot give it.
THEOREM RightHash == OneClient /\ Spec => []HashCorrespondsToHeight
<1> SUFFICES ASSUME OneClient PROVE Spec => []HashCorrespondsToHeight
  OBVIOUS
<1>1. Inv /\ [Next]_vars => Inv'
  BY StepInv
<1>2. Inv => HashCorrespondsToHeight
  BY DEF Inv
<1> QED
  BY InitInv, <1>1, <1>2, PTL DEF Spec
=============================================================================
