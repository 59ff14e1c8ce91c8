------------------------------- MODULE GetHash -------------------------------
(***************************************************************************)
(* GetHashFn (core/evm.go): the closure behind BLOCKHASH, which remembers  *)
(* in a slice the ancestor hashes it has walked through.  Process makes    *)
(* one block context, hence one closure and one cache, and every worker's  *)
(* EVM calls it without a lock.                                            *)
(*                                                                         *)
(* The hash of block h is written h.  A client is a goroutine that         *)
(* executes transactions; a step is one statement with its access to the   *)
(* shared cache.  That is coarser than the Go memory model, where the      *)
(* words of the slice can also be torn: it shows a subset of the races.    *)
(***************************************************************************)
EXTENDS Integers, Sequences

CONSTANTS Client,
          Number,       \* ref.Number, the block being executed
          Lower,        \* the lowest height opBlockhash lets through
          Oldest,       \* the oldest block whose header the chain still has
          MaxCalls,     \* bound on the calls of a client
          None          \* the zero hash

ASSUME GetHashAssumption == /\ Number \in Nat \ {0}
                            /\ Lower \in 0 .. Number - 1
                            /\ Oldest \in 0 .. Number - 1
                            /\ MaxCalls \in Nat
                            /\ None \notin Nat

VARIABLES cache,            \* hashes, newest first
          pc, n,            \* where a client is, and the height it asks for
          lastKnownHash, lastKnownNumber,
          res,              \* what the call returned
          calls

vars == <<cache, pc, n, lastKnownHash, lastKnownNumber, res, calls>>
walk == <<lastKnownHash, lastKnownNumber>>

Height == Lower .. Number

Init == /\ cache = << >>
        /\ pc = [c \in Client |-> "idle"]
        /\ n = [c \in Client |-> Lower]
        /\ lastKnownHash = [c \in Client |-> 0]
        /\ lastKnownNumber = [c \in Client |-> 0]
        /\ res = [c \in Client |-> None]
        /\ calls = [c \in Client |-> 0]

Finish(c, h) == /\ res' = [res EXCEPT ![c] = h]
                /\ pc' = [pc EXCEPT ![c] = "returned"]

\* BLOCKHASH of an ancestor; tracing with block overrides may ask for more.
Call(c, h) ==
  /\ pc[c] = "idle" /\ calls[c] < MaxCalls
  /\ calls' = [calls EXCEPT ![c] = @ + 1]
  /\ n' = [n EXCEPT ![c] = h]
  /\ IF Number <= h THEN Finish(c, None)
                    ELSE pc' = [pc EXCEPT ![c] = "first"] /\ UNCHANGED res
  /\ UNCHANGED <<cache, walk>>

\* The parent's hash is in the header of the block itself.
First(c) ==
  /\ pc[c] = "first"
  /\ cache' = IF cache = << >> THEN <<Number - 1>> ELSE cache
  /\ pc' = [pc EXCEPT ![c] = "lookup"]
  /\ UNCHANGED <<n, walk, res, calls>>

\* Mutated form: the index of the height is one too large.
Lookup_OffByOne(c) ==
  LET idx == Number - n[c] IN
  /\ pc[c] = "lookup"
  /\ IF idx < Len(cache) THEN Finish(c, cache[idx + 1])
                         ELSE pc' = [pc EXCEPT ![c] = "last"] /\ UNCHANGED res
  /\ UNCHANGED <<cache, n, walk, calls>>

Lookup(c) ==
  LET idx == Number - n[c] - 1 IN
  /\ pc[c] = "lookup"
  /\ IF idx < Len(cache) THEN Finish(c, cache[idx + 1])
                         ELSE pc' = [pc EXCEPT ![c] = "last"] /\ UNCHANGED res
  /\ UNCHANGED <<cache, n, walk, calls>>

\* The walk goes on from the last element of the cache ...
LastKnownHash(c) ==
  /\ pc[c] = "last"
  /\ lastKnownHash' = [lastKnownHash EXCEPT ![c] = cache[Len(cache)]]
  /\ pc' = [pc EXCEPT ![c] = "number"]
  /\ UNCHANGED <<cache, n, lastKnownNumber, res, calls>>

\* ... whose height is computed from the length the cache has by then.
LastKnownNumber(c) ==
  /\ pc[c] = "number"
  /\ lastKnownNumber' = [lastKnownNumber EXCEPT ![c] = Number - Len(cache)]
  /\ pc' = [pc EXCEPT ![c] = "walk"]
  /\ UNCHANGED <<cache, n, lastKnownHash, res, calls>>

\* chain.GetHeader finds a header by hash and number together.
GetHeader(hash, number) == hash = number /\ number >= Oldest

\* Mutated form: a missing header does not end the loop.
Walk_IgnoreMissing(c) ==
  /\ pc[c] = "walk"
  /\ IF GetHeader(lastKnownHash[c], lastKnownNumber[c])
       THEN LET parent == lastKnownNumber[c] - 1 IN
            /\ cache' = Append(cache, parent)
            /\ lastKnownHash' = [lastKnownHash EXCEPT ![c] = parent]
            /\ lastKnownNumber' = [lastKnownNumber EXCEPT ![c] = parent]
            /\ IF n[c] = parent THEN Finish(c, parent) ELSE UNCHANGED <<res, pc>>
       ELSE UNCHANGED <<cache, walk, res, pc>>
  /\ UNCHANGED <<n, calls>>

\* Mutated form: the hash of the header is appended in place of its parent's.
Walk_AppendOwn(c) ==
  /\ pc[c] = "walk"
  /\ IF GetHeader(lastKnownHash[c], lastKnownNumber[c])
       THEN LET parent == lastKnownNumber[c] - 1 IN
            /\ cache' = Append(cache, lastKnownHash[c])
            /\ lastKnownHash' = [lastKnownHash EXCEPT ![c] = parent]
            /\ lastKnownNumber' = [lastKnownNumber EXCEPT ![c] = parent]
            /\ IF n[c] = parent THEN Finish(c, parent) ELSE UNCHANGED <<res, pc>>
       ELSE Finish(c, None) /\ UNCHANGED <<cache, walk>>
  /\ UNCHANGED <<n, calls>>

\* One iteration: the parent hash of the last known header is appended.
Walk(c) ==
  /\ pc[c] = "walk"
  /\ IF GetHeader(lastKnownHash[c], lastKnownNumber[c])
       THEN LET parent == lastKnownNumber[c] - 1 IN
            /\ cache' = Append(cache, parent)
            /\ lastKnownHash' = [lastKnownHash EXCEPT ![c] = parent]
            /\ lastKnownNumber' = [lastKnownNumber EXCEPT ![c] = parent]
            /\ IF n[c] = parent THEN Finish(c, parent) ELSE UNCHANGED <<res, pc>>
       ELSE Finish(c, None) /\ UNCHANGED <<cache, walk>>
  /\ UNCHANGED <<n, calls>>

\* The interpreter takes the result and goes on to its next BLOCKHASH.
Return(c) ==
  /\ pc[c] = "returned"
  /\ pc' = [pc EXCEPT ![c] = "idle"]
  /\ UNCHANGED <<cache, n, walk, res, calls>>

Closure(c) == \/ First(c) \/ Lookup(c) \/ LastKnownHash(c) \/ LastKnownNumber(c)
              \/ Walk(c) \/ Return(c)

Stopped == (\A c \in Client : pc[c] = "idle" /\ calls[c] = MaxCalls) /\ UNCHANGED vars

Next == Stopped \/ \E c \in Client : Closure(c) \/ \E h \in Height : Call(c, h)

\* A goroutine inside the closure keeps running.
Spec == Init /\ [][Next]_vars /\ \A c \in Client : WF_vars(Closure(c))

-----------------------------------------------------------------------------
(***************************************************************************)
(* Properties.                                                             *)
(***************************************************************************)
\* Types; the cache holds no more hashes than the walk can reach ancestors.
TypeOK ==
  /\ cache \in Seq(Int) /\ Len(cache) <= Number - Oldest + 1
  /\ pc \in [Client -> {"idle", "first", "lookup", "last", "number", "walk", "returned"}]
  /\ n \in [Client -> Height]
  /\ lastKnownHash \in [Client -> Int]
  /\ lastKnownNumber \in [Client -> Int]
  /\ res \in [Client -> Int \cup {None}]
  /\ calls \in [Client -> 0 .. MaxCalls]

\* "Cache will initially contain [refHash.parent], Then fill up with
\* [refHash.p, refHash.pp, refHash.ppp, ...]" (core/evm.go:99): the cache is a
\* prefix of the ancestor chain, whatever was asked before.
CacheIsAncestorChain == \A i \in 1 .. Len(cache) : cache[i] = Number - i

\* "GetHash returns the hash corresponding to n" (core/vm/evm.go:56): a call
\* returns the ancestor's hash, and the zero hash exactly for a height that is
\* not below the block or that the walk cannot reach.
HashCorrespondsToHeight ==
  \A c \in Client : pc[c] = "returned" =>
    res[c] = IF n[c] < Number /\ n[c] >= Oldest - 1 THEN n[c] ELSE None

\* Every call returns: the walk ends at the height or at a missing header.
CallsReturn == \A c \in Client : pc[c] # "idle" ~> pc[c] = "idle"
=============================================================================
