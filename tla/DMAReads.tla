------------------------------ MODULE DMAReads ------------------------------
(***************************************************************************)
(* DMA::read<T> (dma.cpp) with the cache it shares with the other readers, *)
(* and the operations that drop entries of it, or all of it, meanwhile.    *)
(*                                                                         *)
(* The target writes its memory when it likes: `memory` counts its writes  *)
(* to each accepted address of each process, and a value is the process    *)
(* it was read from with that count.  The rate limiter only delays a read  *)
(* here, and the cache drops an entry when it likes (eviction, expiry);    *)
(* both have modules of their own, and so has what a read records          *)
(* (Metrics).                                                              *)
(***************************************************************************)
EXTENDS Integers, FiniteSets, FiniteSetsExt

CONSTANTS
  Readers,     \* threads
  Pids,        \* process ids a caller may pass
  SystemPids,  \* 0 and 4, which the validator rejects
  Addresses,   \* addresses a caller may pass
  SizeOfT,     \* sizeof(T)
  MaxWrites,   \* bound on the writes of the target to an address
  MaxReads     \* bound on the reads

ASSUME ReadsAssumption ==
  /\ IsFiniteSet(Readers)
  /\ Pids \subseteq Nat /\ Addresses \subseteq Nat /\ SizeOfT \in Nat
  /\ MaxWrites \in Nat /\ MaxReads \in Nat

VARIABLES
  memory,   \* the target, as above
  caching,  \* whether cache_ points to a cache
  cache,    \* its content: the value stored for each address, or Nothing
  step,     \* where each reader is
  call,     \* its arguments
  value,    \* what it has got
  reads,    \* calls made
  inside,   \* the readers inside a cache that has been destroyed
  undefined, \* whether one of them went on: nothing is known from there
  floor,    \* history: the writes that no cache entry may be older than
  since,    \* history: floor when the reader's call began
  overtaken \* history: readers whose value was invalidated before they stored it

reads_vars == <<memory, caching, cache, step, call, value, reads, inside, undefined,
                floor, since, overtaken>>

Nothing == [pid |-> -1, at |-> 0]
NoCall == [pid |-> -1, address |-> -1]

\* is_valid_process_id, and is_safe_range, given the size for the end.
is_valid_process_id(pid) == pid \notin SystemPids
is_safe_range(start, end) == start < end

\* What a read can ask for.
Accepted(pid, a) == is_valid_process_id(pid) /\ is_safe_range(a, SizeOfT)
Cells == {c \in Pids \X Addresses : Accepted(c[1], c[2])}
Values == [pid : Pids, at : 0 .. MaxWrites]
NoFloor == [c \in Cells |-> 0]
EmptyCache == [a \in Addresses |-> Nothing]

ReadsInit ==
  /\ memory = NoFloor
  /\ caching = TRUE
  /\ cache = EmptyCache
  /\ step = [r \in Readers |-> "idle"]
  /\ call = [r \in Readers |-> NoCall]
  /\ value = [r \in Readers |-> Nothing]
  /\ reads = 0
  /\ inside = {} /\ undefined = FALSE
  /\ floor = NoFloor
  /\ since = [r \in Readers |-> NoFloor]
  /\ overtaken = {}

-----------------------------------------------------------------------------
Go(r, s) == step' = [step EXCEPT ![r] = s]

\* The arguments are checked; a bad one throws.
read(r, pid, a) ==
  /\ step[r] = "idle" /\ reads < MaxReads
  /\ reads' = reads + 1
  /\ IF Accepted(pid, a)
     THEN /\ Go(r, "lookup")
          /\ call' = [call EXCEPT ![r] = [pid |-> pid, address |-> a]]
          /\ since' = [since EXCEPT ![r] = floor]
     ELSE UNCHANGED <<step, call, since>>
  /\ UNCHANGED <<memory, caching, cache, value, inside, undefined, floor, overtaken>>

\* Whether there is a cache, before the target is read and after it.
TestCache(r) ==
  /\ \/ step[r] = "lookup" /\ Go(r, IF caching THEN "get" ELSE "vmm")
     \/ step[r] = "put" /\ Go(r, IF caching THEN "store" ELSE "return")
  /\ UNCHANGED <<memory, caching, cache, call, value, reads, inside, undefined, floor, since, overtaken>>

\* cache_->get: the key is the address and the size.
Get(r) ==
  /\ step[r] = "get" /\ r \notin inside
  /\ value' = [value EXCEPT ![r] = cache[call[r].address]]
  /\ Go(r, IF value'[r] = Nothing THEN "vmm" ELSE "return")
  /\ UNCHANGED <<memory, caching, cache, call, reads, inside, undefined, floor, since, overtaken>>

\* VMMDLL_MemReadEx delivers the value, or fails, delivers nothing or a part: the read throws.
VmmRead(r) ==
  /\ step[r] = "vmm"
  /\ \/ /\ value' = [value EXCEPT ![r] = [pid |-> call[r].pid,
                                          at |-> memory[<<call[r].pid, call[r].address>>]]]
        /\ Go(r, "put")
     \/ Go(r, "return") /\ UNCHANGED value
  /\ UNCHANGED <<memory, caching, cache, call, reads, inside, undefined, floor, since, overtaken>>

\* cache_->put.
Store(r) ==
  /\ step[r] = "store" /\ r \notin inside
  /\ cache' = [cache EXCEPT ![call[r].address] = value[r]]
  /\ Go(r, "return")
  /\ UNCHANGED <<memory, caching, call, value, reads, inside, undefined, floor, since, overtaken>>

\* The reader goes on in a cache that is no more.
Trespass(r) ==
  /\ r \in inside
  /\ undefined' = TRUE
  /\ UNCHANGED <<memory, caching, cache, step, call, value, reads, inside, floor, since, overtaken>>

Return(r) ==
  /\ step[r] = "return"
  /\ Go(r, "idle")
  /\ call' = [call EXCEPT ![r] = NoCall]
  /\ value' = [value EXCEPT ![r] = Nothing]
  /\ since' = [since EXCEPT ![r] = NoFloor]
  /\ overtaken' = overtaken \ {r}
  /\ UNCHANGED <<memory, caching, cache, reads, inside, undefined, floor>>

-----------------------------------------------------------------------------
(* What the other threads do meanwhile *)

\* What the readers have in hand of a cell, to be stored yet.
Storing == {r \in Readers : step[r] \in {"put", "store"}}
InHand(c) == {value[r].at : r \in {x \in Storing : value[x].pid = c[1] /\ call[x].address = c[2]}}

\* The entries of the addresses A are gone.  What can still come into the cache for them
\* is as new as memory, or as the oldest value in a reader's hand.
Drop(A) ==
  /\ floor' = [c \in Cells |-> IF c[2] \in A THEN Min({memory[c]} \cup InHand(c)) ELSE floor[c]]
  /\ overtaken' = overtaken \cup {r \in Storing : call[r].address \in A}

clear_cache ==
  /\ caching
  /\ cache' = EmptyCache
  /\ Drop(Addresses)
  /\ UNCHANGED <<memory, caching, step, call, value, reads, inside, undefined, since>>

\* Mutant of invalidate_cache: it looks for the address without the size, finds nothing.
invalidate_missed(a) ==
  /\ caching
  /\ Drop({a})
  /\ UNCHANGED <<memory, caching, cache, step, call, value, reads, inside, undefined, since>>

invalidate_cache(a) ==
  /\ caching
  /\ cache' = [cache EXCEPT ![a] = Nothing]
  /\ Drop({a})
  /\ UNCHANGED <<memory, caching, step, call, value, reads, inside, undefined, since>>

\* The cache is destroyed, with whoever is inside, or made anew.
enable_cache(enable) ==
  /\ enable = ~caching
  /\ caching' = enable
  /\ cache' = EmptyCache
  /\ inside' = IF enable THEN inside ELSE inside \cup {r \in Readers : step[r] \in {"get", "store"}}
  /\ Drop(Addresses)
  /\ UNCHANGED <<memory, step, call, value, reads, undefined, since>>

\* An entry is evicted, or has expired.
CacheDrops(a) ==
  /\ caching /\ cache[a] # Nothing
  /\ cache' = [cache EXCEPT ![a] = Nothing]
  /\ UNCHANGED <<memory, caching, step, call, value, reads, inside, undefined, floor, since, overtaken>>

TargetWrites(c) ==
  /\ memory[c] < MaxWrites
  /\ memory' = [memory EXCEPT ![c] = @ + 1]
  /\ UNCHANGED <<caching, cache, step, call, value, reads, inside, undefined, floor, since, overtaken>>

ReadsNext ==
  /\ ~undefined
  /\ \/ \E r \in Readers :
          \/ \E pid \in Pids, a \in Addresses : read(r, pid, a)
          \/ TestCache(r) \/ Get(r) \/ VmmRead(r) \/ Store(r) \/ Trespass(r) \/ Return(r)
     \/ \E a \in Addresses : invalidate_cache(a) \/ CacheDrops(a)
     \/ clear_cache
     \/ \E enable \in BOOLEAN : enable_cache(enable)
     \/ \E c \in Cells : TargetWrites(c)

ReadsSpec == ReadsInit /\ [][ReadsNext]_reads_vars

-----------------------------------------------------------------------------
ReadsTypeOK ==
  /\ memory \in [Cells -> 0 .. MaxWrites] /\ floor \in [Cells -> 0 .. MaxWrites]
  /\ caching \in BOOLEAN /\ undefined \in BOOLEAN
  /\ cache \in [Addresses -> Values \cup {Nothing}]
  /\ step \in [Readers -> {"idle", "lookup", "get", "vmm", "put", "store", "return"}]
  /\ call \in [Readers -> [pid : Pids, address : Addresses] \cup {NoCall}]
  /\ \A r \in Readers : step[r] # "idle" => call[r] # NoCall
  /\ value \in [Readers -> Values \cup {Nothing}]
  /\ reads \in 0 .. MaxReads
  /\ inside \subseteq Readers /\ overtaken \subseteq Readers
  /\ since \in [Readers -> [Cells -> 0 .. MaxWrites]]

\* v is a value its process has held at the address, no older than the writes counted in f.
NotOlder(v, a, f) == f[<<v.pid, a>>] <= v.at /\ v.at <= memory[<<v.pid, a>>]

\* A read never returns bytes of a process that were overwritten before an invalidation of
\* the cache that had completed when the read began, but for bytes a reader had in hand at
\* that invalidation, to be stored yet.  Bytes of another process come from the cache,
\* whose key has no process id.
ReadsFresh ==
  \A r \in Readers : value[r] # Nothing => NotOlder(value[r], call[r].address, since[r])

\* What cache.hh says of invalidate, "Invalidate specific address from cache": a read that
\* began before it does not bring back the bytes it read before.  Checked, and violated.
InvalidatedStays == \A r \in overtaken : step[r] # "store"

\* README.md says "Thread-safe - Race conditions eliminated, proper RAII": no reader goes on
\* in a cache that enable_cache(false) destroyed.  Checked, and violated.
CacheOutlives == ~undefined
=============================================================================
