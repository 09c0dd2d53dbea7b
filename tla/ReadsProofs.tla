----------------------------- MODULE ReadsProofs -----------------------------
(***************************************************************************)
(* Proofs about the parts of the read path: the reads themselves, the      *)
(* rate limiter and the cache before them, the retries around them,        *)
(* pointer chains, batches and comparisons on top of them; for any         *)
(* threads, addresses, limits and configurations.                          *)
(***************************************************************************)
EXTENDS RateLimiter, MemoryCache, DMAReads, SelfHealing, PointerChains, Batch,
        Differ, Sums

-----------------------------------------------------------------------------
(***************************************************************************)
(* Proofs about DMAReads, for any readers, processes and addresses.        *)
(*                                                                         *)
(* A value travels from the target through a reader's hand into the cache  *)
(* and from there into other hands.  ReadsInv says at each place how old   *)
(* it may be: a value about to be stored, and one in the cache, no older   *)
(* than floor; a value in a hand no older than since.  That Drop raises    *)
(* floor no further than the oldest value that is about to be stored is    *)
(* what makes it inductive.                                                *)
(***************************************************************************)
\* A reader inside read() passed the validator, and has a value only once it got one.
Asking ==
  \A r \in Readers :
    /\ step[r] # "idle" => <<call[r].pid, call[r].address>> \in Cells
    /\ step[r] \in {"idle", "lookup", "get", "vmm"} => value[r] = Nothing
    /\ step[r] \in {"put", "store"} => value[r] # Nothing

\* Nothing counted in f is newer than memory.
Behind(f) == \A c \in Cells : f[c] <= memory[c]

Floors ==
  /\ Behind(floor)
  /\ \A r \in Readers, c \in Cells : since[r][c] <= floor[c]

\* v is a value of an accepted cell of the address, no older than f says.
Fine(v, a, f) == <<v.pid, a>> \in Cells /\ NotOlder(v, a, f)

CacheFine == \A a \in Addresses : cache[a] # Nothing => Fine(cache[a], a, floor)

HandsFine ==
  \A r \in Readers :
    value[r] # Nothing =>
      /\ Fine(value[r], call[r].address, since[r])
      /\ step[r] \in {"put", "store"} => Fine(value[r], call[r].address, floor)

ReadsInv == ReadsTypeOK /\ Asking /\ Floors /\ CacheFine /\ HandsFine

\* Nothing is not a value of any process.
LEMMA NothingNoValue == Nothing \notin Values /\ NoCall \notin [pid : Pids, address : Addresses]
BY ReadsAssumption DEF Nothing, NoCall, Values

\* A cell is a pair of a process and an address.
LEMMA CellPair ==
  ASSUME NEW c \in Cells
  PROVE  c[1] \in Pids /\ c[2] \in Addresses /\ c = <<c[1], c[2]>>
BY DEF Cells

\* A DMA object just attached: an empty cache, no reader.
LEMMA ReadsInitInv == ReadsInit => ReadsInv
<1> SUFFICES ASSUME ReadsInit PROVE ReadsInv
  OBVIOUS
<1> USE ReadsAssumption DEF ReadsInit
<1>1. ReadsTypeOK
  <2>1. NoFloor \in [Cells -> 0..MaxWrites] /\ EmptyCache \in [Addresses -> Values \cup {Nothing}]
    BY DEF NoFloor, EmptyCache
  <2>2. caching \in BOOLEAN /\ undefined \in BOOLEAN
    BY Zenon
  <2>3. reads \in 0..MaxReads /\ inside = {} /\ overtaken = {}
    OBVIOUS
  <2> QED BY <2>1, <2>2, <2>3 DEF ReadsTypeOK
<1>2. Asking
  BY DEF Asking
<1>3. Floors
  BY DEF Floors, Behind, NoFloor
<1>4. CacheFine /\ HandsFine
  BY DEF CacheFine, HandsFine, EmptyCache
<1> QED BY <1>1, <1>2, <1>3, <1>4 DEF ReadsInv

-----------------------------------------------------------------------------
\* A step of one reader that leaves memory, the cache and floor alone, and keeps what
\* it holds.
LEMMA HandInv ==
  ASSUME ReadsInv, NEW r \in Readers, NEW s, s # "idle",
         step[r] # "idle",
         s \in {"lookup", "get", "vmm"} => value[r] = Nothing,
         s \in {"put", "store"} => step[r] \in {"put", "store"},
         step' = [step EXCEPT ![r] = s],
         UNCHANGED <<memory, cache, call, value, floor, since>>,
         ReadsTypeOK'
  PROVE  ReadsInv'
<1>1. Asking'
  BY DEF ReadsInv, ReadsTypeOK, Asking
<1>2. Floors' /\ CacheFine'
  BY DEF ReadsInv, Floors, Behind, CacheFine, Fine, NotOlder
<1>3. HandsFine'
  BY DEF ReadsInv, ReadsTypeOK, HandsFine, Fine, NotOlder
<1> QED BY <1>1, <1>2, <1>3 DEF ReadsInv

\* What is in the readers' hands, of a cell that can be read.
LEMMA HeldIs ==
  ASSUME ReadsInv, NEW c \in Cells
  PROVE  /\ InHand(c) \subseteq Nat
         /\ \A n \in InHand(c) : floor[c] <= n
<1> SUFFICES ASSUME NEW r \in Storing, value[r].pid = c[1], call[r].address = c[2]
             PROVE  value[r].at \in Nat /\ floor[c] <= value[r].at
  BY DEF InHand
<1>1. r \in Readers /\ value[r] # Nothing /\ step[r] \in {"put", "store"}
  BY DEF ReadsInv, Storing, Asking
<1>2. Fine(value[r], call[r].address, floor) /\ value[r] \in Values
  BY <1>1 DEF ReadsInv, ReadsTypeOK, HandsFine
<1>3. <<value[r].pid, call[r].address>> = c
  BY CellPair
<1> QED BY <1>2, <1>3 DEF Fine, NotOlder, Values

\* read() is entered: since is what floor is now.
LEMMA ReadCallInv ==
  ASSUME ReadsInv, NEW r \in Readers, NEW pid \in Pids, NEW a \in Addresses, read(r, pid, a)
  PROVE  ReadsInv'
<1> USE ReadsAssumption DEF ReadsInv
<1>0. /\ step[r] = "idle" /\ value[r] = Nothing /\ reads' = reads + 1 /\ reads < MaxReads
      /\ UNCHANGED <<memory, caching, cache, value, inside, undefined, floor, overtaken>>
  BY DEF read, Asking
<1>1. CASE ~Accepted(pid, a)
  <2>1. UNCHANGED <<step, call, since>>
    BY <1>1 DEF read
  <2>2. ReadsTypeOK'
    BY <1>0, <2>1 DEF ReadsTypeOK
  <2> QED BY <1>0, <2>1, <2>2 DEF Asking, Floors, Behind, CacheFine, HandsFine, Fine, NotOlder
<1>2. CASE Accepted(pid, a)
  <2>1. /\ step' = [step EXCEPT ![r] = "lookup"]
        /\ call' = [call EXCEPT ![r] = [pid |-> pid, address |-> a]]
        /\ since' = [since EXCEPT ![r] = floor]
    BY <1>2 DEF read, Go
  <2>2. <<pid, a>> \in Cells
    BY <1>2 DEF Cells
  <2>3. ReadsTypeOK'
    BY <1>0, <2>1, NothingNoValue DEF ReadsTypeOK
  <2>4. Asking'
    BY <1>0, <2>1, <2>2 DEF ReadsTypeOK, Asking
  <2>5. Floors'
    <3>1. \A c \in Cells : floor[c] <= floor[c]
      BY DEF ReadsTypeOK
    <3> QED BY <1>0, <2>1, <3>1 DEF ReadsTypeOK, Floors, Behind
  <2>6. CacheFine'
    BY <1>0 DEF CacheFine, Fine, NotOlder
  <2>7. HandsFine'
    BY <1>0, <2>1 DEF ReadsTypeOK, HandsFine, Fine, NotOlder
  <2> QED BY <2>3, <2>4, <2>5, <2>6, <2>7
<1> QED BY <1>1, <1>2

\* A hit is as fresh as the cache, and the cache as fresh as floor.
LEMMA GetInv ==
  ASSUME ReadsInv, NEW r \in Readers, Get(r)
  PROVE  ReadsInv'
<1> USE ReadsAssumption DEF ReadsInv
<1> DEFINE a == call[r].address
           got == cache[a]
           next == IF got = Nothing THEN "vmm" ELSE "return"
<1>0. /\ step[r] = "get" /\ value[r] = Nothing
      /\ <<call[r].pid, a>> \in Cells /\ a \in Addresses
      /\ value \in [Readers -> Values \cup {Nothing}] /\ step' = [step EXCEPT ![r] = next]
      /\ value' = [value EXCEPT ![r] = got]
      /\ UNCHANGED <<memory, caching, cache, call, reads, inside, undefined, floor, since, overtaken>>
  BY DEF Get, Go, Asking, ReadsTypeOK, Cells
<1>1. got \in Values \cup {Nothing}
  BY <1>0 DEF ReadsTypeOK
<1>2. ReadsTypeOK'
  BY <1>0, <1>1 DEF ReadsTypeOK
<1>3. Asking'
  BY <1>0 DEF ReadsTypeOK, Asking
<1>4. Floors' /\ CacheFine'
  BY <1>0 DEF Floors, Behind, CacheFine, Fine, NotOlder
<1>5. got # Nothing => Fine(got, a, since[r])
  <2> SUFFICES ASSUME got # Nothing PROVE Fine(got, a, since[r])
    OBVIOUS
  <2> DEFINE c == <<got.pid, a>>
  <2>1. Fine(got, a, floor) /\ got \in Values
    BY <1>0, <1>1 DEF CacheFine
  <2>2. c \in Cells /\ floor[c] <= got.at /\ got.at <= memory[c] /\ since[r][c] <= floor[c]
    BY <2>1 DEF Fine, NotOlder, Floors
  <2>3. got.at \in Nat /\ floor[c] \in Nat /\ since[r][c] \in Nat
    BY <2>1, <2>2 DEF Values, ReadsTypeOK
  <2> QED BY <2>2, <2>3 DEF Fine, NotOlder
<1>6. HandsFine'
  <2> SUFFICES ASSUME NEW q \in Readers, value'[q] # Nothing
      PROVE  /\ Fine(value'[q], call[q].address, since[q])
             /\ step'[q] \in {"put", "store"} => Fine(value'[q], call[q].address, floor)
    BY <1>0 DEF HandsFine, Fine, NotOlder
  <2>1. CASE q = r
    BY <1>0, <1>5, <2>1 DEF ReadsTypeOK, Fine, NotOlder
  <2>2. CASE q # r
    BY <1>0, <2>2 DEF ReadsTypeOK, HandsFine, Fine, NotOlder
  <2> QED BY <2>1, <2>2
<1> QED BY <1>2, <1>3, <1>4, <1>6

\* What the target delivers is as it stands in memory, and nothing is newer.
LEMMA VmmInv ==
  ASSUME ReadsInv, NEW r \in Readers, VmmRead(r)
  PROVE  ReadsInv'
<1> USE ReadsAssumption DEF ReadsInv
<1> DEFINE a == call[r].address
           c == <<call[r].pid, a>>
           got == [pid |-> call[r].pid, at |-> memory[c]]
<1>0. /\ step[r] = "vmm" /\ value[r] = Nothing /\ c \in Cells
      /\ UNCHANGED <<memory, caching, cache, call, reads, inside, undefined, floor, since, overtaken>>
  BY DEF VmmRead, Asking
<1>1. CASE Go(r, "return") /\ UNCHANGED value
  <2>1. ReadsTypeOK'
    BY <1>0, <1>1 DEF ReadsTypeOK, Go
  <2> QED BY <1>0, <1>1, <2>1, HandInv DEF Go
<1>2. CASE value' = [value EXCEPT ![r] = got] /\ Go(r, "put")
  <2>1. /\ call[r].pid \in Pids /\ memory[c] \in 0..MaxWrites /\ memory[c] \in Nat
        /\ floor[c] \in Nat /\ since[r][c] \in Nat
        /\ floor[c] <= memory[c] /\ since[r][c] <= floor[c]
    <3>1. call[r].pid \in Pids
      BY <1>0 DEF Cells
    <3>2. memory[c] \in 0..MaxWrites /\ floor[c] \in 0..MaxWrites /\ since[r][c] \in 0..MaxWrites
      BY <1>0 DEF ReadsTypeOK
    <3>3. floor[c] <= memory[c] /\ since[r][c] <= floor[c]
      BY <1>0 DEF Floors, Behind
    <3> QED BY <3>1, <3>2, <3>3
  <2>2. got \in Values /\ got # Nothing
    BY <2>1, NothingNoValue DEF Values
  <2>3. ReadsTypeOK'
    BY <1>0, <1>2, <2>2 DEF ReadsTypeOK, Go
  <2>4. Asking'
    BY <1>0, <1>2, <2>2 DEF ReadsTypeOK, Asking, Go
  <2>5. Floors' /\ CacheFine'
    BY <1>0 DEF Floors, Behind, CacheFine, Fine, NotOlder
  <2>6. Fine(got, a, since[r]) /\ Fine(got, a, floor)
    <3>1. got.pid = call[r].pid /\ got.at = memory[c]
      OBVIOUS
    <3>2. since[r][c] <= memory[c] /\ floor[c] <= memory[c] /\ memory[c] <= memory[c]
      BY <2>1
    <3> QED BY <1>0, <3>1, <3>2 DEF Fine, NotOlder
  <2>7. HandsFine'
    <3> SUFFICES ASSUME NEW q \in Readers, value'[q] # Nothing
        PROVE  /\ Fine(value'[q], call[q].address, since[q])
               /\ step'[q] \in {"put", "store"} => Fine(value'[q], call[q].address, floor)
      BY <1>0 DEF HandsFine, Fine, NotOlder
    <3>1. CASE q = r
      BY <1>0, <1>2, <2>6, <3>1 DEF ReadsTypeOK, Fine, NotOlder
    <3>2. CASE q # r
      BY <1>0, <1>2, <3>2 DEF ReadsTypeOK, HandsFine, Fine, NotOlder, Go
    <3> QED BY <3>1, <3>2
  <2> QED BY <2>3, <2>4, <2>5, <2>7
<1> QED BY <1>1, <1>2 DEF VmmRead

\* A value that is stored is no older than floor, though the cache was emptied meanwhile.
LEMMA StoreInv ==
  ASSUME ReadsInv, NEW r \in Readers, Store(r)
  PROVE  ReadsInv'
<1> USE ReadsAssumption DEF ReadsInv
<1> DEFINE a == call[r].address
<1>0. /\ step[r] = "store" /\ step' = [step EXCEPT ![r] = "return"]
      /\ value[r] # Nothing /\ a \in Addresses /\ value[r] \in Values
      /\ Fine(value[r], a, floor)
      /\ cache' = [cache EXCEPT ![a] = value[r]]
      /\ UNCHANGED <<memory, caching, call, value, reads, inside, undefined, floor, since, overtaken>>
  BY DEF Store, Go, Asking, HandsFine, ReadsTypeOK, Cells
<1>1. ReadsTypeOK'
  BY <1>0 DEF ReadsTypeOK
<1>2. Asking'
  BY <1>0 DEF ReadsTypeOK, Asking
<1>3. Floors'
  BY <1>0 DEF Floors, Behind
<1>4. CacheFine'
  <2> SUFFICES ASSUME NEW b \in Addresses, cache'[b] # Nothing
      PROVE  Fine(cache'[b], b, floor)
    BY <1>0 DEF CacheFine, Fine, NotOlder
  <2>1. CASE cache'[b] = cache[b]
    BY <1>0, <2>1 DEF CacheFine
  <2>2. CASE cache'[b] # cache[b]
    <3>1. b = a /\ cache'[b] = value[r]
      BY <1>0, <2>2 DEF ReadsTypeOK
    <3> QED BY <1>0, <3>1
  <2> QED BY <2>1, <2>2
<1>5. HandsFine'
  BY <1>0 DEF ReadsTypeOK, HandsFine, Fine, NotOlder
<1> QED BY <1>1, <1>2, <1>3, <1>4, <1>5

\* A test of cache_, and a step into what is undefined, move no value.
LEMMA TestInv ==
  ASSUME ReadsInv, NEW r \in Readers, TestCache(r) \/ Trespass(r)
  PROVE  ReadsInv'
<1>0. ReadsTypeOK /\ Asking
  BY DEF ReadsInv
<1>1. CASE Trespass(r)
  <2>1. ReadsTypeOK'
    BY <1>0, <1>1 DEF Trespass, ReadsTypeOK
  <2> QED BY <1>1, <2>1 DEF Trespass, ReadsInv, Asking, Floors, Behind, CacheFine, HandsFine, Fine,
                          NotOlder
<1>2. CASE TestCache(r) /\ step[r] = "lookup"
  <2>1. PICK s \in {"get", "vmm"} : step' = [step EXCEPT ![r] = s]
    BY <1>2 DEF TestCache, Go
  <2>2. UNCHANGED <<memory, caching, cache, call, value, reads, inside, undefined, floor, since, overtaken>>
    BY <1>2 DEF TestCache
  <2>3. ReadsTypeOK'
    BY <1>0, <1>2, <2>1, <2>2 DEF ReadsTypeOK
  <2>4. value[r] = Nothing
    BY <1>0, <1>2 DEF Asking
  <2> QED BY <1>2, <2>1, <2>2, <2>3, <2>4, HandInv
<1>3. CASE TestCache(r) /\ step[r] = "put"
  <2>1. PICK s \in {"store", "return"} : step' = [step EXCEPT ![r] = s]
    BY <1>3 DEF TestCache, Go
  <2>2. UNCHANGED <<memory, caching, cache, call, value, reads, inside, undefined, floor, since, overtaken>>
    BY <1>3 DEF TestCache
  <2>3. ReadsTypeOK'
    BY <1>0, <1>3, <2>1, <2>2 DEF ReadsTypeOK
  <2> QED BY <1>3, <2>1, <2>2, <2>3, HandInv
<1> QED BY <1>1, <1>2, <1>3 DEF TestCache

\* The call returns, with empty hands for the next.
LEMMA ReturnInv ==
  ASSUME ReadsInv, NEW r \in Readers, Return(r)
  PROVE  ReadsInv'
<1> USE ReadsAssumption DEF ReadsInv, Return, Go
<1>1. ReadsTypeOK'
  BY DEF ReadsTypeOK, NoFloor
<1>2. Asking'
  BY DEF ReadsTypeOK, Asking
<1>3. Floors'
  <2>1. \A c \in Cells : 0 <= floor[c]
    BY DEF ReadsTypeOK
  <2> QED BY <2>1 DEF ReadsTypeOK, Floors, Behind, NoFloor
<1>4. CacheFine'
  BY DEF CacheFine, Fine, NotOlder
<1>5. HandsFine'
  BY DEF ReadsTypeOK, HandsFine, Fine, NotOlder
<1> QED BY <1>1, <1>2, <1>3, <1>4, <1>5

-----------------------------------------------------------------------------
\* An invalidation raises floor for the addresses that are gone from the cache, up to
\* what a reader is about to store.
LEMMA DropInv ==
  ASSUME ReadsInv, NEW A \in SUBSET Addresses, Drop(A), ReadsTypeOK',
         \A a \in Addresses : cache'[a] # Nothing => a \notin A /\ cache'[a] = cache[a],
         UNCHANGED <<memory, step, call, value, since>>
  PROVE  ReadsInv'
<1> USE DEF ReadsInv
<1>2. \A c \in Cells : memory[c] \in Nat /\ floor[c] \in Nat /\ floor[c] <= memory[c]
  BY ReadsAssumption DEF ReadsTypeOK, Floors, Behind
<1>1. ASSUME NEW c \in Cells
      PROVE  /\ floor'[c] \in Nat /\ floor[c] <= floor'[c] /\ floor'[c] <= memory[c]
             /\ c[2] \notin A => floor'[c] = floor[c]
             /\ c[2] \in A => \A n \in InHand(c) : floor'[c] <= n
  <2> DEFINE S == {memory[c]} \cup InHand(c)
  <2>1. S \subseteq Nat /\ S # {} /\ \A n \in S : floor[c] <= n
    BY <1>2, HeldIs
  <2>2. Min(S) \in S /\ \A n \in S : Min(S) <= n
    <3> HIDE DEF S
    <3> QED BY <2>1, LeastNat DEF Min
  <2>3. floor'[c] = IF c[2] \in A THEN Min(S) ELSE floor[c]
    BY DEF Drop
  <2> DEFINE m == Min(S)
  <2> HIDE DEF m
  <2>4. m \in Nat /\ floor[c] <= m /\ m <= memory[c] /\ \A n \in InHand(c) : m <= n
    BY <2>1, <2>2 DEF m
  <2>5. floor'[c] = IF c[2] \in A THEN m ELSE floor[c]
    BY <2>3 DEF m
  <2>6. floor[c] \in Nat /\ floor[c] <= floor[c] /\ floor[c] <= memory[c]
    BY <1>2
  <2> HIDE DEF S
  <2> QED BY <2>4, <2>5, <2>6
<1>3. \A c \in Cells : floor[c] <= floor'[c] /\ floor'[c] <= memory[c] /\ floor'[c] \in Nat
  BY <1>1
<1>4. Asking'
  BY DEF Asking
<1>5. Floors'
  <2>1. ASSUME NEW r \in Readers, NEW c \in Cells PROVE since[r][c] <= floor'[c]
    <3>1. since[r][c] \in Nat /\ since[r][c] <= floor[c]
      BY ReadsAssumption DEF ReadsTypeOK, Floors
    <3> QED BY <1>2, <1>3, <3>1
  <2> QED BY <1>3, <2>1 DEF Floors, Behind
<1>6. CacheFine'
  <2> SUFFICES ASSUME NEW b \in Addresses, cache'[b] # Nothing
      PROVE  Fine(cache'[b], b, floor')
    BY DEF CacheFine, Fine, NotOlder
  <2> DEFINE c == <<cache[b].pid, b>>
  <2>1. cache'[b] = cache[b] /\ b \notin A
    OBVIOUS
  <2>2. c \in Cells /\ floor[c] <= cache[b].at /\ cache[b].at <= memory[c]
    BY <2>1 DEF CacheFine, Fine, NotOlder
  <2>3. floor'[c] = floor[c]
    <3>1. c[2] \notin A
      BY <2>1
    <3> QED BY <1>1, <2>2, <3>1
  <2> QED BY <2>1, <2>2, <2>3 DEF Fine, NotOlder
<1>7. HandsFine'
  <2> SUFFICES ASSUME NEW r \in Readers, value[r] # Nothing, step[r] \in {"put", "store"}
      PROVE  Fine(value[r], call[r].address, floor')
    BY DEF HandsFine, Fine, NotOlder
  <2> DEFINE c == <<value[r].pid, call[r].address>>
  <2>1. c \in Cells /\ floor[c] <= value[r].at /\ value[r].at <= memory[c]
    BY DEF HandsFine, Fine, NotOlder
  <2>2. value[r].at \in InHand(c)
    BY DEF InHand, Storing
  <2>3. floor'[c] <= value[r].at
    BY <1>1, <2>1, <2>2
  <2> QED BY <2>1, <2>3 DEF Fine, NotOlder
<1> QED BY <1>4, <1>5, <1>6, <1>7

\* clear_cache, invalidate_cache, enable_cache.
LEMMA InvalidateInv ==
  ASSUME ReadsInv,
         \/ clear_cache
         \/ \E enable \in BOOLEAN : enable_cache(enable)
         \/ \E a \in Addresses : invalidate_cache(a)
  PROVE  ReadsInv'
<1>0. ReadsTypeOK
  BY DEF ReadsInv
<1>1. ASSUME NEW A \in SUBSET Addresses, Drop(A), memory' = memory
      PROVE  floor' \in [Cells -> 0..MaxWrites] /\ overtaken' \subseteq Readers
  <2>1. ASSUME NEW c \in Cells PROVE Min({memory[c]} \cup InHand(c)) \in 0..MaxWrites
    <3> DEFINE S == {memory[c]} \cup InHand(c)
    <3>1. S \subseteq Nat /\ memory[c] \in S /\ memory[c] \in 0..MaxWrites
      BY <1>0, HeldIs DEF ReadsTypeOK
    <3>2. Min(S) \in S /\ \A n \in S : Min(S) <= n
      <4> HIDE DEF S
      <4> QED BY <3>1, LeastNat DEF Min
    <3> HIDE DEF S
    <3>3. Min(S) \in Nat /\ Min(S) <= memory[c]
      BY <3>1, <3>2
    <3>4. Min(S) \in 0..MaxWrites
      <4> DEFINE m == Min(S)
      <4> HIDE DEF m
      <4>1. m \in 0..MaxWrites
        BY <3>1, <3>3, ReadsAssumption DEF m
      <4> QED BY <4>1 DEF m
    <3> QED BY <3>4 DEF S
  <2>2. overtaken' \subseteq Readers
    BY <1>0, <1>1 DEF Drop, ReadsTypeOK, Storing
  <2> DEFINE m(c) == Min({memory[c]} \cup InHand(c))
  <2>3. floor' = [c \in Cells |-> IF c[2] \in A THEN m(c) ELSE floor[c]]
    BY <1>1 DEF Drop
  <2>4. \A c \in Cells : m(c) \in 0..MaxWrites
    BY <2>1
  <2> HIDE DEF m
  <2> QED BY <1>0, <2>2, <2>3, <2>4 DEF ReadsTypeOK
<1>2. CASE clear_cache
  <2>1. /\ cache' = EmptyCache /\ Drop(Addresses)
        /\ UNCHANGED <<memory, caching, step, call, value, reads, inside, undefined, since>>
    BY <1>2 DEF clear_cache
  <2>2. ReadsTypeOK'
    BY <1>0, <1>1, <2>1 DEF ReadsTypeOK, EmptyCache
  <2> QED BY <2>1, <2>2, DropInv DEF EmptyCache
<1>3. ASSUME NEW enable \in BOOLEAN, enable_cache(enable) PROVE ReadsInv'
  <2>1. /\ cache' = EmptyCache /\ Drop(Addresses) /\ caching' = enable /\ inside' \subseteq Readers
        /\ UNCHANGED <<memory, step, call, value, reads, undefined, since>>
    BY <1>0, <1>3 DEF enable_cache, ReadsTypeOK
  <2>2. ReadsTypeOK'
    BY <1>0, <1>1, <2>1 DEF ReadsTypeOK, EmptyCache
  <2> QED BY <2>1, <2>2, DropInv DEF EmptyCache
<1>4. ASSUME NEW a \in Addresses, invalidate_cache(a) PROVE ReadsInv'
  <2>1. /\ cache' = [cache EXCEPT ![a] = Nothing] /\ Drop({a})
        /\ UNCHANGED <<memory, caching, step, call, value, reads, inside, undefined, since>>
    BY <1>4 DEF invalidate_cache
  <2>2. ReadsTypeOK'
    BY <1>0, <1>1, <2>1 DEF ReadsTypeOK
  <2>3. \A b \in Addresses : cache'[b] # Nothing => b \notin {a} /\ cache'[b] = cache[b]
    BY <1>0, <2>1 DEF ReadsTypeOK
  <2> QED BY <2>1, <2>2, <2>3, DropInv
<1> QED BY <1>2, <1>3, <1>4

\* An eviction, and a write of the target.
LEMMA ReadOthersInv ==
  ASSUME ReadsInv,
         \/ \E a \in Addresses : CacheDrops(a)
         \/ \E c \in Cells : TargetWrites(c)
  PROVE  ReadsInv'
<1> USE ReadsAssumption DEF ReadsInv
<1>1. ASSUME NEW a \in Addresses, CacheDrops(a) PROVE ReadsInv'
  <2> USE <1>1 DEF CacheDrops
  <2>1. ReadsTypeOK'
    BY DEF ReadsTypeOK
  <2>2. CacheFine'
    BY DEF ReadsTypeOK, CacheFine, Fine, NotOlder
  <2>3. Asking' /\ Floors' /\ HandsFine'
    BY DEF Asking, Floors, Behind, HandsFine, Fine, NotOlder
  <2> QED BY <2>1, <2>2, <2>3
<1>3. ASSUME NEW c \in Cells, TargetWrites(c) PROVE ReadsInv'
  <2> USE <1>3 DEF TargetWrites
  <2>1. ReadsTypeOK'
    BY DEF ReadsTypeOK
  <2>2. \A d \in Cells : memory[d] \in Nat /\ memory'[d] \in Nat /\ memory[d] <= memory'[d]
    BY DEF ReadsTypeOK
  <2>3. Asking'
    BY DEF Asking
  <2>4. Floors'
    BY <2>2 DEF ReadsTypeOK, Floors, Behind
  <2>5. ASSUME NEW v \in Values, NEW a \in Addresses, NEW f \in [Cells -> Nat], Fine(v, a, f)
        PROVE  <<v.pid, a>> \in Cells /\ f[<<v.pid, a>>] <= v.at /\ v.at <= memory'[<<v.pid, a>>]
    BY <2>2, <2>5 DEF Fine, NotOlder, Values
  <2>6. /\ floor \in [Cells -> Nat] /\ \A r \in Readers : since[r] \in [Cells -> Nat]
        /\ cache \in [Addresses -> Values \cup {Nothing}]
        /\ value \in [Readers -> Values \cup {Nothing}]
        /\ \A r \in Readers : value[r] # Nothing => call[r].address \in Addresses
    <3>1. \A r \in Readers : value[r] # Nothing => call[r].address \in Addresses
      BY DEF HandsFine, Fine, Cells
    <3> QED BY <3>1 DEF ReadsTypeOK
  <2>7. CacheFine'
    BY <2>5, <2>6 DEF CacheFine, Fine, NotOlder
  <2>8. HandsFine'
    BY <2>5, <2>6 DEF HandsFine, Fine, NotOlder
  <2> QED BY <2>1, <2>3, <2>4, <2>7, <2>8
<1> QED BY <1>1, <1>3

-----------------------------------------------------------------------------
\* ReadsInv holds in every state.
THEOREM ReadsInvariance == ReadsSpec => []ReadsInv
<1>1. ASSUME ReadsInv, [ReadsNext]_reads_vars PROVE ReadsInv'
  <2>1. ASSUME NEW r \in Readers,
               \/ \E pid \in Pids, a \in Addresses : read(r, pid, a)
               \/ TestCache(r) \/ Get(r) \/ VmmRead(r) \/ Store(r) \/ Trespass(r) \/ Return(r)
        PROVE  ReadsInv'
    BY <1>1, <2>1, ReadCallInv, TestInv, GetInv, VmmInv, StoreInv, ReturnInv
  <2>2. CASE \/ clear_cache
             \/ \E enable \in BOOLEAN : enable_cache(enable)
             \/ \E a \in Addresses : invalidate_cache(a)
    BY <1>1, <2>2, InvalidateInv
  <2>3. CASE \/ \E a \in Addresses : CacheDrops(a)
             \/ \E c \in Cells : TargetWrites(c)
    BY <1>1, <2>3, ReadOthersInv
  <2>4. CASE UNCHANGED reads_vars
    BY <1>1, <2>4 DEF reads_vars, ReadsInv, ReadsTypeOK, Asking, Floors, Behind, CacheFine,
                      HandsFine, Fine, NotOlder
  <2>5. CASE ReadsNext
    <3>1. \/ \E r \in Readers :
               \/ \E pid \in Pids, a \in Addresses : read(r, pid, a)
               \/ TestCache(r) \/ Get(r) \/ VmmRead(r) \/ Store(r) \/ Trespass(r) \/ Return(r)
          \/ \E a \in Addresses : invalidate_cache(a) \/ CacheDrops(a)
          \/ clear_cache
          \/ \E enable \in BOOLEAN : enable_cache(enable)
          \/ \E c \in Cells : TargetWrites(c)
      BY <2>5, Zenon DEF ReadsNext
    <3> QED BY <2>1, <2>2, <2>3, <3>1
  <2> QED BY <1>1, <2>4, <2>5
<1> QED BY ReadsInitInv, <1>1, PTL DEF ReadsSpec

\* Every variable keeps its type; in particular, a reader inside read() has its arguments.
THEOREM ReadsTyped == ReadsSpec => []ReadsTypeOK
<1>1. ReadsInv => ReadsTypeOK
  BY DEF ReadsInv
<1> QED BY <1>1, ReadsInvariance, PTL

\* No read returns bytes older than an invalidation that was over when it began, but for
\* bytes that a reader had in hand at that time; for any number of readers, and whatever
\* enable_cache, evictions and the target do meanwhile, up to the moment a reader goes on
\* in a cache that is no more.
THEOREM ReadsAreFresh == ReadsSpec => []ReadsFresh
<1>1. ReadsInv => ReadsFresh
  BY DEF ReadsInv, HandsFine, ReadsFresh, Fine
<1> QED BY <1>1, ReadsInvariance, PTL

-----------------------------------------------------------------------------
(***************************************************************************)
(* Proofs about RateLimiter, for any threads, requests and limits.         *)
(*                                                                         *)
(* LimiterInv is inductive.  CounterBound rests on Asked: a thread that    *)
(* skips the test charges its own request to a counter that starts from    *)
(* zero.  WaitStats rests on last_reset_ never being ahead of the clock.   *)
(***************************************************************************)
\* A thread inside wait_if_needed was called with one of the requests.
Asked == \A t \in Threads : pc[t] # "idle" => bytes[t] \in Requests

LimiterInv == LimiterTypeOK /\ CounterBound /\ WaitStats /\ Asked

\* One more wait, of at least a tick and at most a second, keeps the sum in step with
\* the number of waits.
LEMMA OneMoreWait ==
  ASSUME NEW n \in Nat, NEW W \in Nat, NEW w \in 1..W, NEW sum \in n..(n * W)
  PROVE  sum + w \in (n + 1)..((n + 1) * W)
<1>1. (n + 1) * W = n * W + W /\ n * W \in Nat
  OBVIOUS
<1> DEFINE p == n * W
<1>2. p \in Nat /\ sum \in n..p
  BY <1>1
<1>3. sum + w \in (n + 1)..(p + W)
  <2> HIDE DEF p
  <2> QED BY <1>2
<1> QED BY <1>1, <1>3

\* A limiter just built has an empty counter and nobody inside.
LEMMA LimiterInitInv == LimiterInit => LimiterInv
<1> SUFFICES ASSUME LimiterInit PROVE LimiterInv
  OBVIOUS
<1> USE RateAssumption DEF LimiterInit
<1>1. LimiterTypeOK
  BY DEF LimiterTypeOK, NothingYet
<1>2. CounterBound /\ WaitStats /\ Asked
  BY DEF CounterBound, WaitStats, Asked
<1> QED BY <1>1, <1>2 DEF LimiterInv

\* The last lines of wait_if_needed, from a counter that the request fits on or that is
\* zero.
LEMMA ConsumeInv ==
  ASSUME LimiterInv, NEW t \in Threads, NEW current \in Nat, Consume(t, current),
         pc[t] # "idle",
         current = 0 \/ current + bytes[t] <= bytes_per_second_limit_,
         UNCHANGED <<now, bytes_per_second_limit_, bytes>>
  PROVE  /\ bytes_consumed_' \in Nat /\ total_bytes_consumed_' \in Nat
         /\ admitted' \in [0..MaxNow -> Nat]
         /\ pc' \in [Threads -> {"idle", "lock", "decide", "sleep"}]
         /\ CounterBound' /\ Asked'
         /\ \A u \in Threads : pc'[u] # "idle" => pc'[u] = pc[u]
<1> USE DEF LimiterInv, LimiterTypeOK, Consume
<1>1. bytes[t] \in Nat /\ bytes[t] \in Requests
  BY DEF Asked
<1>2. bytes_consumed_' \in Nat /\ total_bytes_consumed_' \in Nat
  BY <1>1
<1>3. admitted' \in [0..MaxNow -> Nat]
  <2>1. now \in 0..MaxNow /\ admitted \in [0..MaxNow -> Nat]
    OBVIOUS
  <2>2. admitted' = [admitted EXCEPT ![now] = admitted[now] + bytes[t]]
    OBVIOUS
  <2> HIDE DEF LimiterInv, LimiterTypeOK, Consume
  <2>3. admitted[now] + bytes[t] \in Nat
    BY <1>1, <2>1
  <2> QED BY <2>1, <2>2, <2>3
<1>4. pc' \in [Threads -> {"idle", "lock", "decide", "sleep"}]
  OBVIOUS
<1>5. CounterBound'
  BY <1>1 DEF CounterBound
<1>6. /\ Asked'
      /\ \A u \in Threads : pc'[u] # "idle" => pc'[u] = pc[u]
  BY DEF Asked
<1> QED BY <1>2, <1>3, <1>4, <1>5, <1>6

\* The fast path lets a thread in with its request.
LEMMA LimiterCallInv ==
  ASSUME LimiterInv, NEW t \in Threads, NEW b \in Requests, Call(t, b)
  PROVE  LimiterInv'
<1> USE RateAssumption DEF LimiterInv, Call
<1>1. LimiterTypeOK'
  BY DEF LimiterTypeOK
<1>2. CounterBound' /\ WaitStats' /\ Asked'
  BY DEF LimiterTypeOK, CounterBound, WaitStats, Asked
<1> QED BY <1>1, <1>2

\* The test of the window: a request is granted only when it fits.
LEMMA LimiterCheckInv ==
  ASSUME LimiterInv, NEW t \in Threads, Check(t)
  PROVE  LimiterInv'
<1> USE RateAssumption DEF LimiterInv
<1>1. /\ last_reset_' \in 0..now
      /\ Current \in Nat
      /\ Current = 0 \/ Current = bytes_consumed_
  BY DEF Check, WindowStart, WindowOver, Current, LimiterTypeOK
<1>2. /\ pc[t] = "lock" /\ mutex_ = Nobody
      /\ UNCHANGED <<now, bytes_per_second_limit_, total_waits_, total_wait_time_ms_,
                     bytes, wait_time, asleep>>
  BY DEF Check
<1>3. CASE ~Exceeds(bytes[t]) /\ Consume(t, Current) /\ UNCHANGED mutex_
  <2>1. Current + bytes[t] <= bytes_per_second_limit_
    BY <1>1, <1>3 DEF Exceeds, LimiterTypeOK
  <2>2. /\ bytes_consumed_' \in Nat /\ total_bytes_consumed_' \in Nat
        /\ admitted' \in [0..MaxNow -> Nat]
        /\ pc' \in [Threads -> {"idle", "lock", "decide", "sleep"}]
        /\ CounterBound' /\ Asked'
        /\ \A u \in Threads : pc'[u] # "idle" => pc'[u] = pc[u]
    BY <1>1, <1>2, <1>3, <2>1, ConsumeInv
  <2>3. LimiterTypeOK'
    BY <1>1, <1>2, <1>3, <2>2 DEF LimiterTypeOK
  <2>4. WaitStats'
    BY <1>2, <2>2 DEF WaitStats
  <2> QED BY <2>2, <2>3, <2>4
<1>4. CASE /\ Exceeds(bytes[t]) /\ bytes_consumed_' = Current
           /\ pc' = [pc EXCEPT ![t] = "decide"] /\ mutex_' = t
           /\ UNCHANGED <<total_bytes_consumed_, admitted>>
  <2>1. LimiterTypeOK'
    BY <1>1, <1>2, <1>4 DEF LimiterTypeOK
  <2>2. CounterBound'
    BY <1>1, <1>2, <1>4 DEF LimiterTypeOK, CounterBound
  <2>3. WaitStats' /\ Asked'
    BY <1>2, <1>4 DEF LimiterTypeOK, WaitStats, Asked
  <2> QED BY <2>1, <2>2, <2>3
<1> QED BY <1>3, <1>4 DEF Check

\* The decision to sleep: for the rest of the second.
LEMMA DecideInv ==
  ASSUME LimiterInv, NEW t \in Threads, Decide(t)
  PROVE  LimiterInv'
<1> USE RateAssumption DEF LimiterInv, Decide
<1>1. WaitTime \in 1..WindowTicks
  <2>1. WindowTicks \in Nat /\ now \in Nat /\ last_reset_ \in 0..now /\ WaitTime > 0
    BY DEF LimiterTypeOK
  <2> QED BY <2>1 DEF WaitTime
<1> HIDE DEF LimiterInv
<1>2. LimiterTypeOK'
  BY <1>1 DEF LimiterInv, LimiterTypeOK
<1>3. CounterBound'
  BY DEF LimiterInv, CounterBound
<1>4. WaitStats' /\ Asked'
  BY <1>1 DEF LimiterInv, LimiterTypeOK, WaitStats, Asked
<1> QED BY <1>2, <1>3, <1>4 DEF LimiterInv

\* The second that ended between two readings of the clock.
LEMMA DecideLateInv ==
  ASSUME LimiterInv, NEW t \in Threads, DecideLate(t)
  PROVE  LimiterInv'
<1> USE DEF LimiterInv, DecideLate
<1>1. /\ bytes_consumed_' \in Nat /\ total_bytes_consumed_' \in Nat
      /\ admitted' \in [0..MaxNow -> Nat]
      /\ pc' \in [Threads -> {"idle", "lock", "decide", "sleep"}]
      /\ CounterBound' /\ Asked'
      /\ \A u \in Threads : pc'[u] # "idle" => pc'[u] = pc[u]
  BY ConsumeInv
<1>2. LimiterTypeOK'
  BY <1>1 DEF LimiterTypeOK
<1>3. WaitStats'
  BY <1>1 DEF WaitStats
<1> QED BY <1>1, <1>2, <1>3

\* A thread woken from its sleep charges its request to a fresh counter.
LEMMA WakeInv ==
  ASSUME LimiterInv, NEW t \in Threads, Wake(t)
  PROVE  LimiterInv'
<1> USE DEF LimiterInv
<1>1. /\ bytes_consumed_' \in Nat /\ total_bytes_consumed_' \in Nat
      /\ admitted' \in [0..MaxNow -> Nat]
      /\ pc' \in [Threads -> {"idle", "lock", "decide", "sleep"}]
      /\ CounterBound' /\ Asked'
      /\ \A u \in Threads : pc'[u] # "idle" => pc'[u] = pc[u]
  BY ConsumeInv DEF Wake, AfterWait
<1>2. LimiterTypeOK'
  BY <1>1 DEF LimiterTypeOK, Wake
<1>3. total_wait_time_ms_' \in total_waits_'..(total_waits_' * WindowTicks)
  <2>1. /\ wait_time[t] \in 1..WindowTicks
        /\ total_wait_time_ms_ \in total_waits_..(total_waits_ * WindowTicks)
        /\ total_waits_ \in Nat /\ WindowTicks \in Nat
    BY RateAssumption DEF Wake, WaitStats, LimiterTypeOK
  <2>2. total_wait_time_ms_ + wait_time[t]
          \in (total_waits_ + 1)..((total_waits_ + 1) * WindowTicks)
    BY <2>1, OneMoreWait
  <2> QED BY <2>2 DEF Wake
<1>4. WaitStats'
  BY <1>1, <1>3 DEF WaitStats, Wake
<1> QED BY <1>1, <1>2, <1>4

\* The administrative calls empty the counter, and time passes.
LEMMA LimiterOthersInv ==
  ASSUME LimiterInv, (\E limit \in Limits : set_limit(limit)) \/ reset \/ ClockTick
  PROVE  LimiterInv'
<1> USE RateAssumption DEF LimiterInv
<1>1. ASSUME NEW limit \in Limits, set_limit(limit) PROVE LimiterInv'
  <2>1. LimiterTypeOK'
    BY <1>1 DEF LimiterTypeOK, set_limit, NothingYet
  <2>2. CounterBound'
    BY <1>1 DEF CounterBound, set_limit
  <2>3. WaitStats' /\ Asked'
    BY <1>1 DEF WaitStats, Asked, set_limit
  <2> QED BY <2>1, <2>2, <2>3
<1>2. CASE reset
  <2>1. LimiterTypeOK'
    BY <1>2 DEF LimiterTypeOK, reset, NothingYet
  <2>2. CounterBound' /\ WaitStats' /\ Asked'
    BY <1>2 DEF LimiterTypeOK, CounterBound, WaitStats, Asked, reset
  <2> QED BY <2>1, <2>2
<1>3. CASE ClockTick
  <2>1. LimiterTypeOK'
    BY <1>3 DEF LimiterTypeOK, ClockTick
  <2>2. CounterBound' /\ WaitStats' /\ Asked'
    BY <1>3 DEF CounterBound, WaitStats, Asked, ClockTick
  <2> QED BY <2>1, <2>2
<1> QED BY <1>1, <1>2, <1>3

\* Every step of the limiter keeps LimiterInv.
LEMMA LimiterNextInv == LimiterInv /\ [LimiterNext]_limiter_vars => LimiterInv'
<1> SUFFICES ASSUME LimiterInv, [LimiterNext]_limiter_vars PROVE LimiterInv'
  OBVIOUS
<1>1. ASSUME NEW t \in Threads, NEW b \in Requests, Call(t, b) PROVE LimiterInv'
  BY <1>1, LimiterCallInv
<1>2. ASSUME NEW t \in Threads, Step(t) PROVE LimiterInv'
  BY <1>2, LimiterCheckInv, DecideInv, DecideLateInv, WakeInv DEF Step
<1>3. CASE (\E limit \in Limits : set_limit(limit)) \/ reset \/ ClockTick
  BY <1>3, LimiterOthersInv
<1>4. CASE UNCHANGED limiter_vars
  BY <1>4 DEF limiter_vars, LimiterInv, LimiterTypeOK, CounterBound, WaitStats, Asked
<1> QED BY <1>1, <1>2, <1>3, <1>4 DEF LimiterNext

\* LimiterInv holds in every state of a limiter.
THEOREM LimiterInvariance == LimiterSpec => []LimiterInv
<1> QED BY LimiterInitInv, LimiterNextInv, PTL DEF LimiterSpec

\* Every variable of the limiter keeps its type; in particular last_reset_ is never
\* ahead of the clock, so "elapsed" in check_and_reset_window is never negative.
THEOREM LimiterTyped == LimiterSpec => []LimiterTypeOK
<1>1. LimiterInv => LimiterTypeOK
  BY DEF LimiterInv
<1> QED BY <1>1, LimiterInvariance, PTL

\* bytes_consumed_ never passes the limit but for one request that is larger on its own,
\* and the waits are counted with between a tick and a second each, under any
\* interleaving of wait_if_needed with set_limit and reset.
THEOREM LimiterBounded == LimiterSpec => []LimiterBounds
<1>1. LimiterInv => LimiterBounds
  BY DEF LimiterInv, LimiterBounds
<1> QED BY <1>1, LimiterInvariance, PTL

-----------------------------------------------------------------------------
(* WaiterOverrun *)

\* The threads that cannot start a window of their own, by waking, less than a second
\* after tick a.
Spent(a) ==
  {t \in Threads : pc[t] = "sleep" => asleep[t] + wait_time[t] >= a + WindowTicks}

GrantedSince(a) == SumOf(admitted, a .. now)

\* What was granted since a tick of the last second was granted in this window, which is
\* what bytes_consumed_ shows, or in those before it; when this window began at that
\* tick or later, there was at most one of them for each thread that is spent.
WindowGrants ==
  \A a \in 0 .. now :
    a > now - WindowTicks =>
      GrantedSince(a)
        <= bytes_consumed_ + (IF a <= last_reset_ THEN Cardinality(Spent(a)) * WindowMax ELSE 0)

\* Nothing is granted before its time.
FutureEmpty == \A i \in 0 .. MaxNow : i > now => admitted[i] = 0

OverrunInv == LimiterInv /\ WindowGrants /\ FutureEmpty /\ WaiterOverrun

\* The largest limit or request.
LEMMA WindowMaxBounds ==
  WindowMax \in Nat /\ \A b \in Limits \cup Requests : b \in Nat /\ b <= WindowMax
<1> DEFINE S == Limits \cup Requests
<1>1. S \in SUBSET Nat /\ S # {} /\ IsFiniteSet(S)
  BY RateAssumption, FS_Union
<1>2. Max(S) \in S /\ \A x \in S : Max(S) >= x
  BY <1>1, MaxIs
<1> QED BY <1>1, <1>2 DEF WindowMax

\* The counter shows at most one window's worth.
LEMMA ConsumedBound == LimiterInv => bytes_consumed_ \in Nat /\ bytes_consumed_ <= WindowMax
<1> SUFFICES ASSUME LimiterInv PROVE bytes_consumed_ \in Nat /\ bytes_consumed_ <= WindowMax
  OBVIOUS
<1>1. bytes_consumed_ \in Nat /\ bytes_per_second_limit_ \in Limits /\ CounterBound
  BY DEF LimiterInv, LimiterTypeOK
<1>2. bytes_per_second_limit_ \in Nat /\ bytes_per_second_limit_ <= WindowMax
  BY <1>1, WindowMaxBounds
<1>3. bytes_consumed_ \in Requests => bytes_consumed_ <= WindowMax
  BY WindowMaxBounds
<1> QED BY <1>1, <1>2, <1>3, WindowMaxBounds DEF CounterBound

\* Spent threads can be counted.
LEMMA SpentCount ==
  ASSUME NEW a
  PROVE  /\ IsFiniteSet(Spent(a)) /\ Cardinality(Spent(a)) \in Nat
         /\ Cardinality(Spent(a)) <= Cardinality(Threads) /\ Cardinality(Threads) \in Nat
<1>1. IsFiniteSet(Threads) /\ Spent(a) \in SUBSET Threads
  BY RateAssumption DEF Spent
<1> QED BY <1>1, FS_Subset, FS_CardinalityType

\* The types the sums need.
LEMMA GrantTypes ==
  ASSUME LimiterInv, NEW a \in 0 .. now
  PROVE  /\ a \in Nat /\ now \in Nat /\ a .. now \subseteq 0 .. MaxNow /\ IsFiniteSet(a .. now)
         /\ admitted \in [0 .. MaxNow -> Nat] /\ now \in a .. now /\ GrantedSince(a) \in Nat
<1>1. /\ a \in Nat /\ now \in Nat /\ a .. now \subseteq 0 .. MaxNow
      /\ admitted \in [0 .. MaxNow -> Nat] /\ now \in a .. now
  BY RateAssumption DEF LimiterInv, LimiterTypeOK
<1>2. IsFiniteSet(a .. now)
  BY <1>1, FS_Interval
<1>3. \A i \in a .. now : admitted[i] \in Nat
  BY <1>1
<1> QED BY <1>1, <1>2, <1>3, SumNat DEF GrantedSince

\* What a grant at this tick adds.
LEMMA GrantAdds ==
  ASSUME LimiterInv, NEW a \in 0 .. now, NEW b \in Nat,
         admitted' = [admitted EXCEPT ![now] = @ + b], UNCHANGED now
  PROVE  GrantedSince(a)' = GrantedSince(a) + b
<1> DEFINE n == admitted[now] + b
           next == [admitted EXCEPT ![now] = n]
<1>1. /\ a .. now \subseteq 0 .. MaxNow /\ IsFiniteSet(a .. now)
      /\ admitted \in [0 .. MaxNow -> Nat] /\ now \in a .. now
  BY GrantTypes
<1>2. admitted[now] \in Nat /\ n \in Nat
  BY <1>1
<1>3. SumOf(next, a .. now) + admitted[now] = SumOf(admitted, a .. now) + n
      /\ SumOf(next, a .. now) \in Nat /\ SumOf(admitted, a .. now) \in Nat
  <2> DEFINE S == a .. now
             D == 0 .. MaxNow
  <2>1. admitted \in [D -> Nat] /\ IsFiniteSet(S) /\ S \subseteq D /\ now \in S
    BY <1>1
  <2> HIDE DEF n, S, D
  <2>2. /\ SumOf(next, S) + admitted[now] = SumOf(admitted, S) + n
        /\ SumOf(next, S) \in Nat /\ SumOf(admitted, S) \in Nat
    BY <1>2, <2>1, SumExcept, Zenon
  <2> QED BY <2>2 DEF S
<1>4. GrantedSince(a)' = SumOf(next, a .. now)
  BY DEF GrantedSince
<1> HIDE DEF next
<1> QED BY <1>2, <1>3, <1>4 DEF GrantedSince

\* GrantedInSecond of this tick is GrantedSince of the first tick of the last second.
LEMMA LastSecond ==
  ASSUME LimiterInv
  PROVE  \E a \in 0 .. now : a > now - WindowTicks /\ GrantedInSecond(now) = GrantedSince(a)
<1> DEFINE a == IF now - WindowTicks + 1 < 0 THEN 0 ELSE now - WindowTicks + 1
<1>1. now \in Nat /\ WindowTicks \in Nat /\ WindowTicks > 0
  BY RateAssumption DEF LimiterInv, LimiterTypeOK
<1>2. a \in 0 .. now /\ a > now - WindowTicks
  BY <1>1
<1>3. {j \in 0 .. now : j > now - WindowTicks} = a .. now
  BY <1>1
<1> HIDE DEF a
<1>4. GrantedInSecond(now) = SumOf(admitted, {j \in 0 .. now : j > now - WindowTicks})
  BY DEF GrantedInSecond, SumOf, MapThenSumSet, MapThenFoldSet
<1> QED BY <1>2, <1>3, <1>4 DEF GrantedSince

\* Products with a natural number grow with the other factor.
LEMMA TimesGrows ==
  ASSUME NEW k \in Nat, NEW l \in Nat, NEW m \in Nat, k <= l
  PROVE  k * m \in Nat /\ l * m \in Nat /\ k * m <= l * m /\ (l + 1) * m = l * m + m
<1>1. PICK d \in Nat : l = k + d
  <2>1. l - k \in Nat /\ l = k + (l - k)
    OBVIOUS
  <2> QED BY <2>1
<1>2. k * m \in Nat /\ l * m \in Nat /\ d * m \in Nat /\ (l + 1) * m = l * m + m
  OBVIOUS
<1>3. l * m = k * m + d * m
  BY <1>1
<1> QED BY <1>2, <1>3

\* A step in the same window, which grants b bytes or none, and sends threads to sleep
\* at most until this window is over.
LEMMA SameWindow ==
  ASSUME LimiterInv, WindowGrants, NEW b \in Nat,
         bytes_consumed_' = bytes_consumed_ + b,
         admitted' = [admitted EXCEPT ![now] = @ + b],
         UNCHANGED <<now, last_reset_>>,
         \A t \in Threads :
           pc'[t] = "sleep" =>
             \/ pc[t] = "sleep" /\ asleep'[t] = asleep[t] /\ wait_time'[t] = wait_time[t]
             \/ asleep'[t] + wait_time'[t] >= last_reset_ + WindowTicks,
         \A t \in Threads : asleep'[t] \in Nat /\ wait_time'[t] \in Nat
  PROVE  WindowGrants'
<1> SUFFICES ASSUME NEW a \in 0 .. now, a > now - WindowTicks
    PROVE  GrantedSince(a)'
             <= bytes_consumed_' + (IF a <= last_reset_ THEN Cardinality(Spent(a))' * WindowMax ELSE 0)
  BY DEF WindowGrants
<1>1. GrantedSince(a)' = GrantedSince(a) + b /\ GrantedSince(a) \in Nat
  BY GrantAdds, GrantTypes
<1>2. bytes_consumed_ \in Nat /\ last_reset_ \in Nat /\ WindowTicks \in Nat /\ a \in Nat
  BY RateAssumption DEF LimiterInv, LimiterTypeOK
<1>3. GrantedSince(a)
        <= bytes_consumed_ + (IF a <= last_reset_ THEN Cardinality(Spent(a)) * WindowMax ELSE 0)
  BY DEF WindowGrants
<1>4. CASE a <= last_reset_
  <2>1. Spent(a) \subseteq Spent(a)'
    <3> SUFFICES ASSUME NEW t \in Threads, pc[t] = "sleep" => asleep[t] + wait_time[t] >= a + WindowTicks,
                        pc'[t] = "sleep"
        PROVE  asleep'[t] + wait_time'[t] >= a + WindowTicks
      BY DEF Spent
    <3>1. CASE pc[t] = "sleep" /\ asleep'[t] = asleep[t] /\ wait_time'[t] = wait_time[t]
      BY <3>1
    <3>2. CASE asleep'[t] + wait_time'[t] >= last_reset_ + WindowTicks
      <4>1. asleep'[t] \in Nat /\ wait_time'[t] \in Nat
        OBVIOUS
      <4> QED BY <1>2, <1>4, <3>2, <4>1
    <3> QED BY <3>1, <3>2
  <2>2. IsFiniteSet(Spent(a)')
    <3>1. IsFiniteSet(Threads) /\ Spent(a)' \in SUBSET Threads
      BY RateAssumption DEF Spent
    <3> QED BY <3>1, FS_Subset
  <2>3. Cardinality(Spent(a)) <= Cardinality(Spent(a)') /\ Cardinality(Spent(a)') \in Nat
        /\ Cardinality(Spent(a)) \in Nat
    BY <2>1, <2>2, FS_Subset, FS_CardinalityType
  <2> DEFINE k == Cardinality(Spent(a))
             l == Cardinality(Spent(a)')
  <2>4. k * WindowMax \in Nat /\ l * WindowMax \in Nat /\ k * WindowMax <= l * WindowMax
    <3> HIDE DEF k, l
    <3>1. k \in Nat /\ l \in Nat /\ k <= l
      BY <2>3 DEF k, l
    <3> QED BY <3>1, WindowMaxBounds, TimesGrows
  <2>5. GrantedSince(a) <= bytes_consumed_ + k * WindowMax
    BY <1>3, <1>4
  <2>6. Cardinality(Spent(a))' = l
    OBVIOUS
  <2> HIDE DEF k, l
  <2> QED BY <1>1, <1>2, <1>4, <2>4, <2>5, <2>6
<1>5. CASE ~(a <= last_reset_)
  BY <1>1, <1>2, <1>3, <1>5
<1> QED BY <1>4, <1>5

\* A thread starts a window: it was not asleep and the last window is over, so none
\* began in the last second, or it wakes, and so is spent from now on.
LEMMA FreshWindow ==
  ASSUME LimiterInv, WindowGrants, NEW t \in Threads, NEW b \in Nat,
         bytes_consumed_' = b,
         admitted' = [admitted EXCEPT ![now] = @ + b],
         now' = now, last_reset_' = now,
         \/ pc[t] # "sleep" /\ now - last_reset_ >= WindowTicks
         \/ pc[t] = "sleep" /\ asleep[t] + wait_time[t] <= now,
         \A u \in Threads : pc'[u] = "sleep" => u # t /\ pc[u] = "sleep",
         UNCHANGED <<asleep, wait_time>>
  PROVE  WindowGrants'
<1> SUFFICES ASSUME NEW a \in 0 .. now, a > now - WindowTicks
    PROVE  GrantedSince(a)' <= b + Cardinality(Spent(a))' * WindowMax
  BY RateAssumption DEF WindowGrants, LimiterInv, LimiterTypeOK
<1>1. GrantedSince(a)' = GrantedSince(a) + b /\ GrantedSince(a) \in Nat
  BY GrantAdds, GrantTypes
<1>2. /\ bytes_consumed_ \in Nat /\ last_reset_ \in Nat /\ now \in Nat /\ WindowTicks \in Nat
      /\ a \in Nat
  BY RateAssumption DEF LimiterInv, LimiterTypeOK
<1>3. bytes_consumed_ <= WindowMax /\ WindowMax \in Nat
  BY ConsumedBound, WindowMaxBounds
<1>4. GrantedSince(a)
        <= bytes_consumed_ + (IF a <= last_reset_ THEN Cardinality(Spent(a)) * WindowMax ELSE 0)
  BY DEF WindowGrants
<1> DEFINE k == Cardinality(Spent(a))
           l == Cardinality(Spent(a)')
<1>5. Cardinality(Spent(a))' = l
  OBVIOUS
<1>6. /\ IsFiniteSet(Spent(a)) /\ k \in Nat /\ IsFiniteSet(Spent(a)') /\ l \in Nat
      /\ t \in Spent(a)'
  <2>1. IsFiniteSet(Threads) /\ Spent(a)' \in SUBSET Threads /\ Spent(a) \in SUBSET Threads
    BY RateAssumption DEF Spent
  <2>2. t \in Spent(a)'
    BY DEF Spent
  <2> QED BY <2>1, <2>2, FS_Subset, FS_CardinalityType
<1>7. CASE a <= last_reset_
  <2>1. pc[t] = "sleep" /\ asleep[t] + wait_time[t] <= now
    BY <1>2, <1>7
  <2>2. t \notin Spent(a)
    <3>1. asleep[t] \in Nat /\ wait_time[t] \in Nat
      BY RateAssumption DEF LimiterInv, LimiterTypeOK
    <3> QED BY <1>2, <2>1, <3>1 DEF Spent
  <2>3. Spent(a) \cup {t} \subseteq Spent(a)'
    BY <1>6 DEF Spent
  <2>4. Cardinality(Spent(a) \cup {t}) = k + 1
    BY <1>6, <2>2, FS_AddElement
  <2>5. k + 1 <= l
    BY <1>6, <2>3, <2>4, FS_Subset
  <2> HIDE DEF k, l
  <2>6. (k + 1) * WindowMax <= l * WindowMax /\ (k + 1) * WindowMax = k * WindowMax + WindowMax
        /\ k * WindowMax \in Nat /\ l * WindowMax \in Nat
    <3>1. k <= k /\ k + 1 \in Nat
      BY <1>6
    <3> QED BY <1>3, <1>6, <2>5, <3>1, TimesGrows
  <2>7. GrantedSince(a) <= bytes_consumed_ + k * WindowMax
    BY <1>4, <1>7 DEF k
  <2> QED BY <1>1, <1>2, <1>3, <1>5, <2>6, <2>7
<1>8. CASE ~(a <= last_reset_)
  <2>1. 1 <= l
    <3>1. Cardinality({t}) = 1
      BY FS_Singleton
    <3>2. {t} \subseteq Spent(a)'
      BY <1>6
    <3> QED BY <1>6, <3>1, <3>2, FS_Subset
  <2>2. GrantedSince(a) <= bytes_consumed_
    BY <1>2, <1>4, <1>8
  <2> HIDE DEF k, l
  <2>3. 1 * WindowMax <= l * WindowMax /\ 1 * WindowMax = WindowMax /\ l * WindowMax \in Nat
    BY <1>3, <1>6, <2>1, TimesGrows
  <2> QED BY <1>1, <1>2, <1>3, <1>5, <2>2, <2>3
<1> QED BY <1>7, <1>8

\* The steps of wait_if_needed keep WindowGrants.
LEMMA StepGrants ==
  ASSUME LimiterInv, LimiterInv', WindowGrants, NEW t \in Threads,
         Step(t) \/ \E b \in Requests : Call(t, b)
  PROVE  WindowGrants' /\ now' = now
         /\ \A i \in 0 .. MaxNow : i # now => admitted'[i] = admitted[i]
<1>1. /\ bytes_consumed_ \in Nat /\ bytes[t] \in Nat /\ pc \in [Threads -> {"idle", "lock", "decide", "sleep"}]
      /\ admitted \in [0 .. MaxNow -> Nat] /\ now \in 0 .. MaxNow /\ last_reset_ \in 0 .. now
      /\ WindowTicks \in Nat
      /\ \A u \in Threads : asleep'[u] \in Nat /\ wait_time'[u] \in Nat
      /\ \A u \in Threads : asleep[u] \in Nat /\ wait_time[u] \in Nat
  <2>1. MaxNow \in Nat /\ WindowTicks \in Nat /\ LimiterTypeOK /\ LimiterTypeOK'
    BY RateAssumption DEF LimiterInv
  <2>2. /\ bytes_consumed_ \in Nat /\ bytes[t] \in Nat
        /\ pc \in [Threads -> {"idle", "lock", "decide", "sleep"}]
        /\ admitted \in [0 .. MaxNow -> Nat] /\ now \in 0 .. MaxNow /\ last_reset_ \in 0 .. now
    BY <2>1 DEF LimiterTypeOK
  <2>3. asleep \in [Threads -> 0 .. MaxNow] /\ wait_time \in [Threads -> Nat]
    BY <2>1 DEF LimiterTypeOK
  <2>4. asleep' \in [Threads -> 0 .. MaxNow] /\ wait_time' \in [Threads -> Nat]
    BY <2>1 DEF LimiterTypeOK
  <2> QED BY <2>1, <2>2, <2>3, <2>4
<1>2. admitted = [admitted EXCEPT ![now] = @ + 0] /\ bytes_consumed_ = bytes_consumed_ + 0
  BY <1>1
<1>3. CASE \E b \in Requests : Call(t, b)
  <2>1. /\ UNCHANGED <<now, last_reset_, bytes_consumed_, admitted, asleep, wait_time>>
        /\ pc' = [pc EXCEPT ![t] = "lock"]
    BY <1>3 DEF Call
  <2>2. /\ admitted' = [admitted EXCEPT ![now] = @ + 0] /\ bytes_consumed_' = bytes_consumed_ + 0
        /\ \A u \in Threads : pc'[u] = "sleep" => pc[u] = "sleep"
    BY <1>1, <1>2, <2>1
  <2>3. WindowGrants'
    BY <1>1, <2>1, <2>2, SameWindow
  <2> QED BY <2>1, <2>3
<1>4. CASE Check(t)
  <2> DEFINE granted == ~Exceeds(bytes[t])
             b == IF granted THEN bytes[t] ELSE 0
  <2>1. /\ pc[t] = "lock" /\ last_reset_' = WindowStart
        /\ UNCHANGED <<now, asleep, wait_time>>
        /\ bytes_consumed_' = Current + b
        /\ admitted' = [admitted EXCEPT ![now] = @ + b]
        /\ b \in Nat
    BY <1>1, <1>2, <1>4 DEF Check, Consume, Current
  <2>2. \A u \in Threads : pc'[u] = "sleep" => u # t /\ pc[u] = "sleep"
    BY <1>1, <1>4 DEF Check, Consume
  <2> HIDE DEF b
  <2>3. CASE WindowOver
    <3>1. bytes_consumed_' = b /\ last_reset_' = now /\ now - last_reset_ >= WindowTicks
      BY <2>1, <2>3 DEF Current, WindowStart, WindowOver
    <3>2. WindowGrants'
      BY <2>1, <2>2, <3>1, FreshWindow
    <3> QED BY <1>1, <2>1, <3>2
  <2>4. CASE ~WindowOver
    <3>1. bytes_consumed_' = bytes_consumed_ + b /\ last_reset_' = last_reset_
      BY <2>1, <2>4 DEF Current, WindowStart
    <3>2. WindowGrants'
      BY <1>1, <2>1, <2>2, <3>1, SameWindow
    <3> QED BY <1>1, <2>1, <3>2
  <2> QED BY <2>3, <2>4
<1>5. CASE Decide(t)
  <2>1. /\ UNCHANGED <<now, last_reset_, bytes_consumed_, admitted>>
        /\ pc' = [pc EXCEPT ![t] = "sleep"] /\ pc[t] = "decide"
        /\ asleep' = [asleep EXCEPT ![t] = now] /\ wait_time' = [wait_time EXCEPT ![t] = WaitTime]
    BY <1>5 DEF Decide
  <2>2. asleep'[t] + wait_time'[t] >= last_reset_ + WindowTicks
    <3>1. asleep'[t] = now /\ wait_time'[t] = WindowTicks - (now - last_reset_)
      BY <2>1 DEF WaitTime, LimiterInv, LimiterTypeOK
    <3> QED BY <1>1, <3>1
  <2>3. ASSUME NEW u \in Threads, pc'[u] = "sleep"
        PROVE  \/ pc[u] = "sleep" /\ asleep'[u] = asleep[u] /\ wait_time'[u] = wait_time[u]
               \/ asleep'[u] + wait_time'[u] >= last_reset_ + WindowTicks
    <3>1. CASE u = t
      BY <2>2, <3>1
    <3>2. CASE u # t
      BY <1>1, <2>1, <2>3, <3>2 DEF LimiterInv, LimiterTypeOK
    <3> QED BY <3>1, <3>2
  <2>4. admitted' = [admitted EXCEPT ![now] = @ + 0] /\ bytes_consumed_' = bytes_consumed_ + 0
    BY <1>2, <2>1
  <2>5. WindowGrants'
    BY <1>1, <2>1, <2>3, <2>4, SameWindow
  <2> QED BY <2>1, <2>5
<1>6. CASE DecideLate(t)
  <2>1. /\ now' = now /\ last_reset_' = now /\ UNCHANGED <<asleep, wait_time>>
        /\ pc[t] = "decide" /\ pc' = [pc EXCEPT ![t] = "idle"]
        /\ bytes_consumed_' = bytes[t] /\ admitted' = [admitted EXCEPT ![now] = @ + bytes[t]]
        /\ WindowTicks - (now - last_reset_) <= 0
    BY <1>1, <1>6 DEF DecideLate, Consume, WaitTime
  <2>2. now - last_reset_ >= WindowTicks /\ pc[t] # "sleep"
    BY <1>1, <2>1
  <2>3. \A u \in Threads : pc'[u] = "sleep" => u # t /\ pc[u] = "sleep"
    BY <1>1, <2>1
  <2>4. WindowGrants'
    BY <1>1, <2>1, <2>2, <2>3, FreshWindow
  <2> QED BY <1>1, <2>1, <2>4
<1>7. CASE Wake(t)
  <2>1. /\ now' = now /\ last_reset_' = now /\ UNCHANGED <<asleep, wait_time>>
        /\ pc[t] = "sleep" /\ pc' = [pc EXCEPT ![t] = "idle"]
        /\ bytes_consumed_' = bytes[t] /\ admitted' = [admitted EXCEPT ![now] = @ + bytes[t]]
        /\ now - asleep[t] >= wait_time[t]
    BY <1>1, <1>7 DEF Wake, Consume, AfterWait
  <2>2. asleep[t] + wait_time[t] <= now
    BY <1>1, <2>1
  <2>3. \A u \in Threads : pc'[u] = "sleep" => u # t /\ pc[u] = "sleep"
    BY <1>1, <2>1
  <2>4. WindowGrants'
    BY <1>1, <2>1, <2>2, <2>3, FreshWindow
  <2> QED BY <1>1, <2>1, <2>4
<1> QED BY <1>3, <1>4, <1>5, <1>6, <1>7 DEF Step

\* set_limit and reset start the count anew; a tick grants nothing.
LEMMA OthersGrants ==
  ASSUME LimiterInv, LimiterInv', WindowGrants, FutureEmpty,
         \/ (\E limit \in Limits : set_limit(limit)) \/ reset
         \/ ClockTick
  PROVE  WindowGrants'
<1>1. CASE (\E limit \in Limits : set_limit(limit)) \/ reset
  <2>1. admitted' = NothingYet /\ bytes_consumed_' = 0 /\ now' = now /\ last_reset_' = now
    BY <1>1 DEF set_limit, reset
  <2> SUFFICES ASSUME NEW a \in 0 .. now
      PROVE  GrantedSince(a)' <= 0 + Cardinality(Spent(a))' * WindowMax
    BY <2>1 DEF WindowGrants, LimiterInv, LimiterTypeOK
  <2>2. GrantedSince(a)' = 0
    <3>1. IsFiniteSet(a .. now) /\ \A i \in a .. now : admitted'[i] = 0
      BY <2>1, GrantTypes DEF NothingYet
    <3>2. SumOf(admitted', a .. now) = 0
      BY <3>1, SumZero
    <3> QED BY <2>1, <3>2 DEF GrantedSince
  <2>3. Cardinality(Spent(a))' \in Nat
    <3>1. IsFiniteSet(Threads) /\ Spent(a)' \in SUBSET Threads
      BY RateAssumption DEF Spent
    <3> QED BY <3>1, FS_Subset, FS_CardinalityType
  <2> DEFINE l == Cardinality(Spent(a))'
  <2>4. l * WindowMax \in Nat
    <3> HIDE DEF l
    <3>1. l \in Nat /\ l <= l
      BY <2>3 DEF l
    <3> QED BY <3>1, WindowMaxBounds, TimesGrows
  <2> HIDE DEF l
  <2> QED BY <2>2, <2>4 DEF l
<1>2. CASE ClockTick
  <2>1. /\ now' = now + 1 /\ now + 1 \in 0 .. MaxNow /\ now \in Nat /\ WindowTicks \in Nat
        /\ UNCHANGED <<admitted, bytes_consumed_, last_reset_, pc, asleep, wait_time>>
        /\ admitted[now + 1] = 0 /\ last_reset_ \in 0 .. now /\ bytes_consumed_ \in Nat
        /\ admitted \in [0 .. MaxNow -> Nat]
    BY <1>2, RateAssumption DEF ClockTick, FutureEmpty, LimiterInv, LimiterTypeOK
  <2> SUFFICES ASSUME NEW a \in 0 .. now + 1, a > now + 1 - WindowTicks
      PROVE  GrantedSince(a)'
               <= bytes_consumed_ + (IF a <= last_reset_ THEN Cardinality(Spent(a)) * WindowMax ELSE 0)
    <3>1. \A a \in 0 .. now' : Spent(a)' = Spent(a)
      BY <2>1 DEF Spent
    <3>2. \A a \in 0 .. now' : Cardinality(Spent(a))' = Cardinality(Spent(a))
      BY <3>1
    <3> QED BY <2>1, <3>2 DEF WindowGrants
  <2>2. GrantedSince(a)' = SumOf(admitted, a .. now + 1)
    BY <2>1 DEF GrantedSince
  <2>3. SumOf(admitted, a .. now + 1) = SumOf(admitted, a .. now) /\ IsFiniteSet(a .. now)
    <3> DEFINE S == a .. now + 1
    <3>0. a \in Nat /\ a \in Int /\ now \in Int /\ now + 1 \in Int /\ a <= now + 1 /\ MaxNow \in Nat
      BY <2>1, RateAssumption
    <3>1. IsFiniteSet(S) /\ IsFiniteSet(a .. now) /\ now + 1 \in S /\ S \ {now + 1} = a .. now
      <4>1. IsFiniteSet(S) /\ IsFiniteSet(a .. now)
        BY <3>0, FS_Interval
      <4>2. now + 1 \in S /\ S \ {now + 1} = a .. now
        BY <2>1, <3>0
      <4> QED BY <4>1, <4>2
    <3>2. (\A i \in S : admitted[i] \in Nat) /\ (\A i \in a .. now : admitted[i] \in Nat)
      <4>1. S \subseteq 0 .. MaxNow /\ a .. now \subseteq 0 .. MaxNow
        BY <2>1, <3>0
      <4> QED BY <2>1, <4>1
    <3> HIDE DEF S
    <3>3. SumOf(admitted, S) = admitted[now + 1] + SumOf(admitted, S \ {now + 1})
      BY <3>1, <3>2, SumRemove
    <3>4. SumOf(admitted, a .. now) \in Nat
      BY <3>1, <3>2, SumNat
    <3>5. SumOf(admitted, S) = SumOf(admitted, a .. now)
      <4>1. admitted[now + 1] = 0 /\ S \ {now + 1} = a .. now
        BY <2>1, <3>1
      <4> HIDE DEF S
      <4>2. SumOf(admitted, S) = 0 + SumOf(admitted, a .. now)
        BY <3>3, <4>1
      <4> QED BY <3>4, <4>2
    <3> QED BY <3>1, <3>5 DEF S
  <2>4. CASE a = now + 1
    <3>1. a .. now = {} /\ ~(a <= last_reset_)
      BY <2>1, <2>4
    <3>2. SumOf(admitted, {}) = 0
      BY SumTakes, FS_EmptySet
    <3> QED BY <2>1, <2>2, <2>3, <3>1, <3>2
  <2>5. CASE a # now + 1
    <3>1. a \in 0 .. now /\ a > now - WindowTicks
      BY <2>1, <2>5
    <3> QED BY <2>2, <2>3, <3>1 DEF WindowGrants, GrantedSince
  <2> QED BY <2>4, <2>5
<1> QED BY <1>1, <1>2

\* The second that ends now.
LEMMA OverrunNow ==
  LimiterInv /\ WindowGrants => GrantedInSecond(now) <= (Cardinality(Threads) + 1) * WindowMax
<1> SUFFICES ASSUME LimiterInv, WindowGrants
    PROVE  GrantedInSecond(now) <= (Cardinality(Threads) + 1) * WindowMax
  OBVIOUS
<1>1. PICK a \in 0 .. now : a > now - WindowTicks /\ GrantedInSecond(now) = GrantedSince(a)
  BY LastSecond
<1> DEFINE k == Cardinality(Spent(a))
           l == Cardinality(Threads)
<1>2. GrantedSince(a) <= bytes_consumed_ + (IF a <= last_reset_ THEN k * WindowMax ELSE 0)
  BY <1>1 DEF WindowGrants
<1>3. /\ k \in Nat /\ l \in Nat /\ k <= l /\ GrantedSince(a) \in Nat /\ WindowMax \in Nat
      /\ bytes_consumed_ \in Nat /\ bytes_consumed_ <= WindowMax
  BY SpentCount, GrantTypes, ConsumedBound, WindowMaxBounds
<1> HIDE DEF k, l
<1>4. k * WindowMax \in Nat /\ l * WindowMax \in Nat /\ k * WindowMax <= l * WindowMax
      /\ (l + 1) * WindowMax = l * WindowMax + WindowMax
  BY <1>3, TimesGrows
<1>5. GrantedSince(a) <= (l + 1) * WindowMax
  BY <1>2, <1>3, <1>4
<1> QED BY <1>1, <1>5 DEF l

\* The seconds that ended before are as they were, or forgotten.
LEMMA OverrunBefore ==
  ASSUME LimiterInv, WaiterOverrun, NEW i \in 0 .. now,
         \/ \A j \in 0 .. i : admitted'[j] = admitted[j]
         \/ admitted' = NothingYet
  PROVE  GrantedInSecond(i)' <= (Cardinality(Threads) + 1) * WindowMax
<1> DEFINE S == {j \in 0 .. i : j > i - WindowTicks}
<1>1. /\ GrantedInSecond(i)' = SumOf(admitted', S) /\ GrantedInSecond(i) = SumOf(admitted, S)
  BY DEF GrantedInSecond, SumOf, MapThenSumSet, MapThenFoldSet
<1>2. i \in Nat /\ S \subseteq 0 .. i /\ 0 .. i \subseteq 0 .. MaxNow
  BY RateAssumption DEF LimiterInv, LimiterTypeOK
<1>3. IsFiniteSet(S)
  <2>1. IsFiniteSet(0 .. i)
    BY <1>2, FS_Interval
  <2> QED BY <2>1, FS_Subset
<1> HIDE DEF S
<1>4. CASE \A j \in 0 .. i : admitted'[j] = admitted[j]
  <2>1. \A j \in S : admitted'[j] = admitted[j]
    BY <1>2, <1>4
  <2>2. SumOf(admitted', S) = SumOf(admitted, S)
    BY <1>3, <2>1, SumSame
  <2> QED BY <1>1, <2>2 DEF WaiterOverrun
<1>5. CASE admitted' = NothingYet
  <2>1. \A j \in S : admitted'[j] = 0
    BY <1>2, <1>5 DEF NothingYet
  <2>2. SumOf(admitted', S) = 0
    BY <1>3, <2>1, SumZero
  <2> DEFINE l == Cardinality(Threads)
  <2>3. l \in Nat /\ l <= l
    BY SpentCount
  <2> HIDE DEF l
  <2>4. (l + 1) * WindowMax = l * WindowMax + WindowMax /\ l * WindowMax \in Nat
    BY <2>3, WindowMaxBounds, TimesGrows
  <2> QED BY <1>1, <2>2, <2>4, WindowMaxBounds DEF l
<1> QED BY <1>4, <1>5

\* OverrunInv holds in every state.
THEOREM OverrunInvariance == LimiterSpec => []OverrunInv
<1>1. LimiterInit => OverrunInv
  <2> SUFFICES ASSUME LimiterInit PROVE OverrunInv
    OBVIOUS
  <2>1. LimiterInv /\ FutureEmpty
    BY LimiterInitInv DEF LimiterInit, FutureEmpty, NothingYet
  <2>2. \A a \in 0 .. now : a = 0 /\ now = 0 /\ a <= last_reset_
    BY DEF LimiterInit
  <2>3. WindowGrants
    <3> SUFFICES GrantedSince(0) <= bytes_consumed_ + Cardinality(Spent(0)) * WindowMax
      BY <2>2 DEF WindowGrants
    <3>1. IsFiniteSet(0 .. now) /\ \A i \in 0 .. now : admitted[i] = 0
      <4>1. now = 0 /\ 0 .. now \subseteq 0 .. MaxNow
        BY RateAssumption DEF LimiterInit
      <4>2. 0 \in Int /\ now \in Int
        BY <4>1
      <4>3. IsFiniteSet(0 .. now)
        BY <4>2, FS_Interval
      <4> QED BY <4>1, <4>3 DEF LimiterInit, NothingYet
    <3>2. GrantedSince(0) = 0
      BY <3>1, SumZero DEF GrantedSince
    <3> DEFINE k == Cardinality(Spent(0))
    <3>3. k \in Nat /\ k <= k
      BY SpentCount
    <3> HIDE DEF k
    <3>4. k * WindowMax \in Nat
      BY <3>3, WindowMaxBounds, TimesGrows
    <3>5. bytes_consumed_ = 0
      BY DEF LimiterInit
    <3> QED BY <3>2, <3>4, <3>5 DEF k
  <2>4. WaiterOverrun
    <3>1. \A i \in 0 .. now : i = now
      BY DEF LimiterInit
    <3> QED BY <2>1, <2>3, <3>1, OverrunNow DEF WaiterOverrun
  <2> QED BY <2>1, <2>3, <2>4 DEF OverrunInv
<1>2. ASSUME OverrunInv, [LimiterNext]_limiter_vars PROVE OverrunInv'
  <2>0. LimiterInv /\ LimiterInv' /\ WindowGrants /\ FutureEmpty /\ WaiterOverrun
    BY <1>2, LimiterNextInv DEF OverrunInv
  <2>1. now \in Nat /\ now \in 0 .. MaxNow /\ admitted \in [0 .. MaxNow -> Nat] /\ MaxNow \in Nat
    <3>1. LimiterTypeOK /\ MaxNow \in Nat
      BY <2>0, RateAssumption DEF LimiterInv
    <3> QED BY <3>1 DEF LimiterTypeOK
  <2>2. CASE \E t \in Threads : Step(t) \/ \E b \in Requests : Call(t, b)
    <3>1. WindowGrants' /\ now' = now /\ \A i \in 0 .. MaxNow : i # now => admitted'[i] = admitted[i]
      BY <2>0, <2>2, StepGrants
    <3>2. FutureEmpty'
      BY <2>0, <2>1, <3>1 DEF FutureEmpty
    <3>3. ASSUME NEW i \in 0 .. now PROVE GrantedInSecond(i)' <= (Cardinality(Threads) + 1) * WindowMax
      <4>1. CASE i = now
        <5>1. GrantedInSecond(now)' = GrantedInSecond(i)'
          BY <3>1, <4>1 DEF GrantedInSecond
        <5>2. (GrantedInSecond(now) <= (Cardinality(Threads) + 1) * WindowMax)'
          BY <2>0, <3>1, OverrunNow, PTL
        <5> QED BY <5>1, <5>2
      <4>2. CASE i # now
        <5>1. \A j \in 0 .. i : admitted'[j] = admitted[j]
          BY <2>1, <3>1, <4>2
        <5> QED BY <2>0, <5>1, OverrunBefore
      <4> QED BY <4>1, <4>2
    <3>4. WaiterOverrun'
      BY <3>1, <3>3 DEF WaiterOverrun
    <3> QED BY <2>0, <3>1, <3>2, <3>4 DEF OverrunInv
  <2>3. CASE (\E limit \in Limits : set_limit(limit)) \/ reset
    <3>1. admitted' = NothingYet /\ now' = now
      BY <2>3 DEF set_limit, reset
    <3>2. FutureEmpty'
      BY <3>1 DEF FutureEmpty, NothingYet
    <3>3. WindowGrants'
      BY <2>0, <2>3, OthersGrants
    <3>4. WaiterOverrun'
      BY <2>0, <3>1, OverrunBefore DEF WaiterOverrun
    <3> QED BY <2>0, <3>2, <3>3, <3>4 DEF OverrunInv
  <2>4. CASE ClockTick
    <3>1. admitted' = admitted /\ now' = now + 1
      BY <2>4 DEF ClockTick
    <3>2. FutureEmpty'
      BY <2>0, <2>1, <3>1 DEF FutureEmpty
    <3>3. WindowGrants'
      BY <2>0, <2>4, OthersGrants
    <3>4. WaiterOverrun'
      <4>1. ASSUME NEW i \in 0 .. now + 1
            PROVE  GrantedInSecond(i)' <= (Cardinality(Threads) + 1) * WindowMax
        <5>1. CASE i = now + 1
          <6>1. (GrantedInSecond(now) <= (Cardinality(Threads) + 1) * WindowMax)'
            BY <2>0, <3>3, OverrunNow, PTL
          <6>2. GrantedInSecond(now)' = GrantedInSecond(i)'
            BY <3>1, <5>1 DEF GrantedInSecond
          <6> QED BY <6>1, <6>2
        <5>2. CASE i # now + 1
          <6>1. i \in 0 .. now
            BY <2>1, <5>2
          <6> QED BY <2>0, <3>1, <6>1, OverrunBefore
        <5> QED BY <5>1, <5>2
      <4> QED BY <3>1, <4>1 DEF WaiterOverrun
    <3> QED BY <2>0, <3>2, <3>3, <3>4 DEF OverrunInv
  <2>5. CASE UNCHANGED limiter_vars
    <3>1. UNCHANGED <<admitted, now, bytes_consumed_, last_reset_, pc, asleep, wait_time>>
      BY <2>5 DEF limiter_vars
    <3>2. WindowGrants' /\ FutureEmpty'
      BY <2>0, <3>1 DEF WindowGrants, FutureEmpty, GrantedSince, Spent
    <3>3. WaiterOverrun'
      BY <2>0, <3>1, OverrunBefore DEF WaiterOverrun
    <3> QED BY <2>0, <3>2, <3>3 DEF OverrunInv
  <2> QED BY <1>2, <2>2, <2>3, <2>4, <2>5 DEF LimiterNext
<1> QED BY <1>1, <1>2, PTL DEF LimiterSpec

\* No second sees more than a window's worth of bytes for each thread and one more.
THEOREM OverrunBounded == LimiterSpec => []WaiterOverrun
<1>1. OverrunInv => WaiterOverrun
  BY DEF OverrunInv
<1> QED BY <1>1, OverrunInvariance, PTL

-----------------------------------------------------------------------------
(***************************************************************************)
(* Proofs about MemoryCache, for any users, places and budgets.            *)
(*                                                                         *)
(* The budget needs that an entry is filed under the key of its own bytes, *)
(* so that what an overwrite puts in the place of them has their size.     *)
(* Every way out of the cache takes a set of entries, whose bytes are the  *)
(* sum of all less that of the rest.                                       *)
(***************************************************************************)
\* An entry is filed under the key of the place its bytes were read at.
Filed == \A k \in Cached : make_cache_key(cache_[k].data) = k

CacheInv == CacheTypeOK /\ IsFiniteSet(Cached) /\ Filed /\ WithinBudget

-----------------------------------------------------------------------------
\* The constants that bound an entry.
LEMMA CacheConstants ==
  /\ MaxAge \in Nat /\ HitCap \in Nat
  /\ \A spot \in Places : spot[2] \in Nat
<1>1. Max(TTLs) \in Nat
  <2>1. TTLs \in SUBSET Nat /\ TTLs # {} /\ IsFiniteSet(TTLs)
    BY CacheAssumption
  <2>2. Max(TTLs) \in TTLs
    BY <2>1, MaxIs
  <2> QED BY <2>1, <2>2
<1>2. MaxAge \in Nat
  BY <1>1, CacheAssumption DEF MaxAge
<1>3. \A spot \in Places : spot[2] \in Nat
  BY CacheAssumption DEF Places
<1> QED BY <1>2, <1>3, CacheAssumption

\* A counter that stops at its bound.
LEMMA BumpType ==
  ASSUME NEW n \in 0 .. HitCap, NEW by \in Nat
  PROVE  Bump(n, by) \in 0 .. HitCap
BY CacheConstants DEF Bump

\* What the entries hold, as the sum the lemmas are about.
LEMMA BytesAre ==
  ASSUME cache_ \in [Cached -> CacheEntry], IsFiniteSet(Cached), NEW K \in SUBSET Cached
  PROVE  /\ Bytes(K) = SumOf(Held, K)
         /\ \A k \in Cached : Held[k] = cache_[k].data[2] /\ Held[k] \in Nat
         /\ Bytes(K) \in Nat /\ Bytes(Cached \ K) \in Nat
         /\ Bytes(Cached) = Bytes(K) + Bytes(Cached \ K)
         /\ Bytes({}) = 0
<1>1. \A L : Bytes(L) = SumOf(Held, L)
  BY DEF Bytes, SumOf
<1>2. \A k \in Cached : Held[k] = cache_[k].data[2] /\ Held[k] \in Nat
  BY CacheConstants DEF Held, CacheEntry
<1>3. IsFiniteSet(K) /\ IsFiniteSet(Cached \ K)
  BY FS_Subset
<1>4. SumOf(Held, K) \in Nat /\ SumOf(Held, Cached \ K) \in Nat
  BY <1>2, <1>3, SumNat
<1>5. SumOf(Held, Cached) = SumOf(Held, K) + SumOf(Held, Cached \ K)
  BY <1>2, SumSplit
<1>6. SumOf(Held, {}) = 0
  BY <1>3, SumTakes
<1> QED BY <1>1, <1>2, <1>4, <1>5, <1>6

\* The same entries hold the same bytes after a step.
LEMMA BytesKept ==
  ASSUME NEW K, IsFiniteSet(K), K \subseteq Cached, K \subseteq Cached',
         \A k \in K : cache_'[k].data = cache_[k].data
  PROVE  SumOf(Held', K) = SumOf(Held, K)
<1>1. \A k \in K : Held[k] = cache_[k].data[2] /\ Held'[k] = cache_'[k].data[2]
  BY DEF Held
<1>2. \A k \in K : Held[k] = Held'[k]
  BY <1>1
<1> DEFINE f == Held
           g == Held'
<1> HIDE DEF f, g
<1>3. \A k \in K : f[k] = g[k]
  BY <1>2 DEF f, g
<1>4. SumOf(f, K) = SumOf(g, K)
  BY <1>3, SumSame
<1> QED BY <1>4 DEF f, g

\* What is cached after a step.
LEMMA BytesNext == Bytes(Cached)' = SumOf(Held', Cached')
BY DEF Bytes, SumOf, MapThenSumSet, MapThenFoldSet

-----------------------------------------------------------------------------
LEMMA CacheInitInv == CacheInit => CacheInv
<1> SUFFICES ASSUME CacheInit PROVE CacheInv
  OBVIOUS
<1>1. Cached = {} /\ cache_ \in [Cached -> CacheEntry] /\ IsFiniteSet(Cached)
  BY FS_EmptySet DEF CacheInit, Cached
<1>2. Bytes(Cached) = 0
  BY <1>1, BytesAre
<1>3. max_cache_size_ \in Nat /\ max_cache_size_ >= 0
  BY CacheAssumption DEF CacheInit
<1>4. CacheTypeOK
  BY <1>1, CacheConstants DEF CacheInit, CacheTypeOK
<1> QED BY <1>1, <1>2, <1>3, <1>4 DEF CacheInv, Filed, WithinBudget, CacheInit

\* Some entries go, and their bytes with them.
LEMMA EntriesGo ==
  ASSUME CacheInv, NEW V \in SUBSET Cached, Keep(Cached \ V)
  PROVE  /\ cache_' \in [Cached' -> CacheEntry] /\ IsFiniteSet(Cached') /\ Filed'
         /\ Cached' \subseteq {make_cache_key(spot) : spot \in Places}
         /\ Bytes(Cached)' = current_size_ - Bytes(V)
         /\ current_size_ - Bytes(V) \in Nat /\ current_size_ - Bytes(V) <= current_size_
         /\ V = Cached => current_size_ - Bytes(V) = 0
<1>1. /\ cache_ \in [Cached -> CacheEntry] /\ IsFiniteSet(Cached)
      /\ current_size_ = Bytes(Cached) /\ Filed
      /\ Cached \subseteq {make_cache_key(spot) : spot \in Places}
  BY DEF CacheInv, CacheTypeOK, WithinBudget
<1>2. /\ Cached' = Cached \ V
      /\ \A k \in Cached \ V : cache_'[k] = cache_[k]
      /\ cache_' \in [Cached' -> CacheEntry]
  BY <1>1 DEF Keep, Cached
<1>3. IsFiniteSet(Cached \ V)
  BY <1>1, FS_Subset
<1>4. Filed'
  BY <1>1, <1>2 DEF Filed
<1>5. SumOf(Held', Cached \ V) = SumOf(Held, Cached \ V)
  BY <1>2, <1>3, BytesKept
<1>6. /\ Bytes(Cached \ V) = SumOf(Held, Cached \ V)
      /\ Bytes(V) \in Nat /\ Bytes(Cached \ V) \in Nat
      /\ Bytes(Cached) = Bytes(V) + Bytes(Cached \ V)
      /\ Bytes({}) = 0
  <2>1. Cached \ V \in SUBSET Cached
    OBVIOUS
  <2> QED BY <1>1, <2>1, BytesAre
<1>7. V = Cached => Bytes(Cached \ V) = 0
  <2>1. Cached \ Cached = {}
    OBVIOUS
  <2> QED BY <1>6, <2>1
<1>8. Bytes(Cached)' = Bytes(Cached \ V)
  BY <1>2, <1>5, <1>6, BytesNext
<1> QED BY <1>1, <1>2, <1>3, <1>4, <1>6, <1>7, <1>8

\* Calls and settings that leave the entries' bytes as they are.
LEMMA SameEntries ==
  ASSUME CacheInv, CacheTypeOK',
         Cached' = Cached, \A k \in Cached : cache_'[k].data = cache_[k].data,
         UNCHANGED <<current_size_, max_cache_size_>>
  PROVE  CacheInv'
<1>1. /\ IsFiniteSet(Cached) /\ cache_ \in [Cached -> CacheEntry] /\ current_size_ = Bytes(Cached)
  BY DEF CacheInv, CacheTypeOK, WithinBudget
<1>2. SumOf(Held', Cached) = SumOf(Held, Cached)
  BY <1>1, BytesKept
<1>3. Bytes(Cached)' = Bytes(Cached)
  BY <1>1, <1>2, BytesNext, BytesAre
<1>4. Filed'
  BY DEF CacheInv, Filed
<1> QED BY <1>1, <1>3, <1>4 DEF CacheInv, WithinBudget

\* What a user does next, typed.
LEMMA PendingType ==
  ASSUME CacheTypeOK, NEW u \in Users
  PROVE  /\ \A op \in {"get", "put"} : CallAt(u, op) => pending[u].place \in Places
         /\ EndCall(u) => pending' \in [Users -> {Idle} \cup InCall]
<1>1. pending \in [Users -> {Idle} \cup InCall]
  BY DEF CacheTypeOK
<1>2. \A op \in {"get", "put"} : CallAt(u, op) => pending[u].place \in Places
  BY <1>1 DEF CallAt, InCall
<1> QED BY <1>1, <1>2 DEF EndCall

-----------------------------------------------------------------------------
\* A get changes at most how often its entry was hit.
LEMMA CacheGetInv ==
  ASSUME CacheInv, NEW u \in Users,
         \/ \E op \in {"get", "put"}, spot \in Places : BeginCall(u, op, spot)
         \/ GetHit(u) \/ GetExpired(u) \/ GetAbsent(u) \/ CountMiss(u)
  PROVE  CacheInv'
<1>1. CacheTypeOK /\ cache_ \in [Cached -> CacheEntry]
  BY DEF CacheInv, CacheTypeOK
<1>2. CASE GetHit(u)
  <2> DEFINE k == make_cache_key(pending[u].place)
  <2> HIDE DEF k
  <2>1. /\ k \in Cached /\ CallAt(u, "get")
        /\ cache_' = [cache_ EXCEPT ![k].hit_count = Bump(@, 1)]
        /\ hits_' = Bump(hits_, 1) /\ EndCall(u)
        /\ UNCHANGED <<current_size_, settings, misses_, evictions_>>
    BY <1>2 DEF GetHit, k
  <2>2. Bump(cache_[k].hit_count, 1) \in 0 .. HitCap /\ Bump(hits_, 1) \in 0 .. HitCap
    BY <1>1, <2>1, BumpType DEF CacheEntry, CacheTypeOK
  <2>3. /\ Cached' = Cached /\ cache_' \in [Cached -> CacheEntry]
        /\ \A j \in Cached : cache_'[j].data = cache_[j].data
    BY <1>1, <2>1, <2>2 DEF Cached, CacheEntry
  <2>4. CacheTypeOK'
    BY <1>1, <2>1, <2>2, <2>3, PendingType DEF CacheTypeOK, settings
  <2> QED BY <2>1, <2>3, <2>4, SameEntries DEF settings
<1>3. CASE GetExpired(u) \/ CountMiss(u)
  <2>1. /\ misses_' = Bump(misses_, 1) /\ EndCall(u)
        /\ UNCHANGED <<cache_, current_size_, settings, hits_, evictions_>>
    BY <1>3 DEF GetExpired, CountMiss
  <2>2. misses_' \in 0 .. HitCap
    BY <1>1, <2>1, BumpType DEF CacheTypeOK
  <2>3. CacheTypeOK'
    BY <1>1, <2>1, <2>2, PendingType DEF CacheTypeOK, settings, Cached
  <2> QED BY <2>1, <2>3, SameEntries DEF settings, Cached
<1>4. CASE \/ \E op \in {"get", "put"}, spot \in Places : BeginCall(u, op, spot)
           \/ GetAbsent(u)
  <2>1. UNCHANGED <<cache_, current_size_, settings, statistics>>
    BY <1>4 DEF BeginCall, GetAbsent
  <2>2. pending' \in [Users -> {Idle} \cup InCall]
    BY <1>1, <1>4 DEF BeginCall, GetAbsent, CacheTypeOK, InCall
  <2>3. CacheTypeOK'
    BY <1>1, <2>1, <2>2 DEF CacheTypeOK, settings, statistics, Cached
  <2> QED BY <2>1, <2>3, SameEntries DEF settings, Cached
<1> QED BY <1>2, <1>3, <1>4

\* An overwritten entry holds as many bytes as before where sizes are apart.
LEMMA PutExistingInv ==
  ASSUME CacheInv, NEW u \in Users, PutExisting(u)
  PROVE  CacheInv'
<1> DEFINE spot == pending[u].place
           k == make_cache_key(spot)
           n == spot[2]
<1>1. /\ CacheTypeOK /\ cache_ \in [Cached -> CacheEntry] /\ IsFiniteSet(Cached) /\ Filed
      /\ current_size_ = Bytes(Cached)
  BY DEF CacheInv, CacheTypeOK, WithinBudget
<1>2. spot \in Places /\ n \in Nat /\ EndCall(u) /\ k \in Cached
  BY <1>1, PendingType, CacheConstants DEF PutExisting
<1>3. /\ cache_' = [cache_ EXCEPT ![k] =
              [address |-> @.address, data |-> spot, age |-> 0, hit_count |-> 0]]
      /\ current_size_' = current_size_ - cache_[k].data[2] + spot[2]
      /\ UNCHANGED <<settings, statistics>>
  BY DEF PutExisting
<1>4. make_cache_key(spot) = k
  OBVIOUS
<1> HIDE DEF spot, k, n
<1>5. [address |-> cache_[k].address, data |-> spot, age |-> 0, hit_count |-> 0] \in CacheEntry
  <2>1. cache_[k].address \in Addrs
    BY <1>1, <1>2 DEF CacheEntry
  <2> QED BY <1>2, <2>1, CacheConstants DEF CacheEntry
<1>6. /\ Cached' = Cached /\ cache_' \in [Cached -> CacheEntry]
      /\ \A j \in Cached \ {k} : cache_'[j] = cache_[j]
      /\ cache_'[k].data = spot
  BY <1>1, <1>2, <1>3, <1>5 DEF Cached
<1>7. /\ Held \in [Cached -> Nat] /\ Held[k] = cache_[k].data[2]
      /\ Bytes(Cached) = SumOf(Held, Cached)
  BY <1>1, <1>2, BytesAre DEF Held
<1>8. Held' = [Held EXCEPT ![k] = n]
  BY <1>2, <1>6 DEF Held, n
<1>9. /\ SumOf(Held', Cached) + Held[k] = SumOf(Held, Cached) + n
      /\ SumOf(Held', Cached) \in Nat /\ SumOf(Held, Cached) \in Nat
  <2> DEFINE f == Held
  <2> HIDE DEF f
  <2>1. f \in [Cached -> Nat] /\ IsFiniteSet(Cached) /\ Cached \subseteq Cached /\ k \in Cached
    BY <1>1, <1>2, <1>7 DEF f
  <2>2. /\ SumOf([f EXCEPT ![k] = n], Cached) + f[k] = SumOf(f, Cached) + n
        /\ SumOf([f EXCEPT ![k] = n], Cached) \in Nat /\ SumOf(f, Cached) \in Nat
    BY <1>2, <2>1, SumExcept, Zenon
  <2> QED BY <1>8, <2>2 DEF f
<1>10. Held[k] \in Nat
  BY <1>2, <1>7
<1>11. current_size_' = Bytes(Cached)' /\ current_size_' \in Nat
  BY <1>1, <1>2, <1>3, <1>6, <1>7, <1>9, <1>10, BytesNext DEF n
<1>12. SizesApart => current_size_' = current_size_
  <2>1. ASSUME SizesApart PROVE cache_[k].data[2] = spot[2]
    <3>1. make_cache_key(cache_[k].data) = make_cache_key(spot) /\ cache_[k].data \in Places
      BY <1>1, <1>2, <1>4 DEF Filed, CacheEntry
    <3> QED BY <1>2, <2>1, <3>1 DEF SizesApart
  <2> QED BY <1>1, <1>2, <1>3, <1>7, <1>9, <1>10, <2>1 DEF n
<1>13. Filed'
  BY <1>1, <1>4, <1>6 DEF Filed
<1>14. CacheTypeOK'
  BY <1>1, <1>2, <1>3, <1>6, <1>11, PendingType DEF CacheTypeOK, settings, statistics
<1>15. WithinBudget'
  BY <1>3, <1>11, <1>12 DEF CacheInv, WithinBudget, settings
<1> QED BY <1>1, <1>6, <1>13, <1>14, <1>15 DEF CacheInv

\* What evict_lru leaves is within the room asked for, or nothing.
LEMMA EvictedLeaves ==
  ASSUME CacheInv, NEW V \in SUBSET Cached, NEW room \in Int, EvictedBy(V, room)
  PROVE  V = Cached \/ current_size_ - Bytes(V) <= room
BY DEF EvictedBy

\* Some entries are counted as evicted, or not.
LEMMA EvictionType ==
  ASSUME CacheInv, NEW V \in SUBSET Cached
  PROVE  Bump(evictions_, Cardinality(V)) \in 0 .. HitCap
<1>1. Cardinality(V) \in Nat
  BY FS_Subset, FS_CardinalityType DEF CacheInv
<1> QED BY <1>1, BumpType DEF CacheInv, CacheTypeOK

\* Entries go and the budget stays or holds what is left.
LEMMA GoneInv ==
  ASSUME CacheInv, NEW V \in SUBSET Cached, Keep(Cached \ V),
         current_size_' = current_size_ - Bytes(V),
         max_cache_size_' \in MaxSizes,
         max_cache_size_' = max_cache_size_ \/ current_size_' <= max_cache_size_',
         ttl_' \in TTLs, enabled_' \in BOOLEAN,
         hits_' \in 0 .. HitCap, misses_' \in 0 .. HitCap, evictions_' \in 0 .. HitCap,
         pending' \in [Users -> {Idle} \cup InCall]
  PROVE  CacheInv'
<1>1. /\ cache_' \in [Cached' -> CacheEntry] /\ IsFiniteSet(Cached') /\ Filed'
      /\ Cached' \subseteq {make_cache_key(spot) : spot \in Places}
      /\ Bytes(Cached)' = current_size_'
      /\ current_size_' \in Nat /\ current_size_' <= current_size_
  BY EntriesGo
<1>2. CacheTypeOK'
  BY <1>1 DEF CacheTypeOK
<1>3. current_size_ \in Nat /\ max_cache_size_ \in Nat
  BY CacheAssumption DEF CacheInv, CacheTypeOK
<1>4. SizesApart => current_size_' <= max_cache_size_'
  BY <1>1, <1>3 DEF CacheInv, WithinBudget
<1> QED BY <1>1, <1>2, <1>4 DEF CacheInv, WithinBudget

\* A new entry comes in where there is room, or not at all.
LEMMA PutNewInv ==
  ASSUME CacheInv, NEW u \in Users, PutNew(u)
  PROVE  CacheInv'
<1> DEFINE spot == pending[u].place
           k == make_cache_key(spot)
           n == spot[2]
           entry == [address |-> spot[1], data |-> spot, age |-> 0, hit_count |-> 0]
<1>1. /\ CacheTypeOK /\ cache_ \in [Cached -> CacheEntry] /\ IsFiniteSet(Cached) /\ Filed
      /\ current_size_ = Bytes(Cached) /\ current_size_ \in Nat /\ max_cache_size_ \in Nat
      /\ Cached \subseteq {make_cache_key(p) : p \in Places}
  BY CacheAssumption DEF CacheInv, CacheTypeOK, WithinBudget
<1>2. spot \in Places /\ n \in Nat /\ EndCall(u) /\ k \notin Cached
  BY <1>1, PendingType, CacheConstants DEF PutNew
<1>3. entry \in CacheEntry
  BY <1>2, CacheConstants DEF CacheEntry, Places
<1>4. PICK V \in SUBSET Cached :
        /\ EvictedBy(V, RoomFor(n))
        /\ evictions_' = Bump(evictions_, Cardinality(V))
        /\ IF n > max_cache_size_
           THEN Keep(Cached \ V) /\ current_size_' = current_size_ - Bytes(V)
           ELSE /\ cache_' = [j \in (Cached \ V) \cup {k} |-> IF j = k THEN entry ELSE cache_[j]]
                /\ current_size_' = current_size_ - Bytes(V) + n
  BY DEF PutNew
<1>5. UNCHANGED <<settings, hits_, misses_>>
  BY DEF PutNew
<1>6. make_cache_key(entry.data) = k /\ entry.data[2] = n
  OBVIOUS
<1> HIDE DEF spot, k, n, entry
<1>7. /\ ttl_' \in TTLs /\ enabled_' \in BOOLEAN /\ max_cache_size_' = max_cache_size_
      /\ max_cache_size_ \in MaxSizes
      /\ hits_' \in 0 .. HitCap /\ misses_' \in 0 .. HitCap /\ evictions_' \in 0 .. HitCap
      /\ pending' \in [Users -> {Idle} \cup InCall]
  BY <1>1, <1>2, <1>4, <1>5, EvictionType, PendingType DEF CacheTypeOK, settings
<1>8. CASE n > max_cache_size_
  <2>1. Keep(Cached \ V) /\ current_size_' = current_size_ - Bytes(V)
    BY <1>4, <1>8
  <2> QED BY <1>7, <2>1, GoneInv
<1>9. CASE ~(n > max_cache_size_)
  <2> DEFINE K == Cached \ V
  <2>1. /\ cache_' = [j \in K \cup {k} |-> IF j = k THEN entry ELSE cache_[j]]
        /\ current_size_' = current_size_ - Bytes(V) + n
    BY <1>4, <1>9
  <2>2. K \in SUBSET Cached /\ IsFiniteSet(K) /\ k \notin K
    BY <1>1, <1>2, FS_Subset
  <2>3. /\ Bytes(K) = SumOf(Held, K) /\ Bytes(K) \in Nat /\ Bytes(V) \in Nat
        /\ Bytes(Cached) = Bytes(V) + Bytes(K)
    <3>1. Bytes(K) = SumOf(Held, K) /\ Bytes(K) \in Nat
      BY <1>1, <2>2, BytesAre
    <3>2. Bytes(V) \in Nat /\ Bytes(Cached) = Bytes(V) + Bytes(K)
      BY <1>1, BytesAre
    <3> QED BY <3>1, <3>2
  <2>4. V = Cached => Bytes(K) = 0
    <3>1. Bytes({}) = 0 /\ Cached \ Cached = {}
      BY <1>1, BytesAre
    <3> QED BY <3>1
  <2> HIDE DEF K
  <2>5. /\ Cached' = K \cup {k} /\ cache_' \in [Cached' -> CacheEntry]
        /\ \A j \in K : cache_'[j] = cache_[j]
        /\ cache_'[k] = entry
    BY <1>1, <1>3, <2>1, <2>2 DEF Cached
  <2>6. IsFiniteSet(K \cup {k})
    BY <2>2, FS_AddElement
  <2>7. SumOf(Held', K) = SumOf(Held, K)
    BY <2>2, <2>5, BytesKept
  <2>8. SumOf(Held', K \cup {k}) = n + SumOf(Held', K)
    <3>1. Held' \in [K \cup {k} -> Nat] /\ Held'[k] = n
      <4>1. \A j \in K : cache_[j].data[2] \in Nat
        BY <1>1, <2>2, CacheConstants DEF CacheEntry
      <4> QED BY <1>2, <1>6, <2>2, <2>5, <4>1 DEF Held
    <3> DEFINE f == Held'
               S == K \cup {k}
    <3> HIDE DEF f, S
    <3>2. IsFiniteSet(S) /\ (\A x \in S : f[x] \in Nat) /\ k \in S
      BY <2>6, <3>1 DEF f, S
    <3>3. SumOf(f, S) = f[k] + SumOf(f, S \ {k})
      BY <3>2, SumRemove
    <3>4. S \ {k} = K
      BY <2>2 DEF S
    <3> QED BY <3>1, <3>3, <3>4 DEF f, S
  <2>9. Bytes(Cached)' = Bytes(K) + n
    BY <1>2, <2>3, <2>5, <2>7, <2>8, BytesNext
  <2>10. current_size_' = Bytes(K) + n
    BY <1>1, <1>2, <2>1, <2>3
  <2>11. Bytes(K) + n <= max_cache_size_
    <3>1. V = Cached \/ current_size_ - Bytes(V) <= max_cache_size_ - n
      <4>1. RoomFor(n) = max_cache_size_ - n /\ RoomFor(n) \in Int
        BY <1>1, <1>2 DEF RoomFor
      <4> QED BY <1>4, <4>1, EvictedLeaves
    <3> QED BY <1>1, <1>2, <1>9, <2>3, <2>4, <3>1
  <2>12. Filed'
    BY <1>1, <1>6, <2>2, <2>5 DEF Filed
  <2>13. CacheTypeOK'
    <3>1. Cached' \subseteq {make_cache_key(p) : p \in Places}
      BY <1>1, <1>2, <2>2, <2>5 DEF k
    <3> QED BY <1>2, <1>7, <2>3, <2>5, <2>10, <3>1 DEF CacheTypeOK
  <2> QED BY <1>7, <2>5, <2>6, <2>9, <2>10, <2>11, <2>12, <2>13 DEF CacheInv, WithinBudget
<1> QED BY <1>8, <1>9

\* Entries leave the cache in other ways.
LEMMA DroppedInv ==
  ASSUME CacheInv,
         \/ \E addr \in Addrs : invalidate(addr)
         \/ \E size \in MaxSizes : set_max_size(size)
         \/ clear \/ evict_expired
         \/ \E u \in Users : FinishSetTTL(u)
  PROVE  CacheInv'
<1>1. /\ CacheTypeOK /\ max_cache_size_ \in MaxSizes /\ current_size_ = Bytes(Cached)
      /\ IsFiniteSet(Cached) /\ cache_ \in [Cached -> CacheEntry] /\ current_size_ \in Nat
  BY DEF CacheInv, CacheTypeOK, WithinBudget
<1>2. ASSUME NEW addr \in Addrs, invalidate(addr) PROVE CacheInv'
  <2> DEFINE V == {k \in Cached : cache_[k].address = addr}
  <2>1. /\ V \in SUBSET Cached /\ Keep(Cached \ V) /\ current_size_' = current_size_ - Bytes(V)
        /\ UNCHANGED <<settings, statistics, pending>>
    BY <1>2 DEF invalidate
  <2> HIDE DEF V
  <2> QED BY <1>1, <2>1, GoneInv DEF settings, statistics, CacheTypeOK
<1>3. ASSUME NEW size \in MaxSizes, set_max_size(size) PROVE CacheInv'
  <2>1. PICK V \in SUBSET Cached :
          /\ EvictedBy(V, size) /\ Keep(Cached \ V)
          /\ current_size_' = current_size_ - Bytes(V)
          /\ evictions_' = Bump(evictions_, Cardinality(V))
    BY <1>3 DEF set_max_size
  <2>2. max_cache_size_' = size /\ UNCHANGED <<ttl_, enabled_, hits_, misses_, pending>>
    BY <1>3 DEF set_max_size
  <2>3. size \in Nat
    BY CacheAssumption
  <2>4. current_size_' <= size
    <3>1. V = Cached \/ current_size_ - Bytes(V) <= size
      BY <2>1, <2>3, EvictedLeaves
    <3>2. V = Cached => current_size_ - Bytes(V) = 0
      BY <2>1, EntriesGo
    <3> QED BY <2>1, <2>3, <3>1, <3>2
  <2>5. evictions_' \in 0 .. HitCap
    BY <2>1, EvictionType
  <2> QED BY <1>1, <2>1, <2>2, <2>4, <2>5, GoneInv DEF CacheTypeOK
<1>4. CASE clear
  <2>1. Cached \in SUBSET Cached /\ Keep(Cached \ Cached) /\ current_size_' = 0
    <3>1. Cached \ Cached = {}
      OBVIOUS
    <3> QED BY <1>4, <3>1 DEF clear
  <2>2. current_size_ - Bytes(Cached) = 0
    BY <2>1, EntriesGo
  <2> QED BY <1>1, <1>4, <2>1, <2>2, GoneInv DEF clear, settings, statistics, CacheTypeOK
<1>5. CASE evict_expired \/ \E u \in Users : FinishSetTTL(u)
  <2> DEFINE V == {k \in Cached : is_expired(cache_[k])}
  <2>1. /\ V \in SUBSET Cached /\ Keep(Cached \ V) /\ current_size_' = current_size_ - Bytes(V)
        /\ evictions_' = Bump(evictions_, Cardinality(V))
        /\ UNCHANGED <<settings, hits_, misses_>>
    BY <1>5 DEF evict_expired, FinishSetTTL, EvictExpired
  <2>2. pending' \in [Users -> {Idle} \cup InCall]
    BY <1>1, <1>5, PendingType DEF evict_expired, FinishSetTTL, CacheTypeOK
  <2> HIDE DEF V
  <2>3. evictions_' \in 0 .. HitCap
    BY <2>1, EvictionType
  <2> QED BY <1>1, <2>1, <2>2, <2>3, GoneInv DEF settings, CacheTypeOK
<1> QED BY <1>2, <1>3, <1>4, <1>5

\* Settings, statistics and time leave the bytes alone.
LEMMA CacheOthersInv ==
  ASSUME CacheInv,
         \/ \E u \in Users, ttl \in TTLs : set_ttl(u, ttl)
         \/ \E enabled \in BOOLEAN : set_enabled(enabled)
         \/ reset_cache_statistics \/ Tick \/ UNCHANGED cache_vars
  PROVE  CacheInv'
<1>1. CacheTypeOK /\ cache_ \in [Cached -> CacheEntry] /\ HitCap \in Nat /\ MaxAge \in Nat
  BY CacheConstants DEF CacheInv, CacheTypeOK
<1>2. CASE Tick
  <2>1. /\ Cached' = Cached /\ cache_' \in [Cached -> CacheEntry]
        /\ \A k \in Cached : cache_'[k].data = cache_[k].data
    <3>1. \A k \in Cached :
            [cache_[k] EXCEPT !.age = IF @ < MaxAge THEN @ + 1 ELSE @] \in CacheEntry
      BY <1>1 DEF CacheEntry
    <3>2. \A k \in Cached :
            [cache_[k] EXCEPT !.age = IF @ < MaxAge THEN @ + 1 ELSE @].data = cache_[k].data
      BY <1>1 DEF CacheEntry
    <3>3. cache_' = [k \in Cached |-> [cache_[k] EXCEPT !.age = IF @ < MaxAge THEN @ + 1 ELSE @]]
      BY <1>2 DEF Tick
    <3> QED BY <3>1, <3>2, <3>3 DEF Cached
  <2>2. UNCHANGED <<current_size_, settings, statistics, pending>>
    BY <1>2 DEF Tick
  <2>3. CacheTypeOK'
    BY <1>1, <2>1, <2>2 DEF CacheTypeOK, settings, statistics
  <2> QED BY <2>1, <2>2, <2>3, SameEntries DEF settings
<1>3. CASE \/ \E u \in Users, ttl \in TTLs : set_ttl(u, ttl)
           \/ \E enabled \in BOOLEAN : set_enabled(enabled)
           \/ reset_cache_statistics \/ UNCHANGED cache_vars
  <2>1. /\ UNCHANGED <<cache_, current_size_, max_cache_size_>>
        /\ ttl_' \in TTLs /\ enabled_' \in BOOLEAN
    BY <1>1, <1>3
    DEF set_ttl, set_enabled, reset_cache_statistics, cache_vars, settings, CacheTypeOK
  <2>2. hits_' \in 0 .. HitCap /\ misses_' \in 0 .. HitCap /\ evictions_' \in 0 .. HitCap
    BY <1>1, <1>3
    DEF set_ttl, set_enabled, reset_cache_statistics, cache_vars, statistics, CacheTypeOK
  <2>3. pending' \in [Users -> {Idle} \cup InCall]
    BY <1>1, <1>3
    DEF set_ttl, set_enabled, reset_cache_statistics, cache_vars, CacheTypeOK, InCall
  <2>4. CacheTypeOK'
    BY <1>1, <2>1, <2>2, <2>3 DEF CacheTypeOK, Cached
  <2> QED BY <2>1, <2>4, SameEntries DEF Cached
<1> QED BY <1>2, <1>3

THEOREM CacheInvariance == CacheSpec => []CacheInv
<1>1. ASSUME CacheInv, [CacheNext]_cache_vars PROVE CacheInv'
  <2>1. ASSUME NEW u \in Users, CacheUser(u) PROVE CacheInv'
    BY <1>1, <2>1, CacheGetInv, PutExistingInv, PutNewInv, DroppedInv, CacheOthersInv DEF CacheUser
  <2> QED BY <1>1, <2>1, DroppedInv, CacheOthersInv DEF CacheNext
<1> QED BY CacheInitInv, <1>1, PTL DEF CacheSpec

\* current_size_ is what the entries hold, and within the budget: for any places,
\* budgets and number of threads, where sizes that differ have keys that differ.
THEOREM BudgetIsKept == CacheSpec => []WithinBudget
<1>1. CacheInv => WithinBudget
  BY DEF CacheInv
<1> QED BY <1>1, CacheInvariance, PTL

\* A hit returns bytes of a place with the key of the place asked for, whichever places
\* share their keys.
THEOREM HitsShareKeys == CacheSpec => HitSharesKey
<1> DEFINE sought(u) == make_cache_key(pending[u].place)
<1>1. ASSUME CacheInv, NEW u \in Users, GetHit(u)
      PROVE  make_cache_key(cache_[sought(u)].data) = sought(u)
  <2>1. sought(u) \in Cached
    BY <1>1 DEF GetHit
  <2> QED BY <1>1, <2>1 DEF CacheInv, Filed
<1>2. CacheInv => \A u \in Users : GetHit(u) => make_cache_key(cache_[sought(u)].data) = sought(u)
  BY <1>1
<1> QED BY <1>2, CacheInvariance, PTL DEF HitSharesKey

\* Every variable keeps its type; current_size_ never falls below zero.
THEOREM CacheTyped == CacheSpec => []CacheTypeOK
<1>1. CacheInv => CacheTypeOK
  BY DEF CacheInv
<1> QED BY <1>1, CacheInvariance, PTL

-----------------------------------------------------------------------------
(***************************************************************************)
(* Proofs about SelfHealing, for any threads and any configuration.        *)
(*                                                                         *)
(* A retry is counted one attempt at a time by the thread in the loop and  *)
(* settled as a whole, so the attempts of the threads inside the loop are  *)
(* summed: a thread that moves changes one term.                           *)
(***************************************************************************)
HealingStages == {"idle", "plain", "guarded", "run", "run plain", "run guarded", "succeeded", "failed",
           "failed plain", "sleeping", "sleeping plain", "exhausted", "resetting", "fallback",
           "reconnecting", "checking", "judging", "stuck"}

HealingFields ==
  {"successful_retries", "failed_retries", "total_retry_attempts", "fallback_invocations",
   "reconnection_attempts", "successful_reconnections", "failed_reconnections",
   "failed_health_checks", "consecutive_health_failures"}

HealingTypeOK ==
  /\ healing \in [HealingFields -> Nat]
  /\ stage \in [Healers -> HealingStages]
  /\ attempt \in [Healers -> Nat] /\ later \in [Healers -> Nat]
  /\ outcome \in [Healers -> {"ok", "code", "throw", "none"}]
  /\ sleeps \in Nat

\* A thread outside the retry loop holds no count of attempts.
CountGivenUp ==
  \A t \in Healers :
    stage[t] \in {"idle", "resetting", "fallback", "reconnecting", "checking", "judging"} => attempt[t] = 0

HealingInv == HealingTypeOK /\ CountGivenUp /\ RetriesCounted /\ HealthyTrips

-----------------------------------------------------------------------------
\* The sums of the module are SumOf.
LEMMA RetriesSum ==
  /\ RetriesCounted <=> sleeps = healing.total_retry_attempts + SumOf(attempt, Healers)
  /\ RetriesCounted' <=> sleeps' = healing'.total_retry_attempts + SumOf(attempt', Healers)
  /\ reset_stats => sleeps' = SumOf(attempt, Healers)
BY DEF RetriesCounted, reset_stats, SumOf, MapThenSumSet, MapThenFoldSet

\* One thread's counter changes: the sum changes with it.
LEMMA AttemptChange ==
  ASSUME HealingTypeOK, HealingTypeOK', NEW t \in Healers, NEW n \in Nat,
         attempt' = [attempt EXCEPT ![t] = n]
  PROVE  /\ SumOf(attempt', Healers) + attempt[t] = SumOf(attempt, Healers) + n
         /\ SumOf(attempt', Healers) \in Nat /\ SumOf(attempt, Healers) \in Nat
<1>1. IsFiniteSet(Healers) /\ attempt \in [Healers -> Nat]
  BY HealingAssumption DEF HealingTypeOK
<1> DEFINE next == [attempt EXCEPT ![t] = n]
<1>2. /\ SumOf(next, Healers) + attempt[t] = SumOf(attempt, Healers) + n
      /\ SumOf(next, Healers) \in Nat /\ SumOf(attempt, Healers) \in Nat
  BY <1>1, SumExcept, Zenon
<1> QED BY <1>2

\* A step of one thread to a stage where it judges nothing, that adds to no count of
\* retries or of failed checks.
LEMMA HealingMoveInv ==
  ASSUME HealingInv, NEW t \in Healers, NEW s \in HealingStages \ {"judging"},
         stage' = [stage EXCEPT ![t] = s],
         s \in {"idle", "resetting", "fallback", "reconnecting", "checking"} => attempt[t] = 0,
         NEW o \in {"ok", "code", "throw", "none"},
         outcome' = [outcome EXCEPT ![t] = o],
         healing' \in [HealingFields -> Nat],
         healing'.total_retry_attempts = healing.total_retry_attempts,
         healing'.consecutive_health_failures = healing.consecutive_health_failures,
         UNCHANGED <<attempt, later, sleeps>>
  PROVE  HealingInv'
<1>1. HealingTypeOK'
  BY DEF HealingInv, HealingTypeOK
<1>2. CountGivenUp'
  BY DEF HealingInv, HealingTypeOK, CountGivenUp
<1>3. RetriesCounted'
  BY RetriesSum DEF HealingInv
<1>4. HealthyTrips'
  BY DEF HealingInv, HealingTypeOK, HealthyTrips
<1> QED BY <1>1, <1>2, <1>3, <1>4 DEF HealingInv

\* Nobody has called.
LEMMA HealingInitInv == HealingInit => HealingInv
<1> SUFFICES ASSUME HealingInit PROVE HealingInv
  OBVIOUS
<1>1. HealingTypeOK
  BY DEF HealingInit, HealingTypeOK, HealingFields, NoHealing, HealingStages
<1>2. CountGivenUp /\ HealthyTrips
  BY DEF HealingInit, CountGivenUp, HealthyTrips
<1>3. SumOf(attempt, Healers) = 0
  <2>1. IsFiniteSet(Healers) /\ 0 \in Nat /\ \A t \in Healers : attempt[t] \in 0 .. 0
    BY HealingAssumption DEF HealingInit
  <2>2. SumOf(attempt, Healers) <= Cardinality(Healers) * 0 /\ SumOf(attempt, Healers) \in Nat
    BY <2>1, SumBound, SumNat
  <2> QED BY <2>1, <2>2, FS_CardinalityType
<1>4. RetriesCounted
  BY <1>3, RetriesSum DEF HealingInit, NoHealing
<1> QED BY <1>1, <1>2, <1>4 DEF HealingInv

-----------------------------------------------------------------------------
\* The loop of execute_with_retry up to the delay.
LEMMA LoopInv ==
  ASSUME HealingInv, NEW t \in Healers,
         \/ \E with_result \in BOOLEAN : execute_with_retry(t, with_result)
         \/ Attempt(t) \/ Operation(t) \/ Failed(t)
  PROVE  HealingInv'
<1> USE DEF HealingInv
<1>1. ASSUME NEW with_result \in BOOLEAN, execute_with_retry(t, with_result) PROVE HealingInv'
  <2>1. attempt' = attempt
    BY <1>1 DEF execute_with_retry, HealingTypeOK, CountGivenUp
  <2>2. PICK s \in {"plain", "guarded"} : stage' = [stage EXCEPT ![t] = s]
    BY <1>1 DEF execute_with_retry, At
  <2>3. UNCHANGED <<later, sleeps, healing>> /\ outcome' = [outcome EXCEPT ![t] = "none"]
    BY <1>1 DEF execute_with_retry
  <2>4. s \in HealingStages \ {"judging"} /\ healing' \in [HealingFields -> Nat]
    BY <2>3 DEF HealingStages, HealingTypeOK
  <2> QED BY <2>1, <2>2, <2>3, <2>4, HealingMoveInv
<1> DEFINE Loop == {"stuck", "exhausted", "run", "run plain", "run guarded", "failed",
                    "failed plain", "succeeded", "sleeping", "sleeping plain"}
<1>0. ASSUME NEW s \in Loop, stage' = [stage EXCEPT ![t] = s],
             NEW o \in {"ok", "code", "throw", "none"}, outcome' = [outcome EXCEPT ![t] = o],
             UNCHANGED <<healing, attempt, later, sleeps>>
      PROVE  HealingInv'
  <2>1. s \in HealingStages \ {"judging"} /\ healing' \in [HealingFields -> Nat]
    BY <1>0 DEF HealingStages, HealingTypeOK
  <2> QED BY <1>0, <2>1, HealingMoveInv
<1>2. ASSUME \E s \in Loop : stage' = [stage EXCEPT ![t] = s],
             \/ outcome' = outcome
             \/ \E o \in {"ok", "code", "throw", "none"} : outcome' = [outcome EXCEPT ![t] = o],
             UNCHANGED <<healing, attempt, later, sleeps>>
      PROVE  HealingInv'
  <2>1. \E o \in {"ok", "code", "throw", "none"} : outcome' = [outcome EXCEPT ![t] = o]
    BY <1>2 DEF HealingTypeOK
  <2> QED BY <1>0, <1>2, <2>1
<1> HIDE DEF HealingInv
<1>3. CASE Attempt(t)
  <2>1. /\ \E s \in Loop : stage' = [stage EXCEPT ![t] = s]
        /\ outcome' = outcome \/ outcome' = [outcome EXCEPT ![t] = "code"]
    BY <1>3 DEF Attempt, At, Transition
  <2> QED BY <1>2, <1>3, <2>1 DEF Attempt
<1>4. CASE Operation(t)
  <2>1. PICK o \in {"ok", "code", "throw"} :
          /\ outcome' = [outcome EXCEPT ![t] = o]
          /\ IF stage[t] = "run guarded"
             THEN IF o = "throw" THEN RecordFailure(t, "failed") ELSE RecordSuccess(t, "succeeded")
             ELSE At(t, CASE o = "ok" -> "succeeded" [] o = "throw" -> "exhausted"
                          [] stage[t] = "run" -> "failed" [] OTHER -> "failed plain")
    BY <1>4 DEF Operation
  <2>2. \E s \in Loop : stage' = [stage EXCEPT ![t] = s]
    BY <2>1 DEF RecordFailure, RecordSuccess, At
  <2> QED BY <1>2, <1>4, <2>1, <2>2 DEF Operation
<1>5. CASE Failed(t)
  <2>1. \E s \in Loop : stage' = [stage EXCEPT ![t] = s]
    BY <1>5 DEF Failed, At
  <2> QED BY <1>2, <1>5, <2>1 DEF Failed
<1> QED BY <1>1, <1>3, <1>4, <1>5

\* A delay is counted in the thread's counter when it is slept.
LEMMA SleepInv ==
  ASSUME HealingInv, NEW t \in Healers, Sleep(t)
  PROVE  HealingInv'
<1> USE DEF HealingInv
<1>0. /\ attempt' = [attempt EXCEPT ![t] = attempt[t] + 1] /\ sleeps' = sleeps + 1
      /\ UNCHANGED <<healing, outcome, later>>
      /\ \E s \in {"guarded", "plain"} : stage' = [stage EXCEPT ![t] = s]
  BY DEF Sleep, At
<1>1. HealingTypeOK'
  <2>1. /\ attempt' \in [Healers -> Nat] /\ sleeps' \in Nat
        /\ UNCHANGED <<healing, outcome, later>>
    BY <1>0 DEF HealingTypeOK
  <2>2. stage' \in [Healers -> HealingStages]
    BY <1>0 DEF HealingTypeOK, HealingStages
  <2> QED BY <2>1, <2>2 DEF HealingTypeOK
<1>2. CountGivenUp' /\ HealthyTrips'
  BY <1>0 DEF HealingTypeOK, CountGivenUp, HealthyTrips
<1>3. RetriesCounted'
  <2>1. attempt[t] \in Nat /\ attempt[t] + 1 \in Nat /\ healing.total_retry_attempts \in Nat
    BY DEF HealingTypeOK, HealingFields
  <2>2. /\ SumOf(attempt', Healers) + attempt[t] = SumOf(attempt, Healers) + (attempt[t] + 1)
        /\ SumOf(attempt', Healers) \in Nat /\ SumOf(attempt, Healers) \in Nat
    BY <1>0, <1>1, <2>1, AttemptChange
  <2> QED BY <1>0, <2>1, <2>2, RetriesSum
<1> QED BY <1>1, <1>2, <1>3

\* A call that ends hands its count over to total_retry_attempts.
LEMMA EndInv ==
  ASSUME HealingInv, NEW t \in Healers, Succeeded(t) \/ Exhausted(t)
  PROVE  HealingInv'
<1> USE DEF HealingInv
<1>0. /\ attempt' = [attempt EXCEPT ![t] = 0]
      /\ UNCHANGED <<outcome, later, sleeps>>
      /\ \E s \in {"resetting", "fallback", "idle"} : stage' = [stage EXCEPT ![t] = s]
      /\ \E f \in {"successful_retries", "failed_retries"} :
           healing' = [healing EXCEPT ![f] = @ + 1, !["total_retry_attempts"] = @ + attempt[t]]
  BY DEF Succeeded, Exhausted, At
<1>1. /\ healing' \in [HealingFields -> Nat]
      /\ healing'.total_retry_attempts = healing.total_retry_attempts + attempt[t]
      /\ healing'.consecutive_health_failures = healing.consecutive_health_failures
  <2>1. healing \in [HealingFields -> Nat] /\ attempt[t] \in Nat
    BY DEF HealingTypeOK
  <2>2. PICK f \in {"successful_retries", "failed_retries"} :
          healing' = [healing EXCEPT ![f] = @ + 1, !["total_retry_attempts"] = @ + attempt[t]]
    BY <1>0
  <2> DEFINE g == [healing EXCEPT ![f] = healing[f] + 1]
             total == healing["total_retry_attempts"] + attempt[t]
  <2>3. /\ {f, "total_retry_attempts", "consecutive_health_failures"} \subseteq HealingFields
        /\ f # "total_retry_attempts" /\ f # "consecutive_health_failures"
        /\ "total_retry_attempts" # "consecutive_health_failures"
    BY DEF HealingFields
  <2>4. /\ g \in [HealingFields -> Nat]
        /\ \A h \in HealingFields \ {f} : g[h] = healing[h]
    BY <2>1, <2>3
  <2>5. total \in Nat
    BY <2>1, <2>3
  <2>6. healing' = [g EXCEPT !["total_retry_attempts"] = total]
    BY <2>2, <2>3, <2>4
  <2> HIDE DEF g, total, HealingInv
  <2>7. /\ healing' \in [HealingFields -> Nat] /\ healing'["total_retry_attempts"] = total
        /\ healing'["consecutive_health_failures"] = g["consecutive_health_failures"]
    BY <2>3, <2>4, <2>5, <2>6
  <2> QED BY <2>3, <2>4, <2>7 DEF total
<1>2. HealingTypeOK'
  <2>1. stage' \in [Healers -> HealingStages]
    BY <1>0 DEF HealingTypeOK, HealingStages
  <2>2. attempt' \in [Healers -> Nat]
    BY <1>0 DEF HealingTypeOK
  <2> QED BY <1>0, <1>1, <2>1, <2>2 DEF HealingTypeOK
<1>3. CountGivenUp' /\ HealthyTrips'
  BY <1>0, <1>1 DEF HealingTypeOK, CountGivenUp, HealthyTrips
<1>4. RetriesCounted'
  <2>1. attempt[t] \in Nat /\ healing.total_retry_attempts \in Nat
    BY DEF HealingTypeOK, HealingFields
  <2>2. /\ SumOf(attempt', Healers) + attempt[t] = SumOf(attempt, Healers) + 0
        /\ SumOf(attempt', Healers) \in Nat /\ SumOf(attempt, Healers) \in Nat
    BY <1>0, <1>2, AttemptChange
  <2> QED BY <1>0, <1>1, <2>1, <2>2, RetriesSum
<1> QED BY <1>2, <1>3, <1>4

\* The calls that do not retry, and what follows a call that did.
LEMMA AfterInv ==
  ASSUME HealingInv, NEW t \in Healers,
         \/ Resetting(t) \/ invoke_fallback(t) \/ attempt_reconnect(t) \/ Reconnect(t)
         \/ perform_health_check(t) \/ Judge(t)
  PROVE  HealingInv'
<1> USE DEF HealingInv
<1>1. UNCHANGED <<attempt, later, sleeps, outcome>> /\ attempt[t] = 0
  BY DEF Resetting, invoke_fallback, attempt_reconnect, Reconnect, perform_health_check, Judge,
         CountGivenUp
<1>2. \E s \in {"stuck", "idle", "reconnecting", "resetting", "checking"} :
        stage' = [stage EXCEPT ![t] = s]
  BY DEF Resetting, invoke_fallback, attempt_reconnect, Reconnect, perform_health_check, Judge,
         At, Reset, Transition
<1>3. \/ UNCHANGED healing
      \/ \E f \in {"fallback_invocations", "reconnection_attempts", "successful_reconnections",
                   "failed_reconnections"} : healing' = [healing EXCEPT ![f] = @ + 1]
  BY DEF Resetting, invoke_fallback, attempt_reconnect, Reconnect, perform_health_check, Judge,
         AddTo
<1>4. /\ healing' \in [HealingFields -> Nat]
      /\ healing'.total_retry_attempts = healing.total_retry_attempts
      /\ healing'.consecutive_health_failures = healing.consecutive_health_failures
  BY <1>3 DEF HealingTypeOK, HealingFields
<1>5. PICK s \in HealingStages \ {"judging"} : stage' = [stage EXCEPT ![t] = s]
  BY <1>2 DEF HealingStages
<1>6. outcome' = [outcome EXCEPT ![t] = outcome[t]] /\ outcome[t] \in {"ok", "code", "throw", "none"}
  BY <1>1 DEF HealingTypeOK
<1> HIDE DEF HealingInv
<1> QED BY <1>1, <1>4, <1>5, <1>6, HealingMoveInv

\* A check that fails adds one to the run of failures and to what the others have seen
\* fail since; one that passes ends the run.
LEMMA HealingCheckInv ==
  ASSUME HealingInv, NEW t \in Healers, RecordCheck(t)
  PROVE  HealingInv'
<1> USE DEF HealingInv
<1>1. PICK healthy \in BOOLEAN :
        /\ healing' = IF healthy THEN [healing EXCEPT !.consecutive_health_failures = 0]
                      ELSE [healing EXCEPT !.failed_health_checks = @ + 1,
                                           !.consecutive_health_failures = @ + 1]
        /\ outcome' = [outcome EXCEPT ![t] = IF healthy THEN "ok" ELSE "code"]
        /\ later' = [x \in Healers |-> IF x = t THEN 0 ELSE IF healthy THEN later[x] ELSE later[x] + 1]
  BY DEF RecordCheck
<1>2. UNCHANGED <<attempt, sleeps>> /\ stage' = [stage EXCEPT ![t] = "judging"] /\ attempt[t] = 0
  BY DEF RecordCheck, At, CountGivenUp
<1>3. /\ healing' \in [HealingFields -> Nat]
      /\ healing'.total_retry_attempts = healing.total_retry_attempts
      /\ healing'.consecutive_health_failures =
           IF healthy THEN 0 ELSE healing.consecutive_health_failures + 1
  <2>1. healing \in [HealingFields -> Nat]
    BY DEF HealingTypeOK
  <2>2. CASE healthy
    BY <1>1, <2>1, <2>2 DEF HealingFields
  <2>3. CASE ~healthy
    <3> DEFINE x == healing["failed_health_checks"] + 1
               y == healing["consecutive_health_failures"] + 1
    <3>1. x \in Nat /\ y \in Nat
      BY <2>1 DEF HealingFields
    <3>2. healing' = [healing EXCEPT !["failed_health_checks"] = x,
                                    !["consecutive_health_failures"] = y]
      BY <1>1, <2>3
    <3> HIDE DEF x
    <3> QED BY <2>1, <2>3, <3>1, <3>2 DEF HealingFields
  <2> QED BY <2>2, <2>3
<1>4. HealingTypeOK'
  <2>1. later' \in [Healers -> Nat]
    BY <1>1 DEF HealingTypeOK
  <2>2. outcome' \in [Healers -> {"ok", "code", "throw", "none"}]
    BY <1>1 DEF HealingTypeOK
  <2>3. stage' \in [Healers -> HealingStages]
    BY <1>2 DEF HealingTypeOK, HealingStages
  <2> QED BY <1>2, <1>3, <2>1, <2>2, <2>3 DEF HealingTypeOK
<1>5. CountGivenUp'
  BY <1>2 DEF HealingTypeOK, CountGivenUp
<1>6. RetriesCounted'
  BY <1>2, <1>3, RetriesSum
<1>7. HealthyTrips'
  <2> SUFFICES ASSUME NEW x \in Healers, stage'[x] = "judging", outcome'[x] = "ok"
      PROVE  healing'.consecutive_health_failures <= later'[x]
    BY DEF HealthyTrips
  <2>1. later[x] \in Nat /\ healing.consecutive_health_failures \in Nat
    BY DEF HealingTypeOK, HealingFields
  <2>2. CASE x = t
    <3>1. healthy
      BY <1>1, <2>2 DEF HealingTypeOK
    <3> QED BY <1>1, <1>3, <2>2, <3>1
  <2>3. CASE x # t
    <3>1. healing.consecutive_health_failures <= later[x]
      BY <1>1, <1>2, <2>3 DEF HealingTypeOK, HealthyTrips
    <3>2. later'[x] = IF healthy THEN later[x] ELSE later[x] + 1
      BY <1>1, <2>3
    <3> QED BY <1>3, <2>1, <3>1, <3>2
  <2> QED BY <2>2, <2>3
<1> QED BY <1>4, <1>5, <1>6, <1>7

\* reset_stats forgets what was slept but for the calls under way.
LEMMA HealingResetInv ==
  ASSUME HealingInv, reset_stats
  PROVE  HealingInv'
<1> USE DEF HealingInv
<1>1. /\ healing' = NoHealing /\ sleeps' = SumOf(attempt, Healers)
      /\ UNCHANGED <<stage, attempt, outcome, later>>
  BY RetriesSum DEF reset_stats
<1>2. HealingTypeOK'
  <2>1. SumOf(attempt, Healers) \in Nat
    BY HealingAssumption, SumNat DEF HealingTypeOK
  <2> QED BY <1>1, <2>1 DEF HealingTypeOK, HealingFields, NoHealing
<1>3. CountGivenUp' /\ HealthyTrips'
  BY <1>1 DEF HealingTypeOK, CountGivenUp, HealthyTrips, NoHealing
<1>4. RetriesCounted'
  <2>1. healing'.total_retry_attempts = 0 /\ SumOf(attempt', Healers) = sleeps' /\ sleeps' \in Nat
    BY <1>1, <1>2 DEF NoHealing, HealingTypeOK
  <2> QED BY <2>1, RetriesSum
<1> QED BY <1>2, <1>3, <1>4

\* HealingInv holds in every state.
THEOREM HealingInvariance == HealingSpec => []HealingInv
<1>1. ASSUME HealingInv, [HealingNext]_healing_vars PROVE HealingInv'
  <2>1. ASSUME NEW t \in Healers,
               \/ \E with_result \in BOOLEAN : execute_with_retry(t, with_result)
               \/ Attempt(t) \/ Operation(t) \/ Failed(t)
        PROVE  HealingInv'
    BY <1>1, <2>1, LoopInv
  <2>2. ASSUME NEW t \in Healers, Sleep(t) \/ Succeeded(t) \/ Exhausted(t) \/ RecordCheck(t)
        PROVE  HealingInv'
    BY <1>1, <2>2, SleepInv, EndInv, HealingCheckInv
  <2>3. ASSUME NEW t \in Healers,
               \/ Resetting(t) \/ invoke_fallback(t) \/ attempt_reconnect(t) \/ Reconnect(t)
               \/ perform_health_check(t) \/ Judge(t)
        PROVE  HealingInv'
    BY <1>1, <2>3, AfterInv
  <2>4. CASE reset_stats
    BY <1>1, <2>4, HealingResetInv
  <2>5. CASE \/ \E c \in Configs : update_config(c)
             \/ \E cb \in BOOLEAN : set_circuit_breaker(cb)
             \/ UNCHANGED healing_vars
    <3>1. UNCHANGED <<healing, stage, attempt, outcome, sleeps, later>>
      BY <2>5 DEF update_config, set_circuit_breaker, healing_vars
    <3> QED BY <1>1, <3>1, RetriesSum DEF HealingInv, HealingTypeOK, CountGivenUp, HealthyTrips
  <2> QED BY <1>1, <2>1, <2>2, <2>3, <2>4, <2>5 DEF HealingNext
<1> QED BY HealingInitInv, <1>1, PTL DEF HealingSpec

\* Each delay slept is counted once, in the total or in the counter of a call under way.
THEOREM RetriesAreCounted == HealingSpec => []RetriesCounted
<1>1. HealingInv => RetriesCounted
  BY DEF HealingInv
<1> QED BY <1>1, HealingInvariance, PTL

\* A check that passed trips the breaker only for failures recorded after it.
THEOREM HealthyTripsLater == HealingSpec => []HealthyTrips
<1>1. HealingInv => HealthyTrips
  BY DEF HealingInv
<1> QED BY <1>1, HealingInvariance, PTL

-----------------------------------------------------------------------------
(***************************************************************************)
(* Proofs about PointerChains, for any threads that resolve, edit and      *)
(* cache chains.                                                           *)
(*                                                                         *)
(* ChainsInv says of every walk under way what it was given and what it    *)
(* may still see, and InsideCounted how many threads the manager's mutex   *)
(* lets in.                                                                *)
(***************************************************************************)
\* What a thread remembers of its walk.
IsWalk(w) == \E does, on, at, current, level, stamp : w = Walk(does, on, at, current, level, stamp)

\* A new walk, and one that goes on, which does the same since the same epoch.
LEMMA WalkIs ==
  ASSUME NEW does, NEW on, NEW at, NEW current, NEW level, NEW stamp
  PROVE  LET w == Walk(does, on, at, current, level, stamp) IN
         IsWalk(w) /\ w.does = does /\ w.at = at /\ w.since = stamp
BY DEF IsWalk, Walk

LEMMA GoingOn ==
  ASSUME NEW w, NEW at, NEW current, NEW level
  PROVE  LET v == Going(w, at, current, level) IN
         IsWalk(v) /\ v.does = w.does /\ v.at = at /\ v.since = w.since
<1> DEFINE does == w.does
           on == w.on
           stamp == w.since
<1>1. Going(w, at, current, level) = Walk(does, on, at, current, level, stamp)
  BY DEF Going
<1> HIDE DEF does, on, stamp
<1>2. LET v == Walk(does, on, at, current, level, stamp) IN
      IsWalk(v) /\ v.does = does /\ v.at = at /\ v.since = stamp
  BY WalkIs
<1> QED BY <1>1, <1>2 DEF does, stamp

\* Where a thread is goes with what it does.
Placed(w) ==
  /\ w.at \in {"base", "store"} => w.does = "resolve"
  /\ w.at \in {"test", "add", "check"} => w.does \in {"resolve", "validate", "resolve copy"}
  /\ w.at = "leave" => w.does = "resolve copy"

\* A walk that is over.
LEMMA RestingIs == IsWalk(Resting) /\ Resting.does = "rest" /\ Resting.at = "rest"
BY WalkIs DEF Resting

LEMMA EndedIs ==
  ASSUME NEW w
  PROVE  IsWalk(Ended(w)) /\ Placed(Ended(w)) /\ Ended(w).does \in {"resolve copy", "rest"}
<1>1. CASE w.does = "resolve copy"
  <2> DEFINE v == Going(w, "leave", 0, 0)
  <2>1. IsWalk(v) /\ v.does = w.does /\ v.at = "leave"
    BY GoingOn
  <2>2. Ended(w) = v
    BY <1>1 DEF Ended
  <2> HIDE DEF v
  <2> QED BY <1>1, <2>1, <2>2 DEF Placed
<1>2. CASE w.does # "resolve copy"
  BY <1>2, RestingIs DEF Ended, Placed
<1> QED BY <1>1, <1>2

Shapes ==
  /\ epoch \in Nat /\ doubled \in Nat /\ unfinished \in Nat
  /\ manager_mutex_ \in Resolvers \cup {NoOne}
  /\ DOMAIN cached = {"enabled", "address", "live", "epoch"} /\ cached = [f \in DOMAIN cached |-> cached[f]]
  /\ walk = [t \in Resolvers |-> walk[t]]
  /\ \A t \in Resolvers : IsWalk(walk[t])

\* What is being resolved is the chain as it is, or is known to have been edited.
WalksKnown ==
  \A t \in Resolvers :
    walk[t].does = "resolve" /\ walk[t].at # "base" => walk[t].since \in raced \cup {epoch}

WalksPlaced == \A t \in Resolvers : Placed(walk[t])

\* With the mutex free there is one fewer inside.
InsideCounted ==
  Cardinality(InsideManager) <= IF manager_mutex_ = NoOne THEN doubled ELSE doubled + 1

ChainsInv == Shapes /\ WalksKnown /\ WalksPlaced /\ CacheOfThisChain /\ InsideCounted

\* What a thread does decides whether it is inside.
LEMMA InsideChange ==
  ASSUME Shapes, NEW t \in Resolvers, NEW w, walk' = [walk EXCEPT ![t] = w]
  PROVE  /\ InsideManager' = IF w.does \in Operations THEN InsideManager \cup {t}
                             ELSE InsideManager \ {t}
         /\ IsWalk(w) => walk' = [x \in Resolvers |-> walk'[x]]
                         /\ \A x \in Resolvers : IsWalk(walk'[x])
         /\ walk'[t] = w /\ \A x \in Resolvers \ {t} : walk'[x] = walk[x]
<1>1. walk' = [x \in Resolvers |-> IF x = t THEN w ELSE walk[x]]
  BY DEF Shapes
<1>2. walk'[t] = w /\ \A x \in Resolvers \ {t} : walk'[x] = walk[x]
  BY <1>1
<1>3. InsideManager' = IF w.does \in Operations THEN InsideManager \cup {t} ELSE InsideManager \ {t}
  BY <1>2 DEF InsideManager
<1>4. ASSUME IsWalk(w) PROVE \A x \in Resolvers : IsWalk(walk'[x])
  BY <1>2, <1>4 DEF Shapes
<1> QED BY <1>1, <1>2, <1>3, <1>4

\* The numbers that are inside before and after a thread enters or leaves.
LEMMA InsideIs ==
  /\ IsFiniteSet(InsideManager) /\ Cardinality(InsideManager) \in Nat
  /\ \A t \in Resolvers : Cardinality(InsideManager \cup {t}) <= Cardinality(InsideManager) + 1
  /\ \A t \in InsideManager : Cardinality(InsideManager \ {t}) = Cardinality(InsideManager) - 1
<1>1. IsFiniteSet(InsideManager)
  BY ChainAssumption, FS_Subset DEF InsideManager
<1>2. Cardinality(InsideManager) \in Nat
  BY <1>1, FS_CardinalityType
<1>3. \A t \in InsideManager : Cardinality(InsideManager \ {t}) = Cardinality(InsideManager) - 1
  BY <1>1, FS_RemoveElement
<1>4. ASSUME NEW t \in Resolvers
      PROVE  Cardinality(InsideManager \cup {t}) <= Cardinality(InsideManager) + 1
  BY <1>1, <1>2, FS_AddElement
<1> QED BY <1>1, <1>2, <1>3, <1>4

\* Nobody is inside a new manager.
LEMMA ChainInitInv == ChainInit => ChainsInv
<1> SUFFICES ASSUME ChainInit PROVE ChainsInv
  OBVIOUS
<1> USE DEF ChainInit
<1>1. Shapes
  BY RestingIs DEF Shapes
<1>2. WalksKnown /\ WalksPlaced /\ CacheOfThisChain
  BY RestingIs DEF WalksKnown, WalksPlaced, Placed, CacheOfThisChain
<1>3. InsideManager = {}
  BY RestingIs DEF InsideManager, Operations
<1>4. InsideCounted
  BY <1>3, FS_EmptySet DEF InsideCounted
<1> QED BY <1>1, <1>2, <1>4 DEF ChainsInv

-----------------------------------------------------------------------------
\* A thread outside the manager goes on, and may leave something in the cache.
LEMMA OutsideInv ==
  ASSUME ChainsInv, NEW t \in Resolvers, NEW w, IsWalk(w), walk' = [walk EXCEPT ![t] = w],
         walk[t].does \notin Operations, w.does \notin Operations, Placed(w),
         w.does = "resolve" /\ w.at # "base" => w.since \in raced \cup {epoch},
         \/ cached' = cached
         \/ /\ cached' = [enabled |-> cached.enabled, address |-> walk[t].current,
                          live |-> TRUE, epoch |-> walk[t].since]
            /\ walk[t].at = "store",
         UNCHANGED <<epoch, raced, unfinished, manager_mutex_, doubled>>
  PROVE  ChainsInv'
<1> USE DEF ChainsInv
<1>1. /\ InsideManager' = InsideManager
      /\ walk' = [x \in Resolvers |-> walk'[x]] /\ \A x \in Resolvers : IsWalk(walk'[x])
      /\ walk'[t] = w /\ \A x \in Resolvers \ {t} : walk'[x] = walk[x]
  BY InsideChange DEF InsideManager
<1>2. DOMAIN cached' = DOMAIN cached /\ cached' = [f \in DOMAIN cached |-> cached'[f]]
  BY DEF Shapes
<1>3. Shapes'
  BY <1>1, <1>2 DEF Shapes, IsWalk
<1>4. WalksKnown' /\ WalksPlaced'
  BY <1>1 DEF WalksKnown, WalksPlaced, Placed
<1>5. CacheOfThisChain'
  <2>1. CASE cached' = cached
    BY <2>1 DEF CacheOfThisChain
  <2>2. CASE /\ cached' = [enabled |-> cached.enabled, address |-> walk[t].current,
                          live |-> TRUE, epoch |-> walk[t].since]
             /\ walk[t].at = "store"
    <3>1. walk[t].does = "resolve" /\ walk[t].at # "base"
      BY <2>2 DEF WalksPlaced, Placed
    <3>2. walk[t].since \in raced \cup {epoch} /\ cached'.epoch = walk[t].since
      BY <2>2, <3>1 DEF WalksKnown
    <3> QED BY <3>2 DEF CacheOfThisChain
  <2> QED BY <2>1, <2>2
<1>6. InsideCounted'
  BY <1>1 DEF InsideCounted
<1> QED BY <1>3, <1>4, <1>5, <1>6

\* A walk that takes one step, to w.
LEMMA StepInv ==
  ASSUME ChainsInv, NEW t \in Resolvers, NEW w, StepsOn(t, w), IsWalk(w), Placed(w),
         walk[t].does \in {"resolve", "validate", "resolve copy"},
         w.does \in {"resolve", "validate", "resolve copy", "rest"},
         w.does = "resolve" /\ w.at # "base" => w.since \in raced \cup {epoch}
  PROVE  ChainsInv'
<1>1. /\ walk' = [walk EXCEPT ![t] = w]
      /\ UNCHANGED <<cached, epoch, raced, unfinished, manager_mutex_, doubled>>
  BY DEF StepsOn, edit_vars, manager_vars
<1>2. walk[t].does \notin Operations /\ w.does \notin Operations
  BY DEF Operations
<1> QED BY <1>1, <1>2, OutsideInv

\* The walk goes on at another step, or ends.
LEMMA GoesOnInv ==
  ASSUME ChainsInv, NEW t \in Resolvers, walk[t].at \in {"test", "add", "check"},
         NEW at \in {"test", "add", "check", "store"}, at = "store" => walk[t].does = "resolve",
         NEW current, NEW level,
         StepsOn(t, Going(walk[t], at, current, level)) \/ StepsOn(t, Ended(walk[t]))
  PROVE  ChainsInv'
<1>1. WalksKnown /\ Placed(walk[t])
  BY DEF ChainsInv, WalksPlaced
<1>2. walk[t].does \in {"resolve", "validate", "resolve copy"}
  BY <1>1 DEF Placed
<1>3. CASE StepsOn(t, Going(walk[t], at, current, level))
  <2> DEFINE w == Going(walk[t], at, current, level)
  <2>1. IsWalk(w) /\ w.does = walk[t].does /\ w.at = at /\ w.since = walk[t].since
    <3> DEFINE old == walk[t]
    <3> HIDE DEF old
    <3>1. LET v == Going(old, at, current, level) IN
          IsWalk(v) /\ v.does = old.does /\ v.at = at /\ v.since = old.since
      BY GoingOn
    <3> QED BY <3>1 DEF old
  <2>2. StepsOn(t, w)
    BY <1>3
  <2> HIDE DEF w
  <2>3. Placed(w)
    BY <1>2, <2>1 DEF Placed
  <2>4. w.does = "resolve" /\ w.at # "base" => w.since \in raced \cup {epoch}
    BY <1>1, <2>1 DEF WalksKnown
  <2>5. w.does \in {"resolve", "validate", "resolve copy", "rest"}
    BY <1>2, <2>1
  <2> QED BY <1>2, <2>1, <2>2, <2>3, <2>4, <2>5, StepInv
<1>4. CASE StepsOn(t, Ended(walk[t]))
  <2> DEFINE w == Ended(walk[t])
  <2>1. IsWalk(w) /\ Placed(w) /\ w.does \in {"resolve copy", "rest"}
    <3> DEFINE old == walk[t]
    <3> HIDE DEF old
    <3>1. IsWalk(Ended(old)) /\ Placed(Ended(old)) /\ Ended(old).does \in {"resolve copy", "rest"}
      BY EndedIs
    <3> QED BY <3>1 DEF old
  <2>2. StepsOn(t, w)
    BY <1>4
  <2> HIDE DEF w
  <2> QED BY <1>2, <2>1, <2>2, StepInv
<1> QED BY <1>3, <1>4

\* A resolution or a validation begins.
LEMMA WalkBeginInv ==
  ASSUME ChainsInv, NEW t \in Resolvers, resolve(t) \/ validate(t)
  PROVE  ChainsInv'
<1>1. ASSUME NEW w, Starts(t, w), IsWalk(w), Placed(w), w.does \in {"resolve", "validate"},
             w.at # "base" => w.since = epoch,
             UNCHANGED <<cached, epoch, raced, unfinished, manager_mutex_, doubled>>
      PROVE  ChainsInv'
  <2>1. walk' = [walk EXCEPT ![t] = w] /\ walk[t].does \notin Operations
    BY <1>1, RestingIs DEF Starts, Operations
  <2>2. w.does \notin Operations
    BY <1>1 DEF Operations
  <2> QED BY <1>1, <2>1, <2>2, OutsideInv
<1>2. CASE resolve(t)
  <2> DEFINE w == Walk("resolve", NoChain, "base", 0, 0, 0)
  <2>1. IsWalk(w) /\ w.does = "resolve" /\ w.at = "base"
    BY WalkIs
  <2>2. Starts(t, w) /\ UNCHANGED <<cached, epoch, raced, unfinished, manager_mutex_, doubled>>
    BY <1>2 DEF resolve, edit_vars, manager_vars
  <2> HIDE DEF w
  <2>3. Placed(w)
    BY <2>1 DEF Placed
  <2> QED BY <1>1, <2>1, <2>2, <2>3
<1>3. CASE validate(t)
  <2> DEFINE w == Walk("validate", NoChain, "test", chain.base, 0, epoch)
  <2>1. IsWalk(w) /\ w.does = "validate" /\ w.at = "test" /\ w.since = epoch
    BY WalkIs
  <2>2. Starts(t, w) /\ UNCHANGED <<cached, epoch, raced, unfinished, manager_mutex_, doubled>>
    BY <1>3 DEF validate, edit_vars, manager_vars
  <2> HIDE DEF w
  <2>3. Placed(w)
    BY <2>1 DEF Placed
  <2> QED BY <1>1, <2>1, <2>2, <2>3
<1> QED BY <1>2, <1>3

\* The steps of a walk, and the store at its end.
LEMMA WalkInv ==
  ASSUME ChainsInv, NEW t \in Resolvers,
         ReadBase(t) \/ FollowLevel(t) \/ AddOffset(t) \/ CheckLevel(t) \/ FinishWalk(t)
           \/ update_cache(t)
  PROVE  ChainsInv'
<1>1. CASE ReadBase(t)
  <2> DEFINE w == Walk("resolve", NoChain, "test", chain.base, 0, epoch)
  <2>1. IsWalk(w) /\ w.does = "resolve" /\ w.at = "test" /\ w.since = epoch
    BY WalkIs
  <2>2. StepsOn(t, w) /\ walk[t].does = "resolve"
    BY <1>1 DEF ReadBase, ChainsInv, WalksPlaced, Placed
  <2> HIDE DEF w
  <2>3. Placed(w)
    BY <2>1 DEF Placed
  <2> QED BY <2>1, <2>2, <2>3, StepInv
<1>2. CASE FollowLevel(t)
  <2>1. /\ walk[t].at = "test"
        /\ \/ StepsOn(t, Ended(walk[t]))
           \/ StepsOn(t, Going(walk[t], "add", pointers[walk[t].current], walk[t].level))
    BY <1>2 DEF FollowLevel
  <2> QED BY <2>1, GoesOnInv
<1>3. CASE AddOffset(t)
  <2>1. /\ walk[t].at = "add"
        /\ \E next : StepsOn(t, Going(walk[t], "check", next, walk[t].level))
    BY <1>3 DEF AddOffset
  <2> QED BY <2>1, GoesOnInv
<1>4. CASE CheckLevel(t)
  <2>1. /\ walk[t].at = "check"
        /\ \/ StepsOn(t, Ended(walk[t]))
           \/ StepsOn(t, Going(walk[t], "test", walk[t].current, walk[t].level + 1))
    BY <1>4 DEF CheckLevel
  <2> QED BY <2>1, GoesOnInv
<1>5. CASE FinishWalk(t)
  <2>1. /\ walk[t].at = "test"
        /\ \/ StepsOn(t, Ended(walk[t]))
           \/ /\ walk[t].does = "resolve"
              /\ StepsOn(t, Going(walk[t], "store", walk[t].current, 0))
    BY <1>5 DEF FinishWalk
  <2> QED BY <2>1, GoesOnInv
<1>6. CASE update_cache(t)
  <2>1. /\ walk[t].at = "store"
        /\ cached' = [enabled |-> cached.enabled, address |-> walk[t].current, live |-> TRUE,
                      epoch |-> walk[t].since]
        /\ walk' = [walk EXCEPT ![t] = Resting]
        /\ UNCHANGED <<epoch, raced, unfinished, manager_mutex_, doubled>>
    BY <1>6 DEF update_cache, Rests, manager_vars
  <2>2. walk[t].does = "resolve"
    BY <2>1 DEF ChainsInv, WalksPlaced, Placed
  <2>3. /\ IsWalk(Resting) /\ Placed(Resting) /\ Resting.does # "resolve"
        /\ walk[t].does \notin Operations /\ Resting.does \notin Operations
    BY <2>2, RestingIs DEF Placed, Operations
  <2> QED BY <2>1, <2>3, OutsideInv
<1> QED BY <1>1, <1>2, <1>3, <1>4, <1>5, <1>6

-----------------------------------------------------------------------------
\* Steps that leave the chain and its cache alone.
LEMMA ManagerInv ==
  ASSUME ChainsInv, NEW t \in Resolvers, NEW w, IsWalk(w), walk' = [walk EXCEPT ![t] = w],
         w.does # "resolve", Placed(w), doubled' \in Nat, manager_mutex_' \in Resolvers \cup {NoOne},
         UNCHANGED <<cached, epoch, raced, unfinished>>, InsideCounted'
  PROVE  ChainsInv'
<1> USE DEF ChainsInv
<1>1. /\ walk' = [x \in Resolvers |-> walk'[x]] /\ \A x \in Resolvers : IsWalk(walk'[x])
      /\ walk'[t] = w /\ \A x \in Resolvers \ {t} : walk'[x] = walk[x]
  BY InsideChange
<1>2. Shapes'
  BY <1>1 DEF Shapes, IsWalk
<1>3. WalksKnown' /\ WalksPlaced'
  BY <1>1 DEF WalksKnown, WalksPlaced, Placed
<1>4. CacheOfThisChain'
  BY DEF CacheOfThisChain
<1> QED BY <1>2, <1>3, <1>4

\* The mutex was free when a thread enters.
LEMMA EnterInv ==
  ASSUME ChainsInv, NEW t \in Resolvers, NEW does \in Operations, Enter(t, does)
  PROVE  ChainsInv'
<1> DEFINE v == Walk(does, chain, "in", 0, 0, 0)
<1>1. /\ manager_mutex_ = NoOne /\ manager_mutex_' = t /\ walk' = [walk EXCEPT ![t] = v]
      /\ UNCHANGED <<cached, epoch, raced, unfinished, doubled>>
  BY DEF Enter, Starts, edit_vars
<1>2. IsWalk(v) /\ v.does = does /\ v.at = "in"
  BY WalkIs
<1> HIDE DEF v
<1>7. Placed(v) /\ v.does # "resolve"
  BY <1>2 DEF Placed, Operations
<1>3. Shapes /\ Cardinality(InsideManager) <= doubled /\ doubled \in Nat
  BY <1>1 DEF ChainsInv, Shapes, InsideCounted
<1>4. InsideManager' = InsideManager \cup {t}
  BY <1>1, <1>2, <1>3, InsideChange
<1>5. Cardinality(InsideManager') <= doubled + 1 /\ t # NoOne
  <2>1. Cardinality(InsideManager \cup {t}) <= Cardinality(InsideManager) + 1
        /\ Cardinality(InsideManager) \in Nat
    BY InsideIs
  <2>2. Cardinality(InsideManager \cup {t}) \in Nat
    BY InsideIs, FS_AddElement, FS_CardinalityType
  <2> QED BY <1>3, <1>4, <2>1, <2>2, ChainAssumption
<1>6. InsideCounted'
  BY <1>1, <1>5 DEF InsideCounted
<1> QED BY <1>1, <1>2, <1>3, <1>6, <1>7, ManagerInv

\* A thread inside leaves, and the mutex is free, whoever held it.
LEMMA ExitInv ==
  ASSUME ChainsInv, NEW t \in Resolvers, walk[t].does \in Operations,
         NEW w, IsWalk(w), walk' = [walk EXCEPT ![t] = w],
         w.does # "resolve", w.does \notin Operations, Placed(w),
         manager_mutex_' = NoOne, UNCHANGED <<cached, epoch, raced, unfinished, doubled>>
  PROVE  ChainsInv'
<1>1. Shapes /\ doubled \in Nat /\ InsideCounted
  BY DEF ChainsInv, Shapes
<1>2. InsideManager' = InsideManager \ {t} /\ t \in InsideManager
  BY <1>1, InsideChange DEF InsideManager
<1>3. Cardinality(InsideManager') = Cardinality(InsideManager) - 1 /\ Cardinality(InsideManager) \in Nat
  BY <1>2, InsideIs
<1>4. InsideCounted'
  BY <1>1, <1>3 DEF InsideCounted
<1> QED BY <1>1, <1>4, ManagerInv

\* The operations of the manager end.
LEMMA LeaveInv ==
  ASSUME ChainsInv, NEW t \in Resolvers,
         \/ \E name \in Names : \/ add_chain(t, name) \/ remove_chain(t, name)
                                \/ resolve_named(t, name) \/ load_from_file(t, name)
         \/ clear_chains(t) \/ save_to_file(t) \/ LoadNothing(t)
  PROVE  ChainsInv'
<1>1. ASSUME NEW c, NEW f, walk[t].does \in Operations, Leave(t, c, f)
      PROVE  ChainsInv'
  <2>1. /\ walk' = [walk EXCEPT ![t] = Resting] /\ manager_mutex_' = NoOne
        /\ UNCHANGED <<cached, epoch, raced, unfinished, doubled>>
    BY <1>1 DEF Leave, Rests, edit_vars
  <2>2. /\ IsWalk(Resting) /\ Placed(Resting)
        /\ Resting.does # "resolve" /\ Resting.does \notin Operations
    BY RestingIs DEF Placed, Operations
  <2> QED BY <1>1, <2>1, <2>2, ExitInv
<1>2. ASSUME NEW name \in Names, resolve_named(t, name)
      PROVE  ChainsInv'
  <2>0. walk[t].does = "name" /\ walk[t].does \in Operations
    BY <1>2 DEF resolve_named, Operations
  <2>1. CASE name \in DOMAIN chains_
    <3> DEFINE w == Walk("resolve copy", chains_[name], "test", chains_[name].base, 0, 0)
    <3>1. /\ walk' = [walk EXCEPT ![t] = w]
          /\ manager_mutex_' = NoOne /\ UNCHANGED <<cached, epoch, raced, unfinished, doubled>>
      BY <1>2, <2>1 DEF resolve_named, edit_vars
    <3>2. IsWalk(w) /\ w.does = "resolve copy" /\ w.at = "test"
      <4>1. \A on, base : LET v == Walk("resolve copy", on, "test", base, 0, 0) IN
              IsWalk(v) /\ v.does = "resolve copy" /\ v.at = "test"
        BY DEF IsWalk, Walk
      <4> QED BY <4>1
    <3> HIDE DEF w
    <3>3. Placed(w) /\ w.does # "resolve" /\ w.does \notin Operations
      BY <3>2 DEF Placed, Operations
    <3> QED BY <2>0, <3>1, <3>2, <3>3, ExitInv
  <2>2. CASE name \notin DOMAIN chains_
    <3>1. Leave(t, chains_, file)
      BY <1>2, <2>2 DEF resolve_named
    <3> QED BY <1>1, <2>0, <3>1
  <2> QED BY <2>1, <2>2
<1>3. ASSUME NEW name \in Names,
             add_chain(t, name) \/ remove_chain(t, name) \/ load_from_file(t, name)
      PROVE  ChainsInv'
  <2>1. walk[t].does \in Operations
    BY <1>3 DEF add_chain, remove_chain, load_from_file, Operations
  <2>2. \E c, f : Leave(t, c, f)
    BY <1>3 DEF add_chain, remove_chain, load_from_file
  <2> QED BY <1>1, <2>1, <2>2
<1>4. CASE clear_chains(t) \/ save_to_file(t) \/ LoadNothing(t)
  <2>1. walk[t].does \in Operations
    BY <1>4 DEF clear_chains, save_to_file, LoadNothing, Operations
  <2>2. \E c, f : Leave(t, c, f)
    BY <1>4 DEF clear_chains, save_to_file, LoadNothing
  <2> QED BY <1>1, <2>1, <2>2
<1> QED BY <1>2, <1>3, <1>4

\* The guard of resolve unlocks a second time: the mutex of another thread, if it is held.
LEMMA SecondUnlockInv ==
  ASSUME ChainsInv, NEW t \in Resolvers, SecondUnlock(t)
  PROVE  ChainsInv'
<1>1. /\ walk[t].at = "leave" /\ walk' = [walk EXCEPT ![t] = Resting]
      /\ UNCHANGED <<cached, epoch, raced, unfinished>>
      /\ \/ UNCHANGED <<manager_mutex_, doubled>>
         \/ /\ manager_mutex_' = NoOne
            /\ doubled' = IF manager_mutex_ = NoOne THEN doubled ELSE doubled + 1
  BY DEF SecondUnlock, Rests, edit_vars
<1>2. /\ IsWalk(Resting) /\ Placed(Resting) /\ Resting.does # "resolve"
      /\ Resting.does \notin Operations /\ walk[t].does \notin Operations
  BY <1>1, RestingIs DEF ChainsInv, WalksPlaced, Placed, Operations
<1>3. Shapes /\ doubled \in Nat /\ manager_mutex_ \in Resolvers \cup {NoOne} /\ InsideCounted
  BY DEF ChainsInv, Shapes
<1>4. InsideManager' = InsideManager
  BY <1>1, <1>2, <1>3, InsideChange DEF InsideManager
<1>5. InsideCounted' /\ doubled' \in Nat /\ manager_mutex_' \in Resolvers \cup {NoOne}
  BY <1>1, <1>3, <1>4, InsideIs DEF InsideCounted
<1> QED BY <1>1, <1>2, <1>3, <1>5, ManagerInv

-----------------------------------------------------------------------------
\* An edit puts the resolutions under way into raced, and is to empty the cache.
LEMMA EditInv ==
  ASSUME ChainsInv, NEW c, EditAndInvalidate(c)
  PROVE  ChainsInv'
<1> USE DEF ChainsInv
<1>1. /\ epoch' = epoch + 1 /\ unfinished' = unfinished + 1
      /\ raced' = raced \cup {walk[t].since : t \in Overtaken}
      /\ UNCHANGED <<cached, walk, manager_mutex_, doubled>>
  BY DEF EditAndInvalidate, Edit, manager_vars
<1>2. Shapes'
  BY <1>1 DEF Shapes, IsWalk
<1>3. WalksKnown' /\ WalksPlaced'
  BY <1>1 DEF WalksKnown, WalksPlaced, Placed, Overtaken
<1>4. CacheOfThisChain'
  BY <1>1 DEF CacheOfThisChain, Shapes
<1>5. InsideCounted'
  BY <1>1 DEF InsideCounted, InsideManager
<1> QED BY <1>2, <1>3, <1>4, <1>5

\* The settings of the cache, its time, its end by an edit, and the target's memory.
LEMMA CacheOnlyInv ==
  ASSUME ChainsInv,
         \/ \E enable, live \in BOOLEAN : enable_chain_cache(enable, live)
         \/ InvalidateAfter \/ invalidate_chain \/ TimeElapses
         \/ \E a \in 0 .. Space - 1, p \in {0, Unreadable} : TargetMoves(a, p)
         \/ UNCHANGED chain_vars
  PROVE  ChainsInv'
<1> USE DEF ChainsInv
<1>1. /\ UNCHANGED <<epoch, raced, walk, manager_mutex_, doubled>>
      /\ DOMAIN cached' = DOMAIN cached /\ cached' = [f \in DOMAIN cached |-> cached'[f]]
      /\ cached'.epoch = cached.epoch /\ unfinished' \in Nat
      /\ \/ cached'.address = NoAddress
         \/ cached'.address = cached.address /\ unfinished' = unfinished
  <2>1. Shapes
    OBVIOUS
  <2>2. ASSUME NEW enable \in BOOLEAN, NEW live \in BOOLEAN, enable_chain_cache(enable, live)
        PROVE  /\ UNCHANGED <<epoch, raced, walk, manager_mutex_, doubled>>
               /\ DOMAIN cached' = DOMAIN cached /\ cached' = [f \in DOMAIN cached |-> cached'[f]]
               /\ cached'.epoch = cached.epoch /\ unfinished' \in Nat
               /\ \/ cached'.address = NoAddress
                  \/ cached'.address = cached.address /\ unfinished' = unfinished
    BY <2>1, <2>2 DEF enable_chain_cache, Shapes, manager_vars
  <2>3. CASE InvalidateAfter \/ invalidate_chain \/ TimeElapses
    BY <2>1, <2>3 DEF InvalidateAfter, invalidate_chain, TimeElapses, Invalid, Shapes, manager_vars
  <2>4. CASE \/ \E a \in 0 .. Space - 1, p \in {0, Unreadable} : TargetMoves(a, p)
             \/ UNCHANGED chain_vars
    BY <2>1, <2>4 DEF TargetMoves, chain_vars, edit_vars, manager_vars, Shapes
  <2> QED BY <2>2, <2>3, <2>4
<1>2. Shapes'
  BY <1>1 DEF Shapes, IsWalk
<1>3. WalksKnown' /\ WalksPlaced'
  BY <1>1 DEF WalksKnown, WalksPlaced, Placed
<1>5. CacheOfThisChain'
  BY <1>1 DEF CacheOfThisChain
<1>4. InsideCounted'
  BY <1>1 DEF InsideCounted, InsideManager
<1> QED BY <1>2, <1>3, <1>4, <1>5

\* ChainsInv holds in every state.
THEOREM ChainsInvariance == ChainSpec => []ChainsInv
<1>1. ASSUME ChainsInv, [ChainNext]_chain_vars PROVE ChainsInv'
  <2>1. ASSUME NEW t \in Resolvers,
               \/ resolve(t) \/ ReadBase(t) \/ validate(t) \/ FollowLevel(t) \/ AddOffset(t)
               \/ CheckLevel(t) \/ FinishWalk(t) \/ update_cache(t) \/ SecondUnlock(t)
               \/ \E does \in Operations : Enter(t, does)
               \/ \E name \in Names : \/ add_chain(t, name) \/ remove_chain(t, name)
                                      \/ resolve_named(t, name) \/ load_from_file(t, name)
               \/ clear_chains(t) \/ save_to_file(t) \/ LoadNothing(t)
        PROVE  ChainsInv'
    BY <1>1, <2>1, WalkBeginInv, WalkInv, EnterInv, LeaveInv, SecondUnlockInv
  <2>2. CASE \/ \E offset \in Steps : add_offset(offset)
             \/ \E base \in Bases : set_base_address(base)
             \/ clear_offsets
    <3>1. \E c : EditAndInvalidate(c)
      BY <2>2 DEF add_offset, set_base_address, clear_offsets
    <3> QED BY <1>1, <3>1, EditInv
  <2>3. CASE \/ \E enable, live \in BOOLEAN : enable_chain_cache(enable, live)
             \/ InvalidateAfter \/ invalidate_chain \/ TimeElapses
             \/ \E a \in 0 .. Space - 1, p \in {0, Unreadable} : TargetMoves(a, p)
             \/ UNCHANGED chain_vars
    BY <1>1, <2>3, CacheOnlyInv
  <2> QED BY <1>1, <2>1, <2>2, <2>3 DEF ChainNext
<1> QED BY ChainInitInv, <1>1, PTL DEF ChainSpec

\* For any number of threads: an address in the cache is of the chain as it is, unless an edit has
\* yet to empty the cache or overtook the resolution; and only as many threads are inside the manager at a
\* time as second unlocks have let in.
THEOREM ChainsAreSound == ChainSpec => []ChainsSound
<1>1. ChainsInv => ChainsSound
  <2> SUFFICES ASSUME ChainsInv PROVE ExclusiveBarDoubles
    BY DEF ChainsInv, ChainsSound
  <2>1. doubled \in Nat /\ InsideCounted /\ Cardinality(InsideManager) \in Nat
    BY InsideIs DEF ChainsInv, Shapes
  <2> QED BY <2>1 DEF InsideCounted, ExclusiveBarDoubles
<1> QED BY <1>1, ChainsInvariance, PTL

-----------------------------------------------------------------------------
(***************************************************************************)
(* Proofs about Batch, for any lists, ranges and sizes.                    *)
(*                                                                         *)
(* The requests are rearranged by address and cut into pieces before they  *)
(* are served. Slotted says that each keeps the buffer of the place that   *)
(* the caller gave it, EndToEnd that the pieces of a range meet. Nothing   *)
(* is assumed of the order among equal addresses.                          *)
(***************************************************************************)
\* A request, and a list of n of them.
AnyRequest == [address : Int, size : Int, slot : Nat, success : BOOLEAN]
Lists(n) == [1 .. n -> AnyRequest]

\* The request at each place keeps the buffer of the place the caller gave it.
Slotted(list, given) ==
  \A i \in DOMAIN list :
    list[i].slot \in DOMAIN given /\ given[list[i].slot].address = list[i].address

\* The pieces of a range.
EndToEnd(list) ==
  /\ \A i \in 1 .. Len(list) - 1 : list[i + 1].address = list[i].address + list[i].size
  /\ \E ends \in RangeEnds :
       list[1].address = ends[1] /\ list[Len(list)].address + list[Len(list)].size = ends[2]

BatchTypeOK ==
  /\ asked \in Lists(Len(asked)) /\ Len(asked) \in Nat
  /\ requests \in Lists(Len(asked)) /\ Len(requests) = Len(asked)
  /\ slots \in [1 .. Len(asked) -> Int]
  /\ served \in Nat /\ served <= Len(asked)
  /\ result \in [failed_reads : Nat, failed_indices : SUBSET (1 .. Len(asked))]

BatchInv ==
  /\ BatchTypeOK
  /\ Slotted(requests, asked)
  /\ form # "none" => result.failed_indices \subseteq 1 .. served
  /\ BatchBuffers

\* A list of n requests is a sequence of n requests.
LEMMA ListIs ==
  ASSUME NEW n \in Nat, NEW l \in Lists(n)
  PROVE  DOMAIN l = 1 .. n /\ Len(l) = n /\ l \in Seq(AnyRequest)
BY DEF Lists

-----------------------------------------------------------------------------
\* The typed form and the plain one ask for each address alone.
LEMMA SinglesAre ==
  ASSUME NEW a \in RequestLists
  PROVE  \E n \in Nat : Singles(a) \in Lists(n) /\ \A i \in 1 .. n : Singles(a)[i].slot = i
<1>1. a \in Seq(Nat) /\ RequestSize \in Nat
  BY BatchAssumption
<1>2. Len(a) \in Nat /\ DOMAIN a = 1 .. Len(a) /\ \A i \in 1 .. Len(a) : a[i] \in Nat
  BY <1>1
<1>3. \A i \in 1 .. Len(a) : Request(a[i], RequestSize, i) \in AnyRequest
                             /\ Request(a[i], RequestSize, i).slot = i
  BY <1>1, <1>2 DEF Request, AnyRequest
<1>4. Singles(a) \in Lists(Len(a)) /\ \A i \in 1 .. Len(a) : Singles(a)[i].slot = i
  BY <1>2, <1>3 DEF Singles, Lists
<1> QED BY <1>2, <1>4

\* So many chunks of c fill d, and one less does not.
LEMMA PieceCount ==
  ASSUME NEW d \in Nat \ {0}, NEW c \in Nat \ {0}
  PROVE  /\ (d + c - 1) \div c \in Nat \ {0}
         /\ d <= ((d + c - 1) \div c) * c
         /\ ((d + c - 1) \div c - 1) * c < d
<1> DEFINE n == (d + c - 1) \div c
           m == (d + c - 1) % c
<1>1. d + c - 1 = c * n + m /\ m \in 0 .. c - 1 /\ n \in Int
  BY SMTT(20)
<1> HIDE DEF n, m
<1>2. n * c = c * n /\ (n - 1) * c = c * n - c /\ c * n \in Int
  BY <1>1, SMTT(20)
<1>3. d <= n * c /\ (n - 1) * c < d
  BY <1>1, <1>2
<1>4. n > 0
  <2> SUFFICES ASSUME n <= 0 PROVE FALSE
    BY <1>1
  <2>1. n * c <= 0
    BY <1>1, SMTT(20)
  <2> QED BY <1>1, <1>2, <1>3, <2>1
<1>5. n \in Nat \ {0} /\ d <= n * c /\ (n - 1) * c < d
  BY <1>1, <1>3, <1>4
<1> QED BY <1>5 DEF n

\* The pieces of a range lie end to end.
LEMMA PiecesAre ==
  ASSUME NEW ends \in RangeEnds, ends[1] < ends[2], NEW c \in Nat \ {0}
  PROVE  /\ EndToEnd(Pieces(ends[1], ends[2], c))
         /\ \E n \in Nat : /\ Pieces(ends[1], ends[2], c) \in Lists(n)
                           /\ \A i \in 1 .. n : Pieces(ends[1], ends[2], c)[i].slot = i
<1> DEFINE start == ends[1]
           end == ends[2]
           n == (end - start + c - 1) \div c
           a(i) == start + (i - 1) * c
           size(i) == IF a(i) + c <= end THEN c ELSE end - a(i)
           list == Pieces(start, end, c)
<1>1. start \in Nat /\ end \in Nat /\ end - start \in Nat \ {0}
  BY BatchAssumption
<1>2. n \in Nat \ {0} /\ end - start <= n * c /\ (n - 1) * c < end - start
  <2> DEFINE d == end - start
  <2>1. d \in Nat \ {0}
    BY <1>1
  <2> HIDE DEF d
  <2>2. /\ (d + c - 1) \div c \in Nat \ {0}
        /\ d <= ((d + c - 1) \div c) * c
        /\ ((d + c - 1) \div c - 1) * c < d
    BY <2>1, PieceCount
  <2> QED BY <2>2 DEF d
<1>3. list = [i \in 1 .. n |-> [address |-> a(i), size |-> size(i), slot |-> i, success |-> FALSE]]
  BY DEF Pieces, Request
<1> HIDE DEF list, n, start, end
<1>4. \A i \in 1 .. n : a(i) \in Int /\ size(i) \in Int
  BY <1>1
<1>5. list \in Lists(n) /\ \A i \in 1 .. n : list[i].slot = i
  <2>1. \A i \in 1 .. n : [address |-> a(i), size |-> size(i), slot |-> i, success |-> FALSE]
                            \in AnyRequest
    <3> HIDE DEF a, size
    <3> QED BY <1>2, <1>4 DEF AnyRequest
  <2> HIDE DEF a, size
  <2> QED BY <1>3, <2>1 DEF Lists
<1>6. Len(list) = n
  BY <1>2, <1>5, ListIs
<1>7. ASSUME NEW i \in 1 .. n - 1 PROVE list[i + 1].address = list[i].address + list[i].size
  <2>1. i \in 1 .. n /\ i + 1 \in 1 .. n /\ i \in Int
    BY <1>2, <1>7
  <2>2. i * c <= (n - 1) * c /\ i * c \in Int /\ (n - 1) * c \in Int
    <3>1. n - 1 - i \in Nat
      BY <1>2, <1>7
    <3>2. (n - 1 - i) * c >= 0 /\ (n - 1 - i) * c = (n - 1) * c - i * c
      BY <1>2, <2>1, <3>1, SMTT(20)
    <3>3. i * c \in Int /\ (n - 1) * c \in Int
      BY <1>2, <2>1
    <3> QED BY <3>2, <3>3
  <2>3. (i - 1) * c = i * c - c /\ (i + 1 - 1) * c = i * c
    BY <2>1, SMTT(20)
  <2>4. a(i) + c <= end
    BY <1>1, <1>2, <2>2, <2>3
  <2>5. size(i) = c /\ a(i + 1) = a(i) + c
    BY <1>1, <2>2, <2>3, <2>4
  <2> HIDE DEF a, size
  <2> QED BY <1>3, <2>1, <2>5
<1>8. a(1) = start
  BY <1>1
<1>9. a(n) + size(n) = end
  <2>1. (n - 1) * c = n * c - c /\ n * c \in Int
    BY <1>2, SMTT(20)
  <2>2. a(n) + c >= end /\ a(n) \in Int
    BY <1>1, <1>2, <2>1
  <2> HIDE DEF a
  <2> QED BY <1>1, <2>2
<1>10. list[1].address = start /\ list[n].address + list[n].size = end
  <2>1. 1 \in 1 .. n /\ n \in 1 .. n
    BY <1>2
  <2> HIDE DEF a, size
  <2> QED BY <1>3, <1>8, <1>9, <2>1
<1>11. EndToEnd(list)
  <2>1. \A i \in 1 .. Len(list) - 1 : list[i + 1].address = list[i].address + list[i].size
    BY <1>6, <1>7
  <2>2. list[1].address = ends[1] /\ list[Len(list)].address + list[Len(list)].size = ends[2]
    BY <1>6, <1>10 DEF start, end
  <2> QED BY <2>1, <2>2 DEF EndToEnd
<1> QED BY <1>2, <1>5, <1>11 DEF list, start, end

-----------------------------------------------------------------------------
\* However equal addresses fall, the sorted list has the requests of the other.
LEMMA SortedAre ==
  ASSUME NEW n \in Nat, NEW list \in Lists(n), \A i \in 1 .. n : list[i].slot = i,
         NEW sorted \in sort_by_address(list)
  PROVE  sorted \in Lists(n) /\ Slotted(sorted, list)
<1>1. DOMAIN list = 1 .. n
  BY ListIs
<1>2. PICK p \in [1 .. n -> 1 .. n] : sorted = [i \in 1 .. n |-> list[p[i]]]
  <2>1. PICK p \in [DOMAIN list -> DOMAIN list] : sorted = [i \in DOMAIN list |-> list[p[i]]]
    BY Zenon DEF sort_by_address
  <2> QED BY <1>1, <2>1
<1>3. \A i \in 1 .. n : p[i] \in 1 .. n
  OBVIOUS
<1>4. sorted \in Lists(n)
  BY <1>2, <1>3 DEF Lists
<1>5. \A i \in 1 .. n : sorted[i].slot = p[i] /\ sorted[i].address = list[p[i]].address
  BY <1>2, <1>3
<1>6. DOMAIN sorted = 1 .. n
  BY <1>2
<1> QED BY <1>1, <1>3, <1>4, <1>5, <1>6 DEF Slotted

\* A batch begins, or is rejected with every request failed.
LEMMA BeginInv ==
  ASSUME BatchInv, NEW n \in Nat, NEW list \in Lists(n), \A i \in 1 .. n : list[i].slot = i,
         NEW kind \in {"batch", "typed", "range"}, kind = "range" => EndToEnd(list),
         NEW pid, NEW optimize \in BOOLEAN, batch_read(kind, list, pid, optimize)
  PROVE  BatchInv'
<1>1. DOMAIN list = 1 .. n /\ Len(list) = n
  BY ListIs
<1>2. Slotted(list, list)
  BY <1>1 DEF Slotted
<1>3. /\ asked' = list /\ slots' = [i \in 1 .. n |-> Zeros] /\ served' = 0
      /\ \/ /\ form' = "none" /\ requests' = list
            /\ result' = [failed_reads |-> n, failed_indices |-> 1 .. n]
         \/ /\ form' = kind /\ result' = NoResult
            /\ requests' = list \/ requests' \in sort_by_address(list)
  BY <1>1 DEF batch_read
<1>4. requests' \in Lists(n) /\ Slotted(requests', list)
  BY <1>2, <1>3, SortedAre
<1>5. /\ result' \in [failed_reads : Nat, failed_indices : SUBSET (1 .. n)]
      /\ Cardinality(result'.failed_indices) = result'.failed_reads
      /\ form' # "none" => result'.failed_indices = {}
  <2>1. Cardinality(1 .. n) = n /\ Cardinality({}) = 0
    BY FS_Interval, FS_EmptySet
  <2>2. kind # "none"
    OBVIOUS
  <2>3. CASE form' = "none" /\ result' = [failed_reads |-> n, failed_indices |-> 1 .. n]
    BY <2>1, <2>3
  <2>4. CASE result' = NoResult
    BY <2>1, <2>4 DEF NoResult
  <2> QED BY <1>3, <2>3, <2>4
<1>6. BatchTypeOK'
  <2>1. Len(requests') = n
    BY <1>4, ListIs
  <2> QED BY <1>1, <1>3, <1>4, <1>5, <2>1 DEF BatchTypeOK, Zeros
<1>7. BatchBuffers'
  <2>1. \A i \in DOMAIN asked' : slots'[i] \in {asked'[i].address, Zeros}
    BY <1>1, <1>3
  <2>2. \A i \in 1 .. served' : (i \in result'.failed_indices) = ~requests'[i].success
    BY <1>3
  <2>3. form' = "range" => EndToEnd(asked')
    BY <1>3
  <2> QED BY <1>5, <2>1, <2>2, <2>3 DEF BatchBuffers, EndToEnd
<1> QED BY <1>3, <1>4, <1>5, <1>6, <1>7 DEF BatchInv

\* The request at the next place is read into its own buffer, or is one more failed one.
LEMMA ServeInv ==
  ASSUME BatchInv, ServeRequest
  PROVE  BatchInv'
<1> DEFINE i == served + 1
           n == Len(asked)
<1>1. PICK success \in BOOLEAN :
        /\ requests' = [requests EXCEPT ![i].success = success]
        /\ slots' = IF success THEN [slots EXCEPT ![requests[i].slot] = requests[i].address]
                    ELSE slots
        /\ result' = IF success THEN result
                     ELSE [failed_reads |-> result.failed_reads + 1,
                           failed_indices |-> result.failed_indices \cup {i}]
  BY DEF ServeRequest
<1>2. /\ form # "none" /\ served' = i /\ i \in 1 .. n /\ n \in Nat /\ served \in Nat
      /\ UNCHANGED <<form, asked>>
      /\ asked \in Lists(n) /\ DOMAIN asked = 1 .. n
      /\ requests \in Lists(n) /\ DOMAIN requests = 1 .. n
      /\ slots \in [1 .. n -> Int]
      /\ result \in [failed_reads : Nat, failed_indices : SUBSET (1 .. n)]
      /\ result.failed_indices \subseteq 1 .. served
  BY DEF ServeRequest, BatchInv, BatchTypeOK, Lists
<1> HIDE DEF i, n
<1>3. /\ requests' \in Lists(n) /\ Len(requests') = n /\ DOMAIN requests' = 1 .. n
      /\ \A j \in 1 .. n : /\ requests'[j].slot = requests[j].slot
                           /\ requests'[j].address = requests[j].address
                           /\ j # i => requests'[j].success = requests[j].success
      /\ requests'[i].success = success
  <2>1. \A j \in 1 .. n : requests[j] \in AnyRequest
    BY <1>2 DEF Lists
  <2>2. requests' = [j \in 1 .. n |-> IF j = i THEN [requests[j] EXCEPT !.success = success]
                                      ELSE requests[j]]
    BY <1>1, <1>2
  <2>3. \A r \in AnyRequest : [r EXCEPT !.success = success] \in AnyRequest
    BY DEF AnyRequest
  <2>4. requests' \in Lists(n)
    BY <2>1, <2>2, <2>3 DEF Lists
  <2>5. \A r \in AnyRequest : /\ [r EXCEPT !.success = success].slot = r.slot
                              /\ [r EXCEPT !.success = success].address = r.address
                              /\ [r EXCEPT !.success = success].success = success
    BY DEF AnyRequest
  <2>6. Len(requests') = n
    BY <1>2, <2>4, ListIs
  <2> QED BY <1>2, <2>1, <2>2, <2>4, <2>5, <2>6
<1>4. /\ requests[i].slot \in 1 .. n /\ requests[i].address \in Int
      /\ asked[requests[i].slot].address = requests[i].address
  <2>1. Slotted(requests, asked)
    BY DEF BatchInv
  <2> QED BY <1>2, <2>1 DEF Slotted, Lists, AnyRequest
<1>5. slots' \in [1 .. n -> Int] /\ \A j \in 1 .. n : slots'[j] \in {asked[j].address, Zeros}
  <2>1. \A j \in 1 .. n : slots[j] \in {asked[j].address, Zeros}
    BY <1>2 DEF BatchInv, BatchBuffers
  <2> QED BY <1>1, <1>2, <1>4, <2>1
<1>6. /\ result' \in [failed_reads : Nat, failed_indices : SUBSET (1 .. n)]
      /\ result'.failed_indices \subseteq 1 .. i
      /\ (i \in result'.failed_indices) = ~success
      /\ \A j \in 1 .. served : (j \in result'.failed_indices) <=> (j \in result.failed_indices)
      /\ Cardinality(result'.failed_indices) = result'.failed_reads
  <2>1. i \notin result.failed_indices /\ 1 .. served \subseteq 1 .. i /\ i \notin 1 .. served
    BY <1>2 DEF i
  <2>2. Cardinality(result.failed_indices) = result.failed_reads
    BY DEF BatchInv, BatchBuffers
  <2>3. IsFiniteSet(result.failed_indices)
    <3>1. IsFiniteSet(1 .. n)
      BY <1>2, FS_Interval
    <3>2. result.failed_indices \subseteq 1 .. n
      BY <1>2
    <3> QED BY <3>1, <3>2, FS_Subset
  <2>4. Cardinality(result.failed_indices \cup {i}) = result.failed_reads + 1
    BY <2>1, <2>2, <2>3, FS_AddElement
  <2>5. CASE success
    BY <1>1, <1>2, <2>1, <2>2, <2>5
  <2>6. CASE ~success
    <3>1. result' = [failed_reads |-> result.failed_reads + 1,
                     failed_indices |-> result.failed_indices \cup {i}]
      BY <1>1, <2>6
    <3>2. result.failed_indices \cup {i} \subseteq 1 .. i /\ i \in 1 .. n
          /\ result.failed_reads + 1 \in Nat
      BY <1>2, <2>1
    <3> QED BY <1>2, <2>1, <2>4, <2>6, <3>1, <3>2
  <2> QED BY <2>5, <2>6
<1>7. \A j \in 1 .. i : (j \in result'.failed_indices) = ~requests'[j].success
  <2>1. ASSUME NEW j \in 1 .. i, j # i PROVE (j \in result'.failed_indices) = ~requests'[j].success
    <3>1. j \in 1 .. served /\ j \in 1 .. n
      BY <1>2, <2>1 DEF i
    <3>2. (j \in result.failed_indices) = ~requests[j].success
      BY <3>1 DEF BatchInv, BatchBuffers
    <3> QED BY <1>3, <1>6, <2>1, <3>1, <3>2
  <2> QED BY <1>3, <1>6, <2>1
<1>8. BatchTypeOK'
  BY <1>2, <1>3, <1>5, <1>6 DEF BatchTypeOK, n
<1>9. Slotted(requests', asked')
  <2>1. Slotted(requests, asked)
    BY DEF BatchInv
  <2> QED BY <1>2, <1>3, <2>1 DEF Slotted
<1>10. BatchBuffers'
  <2>1. form = "range" => EndToEnd(asked)
    BY DEF BatchInv, BatchBuffers, EndToEnd
  <2>2. form' = "range" => EndToEnd(asked')
    BY <1>2, <2>1
  <2> QED BY <1>2, <1>5, <1>6, <1>7, <2>2 DEF BatchBuffers, EndToEnd
<1> QED BY <1>2, <1>6, <1>8, <1>9, <1>10 DEF BatchInv

\* BatchInv holds in every state.
THEOREM BatchInvariance == BatchSpec => []BatchInv
<1>1. BatchInit => BatchInv
  <2> SUFFICES ASSUME BatchInit PROVE BatchInv
    OBVIOUS
  <2>1. asked = <<>> /\ requests = <<>> /\ slots = <<>> /\ served = 0 /\ result = NoResult
        /\ form = "none"
    BY DEF BatchInit
  <2>2. Len(asked) = 0 /\ BatchTypeOK
    BY <2>1 DEF BatchTypeOK, Lists, NoResult
  <2> QED BY <2>1, <2>2, FS_EmptySet DEF BatchInv, Slotted, BatchBuffers, NoResult
<1>2. ASSUME BatchInv, [BatchNext]_batch_vars PROVE BatchInv'
  <2>1. ASSUME NEW pid, NEW list \in RequestLists,
               batch_read_typed(list, pid)
                 \/ \E optimize \in BOOLEAN : batch_read("batch", Singles(list), pid, optimize)
        PROVE  BatchInv'
    <3>1. PICK n \in Nat : Singles(list) \in Lists(n) /\ \A i \in 1 .. n : Singles(list)[i].slot = i
      BY SinglesAre
    <3> QED BY <1>2, <2>1, <3>1, BeginInv DEF batch_read_typed
  <2>2. ASSUME NEW pid, NEW ends \in RangeEnds, NEW chunk \in ChunkSizes,
               batch_read_range(ends[1], ends[2], chunk, pid)
        PROVE  BatchInv'
    <3> DEFINE c == IF chunk = 0 THEN DefaultChunk ELSE chunk
               list == Pieces(ends[1], ends[2], c)
    <3>1. c \in Nat \ {0}
      BY BatchAssumption
    <3> HIDE DEF c
    <3>2. ends[1] < ends[2] /\ batch_read("range", list, pid, TRUE)
      BY <2>2 DEF batch_read_range, c
    <3>3. EndToEnd(list) /\ \E n \in Nat : list \in Lists(n) /\ \A i \in 1 .. n : list[i].slot = i
      BY <3>1, <3>2, PiecesAre
    <3> HIDE DEF list
    <3> QED BY <1>2, <3>2, <3>3, BeginInv
  <2>3. CASE \/ FinishBatch \/ set_vmm_handle \/ reset_statistics
             \/ \E enabled \in BOOLEAN : set_statistics_enabled(enabled)
             \/ UNCHANGED batch_vars
    <3>1. UNCHANGED <<asked, requests, served, slots, result>> /\ form' \in {form, "none"}
      BY <2>3 DEF FinishBatch, set_vmm_handle, reset_statistics, set_statistics_enabled, batch_vars
    <3> QED BY <1>2, <3>1 DEF BatchInv, BatchTypeOK, Slotted, BatchBuffers
  <2> QED BY <1>2, <2>1, <2>2, <2>3, ServeInv DEF BatchNext
<1> QED BY <1>1, <1>2, PTL DEF BatchSpec

\* For any lists of addresses, any ranges and chunk sizes, and any order that std::sort
\* gives equal addresses: a buffer holds the bytes of the address it was asked for, or zeros.
THEOREM BuffersAreRight == BatchSpec => []BatchBuffers
<1>1. BatchInv => BatchBuffers
  BY DEF BatchInv
<1> QED BY <1>1, BatchInvariance, PTL

-----------------------------------------------------------------------------
(***************************************************************************)
(* Proofs about Differ, for any buffers and configurations.                *)
(*                                                                         *)
(* A difference ends at the first place where it may: from that alone it   *)
(* follows that it bridges no gap longer than allowed, and that it grows   *)
(* too long only over a gap.                                               *)
(***************************************************************************)
\* The configuration is one of those the program uses.
LEMMA ConfigIs ==
  ASSUME diff_config \in DiffConfigs
  PROVE  /\ diff_config.max_change_size \in Nat \ {0} /\ diff_config.min_change_size \in Nat
         /\ diff_config.adjacency_threshold \in Nat /\ diff_config.group_adjacent \in BOOLEAN
         /\ Gap \in Nat /\ Region \in Nat \ {0}
BY DifferAssumption DEF Gap

\* Where the difference that starts at s may end.
Ends(s) ==
  {e \in s + 1 .. Region :
     /\ Changed(e - 1)
     /\ e = Region \/ e - s >= diff_config.max_change_size \/ ~GoesOn(e)}

\* It ends at the first such place, and there is one.
LEMMA ExtentIs ==
  ASSUME diff_config \in DiffConfigs, NEW s \in Nat, s < Region, Changed(s)
  PROVE  Extent(s) \in Ends(s) /\ \A e \in Ends(s) : Extent(s) <= e
<1> DEFINE Left == {n \in Nat : n < Region - s /\ Changed(Region - 1 - n)}
<1>1. Region \in Nat
  BY ConfigIs
<1>2. Region - 1 - s \in Left
  <2>1. Region - 1 - s \in Nat /\ Region - 1 - s < Region - s /\ Region - 1 - (Region - 1 - s) = s
    BY <1>1
  <2> QED BY <2>1
<1>3. PICK n \in Left : \A k \in Left : n <= k
  BY <1>2, LeastNat
<1> DEFINE last == Region - 1 - n
<1>4. last \in s .. Region - 1 /\ Changed(last)
  BY <1>1, <1>3
<1>5. \A j \in last + 1 .. Region - 1 : ~Changed(j)
  <2> SUFFICES ASSUME NEW j \in last + 1 .. Region - 1, Changed(j) PROVE FALSE
    OBVIOUS
  <2>1. Region - 1 - j \in Nat /\ Region - 1 - j < Region - s /\ Region - 1 - (Region - 1 - j) = j
    BY <1>1, <1>4
  <2>2. n <= Region - 1 - j
    BY <1>3, <2>1
  <2> QED BY <1>1, <1>3, <2>2
<1> HIDE DEF last
<1>6. last + 1 \in Ends(s)
  <2>1. last + 1 \in s + 1 .. Region /\ last + 1 - 1 = last
    BY <1>1, <1>4
  <2>2. last + 1 = Region \/ ~GoesOn(last + 1)
    BY <1>1, <1>4, <1>5 DEF GoesOn
  <2> QED BY <1>4, <2>1, <2>2 DEF Ends
<1>7. Ends(s) \subseteq Nat
  BY <1>1 DEF Ends
<1>8. \E e \in Ends(s) : \A f \in Ends(s) : e <= f
  BY <1>6, <1>7, LeastNat
<1>9. Extent(s) = CHOOSE e \in Ends(s) : \A f \in Ends(s) : e <= f
  BY DEF Extent, Ends, Min
<1> QED BY <1>8, <1>9

\* A difference begins and ends with a changed byte, and bridges no gap longer than Gap.
LEMMA ExtentBridges ==
  ASSUME diff_config \in DiffConfigs, NEW s \in Nat, s < Region, Changed(s)
  PROVE  /\ Extent(s) \in s + 1 .. Region /\ Changed(Extent(s) - 1)
         /\ \A i \in s .. Extent(s) - 1 : \E j \in i .. i + Gap : Changed(j)
<1> DEFINE x == Extent(s)
<1>1. x \in Ends(s) /\ \A e \in Ends(s) : x <= e
  BY ExtentIs
<1>2. Region \in Nat /\ Gap \in Nat
  BY ConfigIs
<1>3. x \in s + 1 .. Region /\ Changed(x - 1)
  BY <1>1 DEF Ends
<1> HIDE DEF x
<1>4. ASSUME NEW i \in s .. x - 1, \A j \in i .. i + Gap : ~Changed(j) PROVE FALSE
  <2>1. ~Changed(i) /\ i \in Nat /\ s < i
    BY <1>2, <1>4
  <2> DEFINE Back == {n \in Nat : n < i - s /\ Changed(i - 1 - n)}
  <2>2. i - 1 - s \in Back
    <3>1. i - 1 - s \in Nat /\ i - 1 - s < i - s /\ i - 1 - (i - 1 - s) = s
      BY <2>1
    <3> QED BY <3>1
  <2>3. PICK n \in Back : \A k \in Back : n <= k
    BY <2>2, LeastNat
  <2> DEFINE p == i - n
  <2>4. p \in s + 1 .. i /\ Changed(p - 1)
    <3>1. i - 1 - n = p - 1
      BY <2>1, <2>3
    <3> QED BY <2>1, <2>3, <3>1
  <2>5. \A j \in p .. i - 1 : ~Changed(j)
    <3> SUFFICES ASSUME NEW j \in p .. i - 1, Changed(j) PROVE FALSE
      OBVIOUS
    <3>1. i - 1 - j \in Nat /\ i - 1 - j < i - s /\ i - 1 - (i - 1 - j) = j
      BY <2>1, <2>4
    <3>2. n <= i - 1 - j
      BY <2>3, <3>1
    <3> QED BY <2>1, <2>3, <3>2
  <2> HIDE DEF p
  <2>6. p \in s + 1 .. Region /\ p < x /\ p \in Nat
    BY <1>2, <1>3, <1>4, <2>1, <2>4
  <2>7. GoesOn(p)
    BY <1>1, <1>3, <2>4, <2>6 DEF Ends
  <2>8. ~Changed(p)
    BY <2>1, <2>4, <2>5, <2>6
  <2>9. PICK j \in p + 1 .. Region - 1 : j - p <= Gap /\ Changed(j)
    BY <2>7, <2>8 DEF GoesOn, Gap
  <2>10. j <= i + Gap /\ j \in Nat
    BY <1>2, <2>4, <2>6, <2>9
  <2>11. j \in p .. i - 1 \/ j \in i .. i + Gap
    BY <2>1, <2>6, <2>9, <2>10
  <2> QED BY <1>4, <2>5, <2>9, <2>11
<1> QED BY <1>3, <1>4 DEF x

\* A difference is too long only by its last change.
LEMMA ExtentLimit ==
  ASSUME diff_config \in DiffConfigs, NEW s \in Nat, s < Region, Changed(s)
  PROVE  \A j \in s + diff_config.max_change_size - 1 .. Extent(s) - 2 : ~Changed(j)
<1> DEFINE x == Extent(s)
           max == diff_config.max_change_size
<1>1. x \in Ends(s) /\ (\A e \in Ends(s) : x <= e) /\ x \in s + 1 .. Region
  BY ExtentIs, ExtentBridges
<1>2. max \in Nat \ {0} /\ Region \in Nat
  BY ConfigIs
<1> HIDE DEF x
<1> SUFFICES ASSUME NEW j \in s + max - 1 .. x - 2, Changed(j) PROVE FALSE
  BY DEF x
<1>3. j + 1 \in s + 1 .. Region /\ j + 1 < x /\ j + 1 - s >= max /\ (j + 1) - 1 = j
  BY <1>1, <1>2
<1>4. j + 1 \in Ends(s)
  BY <1>3 DEF Ends
<1> QED BY <1>1, <1>3, <1>4

-----------------------------------------------------------------------------
\* One difference of the list is what it must be.
Sound(d) ==
  /\ Stretch(d[1], d[1] + d[2])
  /\ d[2] \in diff_config.min_change_size .. diff_config.max_change_size

\* It ends before the place reached, and if nothing cut it short no change is near behind it.
Done(d) ==
  /\ d[1] + d[2] <= place
  /\ d[2] < diff_config.max_change_size => NoneNear(d[1] + d[2])

\* Two that follow each other are apart.
InTurn(d, e) ==
  /\ d[1] + d[2] <= e[1]
  /\ d[2] < diff_config.max_change_size => e[1] - (d[1] + d[2]) > Gap

\* The place reached is behind a change, and none is near unless it was cut there.
LeftBehind ==
  place # 0 =>
    /\ Changed(place - 1)
    /\ \/ NoneNear(place)
       \/ \E r \in 0 .. place - 1 : place - r >= diff_config.max_change_size /\ Stretch(r, place)

Scanned ==
  /\ place \in 0 .. Region /\ diffs \in Seq(Nat \X Nat) /\ LeftBehind
  /\ \A k \in DOMAIN diffs : Sound(diffs[k]) /\ Done(diffs[k])
  /\ \A k \in 1 .. Len(diffs) - 1 : InTurn(diffs[k], diffs[k + 1])
  /\ \A i \in 0 .. place - 1 : Changed(i) /\ ~Covered(i) =>
       \E s, e \in 0 .. place : s <= i /\ i < e /\ LeftOut(s, e)

DiffInv ==
  /\ diff_config \in DiffConfigs
  /\ phase = "waiting" => place = 0 /\ diffs = <<>>
  /\ phase = "diffing" => Scanned

\* The invariant gives the property.
LEMMA ScannedSound == DiffInv => DiffsSound
<1> SUFFICES ASSUME DiffInv, phase = "diffing" PROVE DiffsSound
  BY DEF DiffsSound
<1>1. Scanned
  BY DEF DiffInv
<1>2. ASSUME NEW k \in DOMAIN diffs, k < Len(diffs) PROVE k \in 1 .. Len(diffs) - 1
  <2>1. diffs \in Seq(Nat \X Nat)
    BY <1>1 DEF Scanned
  <2>2. DOMAIN diffs = 1 .. Len(diffs) /\ Len(diffs) \in Nat
    BY <2>1
  <2> QED BY <1>2, <2>2
<1> QED BY <1>1, <1>2 DEF DiffsSound, Scanned, Sound, InTurn

\* Nothing is scanned yet.
LEMMA NothingScanned ==
  ASSUME diff_config \in DiffConfigs, place = 0, diffs = <<>>
  PROVE  Scanned
<1>1. Region \in Nat
  BY ConfigIs
<1> QED BY <1>1 DEF Scanned, LeftBehind

\* One round.
LEMMA RoundInv ==
  ASSUME DiffInv, NextDifference
  PROVE  DiffInv'
<1>1. PICK start, stop : start = Min({i \in place .. Region - 1 : Changed(i)}) /\ stop = Extent(start)
  OBVIOUS
<1> DEFINE size == stop - start
           new == <<start, size>>
           reported == size >= diff_config.min_change_size /\ size <= diff_config.max_change_size
<1>2. /\ phase = "diffing" /\ UNCHANGED <<diff_config, before, after, phase>>
      /\ \E i \in place .. Region - 1 : Changed(i)
      /\ place' = stop
      /\ diffs' = IF reported THEN Append(diffs, new) ELSE diffs
  BY <1>1 DEF NextDifference
<1>3. Scanned /\ diff_config \in DiffConfigs
  BY <1>2 DEF DiffInv
<1>4. /\ place \in 0 .. Region /\ diffs \in Seq(Nat \X Nat) /\ Region \in Nat /\ Gap \in Nat
      /\ diff_config.max_change_size \in Nat \ {0} /\ diff_config.min_change_size \in Nat
      /\ diff_config.adjacency_threshold \in Nat /\ diff_config.group_adjacent \in BOOLEAN
  BY <1>3, ConfigIs DEF Scanned
<1>5. start \in place .. Region - 1 /\ Changed(start) /\ \A i \in place .. start - 1 : ~Changed(i)
  <2> DEFINE C == {i \in place .. Region - 1 : Changed(i)}
  <2>1. C \subseteq Nat /\ C # {}
    BY <1>2, <1>4
  <2>2. \E i \in C : \A j \in C : i <= j
    BY <2>1, LeastNat
  <2>3. start = CHOOSE i \in C : \A j \in C : i <= j
    BY <1>1 DEF Min
  <2>4. start \in C /\ \A j \in C : start <= j
    BY <2>2, <2>3
  <2>5. ASSUME NEW i \in place .. start - 1 PROVE i \in place .. Region - 1 /\ ~(start <= i)
    BY <1>4, <2>4, <2>5
  <2> QED BY <2>4, <2>5
<1>6. start \in Nat /\ start < Region
  BY <1>4, <1>5
<1>7. /\ stop \in start + 1 .. Region /\ Changed(stop - 1)
      /\ \A i \in start .. stop - 1 : \E j \in i .. i + Gap : Changed(j)
  BY <1>1, <1>3, <1>5, <1>6, ExtentBridges
<1>8. size >= diff_config.max_change_size \/ NoneNear(stop)
  <2>1. stop \in Ends(start)
    BY <1>1, <1>3, <1>5, <1>6, ExtentIs
  <2>2. CASE stop = Region
    BY <1>4, <2>2 DEF NoneNear
  <2>3. CASE ~GoesOn(stop)
    <3>1. ASSUME NEW j \in stop .. Region - 1, j - stop <= Gap PROVE ~Changed(j)
      <4>1. j = stop \/ j \in stop + 1 .. Region - 1
        BY <1>4, <1>7, <3>1
      <4>2. CASE diff_config.group_adjacent
        <5>1. Gap = diff_config.adjacency_threshold
          BY <4>2 DEF Gap
        <5> QED BY <2>3, <3>1, <4>1, <4>2, <5>1 DEF GoesOn
      <4>3. CASE ~diff_config.group_adjacent
        <5>1. Gap = 0
          BY <4>3 DEF Gap
        <5>2. j = stop
          BY <1>4, <1>7, <3>1, <5>1
        <5> QED BY <2>3, <5>2 DEF GoesOn
      <4> QED BY <4>2, <4>3
    <3> QED BY <3>1 DEF NoneNear
  <2> QED BY <2>1, <2>2, <2>3 DEF Ends
<1>9. \A j \in start + diff_config.max_change_size - 1 .. stop - 2 : ~Changed(j)
  BY <1>1, <1>3, <1>5, <1>6, ExtentLimit
<1>10. /\ size \in Nat \ {0} /\ start + size = stop /\ place' = start + size
      /\ place' \in 0 .. Region /\ place < place'
  BY <1>2, <1>4, <1>5, <1>6, <1>7
<1>11. \A i : Changed(i)' <=> Changed(i)
  BY <1>2 DEF Changed
<1>12. Gap' = Gap
  BY <1>2 DEF Gap
<1>25. Stretch(start, stop)
  BY <1>5, <1>7 DEF Stretch
<1>26. /\ \A s, e : Stretch(s, e)' <=> Stretch(s, e)
       /\ \A e : NoneNear(e)' <=> NoneNear(e)
  BY <1>2, <1>11, <1>12 DEF Stretch, NoneNear
<1>27. \A s, e : LeftOut(s, e)' <=> LeftOut(s, e)
  BY <1>2, <1>11, <1>12, <1>26 DEF LeftOut, CutBefore
<1>28. CutBefore(start)
  <2> SUFFICES ASSUME NEW j \in 0 .. start - 1, Changed(j),
                      \A x \in j + 1 .. start - 1 : ~Changed(x), start - (j + 1) <= Gap
               PROVE  \E r \in 0 .. j : j + 1 - r >= diff_config.max_change_size /\ Stretch(r, j + 1)
    BY DEF CutBefore
  <2>1. place # 0 /\ j < place
    BY <1>4, <1>5
  <2>2. Changed(place - 1) /\ place - 1 \in Nat
    BY <1>3, <1>4, <2>1 DEF Scanned, LeftBehind
  <2>3. j = place - 1 /\ j + 1 = place
    <3>1. ~(place - 1 \in j + 1 .. start - 1)
      BY <2>2
    <3> QED BY <1>4, <1>5, <2>1, <2>2, <3>1
  <2>4. ~NoneNear(place)
    <3>1. start \in place .. Region - 1 /\ start - place <= Gap
      BY <1>4, <1>5, <2>3
    <3> QED BY <1>5, <3>1 DEF NoneNear
  <2>5. PICK r \in 0 .. place - 1 : place - r >= diff_config.max_change_size /\ Stretch(r, place)
    BY <1>3, <2>1, <2>4 DEF Scanned, LeftBehind
  <2>6. r \in 0 .. j /\ j + 1 - r >= diff_config.max_change_size /\ Stretch(r, j + 1)
    BY <2>3, <2>5
  <2> QED BY <2>6
<1>29. LeftBehind'
  <2>1. place' = stop /\ Changed(stop - 1)' /\ stop \in Nat /\ start \in 0 .. stop - 1
    BY <1>2, <1>4, <1>6, <1>7, <1>11
  <2>2. CASE NoneNear(stop)
    BY <1>26, <2>1, <2>2 DEF LeftBehind
  <2>3. CASE size >= diff_config.max_change_size
    <3>1. stop - start >= diff_config.max_change_size /\ Stretch(start, stop)'
      BY <1>25, <1>26, <2>3
    <3> QED BY <1>2, <2>1, <3>1 DEF LeftBehind
  <2> QED BY <1>8, <2>2, <2>3
<1> HIDE DEF size, reported
<1>13. ASSUME NEW d \in Nat \X Nat, Sound(d), Done(d) PROVE Sound(d)' /\ Done(d)'
  <2>1. Sound(d)'
    BY <1>2, <1>13, <1>26 DEF Sound
  <2>2. d[1] \in Nat /\ d[2] \in Nat
    BY <1>13
  <2>3. Done(d)'
    <3>1. d[1] + d[2] <= place'
      BY <1>4, <1>10, <1>13, <2>2 DEF Done
    <3>2. UNCHANGED diff_config
      BY <1>2
    <3> QED BY <1>13, <1>26, <3>1, <3>2 DEF Done
  <2> QED BY <2>1, <2>3
<1>14. ASSUME NEW d \in Nat \X Nat, NEW e \in Nat \X Nat, InTurn(d, e) PROVE InTurn(d, e)'
  BY <1>2, <1>12, <1>14 DEF InTurn
<1>15. new \in Nat \X Nat /\ new[1] = start /\ new[2] = size
  BY <1>6, <1>10
<1>16. /\ DOMAIN diffs = 1 .. Len(diffs) /\ Len(diffs) \in Nat
       /\ \A k \in DOMAIN diffs : diffs[k] \in Nat \X Nat
  BY <1>4
<1>17. diffs' \in Seq(Nat \X Nat) /\ \A k \in DOMAIN diffs : k \in DOMAIN diffs' /\ diffs'[k] = diffs[k]
  <2>1. CASE ~reported
    BY <1>2, <1>4, <2>1
  <2>2. CASE reported
    <3>1. diffs' = Append(diffs, new)
      BY <1>2, <2>2
    <3>2. new \in Nat \X Nat
      BY <1>15
    <3> HIDE DEF new
    <3>3. diffs' \in Seq(Nat \X Nat)
      BY <1>4, <3>1, <3>2
    <3>4. \A k \in 1 .. Len(diffs) : k \in DOMAIN diffs' /\ diffs'[k] = diffs[k]
      BY <1>4, <3>1, <3>2
    <3> QED BY <1>16, <3>3, <3>4
  <2> QED BY <2>1, <2>2
<1>18. \A k \in DOMAIN diffs' : k \notin DOMAIN diffs =>
         reported /\ k = Len(diffs) + 1 /\ diffs'[k] = new
  <2>1. CASE ~reported
    BY <1>2, <2>1
  <2>2. CASE reported
    <3>1. diffs' = Append(diffs, new)
      BY <1>2, <2>2
    <3> HIDE DEF new
    <3> QED BY <1>4, <1>16, <2>2, <3>1
  <2> QED BY <2>1, <2>2
<1>19. reported => Sound(new)' /\ Done(new)'
  <2> SUFFICES ASSUME reported PROVE Sound(new)' /\ Done(new)'
    OBVIOUS
  <2>1. size \in diff_config.min_change_size .. diff_config.max_change_size
    BY <1>4, <1>10 DEF reported
  <2>2. Sound(new)
    BY <1>10, <1>15, <1>25, <2>1 DEF Sound
  <2>3. Done(new)'
    <3>1. start + size <= place'
      BY <1>6, <1>10
    <3>2. ~(size >= diff_config.max_change_size) \/ ~(size < diff_config.max_change_size)
      BY <1>4, <1>10
    <3> QED BY <1>2, <1>8, <1>10, <1>15, <1>26, <3>1, <3>2 DEF Done
  <2> QED BY <1>2, <1>26, <2>2, <2>3 DEF Sound
<1>20. ASSUME NEW d \in Nat \X Nat, Done(d) PROVE InTurn(d, new)'
  <2>1. d[1] \in Nat /\ d[2] \in Nat /\ d[1] + d[2] <= place
    BY <1>20 DEF Done
  <2>2. d[1] + d[2] <= start
    BY <1>4, <1>5, <2>1
  <2>3. ASSUME d[2] < diff_config.max_change_size
        PROVE  start - (d[1] + d[2]) > Gap
    <3>1. start \in d[1] + d[2] .. Region - 1
      BY <1>4, <1>5, <1>6, <2>1, <2>2
    <3>2. ~(start - (d[1] + d[2]) <= Gap)
      BY <1>5, <1>20, <2>3, <3>1 DEF Done, NoneNear
    <3> QED BY <1>4, <1>6, <2>1, <3>2
  <2> QED BY <1>2, <1>12, <1>15, <2>2, <2>3 DEF InTurn
<1> HIDE DEF new
<1>21. ASSUME NEW i \in 0 .. place' - 1, Changed(i)', ~Covered(i)'
       PROVE  \E s, e \in 0 .. place' : s <= i /\ i < e /\ LeftOut(s, e)'
  <2>1. CASE i \in 0 .. place - 1
    <3>1. ~Covered(i)
      <4>1. ASSUME Covered(i) PROVE Covered(i)'
        <5>1. PICK k \in DOMAIN diffs : diffs[k][1] <= i /\ i < diffs[k][1] + diffs[k][2]
          BY <4>1 DEF Covered
        <5>2. k \in DOMAIN diffs' /\ diffs'[k] = diffs[k]
          BY <1>17, <5>1
        <5> QED BY <5>1, <5>2 DEF Covered
      <4> QED BY <1>21, <4>1
    <3>2. PICK s, e \in 0 .. place : s <= i /\ i < e /\ LeftOut(s, e)
      BY <1>3, <1>11, <1>21, <2>1, <3>1 DEF Scanned
    <3>3. s \in 0 .. place' /\ e \in 0 .. place'
      BY <1>4, <1>10
    <3> QED BY <1>27, <3>2, <3>3
  <2>2. CASE i \notin 0 .. place - 1
    <3>1. i \in start .. start + size - 1
      <4>1. i \in Nat /\ place <= i /\ i < start + size
        BY <1>4, <1>6, <1>10, <1>21, <2>2
      <4>2. ~(i \in place .. start - 1)
        BY <1>5, <1>11, <1>21
      <4> QED BY <1>4, <1>6, <1>10, <4>1, <4>2
    <3>2. ~reported
      <4> SUFFICES ASSUME reported PROVE FALSE
        OBVIOUS
      <4>1. diffs' = Append(diffs, new)
        BY <1>2
      <4>2. Len(diffs) + 1 \in DOMAIN diffs' /\ diffs'[Len(diffs) + 1] = new
        BY <1>4, <1>15, <4>1
      <4>3. new[1] <= i /\ i < new[1] + new[2]
        BY <1>6, <1>10, <1>15, <3>1
      <4> QED BY <1>21, <4>2, <4>3 DEF Covered
    <3>3. LeftOut(start, stop)
      <4>1. stop - start = size
        BY <1>6, <1>10
      <4>2. size < diff_config.min_change_size \/ size > diff_config.max_change_size
        BY <1>4, <1>10, <3>2 DEF reported
      <4>3. ~(size >= diff_config.max_change_size) \/ ~(size < diff_config.max_change_size)
        BY <1>4, <1>10
      <4> QED BY <1>8, <1>9, <1>25, <1>28, <4>1, <4>2, <4>3 DEF LeftOut
    <3>4. start \in 0 .. place' /\ stop \in 0 .. place' /\ start <= i /\ i < stop
      BY <1>6, <1>10, <3>1
    <3> QED BY <1>27, <3>3, <3>4
  <2> QED BY <2>1, <2>2
<1>22. diffs' \in Seq(Nat \X Nat)
  BY <1>17
<1>23. ASSUME NEW k \in DOMAIN diffs' PROVE (Sound(diffs[k]) /\ Done(diffs[k]))'
  <2>1. PICK d : d = diffs'[k]
    OBVIOUS
  <2>2. d \in Nat \X Nat /\ Sound(d)' /\ Done(d)'
    <3>1. CASE k \in DOMAIN diffs
      <4>1. d = diffs[k] /\ d \in Nat \X Nat /\ Sound(d) /\ Done(d)
        BY <1>3, <1>16, <1>17, <2>1, <3>1 DEF Scanned
      <4> QED BY <1>13, <4>1
    <3>2. CASE k \notin DOMAIN diffs
      <4>1. d = new /\ reported
        BY <1>18, <2>1, <3>2
      <4> QED BY <1>15, <1>19, <4>1
    <3> QED BY <3>1, <3>2
  <2> QED BY <2>1, <2>2 DEF Sound, Done, Changed
<1>24. ASSUME NEW k \in 1 .. Len(diffs') - 1 PROVE InTurn(diffs[k], diffs[k + 1])'
  <2>1. PICK d, e : d = diffs'[k] /\ e = diffs'[k + 1]
    OBVIOUS
  <2>2. k \in DOMAIN diffs /\ diffs[k] = d
    <3>1. Len(diffs') \in Nat /\ DOMAIN diffs' = 1 .. Len(diffs')
      BY <1>22
    <3>2. k \in DOMAIN diffs' /\ k + 1 \in DOMAIN diffs' /\ k \in Nat
      BY <3>1
    <3>3. k \in DOMAIN diffs
      BY <1>16, <1>18, <3>2
    <3> QED BY <1>17, <2>1, <3>3
  <2>3. d \in Nat \X Nat /\ Done(d)
    BY <1>3, <1>4, <2>2 DEF Scanned
  <2>4. InTurn(d, e)'
    <3>1. CASE k + 1 \in DOMAIN diffs
      <4>1. k \in 1 .. Len(diffs) - 1 /\ e = diffs[k + 1] /\ e \in Nat \X Nat
        <5>1. diffs'[k + 1] = diffs[k + 1] /\ diffs[k + 1] \in Nat \X Nat
          BY <1>16, <1>17, <3>1
        <5> QED BY <1>16, <2>1, <3>1, <5>1
      <4>2. InTurn(d, e)
        BY <1>3, <2>2, <4>1 DEF Scanned
      <4> QED BY <1>14, <2>3, <4>1, <4>2
    <3>2. CASE k + 1 \notin DOMAIN diffs
      <4>1. k + 1 \in DOMAIN diffs'
        BY <1>22
      <4>2. e = new
        BY <1>18, <2>1, <3>2, <4>1
      <4> QED BY <1>20, <2>3, <4>2
    <3> QED BY <3>1, <3>2
  <2> QED BY <2>1, <2>4 DEF InTurn
<1>30. \A i \in 0 .. place' - 1 : Changed(i)' /\ ~Covered(i)' =>
         \E s, e \in 0 .. place' : s <= i /\ i < e /\ LeftOut(s, e)'
  BY <1>21
<1>31. Scanned'
  <2>1. Region' = Region
    OBVIOUS
  <2> QED BY <1>10, <1>22, <1>23, <1>24, <1>29, <1>30, <2>1 DEF Scanned
<1> QED BY <1>2, <1>3, <1>31 DEF DiffInv

-----------------------------------------------------------------------------
\* The invariant holds of every reachable state.
THEOREM DifferInvariance == DifferSpec => []DiffInv
<1>1. DifferInit => DiffInv
  BY DifferAssumption DEF DifferInit, DiffInv
<1>2. DiffInv /\ [DifferNext]_diff_vars => DiffInv'
  <2> SUFFICES ASSUME DiffInv, [DifferNext]_diff_vars PROVE DiffInv'
    OBVIOUS
  <2>1. ASSUME UNCHANGED <<diff_config, before, after, phase, place, diffs>> PROVE DiffInv'
    <3>1. (\A i : Changed(i)' <=> Changed(i)) /\ Gap' = Gap /\ \A i : Covered(i)' <=> Covered(i)
      BY <2>1 DEF Changed, Gap, Covered
    <3>5. /\ \A s, e : Stretch(s, e)' <=> Stretch(s, e)
          /\ \A e : NoneNear(e)' <=> NoneNear(e)
      BY <3>1 DEF Stretch, NoneNear
    <3>6. \A s, e : LeftOut(s, e)' <=> LeftOut(s, e)
      BY <2>1, <3>1, <3>5 DEF LeftOut, CutBefore
    <3>7. LeftBehind' <=> LeftBehind
      BY <2>1, <3>1, <3>5 DEF LeftBehind
    <3>2. \A d : (Sound(d)' <=> Sound(d)) /\ (Done(d)' <=> Done(d))
      BY <2>1, <3>5 DEF Sound, Done
    <3>3. \A d, e : InTurn(d, e)' <=> InTurn(d, e)
      BY <2>1, <3>1 DEF InTurn
    <3>4. Scanned' <=> Scanned
      BY <2>1, <3>1, <3>2, <3>3, <3>6, <3>7 DEF Scanned
    <3> QED BY <2>1, <3>4 DEF DiffInv
  <2>2. ASSUME phase' = "idle", diff_config' \in DiffConfigs PROVE DiffInv'
    BY <2>2 DEF DiffInv
  <2>3. ASSUME phase' \in {"waiting", "diffing"}, UNCHANGED diff_config, place' = 0, diffs' = <<>>
        PROVE  DiffInv'
    <3>1. diff_config' \in DiffConfigs /\ Region \in Nat
      BY <2>3, ConfigIs DEF DiffInv
    <3>2. Scanned'
      BY <2>3, <3>1 DEF Scanned, LeftBehind
    <3> QED BY <2>3, <3>1, <3>2 DEF DiffInv
  <2>4. CASE \E buffer \in Contents : compare_buffers(Blank, buffer)
    BY <2>3, <2>4 DEF compare_buffers, Begins
  <2>5. CASE NoComparison
    BY <2>2, <2>5 DEF NoComparison, Begins, DiffInv
  <2>6. CASE NextDifference
    BY <2>6, RoundInv
  <2>7. CASE EndDiff \/ CountChanged
    BY <2>2, <2>7 DEF EndDiff, CountChanged, DiffInv
  <2>8. CASE \E base \in {0, 1} : BeginLive(base)
    BY <2>3, <2>8 DEF BeginLive, Begins
  <2>9. CASE \E base \in {0, 1} : \E wanted \in SearchValues : find_value(base, wanted)
    BY <2>1, <2>9 DEF find_value
  <2>10. CASE \E addresses \in FilterLists : FilterChanged(addresses)
    BY <2>2, <2>10 DEF FilterChanged, DiffInv
  <2>11. CASE \E detailed \in BOOLEAN : SecondRead(detailed)
    <3>1. PICK detailed \in BOOLEAN : SecondRead(detailed)
      BY <2>11
    <3>2. place' = 0 /\ diffs' = <<>> /\ diff_config' \in DiffConfigs /\ UNCHANGED diff_config
      BY <3>1 DEF SecondRead, DiffInv
    <3>3. phase' \in {"diffing", "counting"}
      BY <3>1 DEF SecondRead
    <3> QED BY <2>3, <3>2, <3>3 DEF DiffInv
  <2>12. CASE \E new_content \in Contents : TargetChanges(new_content)
    BY <2>1, <2>12 DEF TargetChanges
  <2>13. CASE \E c \in DiffConfigs : set_diff_config(c)
    BY <2>2, <2>13 DEF set_diff_config
  <2>14. CASE UNCHANGED diff_vars
    BY <2>1, <2>14 DEF diff_vars
  <2> QED BY <2>4, <2>5, <2>6, <2>7, <2>8, <2>9, <2>10, <2>11, <2>12, <2>13, <2>14 DEF DifferNext
<1> QED BY <1>1, <1>2, PTL DEF DifferSpec

\* The differences reported are in order, apart, within the limits and bridge no gap longer
\* than configured, and no changed byte before the place reached is left out but for its
\* length: diff_buffers_impl, for any buffers and any configuration.
THEOREM DiffsAreSound == DifferSpec => []DiffsSound
BY DifferInvariance, ScannedSound, PTL

=============================================================================
