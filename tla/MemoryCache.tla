---------------------------- MODULE MemoryCache -----------------------------
(***************************************************************************)
(* ArgoSentry::Cache::MemoryCache (src/src/cache.cpp, cache.hh): a map     *)
(* from a key made of an address and a size to the bytes read there, with  *)
(* a byte budget, eviction of the least used entry, and a time to live.    *)
(*                                                                         *)
(* Grain.  A step is one critical section of cache_mutex_, or one access   *)
(* to enabled_ or ttl_, which the code makes without it.  What a put       *)
(* stores is kept as the place <<address, size>> the bytes were read at.   *)
(* The timestamp of an entry is kept as its age in ticks, which stops      *)
(* counting once the entry is expired for every ttl in use.                *)
(***************************************************************************)
EXTENDS Integers, FiniteSetsExt

CONSTANTS
  Users,           \* threads
  Idle,            \* no call in progress
  Addrs, Sizes,    \* addresses and sizes in use
  Shift,           \* make_cache_key shifts the size by that many bits (32 in the code)
  KeyBits,         \* width of a key (64 in the code)
  MaxSizes, TTLs,  \* values of max_cache_size_ and ttl_ (in seconds) in use
  Second,          \* ticks in a second
  HitCap           \* bound: hit_count and the statistics stop counting here

ASSUME CacheAssumption ==
  /\ Addrs \subseteq Nat
  /\ Sizes \subseteq Nat \ {0} /\ \A size \in Sizes : size < 2^Shift
  /\ MaxSizes \subseteq Nat
  /\ TTLs \subseteq Nat /\ TTLs # {} /\ IsFiniteSet(TTLs)
  /\ Shift \in Nat /\ KeyBits \in Nat
  /\ Second \in Nat \ {0}
  /\ HitCap \in Nat

VARIABLES
  cache_, current_size_, max_cache_size_, ttl_, enabled_,
  hits_, misses_, evictions_,
  pending         \* each user: where its get, put or set_ttl stands

cache_vars == <<cache_, current_size_, max_cache_size_, ttl_, enabled_,
          hits_, misses_, evictions_, pending>>

settings == <<max_cache_size_, ttl_, enabled_>>
statistics == <<hits_, misses_, evictions_>>

Places == Addrs \X Sizes

MaxAge == (Max(TTLs) + 1) * Second

CacheEntry == [address : Addrs, data : Places, age : 0..MaxAge, hit_count : 0..HitCap]

\* A call between two steps: what it has to do next, and for which place.
InCall == [next : {"get", "put"}, place : Places] \cup [next : {"miss", "evict"}]

CacheInit ==
  /\ cache_ = [k \in {} |-> 0]
  /\ current_size_ = 0
  /\ max_cache_size_ \in MaxSizes
  /\ ttl_ \in TTLs
  /\ enabled_ = TRUE
  /\ hits_ = 0
  /\ misses_ = 0
  /\ evictions_ = 0
  /\ pending = [u \in Users |-> Idle]

\* A key is kept as the set of its bits.
Bits(n) == {i \in 0 .. KeyBits - 1 : (n \div 2^i) % 2 = 1}

\* Mutant of make_cache_key: the size does not count.
KeyOfAddress(place) == Bits(place[1])

\* address XOR (size << Shift): the bits that are set in one of them.
make_cache_key(place) == SymDiff(Bits(place[1]), Bits(place[2] * 2^Shift))

Cached == DOMAIN cache_

Held == [k \in Cached |-> cache_[k].data[2]]

Bytes(K) == MapThenSumSet(LAMBDA k : Held[k], K)

Bump(n, by) == IF n + by < HitCap THEN n + by ELSE HitCap

\* The age is cut to whole seconds before it is compared.
is_expired(entry) == entry.age \div Second > ttl_

Keep(K) == cache_' = [k \in K |-> cache_[k]]

-----------------------------------------------------------------------------
(* Both get and put look at enabled_ before they lock. *)

BeginCall(u, op, place) ==
  /\ enabled_
  /\ pending[u] = Idle
  /\ pending' = [pending EXCEPT ![u] = [next |-> op, place |-> place]]
  /\ UNCHANGED <<cache_, current_size_, settings, statistics>>

\* User u is at the step `op` of a call.
CallAt(u, op) == pending[u] # Idle /\ pending[u].next = op

EndCall(u) == pending' = [pending EXCEPT ![u] = Idle]

-----------------------------------------------------------------------------
(* get *)

GetHit(u) ==
  /\ CallAt(u, "get")
  /\ LET k == make_cache_key(pending[u].place) IN
       /\ k \in Cached
       /\ ~is_expired(cache_[k])
       /\ cache_' = [cache_ EXCEPT ![k].hit_count = Bump(@, 1)]
  /\ hits_' = Bump(hits_, 1)
  /\ EndCall(u)
  /\ UNCHANGED <<current_size_, settings, misses_, evictions_>>

\* An expired entry is a miss; it stays in the map.
GetExpired(u) ==
  /\ CallAt(u, "get")
  /\ LET k == make_cache_key(pending[u].place) IN k \in Cached /\ is_expired(cache_[k])
  /\ misses_' = Bump(misses_, 1)
  /\ EndCall(u)
  /\ UNCHANGED <<cache_, current_size_, settings, hits_, evictions_>>

\* Nothing found: the lock is released ...
GetAbsent(u) ==
  /\ CallAt(u, "get")
  /\ make_cache_key(pending[u].place) \notin Cached
  /\ pending' = [pending EXCEPT ![u] = [next |-> "miss"]]
  /\ UNCHANGED <<cache_, current_size_, settings, statistics>>

\* ... and taken again to count the miss.
CountMiss(u) ==
  /\ CallAt(u, "miss")
  /\ misses_' = Bump(misses_, 1)
  /\ EndCall(u)
  /\ UNCHANGED <<cache_, current_size_, settings, hits_, evictions_>>

-----------------------------------------------------------------------------
(* Eviction *)

\* evict_lru: fewer hits first, then older first.
LessUsed(j, k) ==
  \/ cache_[j].hit_count < cache_[k].hit_count
  \/ cache_[j].hit_count = cache_[k].hit_count /\ cache_[j].age > cache_[k].age

\* The set V that calling evict_lru while more than `room` bytes are cached
\* removes: least used entries first (equals in any order), the last of them only
\* because there was still too much.
EvictedBy(V, room) ==
  LET left(K) == current_size_ - Bytes(K) IN
  /\ \A j \in V, k \in Cached \ V : ~LessUsed(k, j)
  /\ V = Cached \/ left(V) <= room
  /\ V = {} \/ \E last \in V :
       /\ \A j \in V : ~LessUsed(last, j)
       /\ left(V \ {last}) > room

-----------------------------------------------------------------------------
(* put *)

\* An entry with this key is overwritten, except for its address.
PutExisting(u) ==
  /\ CallAt(u, "put")
  /\ LET place == pending[u].place
         k == make_cache_key(place) IN
       /\ k \in Cached
       /\ cache_' = [cache_ EXCEPT ![k] =
            [address |-> @.address, data |-> place, age |-> 0, hit_count |-> 0]]
       /\ current_size_' = current_size_ - cache_[k].data[2] + place[2]
  /\ EndCall(u)
  /\ UNCHANGED <<settings, statistics>>

\* Mutant of RoomFor: the new entry is not counted.
RoomForNothing(size) == max_cache_size_

\* The bytes that may be cached before an entry of that size is inserted.
RoomFor(size) == max_cache_size_ - size

\* Otherwise evict until the entry fits or the cache is empty, and insert it
\* unless it is larger than the whole budget.
PutNew(u) ==
  /\ CallAt(u, "put")
  /\ LET place == pending[u].place
         k == make_cache_key(place)
         entry == [address |-> place[1], data |-> place, age |-> 0, hit_count |-> 0]
     IN /\ k \notin Cached
        /\ \E V \in SUBSET Cached :
             /\ EvictedBy(V, RoomFor(place[2]))
             /\ evictions_' = Bump(evictions_, Cardinality(V))
             /\ IF place[2] > max_cache_size_
                THEN /\ Keep(Cached \ V)
                     /\ current_size_' = current_size_ - Bytes(V)
                ELSE /\ cache_' = [j \in (Cached \ V) \cup {k} |->
                                     IF j = k THEN entry ELSE cache_[j]]
                     /\ current_size_' = current_size_ - Bytes(V) + place[2]
  /\ EndCall(u)
  /\ UNCHANGED <<settings, hits_, misses_>>

-----------------------------------------------------------------------------
(* Maintenance *)

invalidate(addr) ==
  LET V == {k \in Cached : cache_[k].address = addr} IN
  /\ Keep(Cached \ V)
  /\ current_size_' = current_size_ - Bytes(V)
  /\ UNCHANGED <<settings, statistics, pending>>

clear ==
  /\ Keep({})
  /\ current_size_' = 0
  /\ UNCHANGED <<settings, statistics, pending>>

EvictExpired ==
  LET V == {k \in Cached : is_expired(cache_[k])} IN
  /\ Keep(Cached \ V)
  /\ current_size_' = current_size_ - Bytes(V)
  /\ evictions_' = Bump(evictions_, Cardinality(V))
  /\ UNCHANGED <<settings, hits_, misses_>>

evict_expired == EvictExpired /\ UNCHANGED pending

set_max_size(size) ==
  /\ max_cache_size_' = size
  /\ \E V \in SUBSET Cached :
       /\ EvictedBy(V, size)
       /\ Keep(Cached \ V)
       /\ current_size_' = current_size_ - Bytes(V)
       /\ evictions_' = Bump(evictions_, Cardinality(V))
  /\ UNCHANGED <<ttl_, enabled_, hits_, misses_, pending>>

\* The new ttl is stored without the lock ...
set_ttl(u, ttl) ==
  /\ pending[u] = Idle
  /\ ttl_' = ttl
  /\ pending' = [pending EXCEPT ![u] = [next |-> "evict"]]
  /\ UNCHANGED <<cache_, current_size_, max_cache_size_, enabled_, statistics>>

\* ... and what it makes expire is evicted.
FinishSetTTL(u) == CallAt(u, "evict") /\ EvictExpired /\ EndCall(u)

set_enabled(enabled) ==
  /\ enabled_' = enabled
  /\ UNCHANGED <<cache_, current_size_, max_cache_size_, ttl_, statistics, pending>>

reset_cache_statistics ==
  /\ hits_' = 0
  /\ misses_' = 0
  /\ evictions_' = 0
  /\ UNCHANGED <<cache_, current_size_, settings, pending>>

Tick ==
  /\ cache_' = [k \in Cached |->
       [cache_[k] EXCEPT !.age = IF @ < MaxAge THEN @ + 1 ELSE @]]
  /\ UNCHANGED <<current_size_, settings, statistics, pending>>

CacheUser(u) ==
  \/ \E op \in {"get", "put"}, place \in Places : BeginCall(u, op, place)
  \/ GetHit(u) \/ GetExpired(u) \/ GetAbsent(u) \/ CountMiss(u)
  \/ PutExisting(u) \/ PutNew(u)
  \/ \E ttl \in TTLs : set_ttl(u, ttl)
  \/ FinishSetTTL(u)

CacheNext ==
  \/ \E u \in Users : CacheUser(u)
  \/ \E addr \in Addrs : invalidate(addr)
  \/ \E size \in MaxSizes : set_max_size(size)
  \/ \E enabled \in BOOLEAN : set_enabled(enabled)
  \/ clear \/ evict_expired \/ reset_cache_statistics \/ Tick

CacheSpec == CacheInit /\ [][CacheNext]_cache_vars

-----------------------------------------------------------------------------
(* Properties *)

\* The type of every variable; in particular current_size_, a size_t, never
\* becomes what the code would wrap around to a huge number.
CacheTypeOK ==
  /\ Cached \subseteq {make_cache_key(place) : place \in Places}
  /\ cache_ \in [Cached -> CacheEntry]
  /\ current_size_ \in Nat
  /\ max_cache_size_ \in MaxSizes
  /\ ttl_ \in TTLs
  /\ enabled_ \in BOOLEAN
  /\ hits_ \in 0..HitCap
  /\ misses_ \in 0..HitCap
  /\ evictions_ \in 0..HitCap
  /\ pending \in [Users -> {Idle} \cup InCall]

\* Places of different sizes have keys of their own, which the XOR gives to the
\* addresses below 2^Shift.
SizesApart ==
  \A p, q \in Places : make_cache_key(p) = make_cache_key(q) => p[2] = q[2]

\* current_size_ is the number of bytes cached, after every mixture of inserts,
\* overwrites, evictions, invalidations and changes of the budget; and it is never
\* more than the budget, not even when that shrinks between the calls or an entry
\* larger than the budget is offered.  Only an overwrite makes no room: where keys of
\* different sizes meet, one that grows an entry may pass the budget.
WithinBudget ==
  /\ current_size_ = Bytes(Cached)
  /\ SizesApart => current_size_ <= max_cache_size_

\* cache.hh: get(addr, size) is to "Get cached data if available" of that "Memory
\* address" and "Data size to retrieve": a hit returns bytes read at that place.
HitIsOwn ==
  [][\A u \in Users :
       GetHit(u) => cache_[make_cache_key(pending[u].place)].data = pending[u].place]_cache_vars

\* What the code does promise of any places: a hit returns bytes read at a place that
\* has the key of the place asked for.
HitSharesKey ==
  [][\A u \in Users : GetHit(u) =>
       LET asked == make_cache_key(pending[u].place)
       IN make_cache_key(cache_[asked].data) = asked]_cache_vars
=============================================================================
