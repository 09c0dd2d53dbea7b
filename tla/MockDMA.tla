------------------------------ MODULE MockDMA ------------------------------
(***************************************************************************)
(* MockDMA (mock_dma.cpp), the memory that stands in for the device in     *)
(* tests.  The mutex makes each call one step, but for the reads of more   *)
(* than a byte, which take it for every byte.  Sizes are in bytes, and     *)
(* total_memory_used_ is unsigned.                                         *)
(***************************************************************************)
EXTENDS Integers, FiniteSets, FiniteSetsExt

CONSTANTS
  MockAddresses,     \* addresses, some below MIN_VALID_ADDRESS
  MIN_VALID_ADDRESS, MAX_VALID_ADDRESS,
  RegionSizes,       \* sizes of the data a test sets
  MAX_MEMORY_SIZE,
  Wrap,              \* size_t counts modulo this
  MaxSets, MaxMockReads

ASSUME MockAssumption ==
  /\ MockAddresses \subseteq Nat /\ RegionSizes \subseteq Nat
  /\ IsFiniteSet(MockAddresses)
  /\ MAX_MEMORY_SIZE \in Nat /\ Wrap \in Nat \ {0} /\ MAX_MEMORY_SIZE < Wrap
  \* A vector holds no more than half of what size_t counts.
  /\ \A size \in RegionSizes : MAX_MEMORY_SIZE + size < Wrap
  /\ MaxSets \in Nat /\ MaxMockReads \in Nat

VARIABLES
  regions,    \* size of the region set at each address, 0 for none
  version,    \* which call set its data
  last_access,  \* the regions numbered in the order of their last access, 0 for none
  used,       \* total_memory_used_
  stats,      \* read_count, cache_hits, cache_misses, evictions
  reading,    \* a read under way: its next address, what is left, the versions met
  sets, mock_reads,
  refused     \* history: a region was not replaced, for lack of room

mock_vars == <<regions, version, last_access, used, stats, reading, sets, mock_reads, refused>>

NoReading == [next |-> 0, left |-> 0, met |-> {}]
NoStats == [reads |-> 0, hits |-> 0, misses |-> 0, evictions |-> 0]

MockInit ==
  /\ regions = [a \in MockAddresses |-> 0]
  /\ version = regions /\ last_access = regions
  /\ used = 0 /\ stats = NoStats
  /\ reading = NoReading
  /\ sets = 0 /\ mock_reads = 0 /\ refused = FALSE

Held == {a \in MockAddresses : regions[a] > 0}
validate_address(a) == MIN_VALID_ADDRESS <= a /\ a <= MAX_VALID_ADDRESS

\* Those used since a was move up by one, and a becomes the last of all.
Touched(a) ==
  [b \in MockAddresses |->
     IF b = a THEN Cardinality(Held \cup {a})
     ELSE IF a \in Held /\ last_access[b] > last_access[a] THEN last_access[b] - 1
     ELSE last_access[b]]

\* The region that holds the address; regions may overlap, and the lowest is found.
find_region(address) ==
  LET holding == {a \in Held : a <= address /\ address < a + regions[a]} IN
  IF holding = {} THEN 0 ELSE CHOOSE a \in holding : \A b \in holding : a <= b

-----------------------------------------------------------------------------
\* What is left in use when the region at the address is to be replaced.
Freed(a) == (used - regions[a] + Wrap) % Wrap

\* Without room the call throws, with the old region still there and not counted any more.
set_memory(a, size) ==
  /\ sets < MaxSets /\ sets' = sets + 1
  /\ IF ~validate_address(a) \/ size = 0
     THEN UNCHANGED <<regions, version, last_access, used, refused>>
     ELSE IF (Freed(a) + size) % Wrap > MAX_MEMORY_SIZE
     THEN /\ used' = Freed(a)
          /\ refused' = (refused \/ a \in Held)
          /\ UNCHANGED <<regions, version, last_access>>
     ELSE /\ regions' = [regions EXCEPT ![a] = size]
          /\ version' = [version EXCEPT ![a] = sets']
          /\ last_access' = Touched(a)
          /\ used' = (Freed(a) + size) % Wrap
          /\ UNCHANGED refused
  /\ UNCHANGED <<stats, reading, mock_reads>>

\* The region at a, used longest ago, is gone.
Evicted(a) ==
  /\ a \in Held /\ \A b \in Held : last_access[a] <= last_access[b]
  /\ regions' = [regions EXCEPT ![a] = 0]
  /\ last_access' = [b \in MockAddresses |-> IF last_access[b] = 0 THEN 0 ELSE last_access[b] - 1]
  /\ stats' = [stats EXCEPT !.evictions = @ + 1]
  /\ UNCHANGED <<version, reading, sets, mock_reads, refused>>

\* Mutant of evict_oldest_region: the region goes, and its bytes stay in use.
evict_uncounted(a) == Evicted(a) /\ UNCHANGED used

evict_oldest_region(a) == Evicted(a) /\ used' = Freed(a)

\* Also the mock processes, which a test sets and looks up by name.
clear ==
  /\ regions' = [a \in MockAddresses |-> 0]
  /\ last_access' = regions' /\ used' = 0 /\ stats' = NoStats
  /\ refused' = FALSE
  /\ UNCHANGED <<version, reading, sets, mock_reads>>

\* find_signature: a match marks its region as just used.
find_signature(a) ==
  /\ a \in Held
  /\ last_access' = Touched(a)
  /\ UNCHANGED <<regions, version, used, stats, reading, sets, mock_reads, refused>>

\* read_u8 to read_u64 and read_bytes begin.
Read(address, size) ==
  /\ reading = NoReading /\ mock_reads < MaxMockReads
  /\ mock_reads' = mock_reads + 1
  /\ reading' = [next |-> address, left |-> size, met |-> {}]
  /\ UNCHANGED <<regions, version, last_access, used, stats, sets, refused>>

\* read_u8 of the next byte.  A byte in no region throws, and ends the whole read.
read_u8 ==
  LET a == find_region(reading.next) IN
  /\ reading.left > 0
  /\ IF a = 0
     THEN /\ stats' = [stats EXCEPT !.reads = @ + 1, !.misses = @ + 1]
          /\ reading' = NoReading
          /\ UNCHANGED last_access
     ELSE /\ stats' = [stats EXCEPT !.reads = @ + 1, !.hits = @ + 1]
          /\ last_access' = Touched(a)
          /\ reading' = IF reading.left = 1 THEN NoReading
                        ELSE [next |-> reading.next + 1, left |-> reading.left - 1,
                              met |-> reading.met \cup {version[a]}]
  /\ UNCHANGED <<regions, version, used, sets, mock_reads, refused>>

MockNext ==
  \/ \E a \in MockAddresses : find_signature(a) \/ evict_oldest_region(a) \/ \E s \in RegionSizes : set_memory(a, s)
  \/ \E a \in MockAddresses, s \in {1, 2} : Read(a, s)
  \/ read_u8 \/ clear

MockSpec == MockInit /\ [][MockNext]_mock_vars

-----------------------------------------------------------------------------
\* The bytes of all regions.
HeldBytes == MapThenSumSet(LAMBDA a : regions[a], MockAddresses)

\* The bytes counted are those of the regions, and within the limit, until a region
\* could not be replaced for lack of room, and again after clear.
MockUsage == ~refused => used = HeldBytes /\ used <= MAX_MEMORY_SIZE

\* MAX_MEMORY_SIZE is the "100MB limit" of the header.
MockLimit == HeldBytes <= MAX_MEMORY_SIZE
=============================================================================
