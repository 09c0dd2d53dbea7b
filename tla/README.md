# ArgoSentry in TLA+

ArgoSentry (`src/`) is a C++ library around a DMA device: it reads and writes the memory of
another machine through the VMM library and adds what a tool built on that needs: a cache, a rate
limiter, a thread pool, a logger, values that are written again and again, a circuit breaker with
retries, scanners, pointer chains, batches, differences, offsets, metrics. This directory holds
TLA+ modules for the parts of it that have state and a protocol, the TLC configurations that check
them, and proofs for TLAPS.

Paths below are relative to the repository: `async.cpp` is `src/src/async.cpp`, `async.hh` is
`src/include/ArgoSentry/async.hh`. Which lines each definition translates is in `map` of
`PROJECT.json`.

## 1. Inventory

| Component | State | Operations | Who shares it | Modules |
|---|---|---|---|---|
| `Logger` | queue, worker, sinks, counters, flags | log, flush, set_async, set_min_level, add/clear sinks, destructor | every thread, the worker | `Logger` |
| `DMAThreadPool` | task queue, workers, `active_tasks_`, `stop_` | enqueue, wait_all, destructor | clients, tasks, workers | `ThreadPool`, `TaskBag` |
| `RateLimiter` | window start, bytes in it, limit, totals | wait_if_needed, set_limit, reset | every thread that reads | `RateLimiter` |
| `MemoryCache` | entries by key, byte count, budget, time to live | get, put, invalidate, set_max_size, set_ttl | every thread that reads | `MemoryCache` |
| `ValueFreezer` | map of frozen values, pause flag, statistics, worker | freeze, unfreeze, pause, resume, destructor | users, worker, target | `ValueFreezer` |
| `CircuitBreaker` | `state_`, statistics, configuration | execute, trip, reset, half_open, update_config | every thread that calls | `CircuitBreaker` |
| `DMA` reads | the cache and whether there is one | read, invalidate, clear_cache, enable_cache | every thread that reads | `DMAReads` |
| `SelfHealing` | configuration, statistics, a breaker | execute_with_retry, reconnection, health check | callers | `SelfHealing` |
| `PointerChain`, manager | offsets, cached address, named chains, file | resolve, validate, edits, add, remove, save, load | callers | `PointerChains` |
| `BatchOperations` | handle, statistics | batch_read, typed, range | one caller | `Batch` |
| `MemoryDiffer` | configuration, statistics | compare, compare live, find_value, filter | one caller, the target | `Differ` |
| Signature scan of `DMA` | chunk buffer | find_signature, two overloads | one caller | `Patterns`, `Signatures` |
| `ParallelScanner` | `cancel_flag_` | find_signature_parallel, cancel, reset_cancel | scans and their workers | `ParallelScanner` |
| Free functions of `async.cpp` | a future, a cancellation token | plain, cancellable, reporting scan, regions, reads | caller and background thread | `AsyncScans` |
| `EnhancedPatternScanner` | pattern cache, statistics | scan_pattern, scan_multi_patterns, clear_cache | one caller | `EnhancedScanner` |
| `PatternLibrary` | named patterns, counters, file | add, remove, get, save, load | searchers | `PatternLibrary` |
| Life of a `DMA` object | members, registries per process | constructor, enable_*, create/get/destroy, destructor | callers | `DMAObject` |
| `ModuleEnumerator`, `OffsetFinder` | module list, offsets | refresh, find, register, update, validate, export, import | one caller, the target | `Offsets` |
| `FileSink` | file, buffer, rotation | write, rotate, flush | logger, file system, crashes | `FileSink` |
| `MetricsCollector` | atomics | record_read, record_scan, get_successful_reads, reset | every thread | `Metrics` |
| Scatter requests of `Process` | count of each handle | create, add, execute, close | one caller, the library | `Scatter` |
| `MockDMA` | regions, their order of use, bytes used | set_memory, clear, read, find_signature | tests | `MockDMA` |
| Health monitor, layouts, structures, configuration, builder, dumper | - | sequential, or not compiled | one caller | section 8 |

How they interact. `DMA::read` asks the limiter, then the cache, then the device, stores what it
read in the cache and records metrics; no lock of `DMA` is held meanwhile. The scanners, batches,
chains and the differ are built on reads and hold no lock across one, but for the chains' manager,
which means not to (`pointer_chain.cpp:306`). The logger is called from everywhere and calls its
sinks. `SelfHealing` drives its breaker through `execute`, `trip` and `reset`. `ValueFreezer` calls
the device from a thread of its own. The registries of a `DMA` object hand out raw pointers to
tools, and an offset finder keeps the pointers of two others. Callbacks run inside the breaker (with
its mutex held) and in the scanners.

What is hard here, and where it bites, is the list `hazards` of `PROJECT.json`. In short: flags are
stored outside the mutex their condition variable uses; a message or a task is popped under a mutex
and handled or counted after it; time is read twice with a sleep in between; a map is copied and
used after the unlock; a state is exchanged before the data that describes it; a mutex is locked
twice, or unlocked twice; a read in flight stores what it read after an invalidation; several scans
share one flag; unsigned counters are lowered in several places and cleared beside those who raise
them; chunks end between the bytes of a pattern; a rotation fails half way; a list of modules is
older than the modules.

What makes each component correct is what its properties say (section 3).

## 2. How the modules are organised

Each component is a module of its own, parameterised by `CONSTANTS` with a named assumption. In
every module a variable with a trailing underscore, and an operator in the code's case, is the
member or method of that name. A step is a critical section, an access to an atomic, a call of an
external library, or a stretch of code between two readings of the clock. Variables marked "history"
record what happened for the properties and guard nothing. Numeric bounds (`Max...`) stop calls, and
name the only states in which a module stops that the code would not.

* Of one component each: `MCLogger` (configurations `LoggerSafety`, `LoggerLive`, `LoggerShutdown`),
  `ThreadPool`, `ValueFreezer`, `MCCircuitBreaker`.
* `MCTraffic` holds `RateLimiter` and `MemoryCache`, `MCReads` the read path and what is built on it
  (`DMAReads`, `SelfHealing`, `PointerChains`, `Batch`, `Differ`), `MCScans` the scanners
  (`Signatures`, `ParallelScanner`, `AsyncScans`, `EnhancedScanner`, `PatternLibrary`), `MCToolkit`
  the rest (`DMAObject`, `Offsets`, `FileSink`, `Metrics`, `Scatter`, `MockDMA`). Parts that share
  no state are not interleaved: a variable `part` chooses one of them at the start, so one run
  explores the sum of their state spaces and not the product.
* Parts that do share state are composed in the module that has the protocol: `DMAReads` contains
  the cache as readers see it (it drops an entry whenever it likes, which covers every eviction and
  expiry of `MemoryCache`), while what a read records is in `Metrics`; `SelfHealing` contains the
  breaker with its runs of results and with a mutex that may stay locked for ever, as
  `CircuitBreaker` shows it may; `Offsets` contains the enumerator's list; `Signatures`,
  `EnhancedScanner` and `PatternLibrary` share `Patterns`.
* `TaskBag` is the abstract specification of a pool: take, turn away, run, close, with no workers,
  queue or notifications. `ThreadPool` implements it under the mapping stated there (`Bag`): a task
  is to do while it is queued or held and not yet run, and the bag is closed when the destructor
  has joined every worker.

Proof modules: `LoggerProofs`, `ThreadPoolProofs`, `CircuitBreakerProofs` and `ValueFreezerProofs`
are about one component each. `ReadsProofs` (`RateLimiter`, `MemoryCache`, `DMAReads`,
`SelfHealing`, `PointerChains`, `Batch`, `Differ`), `ToolkitProofs` (`Metrics`, `Scatter`,
`MockDMA`, `DMAObject`, `Offsets`, `FileSink`) and `ScansProofs` (`ParallelScanner`, `AsyncScans`,
`Signatures`, `EnhancedScanner`, `PatternLibrary`) have a part for each of theirs, which uses nothing
of the others; the last three share lemmas on `Patterns`. `Sums` holds lemmas on sums over finite
sets, greatest and least numbers.

## 3. Modules, runs and what they show

### Logger (`logger.cpp`, `logger.hh`): runs `LoggerSafety`, `LoggerLive`, `LoggerShutdown`

`LogBegin` is the level check, the count and the reading of `async_enabled_`; `LogEnqueue` the
critical section that pushes or drops; `LogNotify` the notification after it; `LogSync` the direct
call of `write_to_sinks`. `flush` polls. The worker's wait is split: `WorkerEnter` evaluates the
predicate with the mutex, `WorkerBlock` releases it and sleeps, since `shutdown_` is stored without
that mutex. `StoreShutdown`, `NotifyShutdown`, `Join`, `Destroy` are the destructor. Sinks are
external: a flaky sink may refuse any message.

`LoggerSafety`: every counted message is dropped, queued, in somebody's hands or offered to the
sinks, once (`Accounting`); the order at each sink (`SinkOrder`); what flush may miss (`FlushGap`:
at most the message the worker has popped); the drain at shutdown (`ShutdownDrains`). Two clients,
three messages, a queue of two, two levels: full queues, drops, both paths, and shutdown with
messages queued all occur. `LoggerLive`: messages reach the sinks and flush returns (`Progress`),
with two messages and a queue of one. `LoggerShutdown` is a counterexample: the destructor stores
and notifies between `WorkerEnter` and `WorkerBlock`, the worker sleeps for good, join waits for it.

### ThreadPool (`async.cpp`, `async.hh`): run `ThreadPool`

`Enqueue` and `Notify` are enqueue; `Acquire` is the worker's critical section (predicate, exit
test, pop); `Count`, `WrapperCount`, `Run`, `WrapperUncount`, `Uncount` what it does after it. The
predicate and the sleep are one step, because `stop_` and `tasks_` change under the mutex only. A
task is a name that enters the pool once; some tasks enqueue others. wait_all polls: only the
successful round is a step. The destructor begins when no client is inside the pool.

A task is in one place (`OnePlace`), the destructor completes what was accepted
(`ShutdownCompletes`), wait_all misses only what is popped and not counted (`WaitGap`), the pool
implements `TaskBag` (`ImplementsBag`), and everything runs and returns (`Progress`). Two workers,
two clients and three tasks, one of which enqueues others: enough for a worker asleep while another
pops, for a task that enqueues during shutdown (and gets the exception), and for two waits at once.
The worker and the wrapper of `submit` both raise `active_tasks_` for the same task, so
get_active_count is not the count of active tasks that the header documents (`ActiveCount`, section
4); what it is instead is proved (`CountIsTwofold`).

### RateLimiter and MemoryCache (`rate_limiter.cpp`, `cache.cpp`): run `Traffic`

Limiter: `Call` is the unlocked test of the limit; `Check` the critical section up to the second
reading of the clock (so `mutex_` is a variable: time passes while it is held); `Decide` unlocks and
sleeps, `DecideLate` is the branch where the second is over by then; `Wake` locks again and resets.
A second is two ticks. `LimiterBounds`: the counter passes the limit only by one request that is
larger than it, and waits last between one tick and a second and are counted so. `WaiterOverrun`:
every thread that sleeps may add one window to a second, and no more. Two threads, requests of 1
and 2, limits 0 and 1, four ticks, seven bytes: two windows, two sleepers in one of them, and a
limit changed meanwhile.

Cache: `get` and `put` look at `enabled_` before they lock (`Begin`); a miss releases the lock and
takes it again to be counted; `set_ttl` stores the limit without the lock and then evicts what it
makes expire. `put` overwrites the entry of its key, or evicts the least used entries until the new
one fits. The bytes are represented by the place they were read at, so `HitIsOwn` says that a hit is
what the caller asked for. `make_cache_key` is the code's `address XOR (size << Shift)`, a key being
the set of its bits, with a shift of 2 for 32: the addresses of this run cannot collide at that
shift. `WithinBudget`: the byte count is that of the entries, and within the budget as long as
places of different sizes have different keys, as they have here. For keys that do collide,
`HitSharesKey` says what is left of `HitIsOwn`: the bytes of a hit are of a place with the key of the
one asked for. It is proved for every shift (section 7), and the collision is in section 4.

### ValueFreezer (`value_freezer.cpp`, `.hh`): run `ValueFreezer`

One action per public method; the worker tests the flags, copies the map, and for each address in
order writes from its copy and then updates statistics and the time of the last write. The target
(external) writes what it likes; the device may fail a write. The time since the last write is an
age that stops at the largest interval. `LateWriteOnce`: what a user takes back is written at most
once more. `StatsAgree`: the statistics follow the map. `Progress`: a value that stays frozen is in
the target's memory again and again, and the destructor returns. Two addresses, since the round has
an order.

### CircuitBreaker (`circuit_breaker.cpp`, `.hh`): runs `CircuitBreaker`, `CircuitBreakerHang`

`execute` is a test of `allow_request`, the operation, and `record_success` or `record_failure`.
`transition_state` is two steps: the exchange of `state_`, then the update under `mutex_`. From a
record function the second one locks a mutex the thread holds: the thread then blocks for ever, or
the process ends (both are what builds of `std::mutex` do). `OnlyRelockBlocks` says that nothing
else keeps the mutex from the others. `CallAccounting`: calls, results and rejections add up.
`NoEarlyOpen`: a thread that opens the circuit has recorded the last of at least
failure_threshold failures with no success between them, and where the circuit was closed, that many
since it was closed, unless another thread has exchanged `state_` and not cleared the count yet.
`failure_window` is documented as a rolling window and read by nobody: how long the failures took is
a history variable here (`spell`), and `WithinWindow` is in section 4. `CircuitBreakerHang` shows
the self-deadlock. Two threads, four calls, thresholds 1 and 2, one change of configuration.

### The read path (`dma.cpp`, `self_healing.cpp`, `pointer_chain.cpp`, `batch.cpp`, `differ.cpp`): run `Reads`, `BatchTyped`

* `DMAReads`. `read` tests whether there is a cache (`TestCache`), asks it (`Get`), reads the device
  (`VmmRead`), tests again and stores (`Store`), while others invalidate the cache and destroy and
  remake it (`enable_cache`). The pointer is tested and used in two steps with no lock, so a reader
  may be inside a cache that is destroyed; when it goes on (`Trespass`) nothing is known any more and
  the behaviour ends. A value is the process it came from and the number of writes it has seen.
  `ReadsFresh`: a read never returns bytes older than an invalidation that was over when it began,
  but for what a reader had in hand at that time, to be stored yet. That exception is the hazard of
  `dma.cpp:518`, stated as narrowly as it is; that the code has it at all contradicts its comments
  and is in section 4 (`InvalidatedStays`), and so is the destroyed cache (`CacheOutlives`). Two
  readers, two accepted processes and a rejected one, an accepted address and one that
  `is_safe_range` turns away, three reads, one write of each.
* `SelfHealing`. Both retry loops attempt by attempt, each reading the configuration anew;
  reconnection, fallback, health checks. `RetriesCounted`: every way out of a call (success, code,
  exception, configuration changed between two attempts) counts the delays slept once.
  `HealthyTrips`: a check that passed trips the breaker only for failures recorded after its own
  result. Two threads, three calls, two configurations, thresholds of two.
* `PointerChains`. `resolve` and `validate` take three steps for each level: the loop test with the
  read of the pointer (`FollowLevel`), `offsets_[i]` (`AddOffset`), and the check (`CheckLevel`),
  each with the chain as it is then; past the end of the offsets any value is read. An edit writes
  the chain without a lock (`Edit`) and empties the cache afterwards (`InvalidateAfter`). The header
  has other bodies of two edits, which never empty it: `InlineEdit`, in `InlineSpec` alone. The
  manager's mutex is released by hand in `resolve` and again at the end of its scope (`SecondUnlock`;
  unlocking a mutex that another thread holds may free it or do nothing). `ChainsSound`: the cached
  address belongs to the chain as it is, unless an edit has still to empty the cache or met a
  resolution under way; and as many threads are inside the manager as those second unlocks have let
  in.
* `Batch`. The checks, the sort in place, the reads one by one; the typed and the range form.
  `BatchBuffers`: each buffer holds the bytes of its own address or zeros whatever the order of
  service, the pieces of a range meet end to end, the failed requests are those listed. `BatchTyped`
  is a counterexample: the typed form pairs the success of the sorted requests with the buffers in
  the caller's order.
* `Differ`. `diff_buffers_impl` difference by difference, over every content of six bytes and three
  configurations, with and without grouping. `DiffsSound`: differences are in order, apart, start
  and end at a changed byte, and are within the limits; and every changed byte passed is in one of
  them or in a stretch that was left out (`LeftOut`), which is a whole stretch below the least size,
  or one that only the unchanged bytes before its last change have made too long. The second kind is
  no change the configuration asks to ignore (`ChangesReported`, section 4). The live comparison
  reads the region twice while the target writes it.

### The scanners (`dma.cpp`, `parallel_scanner.cpp`, `async.cpp`, `pattern_scanner_enhanced.cpp`, `pattern_library.cpp`): run `Scans`

* `Patterns` holds the three parsers and three matchers as operators. `Signatures` runs
  `find_signature` round by round with the chunk buffer, over all contents of six bytes and some with
  holes, every range, and chunks of four. A read shorter than the pattern makes the unsigned bound of
  the inner loop wrap: the round goes on in stale bytes, then past the buffer, where the process dies
  or a match is found. `SignaturesSound`: otherwise the answer is the lowest match inside one chunk
  (a match across two chunks is missed, and nothing else); and the parsers agree on what they all
  accept. Its `Matches` is a definition of its own, by the memory and not by the scan.
* `ParallelScanner`: two scans on one scanner, every way to split the range, in an address space of
  eight so that sizes wrap; a range may be inverted, which only the text overload refuses.
  `ParallelSound`: the chunks make up the range, and none wraps unless the range does; a wrong answer
  is possible only for a call whose chunks another call, or cancel, has stopped (`stopped` names
  them), and only in the ways listed. That calls stop each other contradicts the header, and so do
  two of these ways: section 4.
* `AsyncScans`: every call of up to three pieces, each absent, present or throwing. `AsyncSound`:
  the future gives the first match, an exception only if one comes before it, "not found" only if
  there is none or the caller cancelled; progress never falls, and ends with the range.
* `EnhancedScanner`: `EachOnce`: whatever is reported lies in the range, once and in the order of
  the addresses, and up to the place reached it is all there is, occurrences across two chunks
  included, while no read failed and the pattern fits into a chunk. `PatternAsAsked`: a scan works
  with the pattern it was asked for, a multi-scan with those of the first one since the cache was
  cleared, which is what keys by position leave of it (`MultiAsAsked`, section 4). The range begins
  far from the end or just before it, patterns may be longer than a chunk and than the range, and the
  place may go back before its start. A scan for two bytes or more goes on for ever behind the
  last chunk (`ScanReturns`, section 4).
* `PatternLibrary`: a line of the file is cut at each `|`, a name that holds one included, lines
  without their fields are skipped, and the first that is refused ends the load. `EntriesUsable`:
  however the entries came in, they are within the limit, and both parsers accept them and read them
  alike. `LibraryCounts`: `total_patterns` lags behind by what failed loads have stored
  (`uncounted`), and searches that do not overlap are counted. `ComesBack`: a load of what was
  saved gives what the lines are read as. Names: two plain, one with `#`, two with `|` of which
  one leaves a pattern that is valid and one a pattern that is not.

### What surrounds a DMA object (`dma.cpp`, `offset_finder.cpp`, `file_sink.cpp`, `metrics.cpp`, `process.cpp`, `mock_dma.cpp`): run `Toolkit`

* `DMAObject`: the constructor part by part (it may throw between any two), the settings that make
  and destroy the cache and the limiter whoever is inside them (`inside`), the members destroyed
  against the order of their declaration, the logger first, and five registries of tools.
  `NothingDangles`: what uses a part goes before it, in every order that happens, but for the logger
  while the object is destroyed; a pointer handed out stays good unless a destroy function was asked
  to free that tool. The exceptions are rows of section 4 (`LoggerOutlives`, `MembersOutlive`,
  `PointersLive`). Two callers, three tools: enough for a tool destroyed between the two look-ups of
  `create_offset_finder`.
* `Offsets`: one module that is loaded, moved and patched, one signature, two names. Each name asks
  for the list while there is none, so an update or an import may work for the later names only
  (`blind` are the others). `PortableOffsets`: an offset found with a fresh list stays the place of
  the signature wherever the module is loaded, until it is patched; an absolute address from a fresh
  list is the signature's.
* `FileSink`: a sink of up to three old files, with renames that throw half way, files that do not
  open, restarts and crashes. `KeptInOrder`: the files, oldest first, hold the lines in order, and
  only lines older than these are gone but for the buffer a crash took.
* `Metrics`: two threads in the compare-and-exchange loops of reads, in failed reads and in scans,
  and a reset store by store. `MetricsAgree`: no mark is lost; scans and outcomes, and operations
  with failures, successes and cache hits, add up but for the calls a reset ran beside. `AskedSpec`
  adds a thread in the two loads of get_successful_reads (`SuccessesFit`, section 4).
* `Scatter`: two handles whose values the library hands out again. `NothingMissed`: an
  `execute_scatter` that answers TRUE has left out no request.
* `MockDMA`: regions at the limit of the memory. `MockUsage`: the bytes counted are those of the
  regions and within the limit, until a region could not be replaced.

All configurations disable the deadlock check, each with its reason in a comment or in
section 5: callers may stop calling, bounds end the counters, and objects are destroyed.

## 4. Divergences

A listed run that ends in a violation, and each row here, is a place where a comment of the code and
the code differ. Those that matter most are `findings` of `PROJECT.json`, also the ones without a
listed run; all can be reproduced as given. Where a property of section 3 states the exact extent, it
is named.

| Configuration and module | Property | What TLC finds |
|---|---|---|
| `LoggerFlush`, `MCLogger` | `FlushWaits` | flush returns while the worker holds a pending message (`logger.hh:265`); extent: `FlushGap` |
| `ThreadPoolWait`, `ThreadPool` | `WaitWaits` | wait_all returns while a worker holds a task it has not counted (`async.hh:91`); extent: `WaitGap` |
| `ThreadPoolCount`, `ThreadPool` | `ActiveCount` | a running task counts twice in get_active_count (`async.hh:97`); extent: `CountedTwice` |
| `RateLimiterBurst`, `RateLimiter` | `InstantBound` | sleepers of one window are granted at one instant (`rate_limiter.hh:31`); extent: `WaiterOverrun` |
| `MemoryCacheCollision`, `MemoryCache` | `HitIsOwn` | two places share a key and `get` compares neither address nor size (`cache.cpp:198`) |
| `ValueFreezerDisputed`, `ValueFreezer` | `PausedMeansNoWrite` | a round goes on writing after pause_all (`value_freezer.hh:141`); extent: `LateWriteOnce` |
| same | `PausedStat` | paused_values counts entries that are gone (`value_freezer.hh:53`) |
| same | `UnfreezeAllStops` | unfreeze_all leaves the worker running (`value_freezer.hh:136`) |
| `CircuitBreakerDisputed`, `MCCircuitBreaker` | `StaysOpen` | a request just after the change sees OPEN with the time of the previous change and leaves it at once (`circuit_breaker.hh:97`) |
| same | `ClosesAfterTrial` | successes of the previous state count in HALF_OPEN (`circuit_breaker.hh:100`) |
| same | `TestFailureReopens` | a failed test does not open the circuit (`circuit_breaker.cpp:92`) |
| same | `ResetOnChange` | a circuit just closed opens for failures of the time before (`circuit_breaker.cpp:120`); extent: `NoEarlyOpen` |
| same | `WithinWindow` | failures of any distance open the circuit, failure_window is read nowhere (`circuit_breaker.hh:103`) |
| same | `StatsState` | current_state differs from the state for good (`circuit_breaker.hh:132`) |
| `SPECIFICATION ReadsSpec` of `DMAReads`, constants of `Reads` | `InvalidatedStays` | a read under way stores what it read before the invalidation (`cache.hh:67`); extent: `ReadsFresh` |
| same | `CacheOutlives` | a reader goes on in a cache that enable_cache(false) destroyed (`README.md:115`) |
| `SPECIFICATION HealingSpec` of `SelfHealing`, constants of `Reads` | `ErrorsReported` | a code returned through the breaker is taken for a success (`self_healing.cpp:124`) |
| `SPECIFICATION ChainSpec` of `PointerChains`, constants of `Reads` | `OneInside` | two threads inside the manager's critical sections (`pointer_chain.cpp:306`); extent: `ChainsSound` |
| same | `EditForcesResolve` | a resolution under way stores the old chain's address after an edit (`pointer_chain.hh:113`); extent: `ChainsSound` |
| same | `OffsetsInRange` | clear_offsets comes between the loop test and `offsets_[i]` (`README.md:115`) |
| `SPECIFICATION InlineSpec` of `PointerChains`, constants of `Reads` | `CacheOfThisChain` | the header's own edits leave the address of the old chain in the cache (`pointer_chain.hh:98`, `:103`) |
| `SPECIFICATION OffsetsSpec` of `Offsets`, constants of `Toolkit` | `UpdateFindsAll` | update_all_offsets works with the list from before the module moved (`offset_finder.cpp:125`) |
| `SPECIFICATION MockSpec` of `MockDMA`, constants of `Toolkit` | `MockLimit` | a refused replacement lowers the count of used bytes (`mock_dma.cpp:106`); extent: `MockUsage` |
| `SPECIFICATION DifferSpec` of `Differ`, constants of `Reads`, two comparisons | `PercentageBounded` | bytes_changed grows over several calls and passes the bytes compared |
| `SPECIFICATION DifferSpec` of `Differ`, constants of `Reads` | `ChangesReported` | with grouping, a stretch grown too long over a gap is dropped whole (`docs/archive/IMPLEMENTED_FEATURES.md:159`); extent: `DiffsSound` |
| `SPECIFICATION ConcurrentSpec` of `ParallelScanner`, constants of `Scans` | `NothingCancelled` | a scan nobody cancelled answers operation_canceled (`parallel_scanner.hh:58`, `:207`); extent: `SharedCancel` |
| `SPECIFICATION ParallelSpec` of `ParallelScanner`, constants of `Scans` | `AbsentIsSearched` | the compiled overload answers "not found" for chunks it skipped (`parallel_scanner.hh:139`); extent: `SharedCancel` |
| same | `InvertedRefused` | the compiled overload searches around the address space where end is before start (`parallel_scanner.hh:130`) |
| `SPECIFICATION EnhancedSpec` of `EnhancedScanner`, constants of `Scans` | `MultiAsAsked` | a second multi-scan looks for the patterns of the first (`pattern_scanner_enhanced.hh:126`); extent: `PatternAsAsked` |
| `SPECIFICATION EnhancedFairSpec` of `EnhancedScanner`, constants of `Scans` | `ScanReturns` | a scan for two bytes or more reads its last chunk for ever (`pattern_scanner_enhanced.hh:109`, `pattern_scanner_enhanced.cpp:174-178`) |
| `INIT LibraryInit`, `NEXT LibraryNext` of `PatternLibrary`, constants of `Scans` | `SavedIsLoaded` | names with `#` or a bar are not loaded as they were saved (`pattern_library.hh:96`, `:108`); extent: `ComesBack` |
| same | `TotalIsSize` | a load that fails half way stores entries it does not count (`pattern_library.hh:161`); extent: `LibraryCounts` |
| `SPECIFICATION ObjectSpec` of `DMAObject`, constants of `Toolkit` | `LoggerOutlives` | the logger is destroyed while freezers still run (`dma.hh:331`) |
| same | `MembersOutlive` | a setting destroys the cache or the limiter under a read (`dma.cpp:935`, `:1103`) |
| same | `PointersLive` | callers and offset finders keep pointers to freed tools (`dma.cpp:1195-1199`, `README.md:114`); extent: `NothingDangles` |
| `SPECIFICATION AskedSpec` of `Metrics`, constants of `Toolkit` | `SuccessesFit` | get_successful_reads wraps (`metrics.cpp:68`, `metrics.hh:11`) |

Seen while modelling and translated as they are, without a property: where two places of different
sizes share a key, `put` overwrites one entry with the other and makes no room, so the cache passes
its budget (`cache.cpp:62-75`; `WithinBudget` names the case); `is_safe_range` is given an address
and a size where it takes start and end (`dma.cpp:390`), so reads pass only at addresses below their
size; `max_retry_attempts` of 0 returns without running the operation (`self_healing.cpp:116-119`);
a `max_change_size` of 0 never advances (`differ.cpp:338`; the configurations here begin at 2); a
full cache drops the entries with the fewest hits, the oldest first among equals, where
`cache.hh:32` speaks of the least recently used; the start of a parallel scan clears the flag, and
with it a cancel meant for another scan, and a scan that its caller runs alone never looks at the
flag; the enhanced scanner does not find a pattern longer than a chunk. Outside the models: the
threshold and the timeout that a builder is given for its breaker (`builder.hh:149-150`) are stored
and never applied; the bodies of two edits of `PointerChain` are in the header and in the `.cpp`,
which do not compile together, and a chain holds a `std::mutex`, so the copies that the manager
makes need a copy constructor it has not; `docs/API_REFERENCE.md:366` and `:475` multiply by 100
what `get_success_rate` answers in percent.

## 5. Fairness

Weak fairness of a thread's step: the operating system keeps running what can run. The logger's
clients and the freezer's writes have strong fairness: a mutex that others take and release again and
again is obtained at some time, and a device does not fail every write for ever. No fairness is
assumed of calls, of spurious wakeups, of the target, or of anything a user decides; in the breaker,
every thread inside a call moves on when it can, and the operation it runs ends. The modules of
`Traffic`, `Reads`, `Scans` and `Toolkit` are checked for safety: what would never end there (a
reader that gets no turn, a VMM call that hangs) is decided outside the code, and what does not end
for the code's own reasons is in section 4 (`ScanReturns`, under the fairness of the caller's own
thread).

## 6. Bounds

The bounds are stated with the runs. They are chosen so that the case a property is about happens:
each property has a mutant of the code in `PROJECT.json`, a change a plausible bug would make to one
mapped definition, and the run with that change refutes the property, so the instance is large
enough to tell the two apart. Symmetry is declared for threads and clients that appear in no
configuration value, and never in a run with liveness.

## 7. Proofs

All from the named assumptions of the component's module and those it extends alone, for all values
of the constants:

| Module | Part | Theorems | Inductive invariant |
|---|---|---|---|
| `LoggerProofs` | | `LoggerTyped`, `MessagesCounted`, `SinksInOrder`, `FlushGapOnly`, `ShutdownDrained` | `LoggerInv` |
| `ThreadPoolProofs` | | `TypeCorrect`, `NoTaskLost`, `CountIsTwofold`, `ShutdownIsComplete`, `WaitGapOnly`, `PoolImplementsBag` | `Inv`, with `CountedTwice` |
| `CircuitBreakerProofs` | | `BreakerTyped`, `CallsCounted`, `RelockOnly`, `OpensInTime` | `BreakerInv` |
| `ValueFreezerProofs` | | `FreezerTyped`, `OneLateWrite`, `StatsFollowMap` | `FreezerInv` |
| `ReadsProofs` | reads | `ReadsTyped`, `ReadsAreFresh` | `ReadsInv` |
| | rate limiter | `LimiterTyped`, `LimiterBounded`, `OverrunBounded` | `LimiterInv`, `OverrunInv` |
| | cache | `CacheTyped`, `BudgetIsKept`, `HitsShareKeys` | `CacheInv` |
| | self healing | `RetriesAreCounted`, `HealthyTripsLater` | `HealingInv` |
| | pointer chains | `ChainsAreSound` | `ChainsInv` |
| | batches | `BuffersAreRight` | `BatchInv` |
| | differ | `DiffsAreSound` | `DiffInv` |
| `ToolkitProofs` | metrics, scatter | `MetricsAgreement`, `ScatterComplete` | `MetricsInv`, `ScatterInv` |
| | mock | `MockCounts` | `MockInv` |
| | DMA object | `NothingEverDangles` | `ObjectInv` |
| | offsets | `OffsetsArePortable` | `OffsetsInv` |
| | file sink | `LinesStayInOrder` | `SinkInv` |
| `ScansProofs` | parallel scanner | `ParallelIsSound` | `ParallelInv` |
| | asynchronous scans | `AsyncIsSound` | `AsyncInv` |
| | signatures | `SignaturesAreSound` | `SignatureInv` |
| | enhanced scanner | `EnhancedIsSound` | `EnhancedInv`, with `ScanOK` |
| | pattern library | `LibraryIsSound` | `LibraryInv` |
| `Sums` | | lemmas only | |

What the assumptions ask of the code: sets of threads, and sets that a sum or a maximum ranges
over, are finite; a lock that is free has no owner among the threads; the budget of `MockDMA` and one
region more fit the width of its counter; lists, ranges and configurations have their types. A
`max_change_size` is at least 1, because with 0 the comparison never ends (`differ.cpp:338`).
The ranges of the enhanced scanner and its patterns are together shorter than the address space, and
the key of a text, which is in upper case, is no `pattern_` with a number (`KeysApart`). No theorem
has a hypothesis of its own.

Why an invariant is needed beyond the property, part by part:

* Logger. `SinkOrder` speaks of the sinks only; a message must be known to be behind its thread's
  earlier ones while it is queued (`Order`) and to be the last of its thread when it is pushed
  (`Numbers`: every message that has left a client is older than the one it carries). `Carried` says
  that the worker writes a message and not an empty hand. `Stages` ties worker and clients to the
  destructor: a worker that is done leaves an empty queue behind and no client logs any more, from
  which `ShutdownDrains` follows by `Accounting`. One lemma per kind of step.
* Thread pool. `Inv` adds `Shutdown` (a worker leaves only from an empty queue of a stopped pool,
  which then stays empty but for what a running worker enqueues and is refused) and `Owing` (what a
  waiting client is owed was accepted). The counter needs cardinalities: each step changes it and
  the sets of counting and wrapping workers together. The refinement takes each step of the pool to
  a step of the bag or a stutter; the invariant gives the guards of the bag (a task that is run was
  taken and has not run; the bag is empty when it closes).
* Circuit breaker. The count of calls is the sum of results, rejections and threads in flight; a
  lemma (`MoveInFlight`) says what one thread's step does to the size of that set, and each step is
  one of its three cases. `Consecutive` gives the action property `NoEarlyOpen`:
  consecutive_failures is never more than the failures recorded since the last success (`run`), nor,
  in a closed circuit, than those recorded since it was closed (`own`), unless a change to CLOSED is
  half done (`Closing`).
* Value freezer. `NoSecond`: an address that was written late is not to be written from the copy
  again in this round, unless with a value that is wanted, and the next copy comes from the map;
  `Copied`: the copy holds a value of whatever the round has left.
* Reads. `CacheFine` and `HandsFine`: what is cached, or about to be, is no older than what the last
  invalidation noted; what a reader holds, no older than what it noted when it began. `Floors`: what
  an invalidation notes is never ahead of memory. `Asking`: a reader has a value from the moment it
  got one, and of a cell that the validator accepts.
* Rate limiter. `Asked`: a thread inside wait_if_needed was called with one of the requests, so a
  counter that is zero may be charged with it; the types say that `last_reset_` is never ahead of
  the clock and that a wait lies within a second. `WaiterOverrun` needs a bound for every tick of
  the last second and not only for its first (`WindowGrants`): what was granted since then is what
  the counter shows, and one window more for each thread that has started one by waking (`Spent`). A
  thread that goes to sleep in this window cannot wake to start another one within the second, so
  each is spent once.
* Cache. `Filed`: an entry is filed under the key of its own bytes, so what an overwrite puts in
  their place has their size. All ways out of the cache take a set of entries (`EntriesGo`), whose
  bytes are those of all less those of the rest (`SumSplit`). A hit is `HitSharesKey` by the same
  `Filed`.
* Self healing. A retry is counted in two places, step by step in the thread and at once in the
  total: the invariant is about the sum of the attempts of all threads. `CountGivenUp`: a thread
  outside the loop adds nothing to it. `HealthyTrips` is inductive beside them.
* Pointer chains. `WalksKnown`: what is being resolved is the chain as it is, or one whose edit has
  noted that it was (`raced`); `CacheOfThisChain` carries that to the cache when it is stored.
  `WalksPlaced`: only a resolution of the shared chain stores. `InsideCounted` counts the threads
  in the manager by the second unlocks.
* Batches. `Slotted`: sorted in any way, cut into pieces or not, each request keeps the buffer of the
  place where the caller gave it. Nothing is assumed of the order of equal addresses, since
  `std::sort` promises none.
* Differ. `Scanned` is about the place reached: every changed byte behind it is reported or in a
  stretch left out, and `LeftBehind` says that the scan never stops near a change unless it cut a
  stretch there, so the next stretch begins where one may. A difference ends at the least place
  where it may, so `Extent` needs no recursion and what lies inside is known from all smaller places
  not being an end.
* Metrics. `Marked` and `Improves`: a thread past a loop has left its mark, and one about to exchange
  improves on the value it loaded; `Wiping`: no read counts while a reset clears the extremes.
  `Outcomes` and `Balances` bound what scans and reads under way can add to counters that a reset has
  cleared already, store by store.
* Scatter. `Counting`: a count of zero owes nothing; `Delivered`: what is owed is prepared or done.
* Mock. The counter is kept modulo its width; that the sum of the regions stays below it is part of
  the property until something was refused, so nothing wraps where it matters.
* DMA object. `BuiltParts` reads the order of the members once; `Registries` and `FindersOnly` say
  that tools in a registry are alive and that only offset finders point to other tools;
  `FindingKnown` is about the caller between the two look-ups. `Logging`: the logger is there until
  the destruction begins.
* Offsets. `Apart`: modules do not overlap, so a match inside a module is its own site. `Follows`: a
  fresh list is where the modules are. `FineOffset` carries an offset through the store, the file and
  back, whichever names of an update or an import find the list.
* File sink. The invariant orders the files by age (`Texts`, the buffer youngest): each text is
  increasing, each older text is below the younger ones, and what is gone is older still or was lost
  in a crash. A lemma for each thing that can happen to a list of texts: one grows, two are joined,
  one is dropped, all move by one.
* Parallel scanner. `CallOK` says for each call what the word of a worker is worth (`Truthful`), and
  what the words already collected leave open (`Collecting`); only the flag connects two calls, and
  `stopped` names the chunks it may have stopped. `Cover` needs only that a size is divided evenly
  but for the last chunk.
* Asynchronous scans. `Searched`, `RegionsKnown` and `Measured`: what the pieces behind a scan hold,
  what the futures of the regions hold, and how far the progress told is from the end.
* Patterns. What the parsers make of a text has no recursion left: the flattened text is the last of
  a row of prefixes (`Flattens`), which exists and grows by one token at a time, and the offsets a
  matcher reports are the one increasing list of a finite set (`AscendingIs`). `TokenAgrees` compares
  the parsers token by token, `SignatureAgrees` and `IdaAgrees` text by text.
* Signatures. `NoneBehind`: the start of a round is a multiple of the chunk away from the start of
  the range, and no match that lies inside one chunk lies before it (`RoundFinds`, `RoundAnswers`).
  A read shorter than the pattern spoils this for the text overload alone (`ShortRead`).
* Enhanced scanner. `ScanOK`: what has been reported up to the place reached is what lies there in
  readable memory, and is all below that place, so the next chunk reports nothing again; with an
  overlap of one byte less than the pattern, a place is decided in exactly one chunk
  (`ChunkDecides`). It also bounds how far the place goes back: before the start of the range only
  so near the end that what is left is shorter than the pattern, so nothing is found there.
  `CacheOK` says that the key of a text leads to its pattern, whichever text with that key was
  compiled, and `MultiKnown` that the keys by position lead to the patterns of the first multi-scan.
* Pattern library. `EntriesValid` and `RoomToCount`: what is stored passed the validation, and each
  counter is behind the searches by at least those about to store it, so a store of a stale value
  cannot pass them. `PatternsCounted`: a load adds to `uncounted` what it stores and does not count.
  `FileKnown` ties the lines of a saved file to what was saved: each line is an entry that was
  saved, and each entry has a line, so a load that takes all lines restores them.

Sums (`MapThenSumSet`) are defined by a function that the definition chooses; `Sums` shows that it
exists and that any element may be taken first, each by way of a smallest set for which it would be
false. This uses well-founded sets and no induction over an operator.

Only model-checked: all liveness (`ENABLED` and fairness are out of the prover's reach), and
`HitIsOwn`, which holds for the addresses of its run only; `HitsShareKeys` is what holds for all.
Every other invariant, and every safety property of steps, that a passing run checks is a theorem.

## 8. Not modelled

* Health monitor (`health_simple.cpp`): checks that read metrics and the device, and an
  unsynchronised history. `health.cpp`, `dumper.cpp` and their DMA integrations are not compiled by
  `ArgoSentry.vcxproj`.
* Memory layouts and structures: data behind one mutex, or fixed answers. Configuration and builder:
  sequential parsing and assembly.
* `Process` and `InputState` beyond the scatter requests: calls into the VMM library. Writes of `DMA`
  check their arguments and call that library.
* `find_signatures_parallel`, `OffsetDatabase`, the comparison of two module lists, the console sink:
  see the notes in `PROJECT.json`.
* Data the properties do not tell apart: message text, formats, the bytes of a payload, the values
  futures carry, exceptions of allocation, jumps of the wall clock (the breaker uses `system_clock`;
  the model's clock goes forward). Library calls (VMM, file system, condition variables) are modelled
  by what `src/` can observe of them, and marked external in the map.
