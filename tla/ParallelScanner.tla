-------------------------- MODULE ParallelScanner --------------------------
(***************************************************************************)
(* ParallelScanner (parallel_scanner.cpp): scans that threads run at the   *)
(* same time on one scanner.  All of them share cancel_flag_: a scan       *)
(* clears it when it begins, and sets it when it has found the pattern.    *)
(*                                                                         *)
(* A step is one access to the flag, one chunk scanned (DMA::find_signature*)
(* of Signatures, here by its answer), or one future collected.  Addresses *)
(* wrap at AddressSpace, as their differences do.                          *)
(***************************************************************************)
EXTENDS Integers, FiniteSets, Sequences

CONSTANTS
  Scans,         \* calls of find_signature_parallel, each by its own thread
  ThreadCount,   \* thread_count_: 1 .. 32
  Ranges,        \* the ranges scanned: <<start, end>>
  Requests,      \* values of num_threads, 0 for the default
  MIN_CHUNK_SIZE,
  AddressSpace   \* 2^64

ASSUME ParallelAssumption ==
  /\ ThreadCount \in 1 .. 32 /\ Requests \subseteq Nat
  /\ MIN_CHUNK_SIZE \in Nat \ {0} /\ AddressSpace \in Nat \ {0}
  /\ Ranges \subseteq (0 .. AddressSpace - 1) \X (0 .. AddressSpace - 1)

VARIABLES
  cancel_flag_,
  call,          \* each call: overload, range, chunks, and which of them hold the pattern
  worker,        \* each call: what became of each chunk's worker
  next,          \* each call: the future collected next
  answer,        \* each call: its ScanResult
  phase,         \* each call: "idle", "collect", "join" or "returned"
  stopped        \* history, each call: chunks still to ask for the flag when another call
                 \* or cancel set it, until they ask and find it cleared

parallel_vars == <<cancel_flag_, call, worker, next, answer, phase, stopped>>

NoCall == [compiled |-> FALSE, range |-> <<0, 0>>, chunks |-> <<>>, holds |-> {}]
None == [kind |-> "none", chunk |-> 0]
Answer(kind, i) == [kind |-> kind, chunk |-> i]

ParallelInit ==
  /\ cancel_flag_ = FALSE
  /\ call = [c \in Scans |-> NoCall]
  /\ worker = [c \in Scans |-> <<>>]
  /\ next = [c \in Scans |-> 1]
  /\ answer = [c \in Scans |-> None]
  /\ phase = [c \in Scans |-> "idle"]
  /\ stopped = [c \in Scans |-> {}]

-----------------------------------------------------------------------------
(* How a range is divided *)

Threads(compiled, num_threads) ==
  IF num_threads = 0 \/ (~compiled /\ num_threads > ThreadCount)
    THEN ThreadCount ELSE num_threads

\* A short range, or a single thread in the text overload, is scanned by the caller.
Alone(compiled, size, num_threads) ==
  LET n == Threads(compiled, num_threads) IN
  IF compiled THEN size < MIN_CHUNK_SIZE * n ELSE size < MIN_CHUNK_SIZE \/ n = 1

\* The text overload takes fewer threads rather than chunks below the least size.
WorkerCount(compiled, size, num_threads) ==
  LET n == Threads(compiled, num_threads) IN
  IF ~compiled /\ size \div n < MIN_CHUNK_SIZE THEN size \div MIN_CHUNK_SIZE ELSE n

\* range_end - range_start, unsigned: an inverted range is almost the whole address space.
RangeSize(range) == (range[2] - range[1]) % AddressSpace

Inverted(range) == range[1] >= range[2]

Chunks(range, n) ==
  LET size == RangeSize(range) \div n
      border(i) == (range[1] + i * size) % AddressSpace IN
  [i \in 1 .. n |-> <<border(i - 1), IF i = n THEN range[2] ELSE border(i)>>]

-----------------------------------------------------------------------------
\* The caller scans the whole range itself.  A range without bytes is an error at once in
\* the text overload, and in the other one when DMA::find_signature throws.
FindAlone(c, compiled, range, num_threads, holds) ==
  LET refused == ~compiled /\ Inverted(range) IN
  /\ phase[c] = "idle"
  /\ refused \/ Alone(compiled, RangeSize(range), num_threads)
  /\ cancel_flag_' = IF compiled THEN FALSE ELSE cancel_flag_
  /\ call' = [call EXCEPT ![c] = [compiled |-> compiled, range |-> range,
                                  chunks |-> <<range>>, holds |-> holds]]
  /\ \/ answer' = [answer EXCEPT ![c] = Answer("error", 0)]
     \/ /\ ~Inverted(range)
        /\ answer' = [answer EXCEPT ![c] =
                        IF holds = {} THEN Answer("absent", 0) ELSE Answer("found", 1)]
  /\ phase' = [phase EXCEPT ![c] = "returned"]
  /\ UNCHANGED <<worker, next, stopped>>

\* Only the text overload looks at the order of the two addresses.
FindParallel(c, compiled, range, num_threads, holds) ==
  LET n == WorkerCount(compiled, RangeSize(range), num_threads) IN
  /\ phase[c] = "idle"
  /\ compiled \/ ~Inverted(range)
  /\ ~Alone(compiled, RangeSize(range), num_threads)
  /\ cancel_flag_' = FALSE
  /\ call' = [call EXCEPT ![c] = [compiled |-> compiled, range |-> range,
                                  chunks |-> Chunks(range, n), holds |-> holds]]
  /\ worker' = [worker EXCEPT ![c] = [i \in 1 .. n |-> "new"]]
  /\ next' = [next EXCEPT ![c] = 1]
  /\ answer' = [answer EXCEPT ![c] = None]
  /\ phase' = [phase EXCEPT ![c] = "collect"]
  /\ UNCHANGED <<stopped>>

SetWorker(c, i, to) == worker' = [worker EXCEPT ![c][i] = to]

\* Worker i asks for the flag for the last time, or ends without.
NotStopped(c, i) == stopped' = [stopped EXCEPT ![c] = @ \ {i}]

\* The flag before the chunk: a worker of the compiled overload answers "not found".
WorkerStart(c, i) ==
  /\ worker[c][i] = "new"
  /\ SetWorker(c, i, IF ~cancel_flag_ THEN "scanning"
                     ELSE IF call[c].compiled THEN "skipped" ELSE "cancelled")
  /\ IF call[c].compiled /\ ~cancel_flag_ THEN NotStopped(c, i) ELSE UNCHANGED stopped
  /\ UNCHANGED <<cancel_flag_, call, next, answer, phase>>

\* The chunk, which may throw and does if it wraps, and in the text overload the flag again.
WorkerScan(c, i) ==
  /\ worker[c][i] = "scanning"
  /\ \/ SetWorker(c, i, "error") /\ NotStopped(c, i)
     \/ /\ ~Inverted(call[c].chunks[i])
        /\ ~call[c].compiled /\ cancel_flag_
        /\ SetWorker(c, i, "cancelled") /\ UNCHANGED stopped
     \/ /\ ~Inverted(call[c].chunks[i])
        /\ call[c].compiled \/ ~cancel_flag_
        /\ SetWorker(c, i, IF i \in call[c].holds THEN "found" ELSE "absent")
        /\ NotStopped(c, i)
  /\ UNCHANGED <<cancel_flag_, call, next, answer, phase>>

Running == {c \in Scans : phase[c] \in {"collect", "join"}}

\* Whether worker i has still to ask for the flag: in the text overload it asks twice.
StillAsks(c, i) == worker[c][i] \in IF call[c].compiled THEN {"new"} ELSE {"new", "scanning"}

\* The flag is set, and the chunks of others that it may stop are noted.
StopAll(others) ==
  /\ cancel_flag_' = TRUE
  /\ stopped' = [c \in Scans |->
       IF c \notin others THEN stopped[c]
       ELSE stopped[c] \cup {i \in DOMAIN worker[c] : StillAsks(c, i)}]

\* Mutant of Passes: an error of one chunk does not end the call.
PassesErrors(result) == result \in {"absent", "skipped", "error"}

\* Results after which the next future is collected.
Passes(result) == result \in {"absent", "skipped"}

\* future.get() in the order of the chunks.
Collect(c) ==
  LET result == worker[c][next[c]]
      last == next[c] = Len(worker[c]) IN
  /\ phase[c] = "collect"
  /\ result \notin {"new", "scanning"}
  /\ answer' = [answer EXCEPT ![c] =
       IF ~Passes(result) THEN Answer(result, next[c])
       ELSE IF last THEN Answer("absent", 0) ELSE @]
  /\ phase' = [phase EXCEPT ![c] = IF last \/ ~Passes(result) THEN "join" ELSE @]
  /\ next' = [next EXCEPT ![c] = IF last \/ ~Passes(result) THEN @ ELSE @ + 1]
  /\ IF result = "found" THEN StopAll(Running \ {c}) ELSE UNCHANGED <<cancel_flag_, stopped>>
  /\ UNCHANGED <<call, worker>>

\* The futures' destructors wait for every worker.
Join(c) ==
  /\ phase[c] = "join"
  /\ \A i \in DOMAIN worker[c] : worker[c][i] \notin {"new", "scanning"}
  /\ phase' = [phase EXCEPT ![c] = "returned"]
  /\ worker' = [worker EXCEPT ![c] = <<>>]
  /\ next' = [next EXCEPT ![c] = 1]
  /\ UNCHANGED <<cancel_flag_, call, answer, stopped>>

cancel ==
  /\ StopAll(Running)
  /\ UNCHANGED <<call, worker, next, answer, phase>>

reset_cancel ==
  /\ cancel_flag_' = FALSE
  /\ UNCHANGED <<call, worker, next, answer, phase, stopped>>

\* The chunks that do not wrap.
Readable(compiled, range, num_threads) ==
  LET chunks == Chunks(range, WorkerCount(compiled, RangeSize(range), num_threads)) IN
  {i \in DOMAIN chunks : ~Inverted(chunks[i])}

ParallelNext ==
  \/ \E c \in Scans, compiled \in BOOLEAN, range \in Ranges, num_threads \in Requests :
       \/ \E holds \in {{}, {1}} : FindAlone(c, compiled, range, num_threads, holds)
       \/ \E holds \in SUBSET Readable(compiled, range, num_threads) :
            FindParallel(c, compiled, range, num_threads, holds)
  \/ \E c \in Scans : \E i \in DOMAIN worker[c] : WorkerStart(c, i) \/ WorkerScan(c, i)
  \/ \E c \in Scans : Collect(c) \/ Join(c)
  \/ cancel \/ reset_cancel

ParallelSpec == ParallelInit /\ [][ParallelNext]_parallel_vars

-----------------------------------------------------------------------------
\* The chunks of a call lie end to end and make up its range, whatever the number of
\* threads asked for and however the remainder falls; none is empty or wraps, if the range
\* is not inverted.
ChunksCover ==
  \A c \in Scans : phase[c] # "idle" =>
    LET chunks == call[c].chunks IN
    /\ chunks[1][1] = call[c].range[1]
    /\ chunks[Len(chunks)][2] = call[c].range[2]
    /\ \A i \in 1 .. (Len(chunks) - 1) : chunks[i][2] = chunks[i + 1][1]
    /\ ~Inverted(call[c].range) => \A i \in DOMAIN chunks : ~Inverted(chunks[i])

\* Scans that share the flag disturb each other, and only so far: a call answers "found"
\* with the first chunk that holds the pattern and "not found" when none does, but that the
\* compiled overload passes over chunks whose worker had not begun when another call, or
\* cancel, set the flag; and "cancelled" only for a chunk that was still at work then.
SharedCancel ==
  \A c \in Scans : phase[c] = "returned" =>
    LET passed == IF answer[c].kind = "absent" THEN call[c].holds
                  ELSE {i \in call[c].holds : i < answer[c].chunk} IN
    /\ answer[c].kind = "found" => answer[c].chunk \in call[c].holds
    /\ answer[c].kind \in {"found", "absent"} /\ passed # {}
         => call[c].compiled /\ passed \subseteq stopped[c]
    /\ answer[c].kind = "cancelled" => ~call[c].compiled /\ answer[c].chunk \in stopped[c]

\* Both: each call searches its whole range, and answers for what it searched.
ParallelSound == ChunksCover /\ SharedCancel

-----------------------------------------------------------------------------
(* Documented, and not so *)

\* "Multiple calls can run concurrently" (parallel_scanner.hh:58, :112), and a scan ends with
\* operation_canceled because it was cancelled (:116, :207): where nobody calls cancel, no
\* call does.  Violated by the match of another call.
ConcurrentSpec == ParallelInit /\ [][ParallelNext /\ ~cancel]_parallel_vars

NothingCancelled == \A c \in Scans : answer[c].kind # "cancelled"

\* "ScanResult with address (0 if not found)" (parallel_scanner.hh:139): violated by a call
\* that reports as searched what its workers skipped.
AbsentIsSearched ==
  \A c \in Scans : phase[c] = "returned" /\ answer[c].kind = "absent" => call[c].holds = {}

\* "Same as string version" (parallel_scanner.hh:130), which refuses start >= end: violated by
\* the compiled overload, which searches the addresses outside the range.
InvertedRefused ==
  \A c \in Scans : phase[c] = "returned" /\ Inverted(call[c].range) => answer[c].kind = "error"
=============================================================================
