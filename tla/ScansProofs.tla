----------------------------- MODULE ScansProofs -----------------------------
(***************************************************************************)
(* Proofs about the scanners, the parsers and matchers they share, and the *)
(* pattern library; for any ranges, chunks, contents, texts and threads.   *)
(***************************************************************************)
EXTENDS ParallelScanner, AsyncScans, Signatures, EnhancedScanner, PatternLibrary,
        Sums

-----------------------------------------------------------------------------
(***************************************************************************)
(* Proofs about ParallelScanner, for any calls, ranges and contents.       *)
(*                                                                         *)
(* A call asks its workers in the order of the chunks. Truthful says what  *)
(* the word of a worker is worth, Collecting what the words already asked  *)
(* leave open; the flag is set only by a call that has its answer or by    *)
(* cancel, and stopped names the calls it may have stopped.                *)
(***************************************************************************)
WorkerStates == {"new", "scanning", "skipped", "cancelled", "error", "found", "absent"}

Pairs == Seq(Int \X Int)
Call == [compiled : BOOLEAN, range : Int \X Int, chunks : Pairs, holds : SUBSET Nat]

ParallelTypeOK ==
  /\ cancel_flag_ \in BOOLEAN
  /\ call \in [Scans -> Call]
  /\ worker \in [Scans -> Seq(WorkerStates)]
  /\ next \in [Scans -> Nat]
  /\ answer \in [Scans -> [kind : WorkerStates \cup {"none"}, chunk : Nat]]
  /\ phase \in [Scans -> {"idle", "collect", "join", "returned"}]
  /\ stopped \in [Scans -> SUBSET Nat]

\* The chunks lie end to end in the range.
Cover(range, chunks) ==
  /\ chunks[1][1] = range[1]
  /\ chunks[Len(chunks)][2] = range[2]
  /\ \A i \in 1 .. (Len(chunks) - 1) : chunks[i][2] = chunks[i + 1][1]
  /\ ~Inverted(range) => \A i \in DOMAIN chunks : ~Inverted(chunks[i])

\* A worker's word is right, unless the flag stopped it.
Truthful(c, i) ==
  /\ worker[c][i] = "found" => i \in call[c].holds
  /\ worker[c][i] = "absent" => i \notin call[c].holds
  /\ worker[c][i] = "skipped" => call[c].compiled /\ i \in stopped[c]
  /\ worker[c][i] = "cancelled" => ~call[c].compiled /\ i \in stopped[c]

Collecting(c) ==
  /\ call[c].holds \subseteq DOMAIN worker[c]
  /\ next[c] \in DOMAIN worker[c]
  /\ \A i \in DOMAIN worker[c] : Truthful(c, i)
  /\ \A i \in DOMAIN worker[c] : i < next[c] => Passes(worker[c][i])

Answered(c) ==
  LET passed == IF answer[c].kind = "absent" THEN call[c].holds
                ELSE {i \in call[c].holds : i < answer[c].chunk} IN
  /\ answer[c].kind = "found" => answer[c].chunk \in call[c].holds
  /\ answer[c].kind \in {"found", "absent"} /\ passed # {}
       => call[c].compiled /\ passed \subseteq stopped[c]
  /\ answer[c].kind = "cancelled" => ~call[c].compiled /\ answer[c].chunk \in stopped[c]

\* A worker that is still at work when its call has its answer is behind the answer.
Settled(c) ==
  \A i \in DOMAIN worker[c] :
    worker[c][i] \in {"new", "scanning"} =>
      answer[c].kind # "absent" /\ answer[c].chunk < i

CallOK(c) ==
  /\ phase[c] # "idle" => Cover(call[c].range, call[c].chunks)
  /\ phase[c] \notin {"collect", "join"} => worker[c] = <<>>
  /\ phase[c] = "collect" => Collecting(c)
  /\ phase[c] = "join" => Settled(c)
  /\ phase[c] \in {"join", "returned"} => Answered(c)

\* A call that still collects finds the flag as it has cleared it, or is to be stopped.
FlagKnown ==
  \A c \in Scans : phase[c] = "collect" /\ cancel_flag_ =>
    \A i \in DOMAIN worker[c] : StillAsks(c, i) => i \in stopped[c]

ParallelInv == ParallelTypeOK /\ FlagKnown /\ \A c \in Scans : CallOK(c)

\* A step of one call that leaves the others alone, but for what stops them.
LEMMA OneCall ==
  ASSUME ParallelInv, NEW c \in Scans, ParallelTypeOK', FlagKnown', CallOK(c)',
         \A x \in Scans \ {c} : /\ call'[x] = call[x] /\ worker'[x] = worker[x]
                                /\ next'[x] = next[x] /\ answer'[x] = answer[x]
                                /\ phase'[x] = phase[x]
                                /\ stopped[x] \subseteq stopped'[x]
  PROVE  ParallelInv'
<1>1. ASSUME NEW x \in Scans, x # c PROVE CallOK(x)'
  <2>1. /\ call'[x] = call[x] /\ worker'[x] = worker[x]
        /\ next'[x] = next[x] /\ answer'[x] = answer[x] /\ phase'[x] = phase[x]
        /\ stopped[x] \subseteq stopped'[x]
    BY <1>1
  <2>2. CallOK(x)
    BY DEF ParallelInv
  <2>3. phase[x] = "collect" => Collecting(x)'
    BY <2>1, <2>2 DEF CallOK, Collecting, Truthful
  <2>4. phase[x] \in {"join", "returned"} => Answered(x)'
    BY <2>1, <2>2 DEF CallOK, Answered
  <2>5. phase[x] = "join" => Settled(x)'
    BY <2>1, <2>2 DEF CallOK, Settled
  <2> QED BY <2>1, <2>2, <2>3, <2>4, <2>5 DEF CallOK
<1> QED BY <1>1 DEF ParallelInv

-----------------------------------------------------------------------------
\* The remainder of what is small enough is itself.
LEMMA Small ==
  ASSUME NEW A \in Nat \ {0}, NEW x \in 0 .. A - 1
  PROVE  x % A = x
BY SMTT(20)

\* The difference of two addresses, wrapped, is one; not inverted, it is the difference.
LEMMA SizeIs ==
  ASSUME NEW range \in Ranges
  PROVE  /\ RangeSize(range) \in Nat /\ range[1] \in 0 .. AddressSpace - 1
         /\ range[2] \in 0 .. AddressSpace - 1 /\ range \in Int \X Int
         /\ ~Inverted(range) => RangeSize(range) = range[2] - range[1]
<1> DEFINE s == range[1]
           e == range[2]
           A == AddressSpace
<1>1. s \in 0 .. A - 1 /\ e \in 0 .. A - 1 /\ A \in Nat \ {0}
  BY ParallelAssumption
<1>2. range \in Int \X Int
  <2>1. range \in (0 .. A - 1) \X (0 .. A - 1)
    BY ParallelAssumption
  <2> QED BY <1>1, <2>1
<1>3. RangeSize(range) = (e - s) % A /\ (Inverted(range) <=> s >= e)
  BY DEF RangeSize, Inverted
<1> HIDE DEF s, e, A
<1>4. (e - s) % A \in 0 .. A - 1
  BY <1>1, SMTT(20)
<1>5. s < e => (e - s) % A = e - s
  <2> DEFINE d == e - s
  <2> SUFFICES ASSUME s < e PROVE d % A = d
    OBVIOUS
  <2>1. d \in 0 .. A - 1
    BY <1>1
  <2> HIDE DEF d
  <2> QED BY <1>1, <2>1, Small
<1> QED BY <1>1, <1>2, <1>3, <1>4, <1>5 DEF s, e, A

\* A range of at least n is divided into n chunks.
LEMMA ChunksAre ==
  ASSUME NEW range \in Ranges, NEW n \in Nat \ {0}, n <= RangeSize(range)
  PROVE  /\ Chunks(range, n) \in Pairs /\ Len(Chunks(range, n)) = n
         /\ Cover(range, Chunks(range, n))
<1> DEFINE A == AddressSpace
           size == RangeSize(range)
           q == size \div n
           s == range[1]
           e == range[2]
           border(i) == (s + i * q) % A
           l == Chunks(range, n)
<1>0. /\ A \in Nat \ {0} /\ size \in Nat /\ s \in 0 .. A - 1 /\ e \in 0 .. A - 1
      /\ ~Inverted(range) => size = e - s
      /\ Inverted(range) <=> s >= e
  BY ParallelAssumption, SizeIs DEF Inverted
<1>1. q \in Nat /\ q >= 1 /\ n * q <= size /\ n * q \in Nat
  <2>1. size = n * q + (size % n) /\ size % n \in 0 .. n - 1 /\ q \in Int
    <3> HIDE DEF size
    <3> QED BY <1>0, SMTT(20)
  <2> DEFINE m == size % n
  <2> HIDE DEF q, m, size
  <2>2. q >= 1
    <3> SUFFICES ASSUME q <= 0 PROVE FALSE
      BY <2>1
    <3>1. n * q <= 0
      BY <2>1, SMTT(20)
    <3> QED BY <2>1, <3>1 DEF m, size
  <2>3. n * q \in Nat
    BY <2>1, <2>2, SMTT(20)
  <2> QED BY <1>0, <2>1, <2>2, <2>3 DEF m
<1>2. l = [i \in 1 .. n |-> <<border(i - 1), IF i = n THEN e ELSE border(i)>>]
  BY DEF Chunks
<1>3. \A i \in 0 .. n : border(i) \in Int
  <2> SUFFICES ASSUME NEW i \in 0 .. n PROVE (s + i * q) % A \in Int
    OBVIOUS
  <2> DEFINE x == s + i * q
  <2> HIDE DEF q, size
  <2>1. i * q \in Int
    BY <1>1, SMTT(20)
  <2>2. x \in Int
    BY <1>0, <2>1
  <2> HIDE DEF x
  <2>3. x % A \in Int
    BY <1>0, <2>2, SMTT(20)
  <2> QED BY <2>3 DEF x
<1>4. border(0) = s
  <2> HIDE DEF q, size
  <2>1. s + 0 * q = s
    BY <1>0, <1>1
  <2> QED BY <1>0, <2>1, Small
<1>5. ASSUME ~Inverted(range), NEW i \in 0 .. n - 1
      PROVE  border(i) = s + i * q /\ i * q \in Nat /\ s + i * q + q <= e
             /\ (i + 1) * q = i * q + q
  <2> DEFINE x == s + i * q
  <2> HIDE DEF q, size
  <2>1. i * q \in Nat /\ (i + 1) * q = i * q + q
    BY <1>1, SMTT(20)
  <2>2. i * q + q <= n * q
    BY <1>1, SMTT(20)
  <2>3. x \in 0 .. A - 1 /\ x + q <= e
    BY <1>0, <1>1, <1>5, <2>1, <2>2 DEF size
  <2> HIDE DEF x
  <2>4. x % A = x
    BY <1>0, <2>3, Small
  <2> QED BY <2>1, <2>3, <2>4 DEF x
<1> HIDE DEF border, l, q, size
<1>6. l \in Pairs /\ Len(l) = n /\ DOMAIN l = 1 .. n
  BY <1>0, <1>2, <1>3 DEF Pairs
<1>7. l[1][1] = s /\ l[n][2] = e
  BY <1>2, <1>4
<1>8. ASSUME NEW i \in 1 .. n - 1 PROVE l[i][2] = l[i + 1][1]
  <2>1. i \in 1 .. n /\ i + 1 \in 1 .. n /\ i # n /\ i + 1 - 1 = i
    OBVIOUS
  <2> QED BY <1>2, <2>1
<1>9. ASSUME ~Inverted(range), NEW i \in 1 .. n PROVE l[i][1] < l[i][2]
  <2>1. /\ border(i - 1) = s + (i - 1) * q /\ (i - 1) * q \in Nat
        /\ s + (i - 1) * q + q <= e /\ (i - 1 + 1) * q = (i - 1) * q + q
    BY <1>5, <1>9
  <2>2. i - 1 + 1 = i
    OBVIOUS
  <2>3. CASE i = n
    BY <1>0, <1>1, <1>2, <2>1, <2>3
  <2>4. CASE i # n
    <3>1. i \in 0 .. n - 1
      BY <2>4
    <3>2. border(i) = s + i * q
      BY <1>5, <1>9, <3>1
    <3>3. l[i] = <<border(i - 1), border(i)>>
      BY <1>2, <2>4
    <3> QED BY <1>0, <1>1, <2>1, <2>2, <3>2, <3>3
  <2> QED BY <2>3, <2>4
<1>10. \A i \in 1 .. n : ~Inverted(range) => ~Inverted(l[i])
  <2> SUFFICES ASSUME ~Inverted(range), NEW i \in 1 .. n PROVE ~Inverted(l[i])
    OBVIOUS
  <2>1. l[i][1] < l[i][2] /\ l[i][1] \in Int /\ l[i][2] \in Int
    BY <1>6, <1>9 DEF Pairs
  <2> QED BY <2>1 DEF Inverted
<1>11. Cover(range, l)
  BY <1>6, <1>7, <1>8, <1>10 DEF Cover
<1> QED BY <1>6, <1>11 DEF l

\* There are no more workers than units in the range.
LEMMA WorkersFit ==
  ASSUME NEW compiled \in BOOLEAN, NEW size \in Nat, NEW num_threads \in Requests,
         ~Alone(compiled, size, num_threads)
  PROVE  LET n == WorkerCount(compiled, size, num_threads) IN
         n \in Nat \ {0} /\ n <= size
<1> DEFINE n == Threads(compiled, num_threads)
<1>1. size \in Nat /\ MIN_CHUNK_SIZE \in Nat \ {0} /\ n \in Nat \ {0}
  BY ParallelAssumption DEF Threads
<1>2. WorkerCount(compiled, size, num_threads)
        = IF ~compiled /\ size \div n < MIN_CHUNK_SIZE THEN size \div MIN_CHUNK_SIZE ELSE n
  BY DEF WorkerCount
<1>3. compiled => ~(size < MIN_CHUNK_SIZE * n)
  BY DEF Alone
<1>4. ~compiled => ~(size < MIN_CHUNK_SIZE)
  BY DEF Alone
<1> HIDE DEF n
<1>5. CASE compiled
  <2>1. MIN_CHUNK_SIZE * n >= n /\ MIN_CHUNK_SIZE * n \in Int
    BY <1>1, SMTT(20)
  <2> QED BY <1>1, <1>2, <1>3, <1>5, <2>1
<1>6. CASE ~compiled /\ size \div n < MIN_CHUNK_SIZE
  <2> DEFINE m == size \div MIN_CHUNK_SIZE
  <2>1. size = MIN_CHUNK_SIZE * m + (size % MIN_CHUNK_SIZE)
        /\ size % MIN_CHUNK_SIZE \in 0 .. MIN_CHUNK_SIZE - 1 /\ m \in Int
    BY <1>1, SMTT(20)
  <2> DEFINE r == size % MIN_CHUNK_SIZE
  <2> HIDE DEF m, r
  <2>2. m >= 1
    <3> SUFFICES ASSUME m <= 0 PROVE FALSE
      BY <2>1
    <3>1. MIN_CHUNK_SIZE * m <= 0
      BY <1>1, <2>1, SMTT(20)
    <3> QED BY <1>1, <1>4, <1>6, <2>1, <3>1 DEF r
  <2>3. MIN_CHUNK_SIZE * m >= m
    BY <1>1, <2>1, <2>2, SMTT(20)
  <2>4. m <= size
    BY <1>1, <2>1, <2>3
  <2> QED BY <1>1, <1>2, <1>6, <2>1, <2>2, <2>4 DEF m
<1>7. CASE ~compiled /\ ~(size \div n < MIN_CHUNK_SIZE)
  <2> DEFINE m == size \div n
             r == size % n
  <2>1. size = n * m + r /\ r \in 0 .. n - 1 /\ m \in Int
    BY <1>1, SMTT(20)
  <2>2. m >= MIN_CHUNK_SIZE
    BY <1>1, <1>7, <2>1
  <2> HIDE DEF m, r
  <2>3. n * m >= n /\ n * m \in Int
    BY <1>1, <2>1, <2>2, SMTT(20)
  <2> QED BY <1>1, <1>2, <1>7, <2>1, <2>3
<1> QED BY <1>5, <1>6, <1>7

-----------------------------------------------------------------------------
\* The caller scans on its own.
LEMMA AloneInv ==
  ASSUME ParallelInv, NEW c \in Scans, NEW compiled \in BOOLEAN, NEW range \in Ranges,
         NEW num_threads \in Requests, NEW holds \in {{}, {1}},
         FindAlone(c, compiled, range, num_threads, holds)
  PROVE  ParallelInv'
<1> DEFINE made == [compiled |-> compiled, range |-> range, chunks |-> <<range>>, holds |-> holds]
<1>0. ParallelTypeOK /\ FlagKnown /\ CallOK(c) /\ range \in Int \X Int
  BY SizeIs DEF ParallelInv
<1>1. /\ phase[c] = "idle" /\ phase' = [phase EXCEPT ![c] = "returned"]
      /\ cancel_flag_' = IF compiled THEN FALSE ELSE cancel_flag_
      /\ call' = [call EXCEPT ![c] = made]
      /\ UNCHANGED <<worker, next, stopped>>
      /\ \E result \in {Answer("error", 0), Answer("absent", 0), Answer("found", 1)} :
           /\ answer' = [answer EXCEPT ![c] = result]
           /\ result = Answer("absent", 0) => holds = {}
           /\ result = Answer("found", 1) => holds = {1}
  BY DEF FindAlone, Answer
<1>2. PICK result \in {Answer("error", 0), Answer("absent", 0), Answer("found", 1)} :
        /\ answer' = [answer EXCEPT ![c] = result]
        /\ result = Answer("absent", 0) => holds = {}
        /\ result = Answer("found", 1) => holds = {1}
  BY <1>1
<1>3. /\ result.kind \in {"error", "absent", "found"} /\ result.chunk \in Nat
      /\ result \in [kind : WorkerStates \cup {"none"}, chunk : Nat]
      /\ result.kind = "absent" => holds = {}
      /\ result.kind = "found" => holds = {1} /\ result.chunk = 1
  BY <1>2 DEF Answer, WorkerStates
<1>4. made \in Call
  <2>1. <<range>> \in Pairs /\ holds \in SUBSET Nat
    BY <1>0 DEF Pairs
  <2> QED BY <1>0, <2>1 DEF Call
<1>5. Cover(range, <<range>>)
  BY <1>0 DEF Cover
<1>6. made.range = range /\ made.chunks = <<range>> /\ made.holds = holds
  OBVIOUS
<1> HIDE DEF made
<1>7. ParallelTypeOK'
  BY <1>0, <1>1, <1>2, <1>3, <1>4 DEF ParallelTypeOK
<1>8. /\ call'[c] = made /\ answer'[c] = result /\ phase'[c] = "returned" /\ worker'[c] = <<>>
      /\ \A x \in Scans \ {c} : call'[x] = call[x] /\ answer'[x] = answer[x] /\ phase'[x] = phase[x]
  BY <1>0, <1>1, <1>2 DEF ParallelTypeOK, CallOK
<1>9. FlagKnown'
  <2> SUFFICES ASSUME NEW x \in Scans, phase'[x] = "collect", cancel_flag_',
                      NEW i \in DOMAIN worker'[x], StillAsks(x, i)'
               PROVE  i \in stopped'[x]
    BY DEF FlagKnown
  <2>1. x # c /\ phase[x] = "collect" /\ cancel_flag_ /\ StillAsks(x, i)
    BY <1>1, <1>8 DEF StillAsks
  <2> QED BY <1>0, <1>1, <2>1 DEF FlagKnown
<1>10. CallOK(c)'
  <2>1. Answered(c)'
    BY <1>3, <1>6, <1>8 DEF Answered
  <2> QED BY <1>5, <1>6, <1>8, <2>1 DEF CallOK
<1> QED BY <1>1, <1>7, <1>8, <1>9, <1>10, OneCall

\* The flag is cleared, and the workers are there, with nothing done.
LEMMA ScanLaunchInv ==
  ASSUME ParallelInv, NEW c \in Scans, NEW compiled \in BOOLEAN, NEW range \in Ranges,
         NEW num_threads \in Requests,
         NEW holds \in SUBSET Readable(compiled, range, num_threads),
         FindParallel(c, compiled, range, num_threads, holds)
  PROVE  ParallelInv'
<1> DEFINE n == WorkerCount(compiled, RangeSize(range), num_threads)
           l == Chunks(range, n)
           made == [compiled |-> compiled, range |-> range, chunks |-> l, holds |-> holds]
           fresh == [i \in 1 .. n |-> "new"]
<1>0. ParallelTypeOK /\ FlagKnown /\ CallOK(c) /\ range \in Int \X Int
  BY SizeIs DEF ParallelInv
<1>1. /\ ~Alone(compiled, RangeSize(range), num_threads) /\ cancel_flag_' = FALSE
      /\ call' = [call EXCEPT ![c] = made] /\ worker' = [worker EXCEPT ![c] = fresh]
      /\ next' = [next EXCEPT ![c] = 1] /\ answer' = [answer EXCEPT ![c] = None]
      /\ phase' = [phase EXCEPT ![c] = "collect"] /\ UNCHANGED stopped
  BY DEF FindParallel
<1>2. n \in Nat \ {0} /\ n <= RangeSize(range)
  BY <1>1, WorkersFit, SizeIs
<1>3. holds \subseteq DOMAIN l
  BY DEF Readable
<1> HIDE DEF n, l
<1>4. l \in Pairs /\ Cover(range, l) /\ Len(l) = n
  BY <1>2, ChunksAre DEF l
<1>5. /\ made \in Call
      /\ made.range = range /\ made.chunks = l /\ made.holds \subseteq 1 .. n
  <2>1. holds \in SUBSET (1 .. n)
    BY <1>2, <1>3, <1>4 DEF Pairs
  <2>2. holds \in SUBSET Nat
    BY <1>2, <2>1
  <2> QED BY <1>0, <1>4, <2>1, <2>2 DEF Call
<1>6. fresh \in Seq(WorkerStates) /\ DOMAIN fresh = 1 .. n /\ \A i \in 1 .. n : fresh[i] = "new"
  BY <1>2 DEF WorkerStates
<1> HIDE DEF made, fresh
<1>7. ParallelTypeOK'
  BY <1>0, <1>1, <1>5, <1>6 DEF ParallelTypeOK, None
<1>8. /\ call'[c] = made /\ worker'[c] = fresh /\ next'[c] = 1 /\ phase'[c] = "collect"
      /\ \A x \in Scans \ {c} : /\ call'[x] = call[x] /\ worker'[x] = worker[x]
                                /\ next'[x] = next[x] /\ answer'[x] = answer[x]
                                /\ phase'[x] = phase[x]
  BY <1>0, <1>1 DEF ParallelTypeOK
<1>9. FlagKnown'
  BY <1>1 DEF FlagKnown
<1>10. Collecting(c)'
  BY <1>2, <1>5, <1>6, <1>8 DEF Collecting, Truthful
<1>11. CallOK(c)'
  BY <1>4, <1>5, <1>8, <1>10 DEF CallOK
<1> QED BY <1>1, <1>7, <1>8, <1>9, <1>11, OneCall

\* A worker sees the flag, scans its chunk, and sees the flag again.
LEMMA WorkerInv ==
  ASSUME ParallelInv, NEW c \in Scans, NEW i \in DOMAIN worker[c],
         WorkerStart(c, i) \/ WorkerScan(c, i)
  PROVE  ParallelInv'
<1>0. ParallelTypeOK /\ FlagKnown /\ CallOK(c) /\ worker[c] \in Seq(WorkerStates)
  BY DEF ParallelInv, ParallelTypeOK
<1>1. UNCHANGED <<cancel_flag_, call, next, answer, phase>>
  BY DEF WorkerStart, WorkerScan
<1>2. PICK to \in WorkerStates :
        /\ SetWorker(c, i, to) /\ worker[c][i] \in {"new", "scanning"}
        /\ NotStopped(c, i) \/ UNCHANGED stopped
        /\ to = "skipped" => cancel_flag_ /\ call[c].compiled /\ UNCHANGED stopped
        /\ to = "cancelled" => cancel_flag_ /\ ~call[c].compiled /\ UNCHANGED stopped
        /\ to \in {"skipped", "cancelled"} => StillAsks(c, i)
        /\ to = "scanning" /\ ~call[c].compiled => worker[c][i] = "new" /\ UNCHANGED stopped
        /\ to = "found" => i \in call[c].holds
        /\ to = "absent" => i \notin call[c].holds
        /\ to # "new"
  <2>1. CASE WorkerStart(c, i)
    BY <2>1, Zenon DEF WorkerStart, WorkerStates, StillAsks
  <2>2. CASE WorkerScan(c, i)
    BY <2>2, Zenon DEF WorkerScan, WorkerStates, StillAsks
  <2> QED BY <2>1, <2>2
<1>3. /\ worker' = [worker EXCEPT ![c] = [worker[c] EXCEPT ![i] = to]]
      /\ worker'[c] = [worker[c] EXCEPT ![i] = to]
      /\ worker'[c] \in Seq(WorkerStates) /\ DOMAIN worker'[c] = DOMAIN worker[c]
      /\ worker'[c][i] = to
      /\ \A j \in DOMAIN worker[c] : j # i => worker'[c][j] = worker[c][j]
      /\ \A x \in Scans \ {c} : worker'[x] = worker[x]
  BY <1>0, <1>2 DEF SetWorker, ParallelTypeOK
<1>4. /\ stopped' \in [Scans -> SUBSET Nat]
      /\ \A x \in Scans \ {c} : stopped'[x] = stopped[x]
      /\ \A j \in stopped[c] : j # i => j \in stopped'[c]
      /\ stopped' = stopped \/ i \notin stopped'[c]
  <2>1. CASE UNCHANGED stopped
    BY <1>0, <2>1 DEF ParallelTypeOK
  <2>2. CASE NotStopped(c, i)
    BY <1>0, <2>2 DEF NotStopped, ParallelTypeOK
  <2> QED BY <1>2, <2>1, <2>2
<1>5. ParallelTypeOK'
  BY <1>0, <1>1, <1>3, <1>4 DEF ParallelTypeOK
<1>6. FlagKnown'
  <2> SUFFICES ASSUME NEW x \in Scans, phase'[x] = "collect", cancel_flag_',
                      NEW j \in DOMAIN worker'[x], StillAsks(x, j)'
               PROVE  j \in stopped'[x]
    BY DEF FlagKnown
  <2>1. phase[x] = "collect" /\ cancel_flag_ /\ DOMAIN worker'[x] = DOMAIN worker[x]
    BY <1>1, <1>3
  <2>2. CASE x # c
    <3>1. StillAsks(x, j)
      BY <1>1, <1>3, <2>2 DEF StillAsks
    <3>2. j \in stopped[x]
      BY <1>0, <2>1, <3>1 DEF FlagKnown
    <3> QED BY <1>4, <2>2, <3>2
  <2>3. CASE x = c /\ j # i
    <3>1. StillAsks(x, j)
      BY <1>1, <1>3, <2>1, <2>3 DEF StillAsks
    <3>2. j \in stopped[x]
      BY <1>0, <2>1, <3>1 DEF FlagKnown
    <3> QED BY <1>4, <2>3, <3>2
  <2>4. CASE x = c /\ j = i
    <3>1. to = "scanning" /\ ~call[c].compiled
      BY <1>1, <1>2, <1>3, <2>4 DEF StillAsks
    <3>2. StillAsks(c, i) /\ stopped' = stopped
      BY <1>2, <3>1 DEF StillAsks
    <3> QED BY <1>0, <2>1, <2>4, <3>2 DEF FlagKnown
  <2> QED BY <2>2, <2>3, <2>4
<1>7. ASSUME phase[c] = "collect" PROVE Collecting(c)'
  <2>1. Collecting(c) /\ (cancel_flag_ /\ StillAsks(c, i) => i \in stopped[c])
    BY <1>0, <1>7 DEF CallOK, FlagKnown
  <2>2. ~(worker[c][i] \in {"absent", "skipped"})
    BY <1>2
  <2>3. ASSUME NEW j \in DOMAIN worker[c] PROVE Truthful(c, j)'
    <3>1. CASE j = i
      BY <1>1, <1>2, <1>3, <2>1, <3>1 DEF Truthful
    <3>2. CASE j # i
      <4>1. Truthful(c, j) /\ worker'[c][j] = worker[c][j]
        BY <1>3, <2>1, <3>2 DEF Collecting
      <4> QED BY <1>1, <1>4, <3>2, <4>1 DEF Truthful
    <3> QED BY <3>1, <3>2
  <2>4. \A j \in DOMAIN worker[c] : j < next[c] => Passes(worker'[c][j])
    BY <1>3, <2>1, <2>2 DEF Collecting, Passes
  <2> QED BY <1>1, <1>3, <2>1, <2>3, <2>4 DEF Collecting
<1>8. worker[c] # <<>>
  OBVIOUS
<1>9. ASSUME phase[c] = "join" PROVE Settled(c)' /\ Answered(c)'
  <2>1. Settled(c) /\ Answered(c)
    BY <1>0, <1>9 DEF CallOK
  <2>2. Settled(c)'
    BY <1>1, <1>2, <1>3, <2>1 DEF Settled
  <2>3. answer[c].kind # "absent" /\ answer[c].chunk < i /\ answer[c].chunk \in Nat /\ i \in Nat
    BY <1>0, <1>2, <2>1 DEF Settled, ParallelTypeOK
  <2>4. \A j \in stopped[c] : j <= answer[c].chunk => j \in stopped'[c]
    BY <1>4, <2>3
  <2>5. answer[c].kind = "cancelled" => ~call[c].compiled /\ answer[c].chunk \in stopped'[c]
    BY <2>1, <2>3, <2>4 DEF Answered
  <2>6. \A j \in call[c].holds : j \in Nat
    BY <1>0 DEF ParallelTypeOK, Call
  <2>7. answer[c].kind = "found" /\ {j \in call[c].holds : j < answer[c].chunk} # {} =>
          /\ call[c].compiled
          /\ {j \in call[c].holds : j < answer[c].chunk} \subseteq stopped'[c]
    BY <2>1, <2>3, <2>4, <2>6 DEF Answered
  <2> QED BY <1>1, <2>1, <2>2, <2>3, <2>5, <2>7 DEF Answered
<1>10. CallOK(c)'
  BY <1>0, <1>1, <1>7, <1>8, <1>9 DEF CallOK
<1> QED BY <1>1, <1>3, <1>4, <1>5, <1>6, <1>10, OneCall

\* What setting the flag does to the chunks it may stop.
LEMMA StopIs ==
  ASSUME ParallelTypeOK, NEW others \in SUBSET Scans, StopAll(others)
  PROVE  /\ cancel_flag_' = TRUE /\ stopped' \in [Scans -> SUBSET Nat]
         /\ \A x \in Scans : stopped[x] \subseteq stopped'[x]
         /\ \A x \in others : \A i \in DOMAIN worker[x] : StillAsks(x, i) => i \in stopped'[x]
<1>1. \A x \in Scans : stopped[x] \in SUBSET Nat /\ DOMAIN worker[x] \subseteq Nat
  BY DEF ParallelTypeOK
<1>2. stopped' = [x \in Scans |-> IF x \notin others THEN stopped[x]
                    ELSE stopped[x] \cup {i \in DOMAIN worker[x] : StillAsks(x, i)}]
  BY DEF StopAll
<1>3. \A x \in Scans : {i \in DOMAIN worker[x] : StillAsks(x, i)} \in SUBSET Nat
  BY <1>1
<1> QED BY <1>1, <1>2, <1>3 DEF StopAll

\* The next future is collected: its word ends the call, or is passed over.
LEMMA CollectInv ==
  ASSUME ParallelInv, NEW c \in Scans, Collect(c)
  PROVE  ParallelInv'
<1> DEFINE k == next[c]
           result == worker[c][k]
           last == k = Len(worker[c])
           ends == last \/ ~Passes(result)
           new == IF ~Passes(result) THEN Answer(result, k)
                  ELSE IF last THEN Answer("absent", 0) ELSE answer[c]
<1>0. /\ ParallelTypeOK /\ FlagKnown /\ CallOK(c) /\ worker[c] \in Seq(WorkerStates)
      /\ phase[c] = "collect" /\ Collecting(c)
  BY DEF ParallelInv, ParallelTypeOK, Collect, CallOK
<1>1. /\ k \in DOMAIN worker[c] /\ k \in Nat /\ k + 1 \in Nat /\ result \in WorkerStates
      /\ result \notin {"new", "scanning"}
      /\ DOMAIN worker[c] = 1 .. Len(worker[c]) /\ Len(worker[c]) \in Nat
  BY <1>0 DEF Collecting, Collect
<1>2. /\ answer' = [answer EXCEPT ![c] = new]
      /\ phase' = [phase EXCEPT ![c] = IF ends THEN "join" ELSE phase[c]]
      /\ next' = [next EXCEPT ![c] = IF ends THEN k ELSE k + 1]
      /\ IF result = "found" THEN StopAll(Running \ {c}) ELSE UNCHANGED <<cancel_flag_, stopped>>
      /\ UNCHANGED <<call, worker>>
  BY <1>0 DEF Collect, ParallelTypeOK
<1>3. new \in [kind : WorkerStates \cup {"none"}, chunk : Nat]
  BY <1>0, <1>1 DEF ParallelTypeOK, Answer, WorkerStates
<1>12. ASSUME result = "found"
       PROVE  /\ cancel_flag_' = TRUE /\ stopped' \in [Scans -> SUBSET Nat]
              /\ \A x \in Scans : stopped[x] \subseteq stopped'[x]
              /\ \A x \in Running \ {c} : \A i \in DOMAIN worker[x] :
                   StillAsks(x, i) => i \in stopped'[x]
  <2>1. Running \ {c} \in SUBSET Scans
    BY DEF Running
  <2>2. StopAll(Running \ {c})
    BY <1>2, <1>12
  <2> QED BY <1>0, <2>1, <2>2, StopIs
<1>13. ASSUME result # "found" PROVE cancel_flag_' = cancel_flag_ /\ stopped' = stopped
  BY <1>2, <1>13
<1> HIDE DEF k, result, last, ends, new
<1>4. ParallelTypeOK'
  <2>1. stopped' \in [Scans -> SUBSET Nat] /\ cancel_flag_' \in BOOLEAN
    BY <1>0, <1>12, <1>13 DEF ParallelTypeOK
  <2> QED BY <1>0, <1>1, <1>2, <1>3, <2>1 DEF ParallelTypeOK
<1>5. /\ answer'[c] = new /\ phase'[c] = IF ends THEN "join" ELSE "collect"
      /\ next'[c] = IF ends THEN k ELSE k + 1
      /\ \A x \in Scans \ {c} : /\ next'[x] = next[x] /\ answer'[x] = answer[x]
                                /\ phase'[x] = phase[x]
  BY <1>0, <1>2 DEF ParallelTypeOK
<1>6. \A x \in Scans : stopped[x] \subseteq stopped'[x]
  BY <1>12, <1>13
<1>7. FlagKnown'
  <2> SUFFICES ASSUME NEW x \in Scans, phase'[x] = "collect", cancel_flag_',
                      NEW i \in DOMAIN worker'[x], StillAsks(x, i)'
               PROVE  i \in stopped'[x]
    BY DEF FlagKnown
  <2>1. StillAsks(x, i) /\ i \in DOMAIN worker[x]
    BY <1>2 DEF StillAsks
  <2>2. CASE result = "found"
    <3>1. x # c
      <4>1. ends
        BY <2>2 DEF ends, Passes
      <4> QED BY <1>5, <4>1
    <3>2. x \in Running \ {c}
      BY <1>5, <3>1 DEF Running
    <3> QED BY <1>12, <2>1, <2>2, <3>2
  <2>3. CASE result # "found"
    <3>1. cancel_flag_ /\ phase[x] = "collect"
      <4>1. phase[x] = "collect"
        BY <1>0, <1>5
      <4> QED BY <1>13, <2>3, <4>1
    <3> QED BY <1>0, <1>13, <2>1, <2>3, <3>1 DEF FlagKnown
  <2> QED BY <2>2, <2>3
<1>8. ASSUME ~ends PROVE Collecting(c)'
  <2>1. ~last /\ Passes(result)
    BY <1>8 DEF ends
  <2>2. k + 1 \in DOMAIN worker[c] /\ next'[c] = k + 1
    BY <1>1, <1>5, <1>8, <2>1 DEF last
  <2>3. \A j \in DOMAIN worker[c] : j < k + 1 => Passes(worker[c][j])
    <3> SUFFICES ASSUME NEW j \in DOMAIN worker[c], j < k + 1 PROVE Passes(worker[c][j])
      OBVIOUS
    <3>1. j = k \/ j < k
      BY <1>1
    <3> QED BY <1>0, <2>1, <3>1 DEF Collecting, k, result
  <2> QED BY <1>0, <1>2, <1>6, <2>2, <2>3 DEF Collecting, Truthful
<1>9. ASSUME ends PROVE Answered(c)'
  <2>1. \A j \in call[c].holds : j \in DOMAIN worker[c] /\ (j < k \/ (last /\ Passes(result)) =>
          (j <= k => call[c].compiled /\ j \in stopped[c]))
    <3> SUFFICES ASSUME NEW j \in call[c].holds, j <= k, j < k \/ (last /\ Passes(result))
        PROVE  call[c].compiled /\ j \in stopped[c]
      BY <1>0 DEF Collecting
    <3>1. j \in DOMAIN worker[c] /\ Truthful(c, j)
      BY <1>0 DEF Collecting
    <3>2. Passes(worker[c][j])
      <4>1. CASE j < k
        BY <1>0, <3>1, <4>1 DEF Collecting, k
      <4>2. CASE ~(j < k)
        <5>1. j = k
          BY <1>1, <3>1, <4>2
        <5> QED BY <4>2, <5>1 DEF result
      <4> QED BY <4>1, <4>2
    <3> QED BY <3>1, <3>2 DEF Truthful, Passes
  <2>2. CASE ~Passes(result)
    <3>1. new.kind = result /\ new.chunk = k
      BY <2>2 DEF new, Answer
    <3>2. result # "absent" /\ result # "skipped"
      BY <2>2 DEF Passes
    <3>3. Truthful(c, k)
      BY <1>0, <1>1 DEF Collecting
    <3>4. \A j \in call[c].holds : j < k => call[c].compiled /\ j \in stopped[c]
      BY <1>1, <2>1
    <3>5. /\ result = "found" => k \in call[c].holds
          /\ result = "cancelled" => ~call[c].compiled /\ k \in stopped[c]
      BY <3>3 DEF Truthful, result
    <3> QED BY <1>2, <1>5, <1>6, <3>1, <3>2, <3>4, <3>5 DEF Answered
  <2>3. CASE Passes(result)
    <3>1. last /\ new = Answer("absent", 0)
      BY <1>9, <2>3 DEF ends, new
    <3>2. new.kind = "absent"
      BY <3>1 DEF Answer
    <3>3. \A j \in call[c].holds : call[c].compiled /\ j \in stopped[c]
      BY <1>1, <2>1, <2>3, <3>1 DEF last
    <3> QED BY <1>2, <1>5, <1>6, <3>2, <3>3 DEF Answered
  <2> QED BY <2>2, <2>3
<1>10. ASSUME ends PROVE Settled(c)'
  <2> SUFFICES ASSUME NEW j \in DOMAIN worker[c], worker[c][j] \in {"new", "scanning"}
               PROVE  new.kind # "absent" /\ new.chunk < j
    BY <1>0, <1>1, <1>2, <1>5 DEF Settled
  <2>1. ~Passes(worker[c][j]) /\ j # k
    BY <1>1 DEF Passes, result
  <2>2. ~(j < k)
    BY <1>0, <2>1 DEF Collecting, k
  <2>3. k < j
    BY <1>1, <2>1, <2>2
  <2>4. ~last
    BY <1>1, <2>3 DEF last
  <2>5. ~Passes(result)
    BY <1>10, <2>4 DEF ends
  <2>6. new.kind = result /\ new.chunk = k
    BY <2>5 DEF new, Answer
  <2> QED BY <2>3, <2>5, <2>6 DEF Passes
<1>11. CallOK(c)'
  <2>1. Cover(call[c].range, call[c].chunks)
    BY <1>0 DEF CallOK
  <2> QED BY <1>2, <1>5, <1>8, <1>9, <1>10, <2>1 DEF CallOK
<1> QED BY <1>2, <1>4, <1>5, <1>6, <1>7, <1>11, OneCall

\* The workers are done, and the call returns what it has.
LEMMA JoinInv ==
  ASSUME ParallelInv, NEW c \in Scans, Join(c)
  PROVE  ParallelInv'
<1>0. ParallelTypeOK /\ FlagKnown /\ CallOK(c)
  BY DEF ParallelInv
<1>1. /\ phase[c] = "join" /\ phase' = [phase EXCEPT ![c] = "returned"]
      /\ worker' = [worker EXCEPT ![c] = <<>>] /\ next' = [next EXCEPT ![c] = 1]
      /\ UNCHANGED <<cancel_flag_, call, answer, stopped>>
  BY DEF Join
<1>2. ParallelTypeOK'
  BY <1>0, <1>1 DEF ParallelTypeOK
<1>3. /\ phase'[c] = "returned" /\ worker'[c] = <<>>
      /\ \A x \in Scans \ {c} : /\ worker'[x] = worker[x] /\ next'[x] = next[x]
                                /\ phase'[x] = phase[x]
  BY <1>0, <1>1 DEF ParallelTypeOK
<1>4. FlagKnown'
  <2> SUFFICES ASSUME NEW x \in Scans, phase'[x] = "collect", cancel_flag_',
                      NEW i \in DOMAIN worker'[x], StillAsks(x, i)'
               PROVE  i \in stopped'[x]
    BY DEF FlagKnown
  <2>1. x # c /\ phase[x] = "collect" /\ cancel_flag_
    BY <1>1, <1>3
  <2>2. StillAsks(x, i) /\ i \in DOMAIN worker[x]
    BY <1>1, <1>3, <2>1 DEF StillAsks
  <2> QED BY <1>0, <1>1, <2>1, <2>2 DEF FlagKnown
<1>5. CallOK(c)'
  BY <1>0, <1>1, <1>3 DEF CallOK, Answered
<1> QED BY <1>1, <1>2, <1>3, <1>4, <1>5, OneCall

\* cancel disturbs whatever runs.
LEMMA CancelInv ==
  ASSUME ParallelInv, cancel \/ reset_cancel \/ UNCHANGED parallel_vars
  PROVE  ParallelInv'
<1>0. ParallelTypeOK /\ FlagKnown /\ Running \in SUBSET Scans
  BY DEF ParallelInv, Running
<1>1. /\ UNCHANGED <<call, worker, next, answer, phase>> /\ cancel_flag_' \in BOOLEAN
      /\ stopped' \in [Scans -> SUBSET Nat] /\ \A x \in Scans : stopped[x] \subseteq stopped'[x]
      /\ cancel_flag_' => \A x \in Running : \A i \in DOMAIN worker[x] :
                            StillAsks(x, i) /\ phase[x] = "collect" => i \in stopped'[x]
  <2>1. CASE cancel
    BY <1>0, <2>1, StopIs DEF cancel
  <2>2. CASE reset_cancel
    BY <1>0, <2>2 DEF reset_cancel, ParallelTypeOK
  <2>3. CASE UNCHANGED parallel_vars
    BY <1>0, <2>3 DEF parallel_vars, ParallelTypeOK, FlagKnown, Running
  <2> QED BY <2>1, <2>2, <2>3
<1>2. ParallelTypeOK'
  BY <1>0, <1>1 DEF ParallelTypeOK
<1>3. FlagKnown'
  <2> SUFFICES ASSUME NEW x \in Scans, phase'[x] = "collect", cancel_flag_',
                      NEW i \in DOMAIN worker'[x], StillAsks(x, i)'
               PROVE  i \in stopped'[x]
    BY DEF FlagKnown
  <2>1. StillAsks(x, i) /\ i \in DOMAIN worker[x] /\ phase[x] = "collect" /\ x \in Running
    BY <1>1 DEF StillAsks, Running
  <2> QED BY <1>1, <2>1
<1>4. ASSUME NEW x \in Scans PROVE CallOK(x)'
  <2>1. CallOK(x)
    BY DEF ParallelInv
  <2> QED BY <1>1, <2>1 DEF CallOK, Collecting, Truthful, Answered, Settled
<1> QED BY <1>2, <1>3, <1>4 DEF ParallelInv

\* ParallelInv holds in every state.
THEOREM ParallelInvariance == ParallelSpec => []ParallelInv
<1>1. ParallelInit => ParallelInv
  <2> SUFFICES ASSUME ParallelInit PROVE ParallelInv
    OBVIOUS
  <2>1. ParallelTypeOK
    <3>1. NoCall \in Call
      <4>1. <<>> \in Pairs
        BY DEF Pairs
      <4> QED BY <4>1 DEF NoCall, Call
    <3>2. None \in [kind : WorkerStates \cup {"none"}, chunk : Nat] /\ <<>> \in Seq(WorkerStates)
      BY DEF None
    <3> QED BY <3>1, <3>2 DEF ParallelInit, ParallelTypeOK
  <2>2. FlagKnown /\ \A c \in Scans : CallOK(c)
    BY DEF ParallelInit, FlagKnown, CallOK
  <2> QED BY <2>1, <2>2 DEF ParallelInv
<1>2. ASSUME ParallelInv, [ParallelNext]_parallel_vars PROVE ParallelInv'
  BY <1>2, AloneInv, ScanLaunchInv, WorkerInv, CollectInv, JoinInv, CancelInv DEF ParallelNext
<1> QED BY <1>1, <1>2, PTL DEF ParallelSpec

\* For any number of scans, of threads and any range: the chunks make up the range, and a
\* call answers for all of them, but those that the flag has stopped when another set it.
THEOREM ParallelIsSound == ParallelSpec => []ParallelSound
<1>1. ParallelInv => ParallelSound
  <2> SUFFICES ASSUME ParallelInv, NEW c \in Scans, phase[c] # "idle"
      PROVE  Cover(call[c].range, call[c].chunks) /\ (phase[c] = "returned" => Answered(c))
    BY DEF ParallelSound, ChunksCover, SharedCancel, Cover, Answered
  <2> QED BY DEF ParallelInv, CallOK
<1> QED BY <1>1, ParallelInvariance, PTL

-----------------------------------------------------------------------------
(***************************************************************************)
(* Proofs about AsyncScans, for any call and any pieces.                   *)
(*                                                                         *)
(* Searched says what the pieces behind a scan hold, RegionsKnown what the *)
(* regions' own futures hold, and Measured how far the progress told is    *)
(* from the end of the range.                                              *)
(***************************************************************************)
\* A call, and what its parts can be.
JobKnown ==
  \/ job = NoJob /\ piece = 1 /\ outcome = Pending /\ done_of = <<>>
  \/ /\ job \in [kind : Kinds, pieces : Seq(Pieces)]
     /\ Len(job.pieces) >= 1 /\ piece <= Len(job.pieces) + 1

AsyncTypeOK ==
  /\ JobKnown
  /\ piece \in Nat \ {0} /\ processed \in Nat
  /\ cancelled \in BOOLEAN
  /\ reports \in [last : Nat, fell : BOOLEAN]
  /\ outcome \in [state : {"pending", "value", "exception"}, at : Nat]
  /\ outcome.state = "pending" <=> outcome = Pending

\* The pieces behind hold nothing, or were read.
Searched ==
  outcome = Pending =>
    \A i \in DOMAIN job.pieces : i < piece =>
      IF job.kind = "read" THEN job.pieces[i] # "throws" ELSE job.pieces[i] = "absent"

\* A region's future holds what the scan of the region found, once it has.
RegionsKnown ==
  job.kind = "regions" =>
    /\ DOMAIN done_of = DOMAIN job.pieces
    /\ \A i \in DOMAIN done_of : done_of[i] \in {"pending", job.pieces[i]}

\* What the pieces behind measure; none of it has been reported but once.
Measured ==
  /\ job.kind = "none" => processed = 0 /\ reports = [last |-> 0, fell |-> FALSE]
  /\ job.kind # "none" => reports.last <= TotalSize
  /\ job.kind = "progress" =>
       /\ ~reports.fell
       /\ outcome = Pending =>
            /\ processed = (IF Ended THEN TotalSize ELSE Whole * (piece - 1))
            /\ reports.last <= processed
       /\ outcome.state = "value" => reports.last = TotalSize

AsyncInv == AsyncTypeOK /\ Searched /\ RegionsKnown /\ Measured /\ AsyncAnswers

\* The range has a size.
LEMMA Sizes ==
  ASSUME AsyncTypeOK, job # NoJob
  PROVE  /\ Len(job.pieces) \in Nat \ {0} /\ DOMAIN job.pieces = 1 .. Len(job.pieces)
         /\ \A i \in DOMAIN job.pieces : job.pieces[i] \in Pieces
         /\ TotalSize \in Nat
         /\ LastSize \in 1 .. 2
         /\ TotalSize = 2 * (Len(job.pieces) - 1) + LastSize
         /\ job.kind \in Kinds
<1>1. LastSize \in 1 .. 2
  BY AsyncAssumption DEF Whole
<1>2. /\ job.pieces \in Seq(Pieces) /\ Len(job.pieces) >= 1 /\ job.kind \in Kinds
  BY DEF AsyncTypeOK, JobKnown
<1>3. /\ Len(job.pieces) \in Nat \ {0} /\ DOMAIN job.pieces = 1 .. Len(job.pieces)
      /\ \A i \in DOMAIN job.pieces : job.pieces[i] \in Pieces
  BY <1>2
<1>4. TotalSize = 2 * (Len(job.pieces) - 1) + LastSize
  BY DEF TotalSize, Whole
<1> QED BY <1>1, <1>2, <1>3, <1>4

\* An answer, given what the pieces behind hold.
LEMMA RightAnswer ==
  ASSUME AsyncTypeOK, Searched, job # NoJob, outcome = Pending, job.kind # "read",
         outcome' # Pending, UNCHANGED <<job, piece>>,
         \/ outcome' = Future("value", 0) /\ (cancelled' \/ Ended)
         \/ /\ ~Ended
            /\ \/ job.pieces[piece] = "present" /\ outcome' = Future("value", piece)
               \/ job.pieces[piece] = "throws" /\ outcome' = Future("exception", piece)
  PROVE  AsyncAnswers'
<1>1. /\ \A i \in DOMAIN job.pieces : i < piece => job.pieces[i] = "absent"
      /\ DOMAIN job.pieces = 1 .. Len(job.pieces) /\ Len(job.pieces) \in Nat \ {0}
      /\ piece \in Nat \ {0}
  BY Sizes DEF Searched, AsyncTypeOK
<1> DEFINE first == {i \in DOMAIN job.pieces :
                       /\ job.pieces[i] \in {"present", "throws"}
                       /\ \A j \in 1 .. (i - 1) : job.pieces[j] \notin {"present", "throws"}}
<1>2. CASE outcome' = Future("value", 0) /\ (cancelled' \/ Ended)
  <2>1. Ended => first = {}
    BY <1>1 DEF Ended
  <2>2. outcome'.at = 0
    BY <1>2 DEF Future
  <2> QED BY <1>2, <2>1, <2>2 DEF AsyncAnswers
<1>3. CASE /\ ~Ended
           /\ \/ job.pieces[piece] = "present" /\ outcome' = Future("value", piece)
              \/ job.pieces[piece] = "throws" /\ outcome' = Future("exception", piece)
  <2>1. piece \in first
    BY <1>1, <1>3 DEF Ended
  <2>2. outcome'.at = piece /\ piece # 0 /\ (outcome'.state = "value" <=> job.pieces[piece] = "present")
    BY <1>1, <1>3 DEF Future
  <2> QED BY <2>1, <2>2 DEF AsyncAnswers
<1> QED BY <1>2, <1>3

-----------------------------------------------------------------------------
\* A call begins with nothing searched and nothing reported.
LEMMA JobLaunchInv ==
  ASSUME AsyncInv, NEW kind \in Kinds, NEW n \in 1 .. MaxPieces,
         NEW pieces \in [1 .. n -> IF kind = "read" THEN {"present", "throws"} ELSE Pieces],
         Launch(kind, pieces)
  PROVE  AsyncInv'
<1>1. /\ job = NoJob /\ job' = [kind |-> kind, pieces |-> pieces]
      /\ done_of' = IF kind = "regions" THEN [i \in DOMAIN pieces |-> "pending"] ELSE <<>>
      /\ UNCHANGED <<piece, cancelled, processed, reports, outcome>>
      /\ AsyncTypeOK /\ Measured
  BY DEF Launch, AsyncInv
<1>2. /\ piece = 1 /\ outcome = Pending /\ processed = 0 /\ reports = [last |-> 0, fell |-> FALSE]
  BY <1>1 DEF AsyncTypeOK, JobKnown, Measured, NoJob, Kinds
<1>3. pieces \in Seq(Pieces) /\ Len(pieces) = n /\ n \in Nat \ {0} /\ DOMAIN pieces = 1 .. n
  <2>1. n \in Nat \ {0} /\ \A i \in 1 .. n : pieces[i] \in Pieces
    BY AsyncAssumption DEF Pieces
  <2> QED BY <2>1
<1>4. job'.kind = kind /\ job'.pieces = pieces /\ job'.kind # "none"
  BY <1>1 DEF Kinds
<1>5. JobKnown'
  BY <1>1, <1>2, <1>3, <1>4 DEF JobKnown
<1>6. AsyncTypeOK'
  BY <1>1, <1>5 DEF AsyncTypeOK
<1>7. Searched' /\ RegionsKnown' /\ AsyncAnswers'
  BY <1>1, <1>2, <1>3, <1>4 DEF Searched, RegionsKnown, AsyncAnswers
<1>8. TotalSize' = 2 * (n - 1) + LastSize /\ LastSize \in 1 .. 2
  BY <1>3, <1>4, AsyncAssumption DEF TotalSize, Whole
<1>9. Measured'
  BY <1>1, <1>2, <1>3, <1>4, <1>8 DEF Measured, Ended, Whole, Pending
<1> QED BY <1>6, <1>7, <1>9 DEF AsyncInv

\* A report between two chunks is of what the chunks behind measure.
LEMMA ReportInv ==
  ASSUME AsyncInv, ReportProgress
  PROVE  AsyncInv'
<1>1. /\ job.kind = "progress" /\ outcome = Pending
      /\ reports' = [last |-> processed, fell |-> reports.fell \/ processed < reports.last]
      /\ UNCHANGED <<job, piece, done_of, cancelled, processed, outcome>>
      /\ ~Ended /\ AsyncTypeOK /\ Measured /\ job # NoJob
  BY DEF ReportProgress, Report, AsyncInv, NoJob
<1>2. /\ ~reports.fell /\ reports.last <= processed /\ processed = Whole * (piece - 1)
      /\ processed \in Nat /\ reports.last \in Nat /\ piece \in Nat \ {0}
  BY <1>1 DEF Measured, AsyncTypeOK
<1>3. processed <= TotalSize
  BY <1>1, <1>2, Sizes DEF Ended, Whole
<1>4. reports'.last = processed /\ ~reports'.fell /\ reports' \in [last : Nat, fell : BOOLEAN]
  <2>1. ~(processed < reports.last)
    BY <1>2
  <2>2. reports' = [last |-> processed, fell |-> FALSE]
    BY <1>1, <1>2, <2>1, Zenon
  <2> QED BY <1>2, <2>2
<1>5. AsyncTypeOK'
  BY <1>1, <1>4 DEF AsyncTypeOK, JobKnown
<1>6. Measured'
  BY <1>1, <1>2, <1>3, <1>4 DEF Measured, Ended, TotalSize, Pending
<1>7. Searched' /\ RegionsKnown' /\ AsyncAnswers'
  BY <1>1 DEF AsyncInv, Searched, RegionsKnown, AsyncAnswers
<1> QED BY <1>5, <1>6, <1>7 DEF AsyncInv

\* The report at the end is of the whole range, and does not fall.
LEMMA LastReport ==
  ASSUME AsyncInv, job # NoJob, outcome = Pending, Report(TotalSize)
  PROVE  /\ reports' \in [last : Nat, fell : BOOLEAN] /\ reports'.last <= TotalSize
         /\ job.kind = "progress" => ~reports'.fell /\ reports'.last = TotalSize
<1>1. AsyncTypeOK /\ Measured /\ job.kind # "none" /\ TotalSize \in Nat
  BY Sizes DEF AsyncInv, Kinds
<1>2. reports.last \in Nat /\ reports.last <= TotalSize
  BY <1>1 DEF AsyncTypeOK, Measured
<1>3. CASE job.kind # "progress"
  BY <1>1, <1>2, <1>3 DEF Report, AsyncTypeOK
<1>4. CASE job.kind = "progress"
  <2>1. ~reports.fell
    BY <1>1, <1>4 DEF Measured
  <2>2. ~(TotalSize < reports.last)
    BY <1>1, <1>2
  <2>3. reports' = [last |-> TotalSize, fell |-> FALSE]
    BY <1>4, <2>1, <2>2, Zenon DEF Report
  <2> QED BY <1>1, <2>3
<1> QED BY <1>3, <1>4

\* A chunk is scanned: what it measures is added, or the answer is out.
LEMMA ScanInv ==
  ASSUME AsyncInv, ScanPiece
  PROVE  AsyncInv'
<1> DEFINE found == job.pieces[piece]
<1>1. /\ job.kind \in {"cancellable", "progress", "executable"} /\ outcome = Pending
      /\ piece' = IF found = "absent" THEN piece + 1 ELSE piece
      /\ processed' = IF found = "absent" /\ job.kind = "progress"
                        THEN processed + SizeOf(piece) ELSE processed
      /\ IF found = "present" THEN Report(TotalSize) ELSE UNCHANGED reports
      /\ UNCHANGED <<job, done_of, cancelled>>
      /\ ~Ended /\ AsyncTypeOK /\ Measured /\ Searched /\ job # NoJob
  BY DEF ScanPiece, InOrder, AsyncInv, NoJob
<1>2. outcome' = CASE found = "present" -> Future("value", piece)
                   [] found = "throws" -> Future("exception", piece)
                   [] OTHER -> Pending
  BY DEF ScanPiece
<1>3. /\ piece \in Nat \ {0} /\ piece <= Len(job.pieces) /\ Len(job.pieces) \in Nat \ {0}
      /\ found \in Pieces /\ DOMAIN job.pieces = 1 .. Len(job.pieces)
      /\ TotalSize \in Nat /\ LastSize \in 1 .. 2 /\ TotalSize = 2 * (Len(job.pieces) - 1) + LastSize
      /\ processed \in Nat
  <2>1. piece \in Nat \ {0} /\ processed \in Nat /\ Len(job.pieces) \in Nat \ {0}
    BY <1>1, Sizes DEF AsyncTypeOK
  <2>2. piece <= Len(job.pieces)
    BY <1>1, <2>1 DEF Ended
  <2>3. piece \in DOMAIN job.pieces
    BY <1>1, <2>1, <2>2, Sizes
  <2> QED BY <1>1, <2>1, <2>2, <2>3, Sizes
<1>4. reports' \in [last : Nat, fell : BOOLEAN] /\ reports'.last <= TotalSize'
  <2>1. TotalSize' = TotalSize /\ reports.last <= TotalSize
    BY <1>1 DEF TotalSize, Measured
  <2>2. CASE found = "present"
    BY <1>1, <2>1, <2>2, LastReport
  <2>3. CASE found # "present"
    BY <1>1, <2>1, <2>3 DEF AsyncTypeOK
  <2> QED BY <2>2, <2>3
<1>5. SizeOf(piece) \in 1 .. 2
  BY <1>3 DEF SizeOf, Whole
<1>6. CASE found = "absent"
  <2>1. /\ outcome' = Pending /\ piece' = piece + 1 /\ reports' = reports
        /\ processed' = IF job.kind = "progress" THEN processed + SizeOf(piece) ELSE processed
    BY <1>1, <1>2, <1>6
  <2>2. processed' \in Nat
    BY <1>3, <1>5, <2>1
  <2>3. AsyncTypeOK'
    <3>1. JobKnown'
      BY <1>1, <1>3, <2>1 DEF AsyncTypeOK, JobKnown
    <3> QED BY <1>1, <1>3, <1>4, <2>1, <2>2, <3>1 DEF AsyncTypeOK, Pending
  <2>4. Searched'
    BY <1>1, <1>3, <1>6, <2>1 DEF Searched
  <2>5. job.kind = "progress" =>
          /\ processed' = (IF Ended' THEN TotalSize' ELSE Whole * (piece' - 1))
          /\ reports'.last <= processed' /\ ~reports'.fell
    <3> SUFFICES ASSUME job.kind = "progress"
                 PROVE  /\ processed' = (IF Ended' THEN TotalSize' ELSE Whole * (piece' - 1))
                        /\ reports'.last <= processed' /\ ~reports'.fell
      OBVIOUS
    <3>1. processed = 2 * (piece - 1) /\ reports.last <= processed /\ ~reports.fell /\ reports.last \in Nat
      BY <1>1 DEF Measured, Whole, AsyncTypeOK
    <3>2. TotalSize' = TotalSize /\ processed' = processed + SizeOf(piece)
      BY <1>1, <2>1 DEF TotalSize
    <3>3. (Ended' <=> piece = Len(job.pieces)) /\ (piece' - 1 = piece)
      BY <1>1, <1>3, <2>1 DEF Ended
    <3>4. processed' = IF Ended' THEN TotalSize' ELSE Whole * (piece' - 1)
      BY <1>3, <3>1, <3>2, <3>3 DEF SizeOf, Whole
    <3>5. reports'.last <= processed'
      BY <1>3, <1>5, <2>1, <3>1, <3>2
    <3> QED BY <2>1, <3>1, <3>4, <3>5
  <2>6. Measured'
    BY <1>1, <1>4, <2>1, <2>5 DEF Measured, Pending
  <2>7. RegionsKnown' /\ AsyncAnswers'
    BY <1>1, <2>1 DEF AsyncInv, RegionsKnown, AsyncAnswers
  <2> QED BY <2>3, <2>4, <2>6, <2>7 DEF AsyncInv
<1>7. CASE found # "absent"
  <2>1. /\ piece' = piece /\ processed' = processed
        /\ \/ found = "present" /\ outcome' = Future("value", piece)
           \/ found = "throws" /\ outcome' = Future("exception", piece)
    BY <1>1, <1>2, <1>3, <1>7 DEF Pieces
  <2>2. /\ outcome' \in [state : {"pending", "value", "exception"}, at : Nat]
        /\ outcome' # Pending /\ outcome'.state # "pending"
        /\ outcome'.state = "value" => found = "present"
    BY <1>3, <2>1 DEF Future, Pending
  <2>3. AsyncTypeOK'
    <3>1. JobKnown'
      BY <1>1, <1>3, <2>1 DEF AsyncTypeOK, JobKnown
    <3> QED BY <1>1, <1>4, <2>1, <2>2, <3>1 DEF AsyncTypeOK
  <2>4. AsyncAnswers'
    BY <1>1, <2>1, <2>2, RightAnswer
  <2>5. Measured'
    <3>1. job.kind = "progress" => ~reports'.fell
      BY <1>1, LastReport DEF Measured
    <3>2. job.kind = "progress" /\ outcome'.state = "value" => reports'.last = TotalSize
      BY <1>1, <2>2, LastReport
    <3>3. TotalSize' = TotalSize
      BY <1>1 DEF TotalSize
    <3> QED BY <1>1, <1>4, <2>2, <3>1, <3>2, <3>3 DEF Measured
  <2>6. Searched' /\ RegionsKnown'
    BY <1>1, <2>1, <2>2 DEF AsyncInv, Searched, RegionsKnown
  <2> QED BY <2>3, <2>4, <2>5, <2>6 DEF AsyncInv
<1> QED BY <1>6, <1>7

\* The flag is seen, or the loop runs out: the answer is "not found".
LEMMA NotFoundInv ==
  ASSUME AsyncInv, StopCancelled \/ FinishScan
  PROVE  AsyncInv'
<1>1. /\ job.kind \in {"cancellable", "progress", "executable"} /\ outcome = Pending
      /\ outcome' = Future("value", 0)
      /\ cancelled \/ Ended
      /\ UNCHANGED <<job, piece, done_of, cancelled, processed>>
      /\ AsyncTypeOK /\ Measured /\ Searched /\ job # NoJob
  BY DEF StopCancelled, FinishScan, InOrder, AsyncInv, NoJob
<1>2. /\ reports' \in [last : Nat, fell : BOOLEAN] /\ reports'.last <= TotalSize'
      /\ job.kind = "progress" => ~reports'.fell /\ reports'.last = TotalSize'
  <2>1. TotalSize' = TotalSize /\ reports.last <= TotalSize
    BY <1>1 DEF TotalSize, Measured
  <2>2. CASE StopCancelled
    BY <1>1, <2>1, <2>2 DEF StopCancelled, AsyncTypeOK
  <2>3. CASE FinishScan
    BY <1>1, <2>1, <2>3, LastReport DEF FinishScan
  <2> QED BY <2>2, <2>3
<1>3. /\ outcome' \in [state : {"pending", "value", "exception"}, at : Nat]
      /\ outcome' # Pending /\ outcome'.state # "pending"
  <2>1. outcome' = Future("value", 0)
    BY <1>1
  <2> QED BY <2>1 DEF Future, Pending
<1>4. AsyncTypeOK'
  BY <1>1, <1>2, <1>3 DEF AsyncTypeOK, JobKnown
<1>5. AsyncAnswers'
  <2>1. outcome' = Future("value", 0) /\ (cancelled' \/ Ended)
    BY <1>1
  <2>2. AsyncTypeOK /\ Searched /\ job # NoJob /\ outcome = Pending /\ job.kind # "read"
    BY <1>1
  <2>3. UNCHANGED <<job, piece>> /\ outcome' # Pending
    BY <1>1, <1>3
  <2> QED BY <2>1, <2>2, <2>3, RightAnswer
<1>6. Measured'
  BY <1>1, <1>2, <1>3 DEF Measured
<1>7. Searched' /\ RegionsKnown'
  BY <1>1, <1>3 DEF AsyncInv, Searched, RegionsKnown
<1> QED BY <1>4, <1>5, <1>6, <1>7 DEF AsyncInv

\* The flag only excuses an answer, and hides none.
LEMMA CancelJobInv ==
  ASSUME AsyncInv, CancelJob
  PROVE  AsyncInv'
<1>1. /\ cancelled' = TRUE
      /\ UNCHANGED <<job, piece, done_of, processed, reports, outcome>>
      /\ AsyncTypeOK /\ Measured
  BY DEF CancelJob, AsyncInv
<1>2. AsyncTypeOK'
  BY <1>1 DEF AsyncTypeOK, JobKnown
<1>3. Measured'
  BY <1>1 DEF Measured, Ended, TotalSize
<1>4. Searched' /\ RegionsKnown' /\ AsyncAnswers'
  BY <1>1 DEF AsyncInv, Searched, RegionsKnown, AsyncAnswers
<1> QED BY <1>2, <1>3, <1>4 DEF AsyncInv

\* A byte is read, or the buffer is out: whole, or empty after an exception.
LEMMA ReadByteInv ==
  ASSUME AsyncInv, ReadByte
  PROVE  AsyncInv'
<1>1. /\ job.kind = "read" /\ outcome = Pending
      /\ UNCHANGED <<job, done_of, cancelled, processed, reports>>
      /\ AsyncTypeOK /\ Measured /\ Searched /\ job # NoJob
  BY DEF ReadByte, AsyncInv, NoJob
<1>2. /\ Len(job.pieces) \in Nat \ {0} /\ DOMAIN job.pieces = 1 .. Len(job.pieces)
      /\ piece \in Nat \ {0}
      /\ \A i \in DOMAIN job.pieces : i < piece => job.pieces[i] # "throws"
  BY <1>1, Sizes DEF AsyncTypeOK, Searched
<1>3. CASE Ended \/ job.pieces[piece] = "throws"
  <2>1. outcome' = Future("value", IF Ended THEN Len(job.pieces) ELSE 0) /\ piece' = piece
    BY <1>3 DEF ReadByte
  <2>2. /\ outcome' \in [state : {"pending", "value", "exception"}, at : Nat]
        /\ outcome' # Pending /\ outcome'.state # "pending"
        /\ outcome'.at = IF Ended THEN Len(job.pieces) ELSE 0
    BY <1>2, <2>1 DEF Future, Pending
  <2>3. "throws" \in {job.pieces[i] : i \in DOMAIN job.pieces} <=> ~Ended
    BY <1>2, <1>3 DEF Ended
  <2>4. AsyncAnswers'
    BY <1>1, <2>2, <2>3 DEF AsyncAnswers
  <2>5. AsyncTypeOK'
    BY <1>1, <2>1, <2>2 DEF AsyncTypeOK, JobKnown
  <2>6. Measured' /\ Searched' /\ RegionsKnown'
    BY <1>1, <2>1, <2>2 DEF Measured, TotalSize, Searched, RegionsKnown
  <2> QED BY <2>4, <2>5, <2>6 DEF AsyncInv
<1>4. CASE ~(Ended \/ job.pieces[piece] = "throws")
  <2>1. piece' = piece + 1 /\ outcome' = outcome
    BY <1>4 DEF ReadByte
  <2>2. AsyncTypeOK'
    <3>1. JobKnown'
      BY <1>1, <1>2, <1>4, <2>1 DEF AsyncTypeOK, JobKnown, Ended
    <3> QED BY <1>1, <1>2, <2>1, <3>1 DEF AsyncTypeOK
  <2>3. Searched'
    BY <1>1, <1>2, <1>4, <2>1 DEF Searched, Ended
  <2>4. Measured' /\ RegionsKnown' /\ AsyncAnswers'
    BY <1>1, <2>1 DEF Measured, TotalSize, RegionsKnown, AsyncAnswers
  <2> QED BY <2>2, <2>3, <2>4 DEF AsyncInv
<1> QED BY <1>3, <1>4

\* The scan of a region puts what it found into the region's own future.
LEMMA RegionDoneInv ==
  ASSUME AsyncInv, NEW i \in DOMAIN done_of, RegionDone(i)
  PROVE  AsyncInv'
<1>1. /\ job.kind = "regions" /\ done_of' = [done_of EXCEPT ![i] = job.pieces[i]]
      /\ UNCHANGED <<job, piece, cancelled, processed, reports, outcome>>
      /\ AsyncTypeOK /\ Measured /\ RegionsKnown
  BY DEF RegionDone, AsyncInv
<1>2. DOMAIN done_of' = DOMAIN done_of
  BY <1>1
<1>3. \A j \in DOMAIN done_of' : done_of'[j] = IF j = i THEN job.pieces[i] ELSE done_of[j]
  BY <1>1
<1>4. RegionsKnown'
  BY <1>1, <1>2, <1>3 DEF RegionsKnown
<1>5. AsyncTypeOK'
  BY <1>1 DEF AsyncTypeOK, JobKnown, NoJob
<1>6. Measured' /\ Searched' /\ AsyncAnswers'
  BY <1>1 DEF AsyncInv, Measured, TotalSize, Searched, AsyncAnswers
<1> QED BY <1>4, <1>5, <1>6 DEF AsyncInv

\* The futures are asked in order: one that found nothing is passed.
LEMMA CollectRegionsInv ==
  ASSUME AsyncInv, RegionsCollect
  PROVE  AsyncInv'
<1>1. /\ job.kind = "regions" /\ outcome = Pending
      /\ UNCHANGED <<job, done_of, cancelled, processed, reports>>
      /\ AsyncTypeOK /\ Measured /\ Searched /\ RegionsKnown /\ job # NoJob
  BY DEF RegionsCollect, AsyncInv, NoJob
<1>2. /\ Len(job.pieces) \in Nat \ {0} /\ DOMAIN job.pieces = 1 .. Len(job.pieces)
      /\ piece \in Nat \ {0} /\ DOMAIN done_of = DOMAIN job.pieces
      /\ \A i \in DOMAIN job.pieces : job.pieces[i] \in Pieces
      /\ \A i \in DOMAIN done_of : done_of[i] \in {"pending", job.pieces[i]}
      /\ \A i \in DOMAIN job.pieces : i < piece => job.pieces[i] = "absent"
  BY <1>1, Sizes DEF AsyncTypeOK, Searched, RegionsKnown
<1>3. CASE ~Ended /\ done_of[piece] = "absent"
  <2>1. piece' = piece + 1 /\ outcome' = outcome
    BY <1>3 DEF RegionsCollect
  <2>2. piece \in DOMAIN job.pieces /\ job.pieces[piece] = "absent"
    BY <1>2, <1>3 DEF Ended
  <2>3. AsyncTypeOK'
    <3>1. JobKnown'
      BY <1>1, <1>2, <2>1, <2>2 DEF AsyncTypeOK, JobKnown
    <3> QED BY <1>1, <1>2, <2>1, <3>1 DEF AsyncTypeOK
  <2>4. Searched'
    BY <1>1, <1>2, <2>1, <2>2 DEF Searched
  <2>5. Measured' /\ RegionsKnown' /\ AsyncAnswers'
    BY <1>1, <2>1 DEF Measured, TotalSize, RegionsKnown, AsyncAnswers
  <2> QED BY <2>3, <2>4, <2>5 DEF AsyncInv
<1>4. CASE ~(~Ended /\ done_of[piece] = "absent")
  <2>1. /\ \A i \in DOMAIN done_of : done_of[i] # "pending"
        /\ outcome' = IF Ended THEN Future("value", 0)
                      ELSE IF done_of[piece] = "present" THEN Future("value", piece)
                      ELSE Future("exception", piece)
        /\ piece' = piece
    BY <1>4 DEF RegionsCollect
  <2>2. \/ Ended /\ outcome' = Future("value", 0)
        \/ /\ ~Ended
           /\ \/ job.pieces[piece] = "present" /\ outcome' = Future("value", piece)
              \/ job.pieces[piece] = "throws" /\ outcome' = Future("exception", piece)
    <3>1. CASE Ended
      BY <2>1, <3>1
    <3>2. CASE ~Ended
      <4>1. piece \in DOMAIN job.pieces /\ done_of[piece] = job.pieces[piece]
        BY <1>2, <2>1, <3>2 DEF Ended
      <4> QED BY <1>2, <1>4, <2>1, <3>2, <4>1 DEF Pieces
    <3> QED BY <3>1, <3>2
  <2>3. /\ outcome' \in [state : {"pending", "value", "exception"}, at : Nat]
        /\ outcome' # Pending /\ outcome'.state # "pending"
    BY <1>2, <2>2 DEF Future, Pending
  <2>4. AsyncAnswers'
    BY <1>1, <2>1, <2>2, <2>3, RightAnswer
  <2>5. AsyncTypeOK'
    BY <1>1, <2>1, <2>3 DEF AsyncTypeOK, JobKnown
  <2>6. Measured' /\ Searched' /\ RegionsKnown'
    BY <1>1, <2>1, <2>3 DEF Measured, TotalSize, Searched, RegionsKnown
  <2> QED BY <2>4, <2>5, <2>6 DEF AsyncInv
<1> QED BY <1>3, <1>4

-----------------------------------------------------------------------------
\* The invariant holds of every reachable state of the background scans.
THEOREM AsyncInvariance == AsyncSpec => []AsyncInv
<1>1. AsyncInit => AsyncInv
  <2> SUFFICES ASSUME AsyncInit PROVE AsyncInv
    OBVIOUS
  <2>1. /\ job = NoJob /\ piece = 1 /\ done_of = <<>> /\ cancelled = FALSE /\ processed = 0
        /\ reports = [last |-> 0, fell |-> FALSE] /\ outcome = Pending
    BY DEF AsyncInit
  <2>2. AsyncTypeOK
    <3>1. JobKnown /\ piece \in Nat \ {0} /\ processed \in Nat
      BY <2>1 DEF JobKnown
    <3>2. cancelled \in BOOLEAN /\ reports \in [last : Nat, fell : BOOLEAN]
      BY <2>1
    <3>3. outcome \in [state : {"pending", "value", "exception"}, at : Nat] /\ outcome.state = "pending"
      BY <2>1 DEF Pending
    <3> QED BY <2>1, <3>1, <3>2, <3>3 DEF AsyncTypeOK
  <2>3. Searched /\ RegionsKnown /\ Measured /\ AsyncAnswers
    BY <2>1 DEF Searched, RegionsKnown, Measured, AsyncAnswers, NoJob
  <2> QED BY <2>2, <2>3 DEF AsyncInv
<1>2. AsyncInv /\ [AsyncNext]_async_vars => AsyncInv'
  <2> SUFFICES ASSUME AsyncInv, [AsyncNext]_async_vars PROVE AsyncInv'
    OBVIOUS
  <2>1. CASE UNCHANGED async_vars
    BY <2>1 DEF async_vars, AsyncInv, AsyncTypeOK, JobKnown, Searched, RegionsKnown, Measured,
                AsyncAnswers, Ended, TotalSize
  <2>2. ASSUME NEW kind \in Kinds, NEW n \in 1 .. MaxPieces,
               NEW pieces \in [1 .. n -> IF kind = "read" THEN {"present", "throws"} ELSE Pieces],
               Launch(kind, pieces)
        PROVE  AsyncInv'
    BY <2>2, JobLaunchInv
  <2>3. CASE ReportProgress
    BY <2>3, ReportInv
  <2>4. CASE ScanPiece
    BY <2>4, ScanInv
  <2>5. CASE StopCancelled \/ FinishScan
    BY <2>5, NotFoundInv
  <2>6. CASE CancelJob
    BY <2>6, CancelJobInv
  <2>7. CASE ReadByte
    BY <2>7, ReadByteInv
  <2>8. ASSUME NEW i \in DOMAIN done_of, RegionDone(i)
        PROVE  AsyncInv'
    BY <2>8, RegionDoneInv
  <2>9. CASE RegionsCollect
    BY <2>9, CollectRegionsInv
  <2> QED BY <2>1, <2>2, <2>3, <2>4, <2>5, <2>6, <2>7, <2>8, <2>9 DEF AsyncNext
<1> QED BY <1>1, <1>2, PTL DEF AsyncSpec

\* Whatever the pieces hold, however the regions' threads and the flag fall between the
\* steps of the caller: the future delivers the first match and no other, and the
\* progress told on the way never falls and ends with the whole range.
THEOREM AsyncIsSound == AsyncSpec => []AsyncSound
<1>1. AsyncInv => AsyncSound
  <2> SUFFICES ASSUME AsyncInv PROVE AsyncSound
    OBVIOUS
  <2>1. ProgressRises
    BY DEF AsyncInv, Measured, ProgressRises
  <2> QED BY <2>1 DEF AsyncInv, AsyncSound
<1> QED BY <1>1, AsyncInvariance, PTL

-----------------------------------------------------------------------------
(***************************************************************************)
(* Lemmas about Patterns, for any texts and bytes.                         *)
(*                                                                         *)
(* A set of numbers can be listed in its order, so that a matcher's list   *)
(* of offsets is one. Tokens that CompiledPattern accepts say the same to  *)
(* parse_signature, and to parse_ida_pattern if each of them has two       *)
(* characters.                                                             *)
(***************************************************************************)
-----------------------------------------------------------------------------
(* Numbers in their order *)

\* The least of a set of numbers.
LEMMA MinIs ==
  ASSUME NEW S, S \subseteq Nat, S # {}
  PROVE  Min(S) \in S /\ \A x \in S : Min(S) <= x
BY LeastNat DEF Min

LEMMA MinOfTwo ==
  ASSUME NEW x \in Int, NEW y \in Int
  PROVE  Min({x, y}) = IF x <= y THEN x ELSE y
BY DEF Min

Enumerates(s, S) ==
  /\ s \in [1 .. Cardinality(S) -> S]
  /\ S = {s[i] : i \in DOMAIN s}
  /\ \A i, j \in DOMAIN s : i < j => s[i] < s[j]

\* A finite set of numbers can be listed in its order.
LEMMA AscendingIs ==
  ASSUME NEW S \in SUBSET Nat, IsFiniteSet(S)
  PROVE  /\ Enumerates(Ascending(S), S)
         /\ Ascending(S) \in Seq(S) /\ Len(Ascending(S)) = Cardinality(S)
<1> DEFINE B == {T \in SUBSET S : ~ \E s : Enumerates(s, T)}
<1>1. ASSUME B # {} PROVE FALSE
  <2>1. PICK T \in B : \A U \in SUBSET T : U # T => U \notin B
    <3> HIDE DEF B
    <3>1. B \in SUBSET SUBSET S
      BY DEF B
    <3> QED BY <1>1, <3>1, SmallestSubset
  <2>2. IsFiniteSet(T) /\ T \in SUBSET Nat
    BY FS_Subset
  <2>3. CASE T = {}
    <3>1. Cardinality(T) = 0
      BY <2>3, FS_EmptySet
    <3>2. Enumerates(<<>>, T)
      BY <2>3, <3>1 DEF Enumerates
    <3> QED BY <2>1, <3>2
  <2>4. CASE T # {}
    <3> DEFINE m == Max(T)
               U == T \ {m}
    <3>1. m \in T /\ \A x \in T : m >= x
      BY <2>2, <2>4, MaxIs
    <3>2. U \in SUBSET T /\ U # T /\ \A x \in U : x < m /\ x \in Nat
      <4>1. U \in SUBSET T /\ U # T /\ \A x \in U : x \in T /\ x # m
        BY <3>1
      <4> HIDE DEF m, U
      <4>2. ASSUME NEW x \in U PROVE x < m /\ x \in Nat
        <5>1. x \in Nat /\ m \in Nat /\ m >= x /\ x # m
          BY <2>2, <3>1, <4>1
        <5> QED BY <5>1
      <4> QED BY <4>1, <4>2
    <3>3. PICK s : Enumerates(s, U)
      BY <2>1, <3>2
    <3>4. /\ Cardinality(U) \in Nat /\ Cardinality(T) = Cardinality(U) + 1
      <4> HIDE DEF m
      <4>1. IsFiniteSet(U) /\ Cardinality(U) = Cardinality(T) - 1
        BY <2>2, <3>1, FS_RemoveElement
      <4>2. Cardinality(U) \in Nat /\ Cardinality(T) \in Nat
        BY <2>2, <4>1, FS_CardinalityType
      <4> QED BY <4>1, <4>2
    <3> DEFINE n == Cardinality(T)
               r == [i \in 1 .. n |-> IF i = n THEN m ELSE s[i]]
    <3> HIDE DEF m, n
    <3>5. n \in Nat \ {0} /\ Cardinality(U) = n - 1
      BY <3>4 DEF n
    <3> HIDE DEF U
    <3>6. s \in [1 .. n - 1 -> U] /\ U = {s[i] : i \in 1 .. n - 1}
          /\ \A i, j \in 1 .. n - 1 : i < j => s[i] < s[j]
      BY <3>3, <3>5 DEF Enumerates
    <3>7. r \in [1 .. n -> T] /\ T = {r[i] : i \in DOMAIN r}
      <4>1. T = U \cup {m}
        BY <3>1 DEF U
      <4>2. \A i \in 1 .. n : i # n => i \in 1 .. n - 1
        BY <3>5
      <4>3. \A i \in 1 .. n - 1 : i \in 1 .. n /\ i # n
        BY <3>5
      <4>4. n \in 1 .. n
        BY <3>5
      <4> QED BY <3>6, <4>1, <4>2, <4>3, <4>4
    <3>8. ASSUME NEW i \in 1 .. n, NEW j \in 1 .. n, i < j PROVE r[i] < r[j]
      <4> HIDE DEF r
      <4>1. i \in 1 .. n - 1 /\ i # n /\ (j # n => j \in 1 .. n - 1)
        BY <3>5, <3>8
      <4>2. s[i] \in U
        BY <3>6, <4>1
      <4>3. s[i] < m
        BY <3>2, <4>2
      <4>4. j # n => s[i] < s[j]
        BY <3>6, <3>8, <4>1
      <4>5. r[i] = s[i] /\ r[j] = IF j = n THEN m ELSE s[j]
        BY <4>1 DEF r
      <4> QED BY <4>3, <4>4, <4>5
    <3>9. Enumerates(r, T)
      BY <3>7, <3>8 DEF Enumerates, n
    <3> QED BY <2>1, <3>9
  <2> QED BY <2>3, <2>4
<1>2. \E s : Enumerates(s, S)
  BY <1>1
<1>3. Enumerates(Ascending(S), S)
  <2>1. \E s \in [1 .. Cardinality(S) -> S] : S = {s[i] : i \in DOMAIN s}
                                            /\ \A i, j \in DOMAIN s : i < j => s[i] < s[j]
    BY <1>2 DEF Enumerates
  <2> QED BY <2>1 DEF Ascending, Enumerates
<1>4. Cardinality(S) \in Nat
  BY FS_CardinalityType
<1> QED BY <1>3, <1>4 DEF Enumerates

-----------------------------------------------------------------------------
(* Parsing *)

\* Of one or two hex digits the byte is the number they spell.
LEMMA DigitsAre ==
  ASSUME NEW t \in Seq(STRING), Hex(t), Len(t) \in 1 .. 2
  PROVE  Value(t) \in 0 .. 255 /\ LeadingByte(t) = Value(t)
<1>1. \A i \in 1 .. Len(t) : DigitValue[t[i]] \in 0 .. 1
  BY DEF Hex, DigitValue
<1>2. Value(t) \in 0 .. 255
  <2>1. CASE Len(t) = 1
    <3>1. DigitValue[t[1]] \in 0 .. 1
      BY <1>1, <2>1
    <3>2. Value(t) = DigitValue[t[1]] + 0
      BY <2>1 DEF Value
    <3>3. PICK a \in 0 .. 1 : Value(t) = a + 0
      BY <3>1, <3>2
    <3> QED BY <3>3
  <2>2. CASE Len(t) = 2
    <3>1. DigitValue[t[1]] \in 0 .. 1 /\ DigitValue[t[2]] \in 0 .. 1
      BY <1>1, <2>2
    <3>2. Value(t) = DigitValue[t[2]] + 16 * DigitValue[t[1]]
      BY <2>2 DEF Value
    <3>3. PICK a \in 0 .. 1, b \in 0 .. 1 : Value(t) = b + 16 * a
      BY <3>1, <3>2
    <3> QED BY <3>3
  <2> QED BY <2>1, <2>2
<1> DEFINE P(n) == (\A i \in 1 .. n : t[i] \in DOMAIN DigitValue)
                   /\ (n = Len(t) \/ t[n + 1] \notin DOMAIN DigitValue)
           m == CHOOSE n \in 0 .. Len(t) : P(n)
<1>3. Len(t) \in 0 .. Len(t) /\ P(Len(t))
  BY DEF Hex
<1>4. m \in 0 .. Len(t) /\ P(m)
  BY <1>3
<1> HIDE DEF m
<1>5. m = Len(t)
  BY <1>4 DEF Hex
<1>6. SubSeq(t, 1, m) = t
  BY <1>5
<1>7. LeadingByte(t) = Value(t)
  <2>1. LeadingByte(t) = IF m = 0 THEN Invalid ELSE Value(SubSeq(t, 1, m))
    BY DEF LeadingByte, m
  <2>2. m # 0
    BY <1>5
  <2>3. LeadingByte(t) = Value(SubSeq(t, 1, m))
    BY <2>1, <2>2, Zenon
  <2> QED BY <1>6, <2>3, Zenon
<1> QED BY <1>2, <1>7

\* A token that CompiledPattern accepts says the same to the other parsers.
LEMMA TokenAgrees ==
  ASSUME NEW t \in Seq(STRING), parse_token(t) # Invalid
  PROVE  /\ signature_token(t) = parse_token(t)
         /\ Len(t) = 2 => IdaByte(t) = parse_token(t)
<1>1. CASE t \in {<<"?">>, <<"?", "?">>}
  <2>1. ~Hex(t) /\ parse_token(t) = Wildcard
    <3>1. ~Hex(t)
      BY <1>1 DEF Hex, DigitValue
    <3> QED BY <1>1, <3>1 DEF parse_token
  <2>4. signature_token(t) = Wildcard
    BY <1>1 DEF signature_token
  <2>2. Len(t) = 2 => t = <<"?", "?">>
    BY <1>1
  <2>3. Len(t) = 2 => IdaByte(t) = Wildcard
    BY <2>2 DEF IdaByte
  <2> QED BY <2>1, <2>3, <2>4
<1>2. CASE t \notin {<<"?">>, <<"?", "?">>}
  <2>1. Len(t) \in 1 .. 2 /\ Hex(t) /\ parse_token(t) = Value(t)
    BY <1>2 DEF parse_token
  <2>2. LeadingByte(t) = Value(t) /\ Value(t) \in 0 .. 255
    BY <2>1, DigitsAre
  <2>3. t # <<"*">>
    BY <2>1 DEF Hex, DigitValue
  <2> QED BY <1>2, <2>1, <2>2, <2>3 DEF signature_token, IdaByte, Invalid
<1> QED BY <1>1, <1>2

\* So does a text of such tokens to parse_signature.
LEMMA SignatureAgrees ==
  ASSUME NEW text \in Text, Len(text) <= MaxLength,
         \A i \in DOMAIN text : parse_token(text[i]) # Invalid
  PROVE  /\ compile(text) = [i \in DOMAIN text |-> parse_token(text[i])]
         /\ parse_signature(text) = compile(text)
<1>1. \A i \in DOMAIN text : signature_token(text[i]) = parse_token(text[i])
  BY TokenAgrees DEF Text
<1>2. compile(text) = [i \in DOMAIN text |-> parse_token(text[i])]
  <2>1. Len(text) \in Nat
    BY DEF Text
  <2> QED BY <2>1, PatternsAssumption DEF compile
<1>3. parse_signature(text) = [i \in DOMAIN text |-> signature_token(text[i])]
  BY <1>1 DEF parse_signature
<1> QED BY <1>1, <1>2, <1>3

\* Whatever CompiledPattern accepts.
LEMMA CompiledIs ==
  ASSUME NEW text \in Text, compile(text) # <<>>
  PROVE  Len(text) <= MaxLength /\ \A i \in DOMAIN text : parse_token(text[i]) # Invalid
<1>1. Len(text) \in Nat
  BY DEF Text
<1> QED BY <1>1, PatternsAssumption DEF compile

-----------------------------------------------------------------------------
(* The characters of a text one after the other *)

\* f[i] are those of its first i tokens.
Flattens(f, text, n) ==
  f = [i \in 1 .. n |-> IF i = 1 THEN text[i] ELSE f[i - 1] \o text[i]]

LEMMA FlattenExists ==
  ASSUME NEW text, NEW n \in Nat
  PROVE  \E f : Flattens(f, text, n)
<1> DEFINE B == {k \in Nat : ~ \E f : Flattens(f, text, k)}
<1> SUFFICES ASSUME B # {} PROVE FALSE
  OBVIOUS
<1>1. PICK k \in B : \A j \in B : k <= j
  <2> HIDE DEF B
  <2>1. B \subseteq Nat
    BY DEF B
  <2> QED BY <2>1, LeastNat
<1>2. CASE k = 0
  <2> DEFINE g == [i \in 1 .. 0 |-> IF i = 1 THEN text[i] ELSE text[i] \o text[i]]
  <2>1. Flattens(g, text, 0)
    BY DEF Flattens
  <2> HIDE DEF g
  <2> QED BY <1>1, <1>2, <2>1
<1>3. CASE k # 0
  <2>1. k - 1 \in Nat /\ k - 1 \notin B
    BY <1>1, <1>3
  <2>2. PICK f : Flattens(f, text, k - 1)
    BY <2>1
  <2> DEFINE g == [i \in 1 .. k |-> IF i < k THEN f[i]
                                    ELSE IF i = 1 THEN text[i] ELSE f[i - 1] \o text[i]]
  <2>3. ASSUME NEW i \in 1 .. k PROVE g[i] = IF i = 1 THEN text[i] ELSE g[i - 1] \o text[i]
    <3>1. CASE i < k
      <4>1. i \in 1 .. k - 1 /\ (i # 1 => i - 1 \in 1 .. k /\ i - 1 < k)
        BY <2>1, <3>1
      <4>2. f[i] = IF i = 1 THEN text[i] ELSE f[i - 1] \o text[i]
        BY <2>2, <4>1 DEF Flattens
      <4> QED BY <3>1, <4>1, <4>2
    <3>2. CASE ~(i < k)
      <4>1. i # 1 => i - 1 \in 1 .. k /\ i - 1 < k
        BY <2>1
      <4> QED BY <3>2, <4>1
    <3> QED BY <3>1, <3>2
  <2>4. Flattens(g, text, k)
    BY <2>3 DEF Flattens
  <2> QED BY <1>1, <2>4
<1> QED BY <1>2, <1>3

\* The last of them are FlattenSeq.
LEMMA FlattenIs ==
  ASSUME NEW text \in Text, text # <<>>
  PROVE  \E f : Flattens(f, text, Len(text)) /\ FlattenSeq(text) = f[Len(text)]
<1>1. Len(text) \in Nat /\ Len(text) # 0
  BY DEF Text
<1> DEFINE f == CHOOSE f : Flattens(f, text, Len(text))
<1>2. Flattens(f, text, Len(text))
  BY <1>1, FlattenExists
<1>3. FlattenSeq(text) = f[Len(text)]
  BY <1>1 DEF FlattenSeq, Flattens
<1> QED BY <1>2, <1>3

\* They are characters, and two for each token if each token has two.
LEMMA FlattenSays ==
  ASSUME NEW text \in Text
  PROVE  LET c == FlattenSeq(text) IN
         /\ c \in Seq(STRING)
         /\ (\A i \in DOMAIN text : Len(text[i]) = 2) =>
              /\ Len(c) = 2 * Len(text)
              /\ \A i \in DOMAIN text : text[i] = <<c[2 * i - 1], c[2 * i]>>
<1> DEFINE n == Len(text)
<1>1. n \in Nat /\ DOMAIN text = 1 .. n /\ \A i \in 1 .. n : text[i] \in Seq(STRING)
  BY DEF Text
<1>2. CASE text = <<>>
  BY <1>2 DEF FlattenSeq
<1>3. CASE text # <<>>
  <2>1. PICK f : Flattens(f, text, n) /\ FlattenSeq(text) = f[n]
    BY <1>3, FlattenIs
  <2> DEFINE Twins(k) == (\A i \in 1 .. n : Len(text[i]) = 2) =>
               /\ Len(f[k]) = 2 * k
               /\ \A i \in 1 .. k : text[i] = <<f[k][2 * i - 1], f[k][2 * i]>>
             Good(k) == f[k] \in Seq(STRING) /\ Twins(k)
             B == {k \in 1 .. n : ~Good(k)}
  <2>2. ASSUME B # {} PROVE FALSE
    <3>1. PICK k \in B : \A j \in B : k <= j
      <4> HIDE DEF B
      <4>1. B \subseteq Nat
        BY DEF B
      <4> QED BY <2>2, <4>1, LeastNat
    <3>2. k \in 1 .. n /\ ~Good(k)
      BY <3>1
    <3>3. f[k] = IF k = 1 THEN text[k] ELSE f[k - 1] \o text[k]
      BY <2>1, <3>2 DEF Flattens
    <3> DEFINE t == text[k]
    <3>4. t \in Seq(STRING)
      BY <1>1, <3>2
    <3>5. CASE k = 1
      <4>1. f[k] \in Seq(STRING)
        BY <3>3, <3>4, <3>5
      <4>2. Len(t) = 2 => t = <<t[1], t[2]>>
        BY <3>4
      <4>3. Twins(k)
        BY <1>1, <3>3, <3>4, <3>5, <4>2
      <4> QED BY <3>2, <4>1, <4>3
    <3>6. CASE k # 1
      <4>1. k - 1 \in 1 .. n /\ k - 1 \notin B
        BY <3>1, <3>2, <3>6
      <4> DEFINE e == f[k - 1]
      <4>2. Good(k - 1)
        BY <4>1
      <4>3. e \in Seq(STRING) /\ f[k] = e \o t
        BY <3>3, <3>6, <4>2
      <4>4. f[k] \in Seq(STRING)
        BY <3>4, <4>3
      <4>5. ASSUME \A i \in 1 .. n : Len(text[i]) = 2
            PROVE  /\ Len(f[k]) = 2 * k
                   /\ \A i \in 1 .. k : text[i] = <<f[k][2 * i - 1], f[k][2 * i]>>
        <5>1. Len(e) = 2 * (k - 1) /\ \A i \in 1 .. k - 1 : text[i] = <<e[2 * i - 1], e[2 * i]>>
          BY <4>2, <4>5
        <5>2. Len(t) = 2 /\ t = <<t[1], t[2]>>
          BY <3>2, <3>4, <4>5
        <5> DEFINE d == f[k]
        <5>3. Len(d) = 2 * k /\ \A j \in 1 .. 2 * k : d[j] = IF j <= 2 * (k - 1) THEN e[j] ELSE t[j - 2 * (k - 1)]
          <6> HIDE DEF e, t
          <6>1. d = e \o t /\ e \in Seq(STRING)
            BY <4>3
          <6>2. Len(e) = 2 * (k - 1) /\ Len(t) = 2 /\ k \in Nat \ {0}
            BY <3>2, <5>1, <5>2
          <6> HIDE DEF d
          <6>3. Len(d) = Len(e) + Len(t)
            BY <3>4, <6>1
          <6>4. ASSUME NEW j \in 1 .. Len(e) + Len(t)
                PROVE  d[j] = IF j <= Len(e) THEN e[j] ELSE t[j - Len(e)]
            BY <3>4, <6>1
          <6> QED BY <6>2, <6>3, <6>4
        <5>4. ASSUME NEW i \in 1 .. k PROVE text[i] = <<d[2 * i - 1], d[2 * i]>>
          <6> HIDE DEF d, e
          <6>1. CASE i = k
            <7>1. d[2 * k - 1] = t[1] /\ d[2 * k] = t[2]
              <8> HIDE DEF t
              <8> DEFINE y == 2 * k
                         x == 2 * k - 1
                         h == 2 * (k - 1)
              <8>1. y \in Nat \ {0} /\ x = y - 1 /\ h = y - 2 /\ x \in 1 .. y
                BY <3>2
              <8>2. \A j \in 1 .. y : d[j] = IF j <= h THEN e[j] ELSE t[j - h]
                BY <5>3
              <8> HIDE DEF x, y, h
              <8>3. d[x] = t[x - h] /\ d[y] = t[y - h]
                BY <8>1, <8>2
              <8>4. x - h = 1 /\ y - h = 2
                BY <8>1
              <8>5. d[x] = t[1] /\ d[y] = t[2]
                BY <8>3, <8>4
              <8> QED BY <8>5 DEF x, y
            <7> QED BY <5>2, <6>1, <7>1
          <6>2. CASE i # k
            <7>1. i \in 1 .. k - 1 /\ 2 * i - 1 \in 1 .. 2 * k /\ 2 * i \in 1 .. 2 * k
                  /\ 2 * i - 1 <= 2 * (k - 1) /\ 2 * i <= 2 * (k - 1)
              BY <3>2, <6>2
            <7>2. d[2 * i - 1] = e[2 * i - 1] /\ d[2 * i] = e[2 * i]
              BY <5>3, <7>1
            <7> QED BY <5>1, <7>1, <7>2
          <6> QED BY <6>1, <6>2
        <5> QED BY <5>3, <5>4
      <4>6. Twins(k)
        BY <4>5
      <4> QED BY <3>2, <4>4, <4>6
    <3> QED BY <3>5, <3>6
  <2>3. n \in 1 .. n /\ n \notin B
    <3>1. n # 0
      BY <1>3 DEF Text
    <3> HIDE DEF n, B
    <3>2. n \in 1 .. n
      BY <1>1, <3>1
    <3> QED BY <2>2, <3>2
  <2>4. Good(n)
    BY <2>3
  <2> QED BY <1>1, <2>1, <2>4
<1> QED BY <1>2, <1>3

\* parse_ida_pattern gives one byte for two characters.
LEMMA IdaLength ==
  ASSUME NEW text \in Text
  PROVE  Len(parse_ida_pattern(text)) \in Nat
         /\ DOMAIN parse_ida_pattern(text) = 1 .. Len(parse_ida_pattern(text))
<1> DEFINE l == Len(FlattenSeq(text))
           h == l \div 2
<1>1. l \in Nat
  BY FlattenSays
<1>2. h \in Nat
  <2> HIDE DEF l
  <2> QED BY <1>1, SMTT(20)
<1>3. parse_ida_pattern(text)
        = [i \in 1 .. h |-> IdaByte(SubSeq(FlattenSeq(text), (2 * i) - 1, 2 * i))]
  BY DEF parse_ida_pattern
<1> HIDE DEF h
<1> QED BY <1>2, <1>3

LEMMA PairAt ==
  ASSUME NEW c \in Seq(STRING), NEW i \in Nat \ {0}, i + 1 <= Len(c)
  PROVE  SubSeq(c, i, i + 1) = <<c[i], c[i + 1]>>
<1>1. SubSeq(c, i, i + 1) \in Seq(STRING) /\ Len(SubSeq(c, i, i + 1)) = 2
  OBVIOUS
<1>2. SubSeq(c, i, i + 1)[1] = c[i] /\ SubSeq(c, i, i + 1)[2] = c[i + 1]
  OBVIOUS
<1> DEFINE s == SubSeq(c, i, i + 1)
<1> HIDE DEF s
<1>3. s = <<s[1], s[2]>>
  <2>1. s \in Seq(STRING) /\ Len(s) = 2
    BY <1>1 DEF s
  <2>2. s = [x \in 1 .. 2 |-> s[x]]
    BY <2>1
  <2> QED BY <2>2
<1> QED BY <1>2, <1>3 DEF s

\* A text of tokens of two characters says the same to parse_ida_pattern.
LEMMA IdaAgrees ==
  ASSUME NEW text \in Text, compile(text) # <<>>, \A i \in DOMAIN text : Len(text[i]) = 2
  PROVE  parse_ida_pattern(text) = compile(text)
<1> DEFINE c == FlattenSeq(text)
           n == Len(text)
<1>1. n \in Nat /\ DOMAIN text = 1 .. n /\ \A i \in 1 .. n : text[i] \in Seq(STRING)
  BY DEF Text
<1>2. /\ c \in Seq(STRING) /\ Len(c) = 2 * n
      /\ \A i \in 1 .. n : text[i] = <<c[2 * i - 1], c[2 * i]>>
  BY <1>1, FlattenSays
<1> HIDE DEF c, n
<1>3. Len(c) \div 2 = n
  <2> DEFINE l == Len(c)
  <2>1. l = 2 * n
    BY <1>2
  <2> HIDE DEF l
  <2>2. l \div 2 = n
    BY <1>1, <2>1, SMTT(20)
  <2> QED BY <2>2 DEF l
<1>4. ASSUME NEW i \in 1 .. n PROVE IdaByte(SubSeq(c, (2 * i) - 1, 2 * i)) = parse_token(text[i])
  <2>1. (2 * i) - 1 \in 1 .. Len(c) /\ 2 * i \in 1 .. Len(c)
    BY <1>1, <1>2
  <2>2. SubSeq(c, (2 * i) - 1, 2 * i) = <<c[2 * i - 1], c[2 * i]>>
    <3> DEFINE j == 2 * i
    <3>1. j \in 2 .. Len(c) /\ j - 1 \in 1 .. Len(c)
      BY <1>1, <1>2
    <3> HIDE DEF j
    <3>2. SubSeq(c, j - 1, j) = <<c[j - 1], c[j]>>
      <4> DEFINE h == j - 1
      <4>1. h \in Nat \ {0} /\ h + 1 = j /\ h + 1 <= Len(c)
        BY <1>2, <3>1
      <4> HIDE DEF h
      <4>2. SubSeq(c, h, h + 1) = <<c[h], c[h + 1]>>
        BY <1>2, <4>1, PairAt
      <4> QED BY <4>1, <4>2 DEF h
    <3> QED BY <3>2 DEF j
  <2>3. SubSeq(c, (2 * i) - 1, 2 * i) = text[i]
    BY <1>2, <2>2
  <2>4. parse_token(text[i]) # Invalid /\ Len(text[i]) = 2 /\ text[i] \in Seq(STRING)
    BY <1>1, CompiledIs
  <2> QED BY <2>3, <2>4, TokenAgrees
<1>5. parse_ida_pattern(text) = [i \in 1 .. n |-> IdaByte(SubSeq(c, (2 * i) - 1, 2 * i))]
  BY <1>3 DEF parse_ida_pattern, c
<1>6. compile(text) = [i \in 1 .. n |-> parse_token(text[i])]
  BY <1>1, CompiledIs, SignatureAgrees
<1> QED BY <1>4, <1>5, <1>6

-----------------------------------------------------------------------------
(***************************************************************************)
(* Proofs about Signatures, for any memory, texts and chunk size.          *)
(*                                                                         *)
(* A round that has nothing to report leaves no match behind it.           *)
(***************************************************************************)
IsPattern(p) == Len(p) \in Nat /\ p = [i \in 1 .. Len(p) |-> p[i]]

SignatureTypeOK ==
  /\ memory \in [0 .. Top -> 0 .. 255 \cup {Unreadable}]
  /\ scan = [compiled |-> scan.compiled, text |-> scan.text, pattern |-> scan.pattern,
             start |-> scan.start, end |-> scan.end]
  /\ scan.text \in Text /\ IsPattern(scan.pattern)
  /\ scan.start \in 0 .. Top + 1 /\ scan.end \in 0 .. Top + 1
  /\ current_address \in Nat
  /\ scan_pc \in {"idle", "scan", "threw", "done", "died"}

\* Where a round begins.
InLoop ==
  /\ scan.pattern # <<>>
  /\ current_address < scan.end
  /\ \E k \in Nat : current_address = scan.start + k * ChunkSize

NoneBehind ==
  scan.start > 0 /\ (scan.compiled \/ ~ShortRead) => \A a \in Matches : a >= current_address

SignatureInv ==
  /\ SignatureTypeOK
  /\ scan_pc = "scan" => InLoop /\ NoneBehind
  /\ ChunkedSearch

-----------------------------------------------------------------------------
LEMMA PatternsAre ==
  ASSUME NEW text \in Text
  PROVE  IsPattern(compile(text)) /\ IsPattern(parse_signature(text))
<1>1. Len(text) \in Nat /\ DOMAIN text = 1 .. Len(text)
  BY DEF Text
<1>2. IsPattern(<<>>)
  BY DEF IsPattern
<1>3. ASSUME NEW f, f = [i \in 1 .. Len(text) |-> f[i]] PROVE IsPattern(f)
  <2>1. Len(f) = Len(text)
    BY <1>1, <1>3
  <2> QED BY <1>1, <1>3, <2>1 DEF IsPattern
<1> DEFINE c == [i \in DOMAIN text |-> parse_token(text[i])]
           d == [i \in DOMAIN text |-> signature_token(text[i])]
<1>4. compile(text) \in {<<>>, c} /\ parse_signature(text) \in {<<>>, d}
  BY DEF compile, parse_signature
<1>5. c = [i \in 1 .. Len(text) |-> c[i]] /\ d = [i \in 1 .. Len(text) |-> d[i]]
  BY <1>1
<1> HIDE DEF c, d
<1> QED BY <1>2, <1>3, <1>4, <1>5

LEMMA PatternSize ==
  ASSUME NEW p, IsPattern(p), p # <<>>
  PROVE  Len(p) \in Nat \ {0} /\ DOMAIN p = 1 .. Len(p)
<1>1. Len(p) \in Nat /\ p = [i \in 1 .. Len(p) |-> p[i]]
  BY DEF IsPattern
<1>2. ASSUME Len(p) = 0 PROVE FALSE
  <2>1. p = [i \in 1 .. 0 |-> p[i]]
    BY <1>1, <1>2
  <2>2. p = <<>>
    BY <2>1
  <2> QED BY <2>2
<1> QED BY <1>1, <1>2

\* A read delivers what there is up to the first unreadable address.
LEMMA ReadIs ==
  ASSUME SignatureTypeOK, NEW a \in Nat, NEW n \in Nat, a + n <= Top + 1
  PROVE  LET d == ReadAt(a, n) IN
         /\ Len(d) \in 0 .. n /\ (d = <<>> <=> Len(d) = 0)
         /\ \A i \in 1 .. Len(d) : d[i] = memory[a + i - 1] /\ d[i] # Unreadable
         /\ \A m \in 1 .. n :
              (\A b \in a .. a + m - 1 : memory[b] # Unreadable) => m <= Len(d)
<1> DEFINE P(k) == (\A i \in 0 .. (k - 1) : memory[a + i] # Unreadable)
                   /\ (k = n \/ memory[a + k] = Unreadable)
           S == {k \in 0 .. n : k = n \/ memory[a + k] = Unreadable}
           u == CHOOSE k \in 0 .. n : P(k)
<1>1. PICK k \in S : \A j \in S : k <= j
  <2> HIDE DEF S
  <2>1. S \subseteq Nat /\ S # {}
    BY DEF S
  <2> QED BY <2>1, LeastNat
<1>2. k \in 0 .. n /\ P(k)
  <2>1. ASSUME NEW i \in 0 .. (k - 1) PROVE memory[a + i] # Unreadable
    <3>1. i \in 0 .. n /\ i < k
      OBVIOUS
    <3>2. i \notin S
      BY <1>1, <3>1
    <3> QED BY <3>1, <3>2
  <2> QED BY <2>1
<1>3. u \in 0 .. n /\ P(u)
  BY <1>2
<1>4. ReadAt(a, n) = [i \in 1 .. u |-> memory[a + i - 1]]
  BY DEF ReadAt
<1> HIDE DEF u
<1> DEFINE d == ReadAt(a, n)
<1>5. Len(d) = u
  BY <1>3, <1>4
<1>6. d = <<>> <=> u = 0
  <2>1. u = 0 => d = <<>>
    BY <1>4
  <2> QED BY <1>5, <2>1
<1>7. ASSUME NEW i \in 1 .. u PROVE d[i] = memory[a + i - 1] /\ d[i] # Unreadable
  <2>1. d[i] = memory[a + i - 1]
    BY <1>4
  <2>2. i - 1 \in 0 .. (u - 1) /\ a + (i - 1) = a + i - 1
    BY <1>3
  <2> QED BY <1>3, <2>1, <2>2
<1>8. ASSUME NEW m \in 1 .. n, \A b \in a .. a + m - 1 : memory[b] # Unreadable PROVE m <= u
  <2> SUFFICES ASSUME u < m PROVE FALSE
    BY <1>3
  <2>1. a + u \in a .. a + m - 1 /\ u # n
    BY <1>3
  <2> QED BY <1>3, <1>8, <2>1
<1> QED BY <1>3, <1>5, <1>6, <1>7, <1>8

-----------------------------------------------------------------------------
\* A place inside a chunk.
LEMMA ChunkOf ==
  ASSUME NEW x \in Nat, NEW c \in Nat \ {0}, NEW k \in Nat, k * c <= x, x < k * c + c
  PROVE  x \div c = k
<1> DEFINE q == x \div c
           r == x % c
<1>1. q \in Int /\ r \in 0 .. c - 1 /\ x = c * q + r
  BY SMTT(20)
<1> HIDE DEF q, r
<1>2. ASSUME q < k PROVE FALSE
  <2>1. c * (q + 1) <= c * k
    BY <1>1, <1>2, SMTT(20)
  <2>2. c * (q + 1) = c * q + c /\ c * k = k * c
    BY <1>1, SMTT(20)
  <2> QED BY <1>1, <2>1, <2>2, SMTT(20)
<1>3. ASSUME q > k PROVE FALSE
  <2>1. c * (k + 1) <= c * q
    BY <1>1, <1>3, SMTT(20)
  <2>2. c * (k + 1) = k * c + c
    BY SMTT(20)
  <2> QED BY <1>1, <2>1, <2>2, SMTT(20)
<1>4. q = k
  BY <1>1, <1>2, <1>3
<1> QED BY <1>4 DEF q

\* The chunk of a round.
LEMMA RoundIs ==
  ASSUME SignatureTypeOK, scan_pc = "scan", InLoop
  PROVE  /\ ReadSize \in 1 .. ChunkSize
         /\ current_address + ReadSize <= scan.end
         /\ current_address >= scan.start
         /\ ReadSize = ChunkSize \/ current_address + ReadSize = scan.end
         /\ \A a \in current_address .. current_address + ReadSize - 1 :
              /\ ChunkEnd(a) = current_address + ReadSize - 1
              /\ scan.start + ((a - scan.start) \div ChunkSize) * ChunkSize = current_address
<1> DEFINE s == scan.start
           e == scan.end
           c == ChunkSize
           z == ReadSize
<1>1. PICK k \in Nat : current_address = s + k * c
  BY DEF InLoop
<1> DEFINE w == k * c
<1>2. w \in Nat /\ current_address = s + w /\ s \in Nat /\ e \in Nat /\ c \in Nat \ {0}
      /\ current_address < e
  <2>1. s \in Nat /\ e \in Nat /\ c \in Nat \ {0} /\ current_address < e
    BY SignaturesAssumption DEF SignatureTypeOK, InLoop
  <2>2. w \in Nat
    <3> HIDE DEF c
    <3> QED BY <2>1, SMTT(20)
  <2> QED BY <1>1, <2>1, <2>2
<1>3. z = IF c < e - current_address THEN c ELSE e - current_address
  BY DEF ReadSize
<1> HIDE DEF z
<1>4. /\ z \in 1 .. c /\ current_address + z <= e /\ current_address >= s
      /\ z = c \/ current_address + z = e
  <2> HIDE DEF s, e, c, w
  <2> QED BY <1>2, <1>3
<1>5. ASSUME NEW a \in current_address .. current_address + z - 1
      PROVE  ChunkEnd(a) = current_address + z - 1 /\ s + ((a - s) \div c) * c = current_address
  <2> DEFINE q == (a - s) \div c
  <2>1. a - s \in Nat /\ k * c <= a - s /\ a - s < k * c + c
    <3>1. a - s \in Nat /\ w <= a - s /\ a - s < w + c
      <4> HIDE DEF s, e, c, w
      <4> QED BY <1>2, <1>4
    <3> QED BY <3>1
  <2>2. q = k
    <3> HIDE DEF s, c
    <3> QED BY <1>2, <2>1, ChunkOf
  <2> HIDE DEF q
  <2>3. s + q * c = current_address
    BY <1>1, <2>2
  <2>4. s + (q + 1) * c = current_address + c
    <3>1. (k + 1) * c = k * c + c
      <4> HIDE DEF c
      <4> QED BY <1>2, SMTT(20)
    <3>2. s + (w + c) = current_address + c
      <4> HIDE DEF s, c, w
      <4> QED BY <1>2
    <3> QED BY <2>2, <3>1, <3>2
  <2>5. ChunkEnd(a) = Min({s + (q + 1) * c, e}) - 1
    BY DEF ChunkEnd, q
  <2>6. Min({current_address + c, e}) = current_address + z
    <3> HIDE DEF s, e, c, w
    <3>1. Min({current_address + c, e})
            = IF current_address + c <= e THEN current_address + c ELSE e
      BY <1>2, MinOfTwo
    <3> QED BY <1>2, <1>3, <3>1
  <2>7. ChunkEnd(a) = current_address + z - 1
    <3> DEFINE m == Min({current_address + c, e})
    <3>1. ChunkEnd(a) = m - 1
      <4> HIDE DEF s, e, c, w
      <4> QED BY <2>4, <2>5, Zenon
    <3>2. m = current_address + z
      BY <2>6
    <3>3. z \in Int /\ current_address \in Int
      BY <1>2, <1>4
    <3> HIDE DEF m
    <3> QED BY <3>1, <3>2, <3>3
  <2> QED BY <2>3, <2>7 DEF q
<1> QED BY <1>4, <1>5 DEF z

\* The matches in the chunk of a round are what is found in the data it reads.
LEMMA RoundFinds ==
  ASSUME SignatureTypeOK, scan_pc = "scan", InLoop,
         NEW a \in current_address .. current_address + ReadSize - 1
  PROVE  a \in Matches
           <=> a - current_address \in Offsets(ReadAt(current_address, ReadSize), scan.pattern)
<1> DEFINE p == scan.pattern
           n == Len(p)
           r == current_address
           z == ReadSize
           d == ReadAt(r, z)
<1>1. n \in Nat \ {0} /\ DOMAIN p = 1 .. n
  BY PatternSize DEF SignatureTypeOK, InLoop
<1>2. /\ z \in Nat \ {0} /\ r \in Nat /\ scan.start \in Nat /\ scan.end \in Nat
      /\ r >= scan.start /\ r + z <= scan.end /\ scan.end <= Top + 1
      /\ ChunkEnd(a) = r + z - 1
      /\ scan.start + ((a - scan.start) \div ChunkSize) * ChunkSize = r
  <2>1. r \in Nat /\ scan.start \in Nat /\ scan.end \in Nat /\ scan.end <= Top + 1
    BY SignaturesAssumption DEF SignatureTypeOK
  <2>2. z \in 1 .. ChunkSize /\ ChunkSize \in Nat
    BY RoundIs, SignaturesAssumption
  <2>3. z \in Nat \ {0}
    <3> HIDE DEF z
    <3> QED BY <2>2
  <2>4. r + z <= scan.end /\ r >= scan.start
    BY RoundIs
  <2>5. /\ ChunkEnd(a) = r + z - 1
        /\ scan.start + ((a - scan.start) \div ChunkSize) * ChunkSize = r
    BY RoundIs
  <2> QED BY <2>1, <2>3, <2>4, <2>5
<1>3. /\ Len(d) \in 0 .. z
      /\ \A i \in 1 .. Len(d) : d[i] = memory[r + i - 1] /\ d[i] # Unreadable
      /\ \A m \in 1 .. z : (\A b \in r .. r + m - 1 : memory[b] # Unreadable) => m <= Len(d)
  <2> HIDE DEF z
  <2>1. r + z <= Top + 1
    BY <1>2, SignaturesAssumption
  <2> QED BY <1>2, <2>1, ReadIs
<1>4. a \in Matches <=>
        /\ a \in scan.start .. (scan.end - n)
        /\ a + n - 1 <= r + z - 1
        /\ \A b \in r .. (a + n - 1) : memory[b] # Unreadable
        /\ \A j \in 1 .. n : p[j] \in {Wildcard, memory[a + j - 1]}
  BY <1>1, <1>2 DEF Matches
<1> DEFINE o == a - r
<1>5. o \in Offsets(d, p) <=>
        o \in 0 .. (Len(d) - n) /\ \A j \in 1 .. n : p[j] = Wildcard \/ d[o + j] = p[j]
  BY <1>1 DEF Offsets, MatchAt
<1> HIDE DEF p, n, d, z
<1>6. a \in Nat /\ o \in 0 .. z - 1 /\ r \in Nat
  <2>1. a \in r .. r + z - 1
    BY DEF z
  <2> QED BY <1>2, <2>1
<1>7. ASSUME o \in 0 .. (Len(d) - n), NEW j \in 1 .. n
      PROVE  d[o + j] = memory[a + j - 1]
  <2>1. o + j \in 1 .. Len(d) /\ r + (o + j) - 1 = a + j - 1
    BY <1>1, <1>3, <1>6, <1>7
  <2> QED BY <1>3, <2>1
<1>8. ASSUME a \in Matches PROVE o \in Offsets(d, p)
  <2>1. o + n \in 1 .. z /\ r + (o + n) - 1 = a + n - 1
    BY <1>1, <1>2, <1>4, <1>6, <1>8
  <2>2. o + n <= Len(d)
    BY <1>3, <1>4, <1>8, <2>1
  <2>3. o \in 0 .. (Len(d) - n)
    BY <1>1, <1>3, <1>6, <2>2
  <2> QED BY <1>4, <1>5, <1>7, <1>8, <2>3
<1>9. ASSUME o \in Offsets(d, p) PROVE a \in Matches
  <2>1. o \in 0 .. (Len(d) - n)
    BY <1>5, <1>9
  <2>2. a + n - 1 <= r + z - 1 /\ a \in scan.start .. (scan.end - n)
    BY <1>1, <1>2, <1>3, <1>6, <2>1
  <2>3. ASSUME NEW b \in r .. (a + n - 1) PROVE memory[b] # Unreadable
    <3>1. b - r + 1 \in 1 .. Len(d) /\ r + (b - r + 1) - 1 = b
      BY <1>1, <1>3, <1>6, <2>1
    <3> QED BY <1>3, <3>1
  <2>4. \A j \in 1 .. n : p[j] \in {Wildcard, memory[a + j - 1]}
    BY <1>5, <1>7, <1>9, <2>1
  <2> QED BY <1>4, <2>2, <2>3, <2>4
<1> QED BY <1>8, <1>9 DEF p, d, z

\* A round that reads less than the pattern shows in the memory.
LEMMA ShortShows ==
  ASSUME SignatureTypeOK, scan_pc = "scan", InLoop,
         ReadAt(current_address, ReadSize) # <<>>,
         Len(ReadAt(current_address, ReadSize)) < Len(scan.pattern)
  PROVE  ShortRead
<1> DEFINE s == scan.start
           z == ReadSize
           l == Len(ReadAt(current_address, z))
<1>1. PICK k \in Nat : current_address = s + k * ChunkSize
  BY DEF InLoop
<1>2. /\ z \in Nat \ {0} /\ current_address \in Nat /\ s \in Nat /\ ChunkSize \in Nat \ {0}
      /\ current_address + z <= Top + 1 /\ Top \in Nat /\ current_address < scan.end
      /\ scan.end <= Top + 1 /\ scan.end \in Nat
  <2>1. z \in 1 .. ChunkSize /\ current_address + z <= scan.end
    BY RoundIs
  <2>2. /\ current_address \in Nat /\ s \in Nat /\ ChunkSize \in Nat \ {0} /\ Top \in Nat
        /\ current_address < scan.end /\ scan.end \in 0 .. Top + 1
    BY SignaturesAssumption DEF SignatureTypeOK, InLoop
  <2> HIDE DEF s, z
  <2> QED BY <2>1, <2>2
<1>3. k \in 0 .. Top
  <2>1. k <= k * ChunkSize
    BY <1>2, SMTT(20)
  <2> DEFINE w == k * ChunkSize
  <2>2. k <= w /\ current_address = s + w /\ w \in Int
    BY <1>1, <1>2, <2>1, SMTT(20)
  <2> HIDE DEF s, w
  <2> QED BY <1>2, <2>2
<1>4. ChunkEnd(current_address) + 1 - current_address = z
  <2>1. current_address \in current_address .. current_address + z - 1
    <3> HIDE DEF z
    <3> QED BY <1>2
  <2>2. ChunkEnd(current_address) = current_address + z - 1
    BY <2>1, RoundIs
  <2> HIDE DEF z
  <2> QED BY <1>2, <2>2
<1>5. l \in 1 .. (Len(scan.pattern) - 1)
  <2>1. l \in 0 .. z /\ l # 0
    <3> HIDE DEF z
    <3>1. LET d == ReadAt(current_address, z) IN Len(d) \in 0 .. z /\ (d = <<>> <=> Len(d) = 0)
      BY <1>2, ReadIs
    <3>2. l \in 0 .. z
      BY <3>1
    <3>3. l # 0
      BY <3>1 DEF z
    <3> QED BY <3>2, <3>3
  <2>2. l < Len(scan.pattern) /\ Len(scan.pattern) \in Nat
    BY DEF SignatureTypeOK, IsPattern
  <2> HIDE DEF l
  <2> QED BY <1>2, <2>1, <2>2
<1>6. LET a == s + k * ChunkSize IN
        a < scan.end /\ Len(ReadAt(a, ChunkEnd(a) + 1 - a)) \in 1 .. (Len(scan.pattern) - 1)
  <2>1. Len(ReadAt(current_address, ChunkEnd(current_address) + 1 - current_address))
          \in 1 .. (Len(scan.pattern) - 1)
    BY <1>4, <1>5, Zenon
  <2> QED BY <1>1, <1>2, <2>1
<1> QED BY <1>3, <1>6 DEF ShortRead

\* Of the matches the ones in the chunk of the round come first.
LEMMA RoundAnswers ==
  ASSUME SignatureTypeOK, scan_pc = "scan", InLoop, scan.start > 0,
         \A a \in Matches : a >= current_address
  PROVE  LET found == find_in_buffer(ReadAt(current_address, ReadSize), current_address, scan.pattern)
         IN  /\ found = 0 => \A a \in Matches : a >= current_address + ReadSize
             /\ found # 0 => found = Min(Matches) /\ Matches # {}
<1> DEFINE r == current_address
           z == ReadSize
           d == ReadAt(r, z)
           O == Offsets(d, scan.pattern)
           found == find_in_buffer(d, r, scan.pattern)
<1>1. /\ z \in Nat \ {0} /\ r \in Nat /\ r > 0 /\ Len(d) \in 0 .. z
      /\ Len(scan.pattern) \in Nat \ {0}
  <2>1. z \in 1 .. ChunkSize /\ r + z <= scan.end /\ ChunkSize \in Nat /\ r >= scan.start
    BY RoundIs, SignaturesAssumption
  <2>2. r \in Nat /\ scan.end \in 0 .. Top + 1 /\ Top \in Nat /\ scan.start \in Nat
    BY SignaturesAssumption DEF SignatureTypeOK
  <2>3. Len(scan.pattern) \in Nat \ {0}
    BY PatternSize DEF SignatureTypeOK, InLoop
  <2>4. z \in Nat \ {0} /\ r + z <= Top + 1 /\ r > 0
    <3> HIDE DEF z
    <3> QED BY <2>1, <2>2
  <2>5. Len(d) \in 0 .. z
    <3> HIDE DEF z
    <3> QED BY <2>2, <2>4, ReadIs
  <2> QED BY <2>2, <2>3, <2>4, <2>5
<1>2. \A a \in r .. r + z - 1 : a \in Matches <=> a - r \in O
  BY RoundFinds
<1>3. Matches \subseteq Nat
  BY SignaturesAssumption DEF Matches, SignatureTypeOK
<1>4. O \subseteq 0 .. z - 1
  <2> HIDE DEF d, z
  <2> QED BY <1>1 DEF Offsets
<1>5. found = IF d = <<>> \/ scan.pattern = <<>> \/ O = {} THEN 0 ELSE r + Min(O)
  BY DEF find_in_buffer
<1>6. d = <<>> => O = {}
  <2> HIDE DEF z
  <2>1. d = <<>> => Len(d) = 0
    OBVIOUS
  <2> HIDE DEF d
  <2> QED BY <1>1, <2>1 DEF Offsets
<1>7. scan.pattern # <<>>
  BY DEF InLoop
<1>8. \A a \in Matches : a >= r /\ a \in Nat
  BY <1>3
<1> HIDE DEF O, d, z, found
<1>9. CASE O = {}
  <2>1. found = 0
    BY <1>5, <1>9
  <2>2. ASSUME NEW a \in Matches PROVE a >= r + z
    <3>1. a \notin r .. r + z - 1
      BY <1>2, <1>9
    <3> QED BY <1>1, <1>8, <3>1
  <2> QED BY <2>1, <2>2 DEF found, z, d
<1>10. CASE O # {}
  <2>1. Min(O) \in O /\ \A o \in O : Min(O) <= o
    <3>1. O \subseteq Nat
      BY <1>1, <1>4
    <3> QED BY <1>10, <3>1, MinIs
  <2> DEFINE m == r + Min(O)
  <2>2. found = m
    BY <1>5, <1>6, <1>7, <1>10
  <2>3. Min(O) \in 0 .. z - 1
    BY <1>4, <2>1
  <2>4. m \in r .. r + z - 1 /\ m - r = Min(O) /\ m > 0
    BY <1>1, <2>3
  <2>5. m \in Matches
    BY <1>2, <2>1, <2>4
  <2>6. ASSUME NEW a \in Matches PROVE m <= a
    <3>1. a \in Nat /\ a >= r
      BY <1>8
    <3>2. CASE a \in r .. r + z - 1
      <4>1. a - r \in O
        BY <1>2, <3>2
      <4>2. Min(O) <= a - r
        BY <2>1, <4>1
      <4> QED BY <1>1, <2>3, <3>1, <4>2
    <3>3. CASE a \notin r .. r + z - 1
      BY <1>1, <2>3, <3>1, <3>3
    <3> QED BY <3>2, <3>3
  <2> HIDE DEF m
  <2>7. Min(Matches) = m
    <3>1. Min(Matches) \in Matches /\ \A a \in Matches : Min(Matches) <= a
      BY <1>3, <2>5, MinIs
    <3>2. Min(Matches) <= m /\ m <= Min(Matches) /\ m \in Nat /\ Min(Matches) \in Nat
      BY <1>3, <2>5, <2>6, <3>1
    <3> QED BY <3>2
  <2> QED BY <2>2, <2>4, <2>5, <2>7 DEF found, z, d
<1> QED BY <1>9, <1>10

-----------------------------------------------------------------------------
(* Steps *)

LEMMA FindSignatureInv ==
  ASSUME SignatureTypeOK, NEW compiled \in BOOLEAN, NEW text \in Texts,
         NEW start \in 0 .. (Top + 1), NEW end \in 0 .. (Top + 1),
         FindSignature(compiled, text, start, end)
  PROVE  SignatureInv'
<1> DEFINE p == IF compiled THEN compile(text) ELSE parse_signature(text)
           new == [compiled |-> compiled, text |-> text, pattern |-> p, start |-> start, end |-> end]
<1>1. text \in Text /\ Memories \subseteq [0 .. Top -> 0 .. 255 \cup {Unreadable}] /\ Top \in Nat
      /\ ChunkSize \in Nat
  BY SignaturesAssumption
<1>2. IsPattern(p)
  BY <1>1, PatternsAre
<1> HIDE DEF p
<1>3. /\ memory' \in Memories /\ scan' = new /\ current_address' = start
      /\ scan_pc' = IF start < end /\ p # <<>> THEN "scan" ELSE "threw"
  BY DEF FindSignature, p
<1>4. /\ scan'.compiled = compiled /\ scan'.text = text /\ scan'.pattern = p
      /\ scan'.start = start /\ scan'.end = end
  BY <1>3
<1>5. SignatureTypeOK'
  <2>1. IsPattern(scan'.pattern)
    BY <1>2, <1>4
  <2>2. start \in Nat /\ scan' = [compiled |-> scan'.compiled, text |-> scan'.text,
                  pattern |-> scan'.pattern, start |-> scan'.start, end |-> scan'.end]
    BY <1>1, <1>3
  <2> QED BY <1>1, <1>3, <1>4, <2>1, <2>2 DEF SignatureTypeOK, IsPattern
<1>6. scan_pc' = "scan" => InLoop'
  <2>1. start + 0 * ChunkSize = start /\ 0 \in Nat
    BY <1>1
  <2>2. \E k \in Nat : start = start + k * ChunkSize
    BY <2>1
  <2> QED BY <1>3, <1>4, <2>2 DEF InLoop
<1>7. NoneBehind'
  <2>1. \A a \in Matches' : a >= start
    BY <1>1, <1>4 DEF Matches
  <2> QED BY <1>3, <2>1 DEF NoneBehind
<1>8. ChunkedSearch'
  BY <1>3 DEF ChunkedSearch
<1> QED BY <1>5, <1>6, <1>7, <1>8 DEF SignatureInv

LEMMA ScanReturnInv ==
  ASSUME SignatureInv, ScanReturn
  PROVE  SignatureInv'
<1>1. /\ memory' = NoMemory /\ scan' = NoScan /\ current_address' = 0 /\ scan_pc' = "idle"
  BY DEF ScanReturn
<1>2. SignatureTypeOK'
  <2>1. NoMemory \in [0 .. Top -> 0 .. 255 \cup {Unreadable}]
    BY DEF NoMemory
  <2>2. <<>> \in Text /\ IsPattern(<<>>) /\ 0 \in 0 .. Top + 1
    BY SignaturesAssumption DEF Text, IsPattern
  <2> QED BY <1>1, <2>1, <2>2 DEF SignatureTypeOK, NoScan, IsPattern
<1>3. ChunkedSearch'
  BY <1>1 DEF ChunkedSearch
<1> QED BY <1>1, <1>2, <1>3 DEF SignatureInv

\* A round that goes on goes on where it ended, with no match behind.
LEMMA ScanRoundInv ==
  ASSUME SignatureInv, ScanRound
  PROVE  SignatureInv'
<1> DEFINE d == ReadAt(current_address, ReadSize)
           after == current_address + ReadSize
           found == find_in_buffer(d, current_address, scan.pattern)
           short == ~scan.compiled /\ d # <<>> /\ Len(d) < Len(scan.pattern)
           sure == scan.start > 0 /\ (scan.compiled \/ ~ShortRead)
<1>1. SignatureTypeOK /\ scan_pc = "scan" /\ InLoop /\ NoneBehind
  BY DEF SignatureInv, ScanRound
<1>2. memory' = memory /\ scan' = scan
  BY DEF ScanRound
<1>3. Matches' = Matches /\ ShortRead' = ShortRead
  BY <1>2 DEF Matches, ShortRead, ChunkEnd, ReadAt
<1>4. PICK f : \/ Advance(after, f) /\ (short \/ f = found)
               \/ short /\ scan_pc' = "died" /\ current_address' = current_address
  BY DEF ScanRound
<1>5. short => ~sure
  BY <1>1, ShortShows
<1>6. sure => /\ found = 0 => \A a \in Matches : a >= after
              /\ found # 0 => found = Min(Matches) /\ Matches # {}
  <2> SUFFICES ASSUME sure
               PROVE  /\ found = 0 => \A a \in Matches : a >= after
                      /\ found # 0 => found = Min(Matches) /\ Matches # {}
    OBVIOUS
  <2>1. scan.start > 0 /\ \A a \in Matches : a >= current_address
    BY <1>1 DEF NoneBehind
  <2> QED BY <1>1, <2>1, RoundAnswers
<1>7. /\ current_address \in Nat /\ after \in Nat /\ scan.end \in Nat /\ after <= scan.end
      /\ ReadSize = ChunkSize \/ after = scan.end
  <2>1. ReadSize \in 1 .. ChunkSize /\ ChunkSize \in Nat /\ Top \in Nat
    BY <1>1, RoundIs, SignaturesAssumption
  <2>2. ReadSize \in Nat
    BY <2>1
  <2>3. after <= scan.end /\ (ReadSize = ChunkSize \/ after = scan.end)
    BY <1>1, RoundIs
  <2> QED BY <1>1, <2>1, <2>2, <2>3 DEF SignatureTypeOK
<1> HIDE DEF found, short, sure, after
<1>8. CASE scan_pc' = "died" /\ current_address' = current_address
  <2>1. SignatureTypeOK'
    BY <1>1, <1>2, <1>8 DEF SignatureTypeOK, IsPattern
  <2> QED BY <1>8, <2>1 DEF SignatureInv, ChunkedSearch
<1>9. CASE Advance(after, f) /\ (short \/ f = found)
  <2>1. /\ found_address' = f
        /\ current_address' = IF f # 0 THEN current_address ELSE after
        /\ scan_pc' = IF f # 0 \/ after >= scan.end THEN "done" ELSE "scan"
    BY <1>9 DEF Advance
  <2>2. SignatureTypeOK'
    BY <1>1, <1>2, <1>7, <2>1 DEF SignatureTypeOK, IsPattern
  <2>3. sure => f = found
    BY <1>5, <1>9
  <2>4. CASE f # 0 \/ after >= scan.end
    <3>1. scan_pc' = "done"
      BY <2>1, <2>4
    <3>2. sure => f = IF Matches = {} THEN 0 ELSE Min(Matches)
      <4> SUFFICES ASSUME sure PROVE f = IF Matches = {} THEN 0 ELSE Min(Matches)
        OBVIOUS
      <4>1. f = found
        BY <2>3
      <4>2. CASE f # 0
        BY <1>6, <4>1, <4>2
      <4>3. CASE f = 0
        <5>1. after >= scan.end
          BY <2>4, <4>3
        <5>2. \A a \in Matches : a >= after
          BY <1>6, <4>1, <4>3
        <5>3. ASSUME NEW a \in Matches PROVE FALSE
          <6>1. a \in scan.start .. (scan.end - Len(scan.pattern)) /\ scan.start \in Nat
            BY <1>1 DEF Matches, SignatureTypeOK
          <6>2. Len(scan.pattern) \in Nat \ {0}
            BY <1>1, PatternSize DEF SignatureTypeOK, InLoop
          <6>3. a >= after
            BY <5>2
          <6> QED BY <1>7, <5>1, <6>1, <6>2, <6>3
        <5> QED BY <4>3, <5>3
      <4> QED BY <4>2, <4>3
    <3>3. ChunkedSearch'
      BY <1>2, <1>3, <2>1, <3>2 DEF ChunkedSearch, sure
    <3> QED BY <2>2, <3>1, <3>3 DEF SignatureInv
  <2>5. CASE ~(f # 0 \/ after >= scan.end)
    <3>1. scan_pc' = "scan" /\ current_address' = after /\ f = 0 /\ after < scan.end
      BY <1>7, <2>1, <2>5
    <3>2. \E k \in Nat : after = scan.start + k * ChunkSize
      <4>1. PICK k \in Nat : current_address = scan.start + k * ChunkSize
        BY <1>1 DEF InLoop
      <4>2. ReadSize = ChunkSize
        BY <1>7, <3>1
      <4> DEFINE w == k * ChunkSize
                 c == ChunkSize
      <4>3. (k + 1) * c = w + c /\ w \in Int /\ c \in Nat
        BY SignaturesAssumption, SMTT(20)
      <4>4. after = scan.start + (w + c)
        <5>1. after = current_address + c /\ scan.start \in Nat
          BY <1>1, <4>2, SignaturesAssumption DEF after, SignatureTypeOK
        <5>2. current_address = scan.start + w
          BY <4>1
        <5> HIDE DEF w, c
        <5> QED BY <4>3, <5>1, <5>2
      <4>5. after = scan.start + (k + 1) * ChunkSize /\ k + 1 \in Nat
        BY <4>3, <4>4
      <4> QED BY <4>5
    <3>3. InLoop'
      BY <1>1, <1>2, <3>1, <3>2 DEF InLoop
    <3>4. NoneBehind'
      <4>1. sure => \A a \in Matches : a >= after
        BY <1>6, <2>3, <3>1
      <4> QED BY <1>2, <1>3, <3>1, <4>1 DEF NoneBehind, sure
    <3>5. ChunkedSearch'
      BY <3>1 DEF ChunkedSearch
    <3> QED BY <2>2, <3>3, <3>4, <3>5 DEF SignatureInv
  <2> QED BY <2>4, <2>5
<1> QED BY <1>4, <1>8, <1>9

SignatureSpec == SignatureInit /\ [][SignatureNext]_signature_vars

LEMMA SignatureInvariance == SignatureSpec => []SignatureInv
<1>1. SignatureInit => SignatureInv
  <2> SUFFICES ASSUME SignatureInit PROVE SignatureInv
    OBVIOUS
  <2>1. /\ memory = NoMemory /\ scan = NoScan /\ current_address = 0 /\ scan_pc = "idle"
    BY DEF SignatureInit
  <2>2. NoMemory \in [0 .. Top -> 0 .. 255 \cup {Unreadable}]
    BY DEF NoMemory
  <2>3. <<>> \in Text /\ IsPattern(<<>>) /\ 0 \in 0 .. Top + 1
    BY SignaturesAssumption DEF Text, IsPattern
  <2>4. SignatureTypeOK
    BY <2>1, <2>2, <2>3 DEF SignatureTypeOK, NoScan
  <2> QED BY <2>1, <2>4 DEF SignatureInv, ChunkedSearch
<1>2. ASSUME SignatureInv, [SignatureNext]_signature_vars PROVE SignatureInv'
  <2>1. CASE UNCHANGED signature_vars
    <3>1. memory' = memory /\ scan' = scan /\ current_address' = current_address
          /\ scan_pc' = scan_pc /\ found_address' = found_address
      BY <2>1 DEF signature_vars
    <3>2. Matches' = Matches /\ ShortRead' = ShortRead
      BY <3>1 DEF Matches, ShortRead, ChunkEnd, ReadAt
    <3>3. SignatureTypeOK' /\ (InLoop => InLoop')
      BY <1>2, <3>1 DEF SignatureInv, SignatureTypeOK, IsPattern, InLoop
    <3>4. (NoneBehind => NoneBehind') /\ ChunkedSearch'
      BY <1>2, <3>1, <3>2 DEF SignatureInv, NoneBehind, ChunkedSearch
    <3> QED BY <1>2, <3>1, <3>3, <3>4 DEF SignatureInv
  <2>2. CASE SignatureNext
    <3>1. SignatureTypeOK
      BY <1>2 DEF SignatureInv
    <3> QED BY <1>2, <2>2, <3>1, FindSignatureInv, ScanRoundInv, ScanReturnInv DEF SignatureNext
  <2> QED BY <1>2, <2>1, <2>2
<1> QED BY <1>1, <1>2, PTL DEF SignatureSpec

\* For any memory, any text, range and chunk size: a scan that starts above address 0
\* answers the lowest match that lies in one chunk, or 0 when there is none (the text
\* overload while no read is shorter than the pattern), and the pattern it looked for is
\* the one that the other parsers read from the text.
THEOREM SignaturesAreSound == SignatureSpec => []SignaturesSound
<1>1. SignatureInv => SignaturesSound
  <2> SUFFICES ASSUME SignatureInv PROVE SignaturesSound
    OBVIOUS
  <2>1. scan.text \in Text
    BY DEF SignatureInv, SignatureTypeOK
  <2>2. ParsersAgree
    BY <2>1, CompiledIs, SignatureAgrees, IdaAgrees DEF ParsersAgree
  <2> QED BY <2>2 DEF SignatureInv, SignaturesSound
<1> QED BY <1>1, SignatureInvariance, PTL

-----------------------------------------------------------------------------
(***************************************************************************)
(* Proofs about EnhancedScanner, for any memory, texts and chunk size.     *)
(*                                                                         *)
(* Up to where the scan has come it has reported what lies there; the      *)
(* overlap of the chunks is one byte less than the pattern, so the next    *)
(* chunk begins at the first place not decided yet, or before it.          *)
(***************************************************************************)
Compiled == {parse_ida_pattern(text) : text \in ScanTexts}

CacheOK(cache) ==
  /\ \A k \in DOMAIN cache : cache[k] \in Compiled
  /\ \A text \in ScanTexts : Key(text) \in DOMAIN cache => cache[Key(text)] = parse_ida_pattern(text)

\* What the cache holds for a multi-scan, if asked were the texts of the first one.
MultiKnown(cache, asked) ==
  IF asked = <<>> THEN \A i \in 0 .. 1 : PositionKey(i) \notin DOMAIN cache
  ELSE /\ asked \in Seq(ScanTexts) /\ Len(asked) = 2
       /\ \A i \in 0 .. 1 : /\ PositionKey(i) \in DOMAIN cache
                           /\ cache[PositionKey(i)] = parse_ida_pattern(asked[i + 1])

\* A scan for pattern from start has come to place p and found r.
ScanOK(pattern, start, p, r, first) ==
  /\ start \in Starts /\ p \in Nat \ {0} /\ r \in Seq(Nat)
  /\ Len(pattern) > 0 =>
       LET decided == Min({p + Len(pattern) - 1, Len(ScanMemory) + 1}) IN
       /\ \A i, j \in DOMAIN r : i < j => r[i] < r[j]
       /\ \A i \in DOMAIN r :
            r[i] < p /\ r[i] \in Occurrences(pattern, start, Len(ScanMemory) + 1)
       /\ Unbroken(start, decided) /\ ~first /\ Len(pattern) <= ScanChunk
            => {r[i] : i \in DOMAIN r} = Occurrences(pattern, start, decided)
       /\ IF Len(pattern) > ScanChunk THEN r = <<>>
          ELSE start <= p \/ Len(ScanMemory) + 1 - p < Len(pattern)

EnhancedInv ==
  /\ CacheOK(pattern_cache_) /\ MultiKnown(pattern_cache_, first_asked)
  /\ todo \in Seq(Compiled) /\ texts \in Seq(ScanTexts) /\ first_asked \in Seq(ScanTexts)
  /\ first_only \in BOOLEAN /\ start_address \in Nat
  /\ PatternAsAsked
  /\ todo # <<>> => ScanOK(todo[1], start_address, position, results, first_only)

-----------------------------------------------------------------------------
\* What is known of the lengths.
LEMMA PatternFits ==
  ASSUME NEW pattern \in Compiled
  PROVE  /\ Len(pattern) \in Nat /\ DOMAIN pattern = 1 .. Len(pattern)
         /\ Len(pattern) + Len(ScanMemory) <= ScanSpace
<1>1. PICK text \in ScanTexts : pattern = parse_ida_pattern(text)
  BY DEF Compiled
<1>2. text \in Text
  BY EnhancedAssumption
<1> QED BY <1>1, <1>2, IdaLength, EnhancedAssumption

\* What a lookup leaves in the cache.
LEMMA WithKeyIs ==
  ASSUME NEW cache, CacheOK(cache), NEW text \in ScanTexts, NEW key,
         key \in {Key(text), PositionKey(0), PositionKey(1)}
  PROVE  LET c == WithKey(cache, key, text) IN
         /\ CacheOK(c) /\ key \in DOMAIN c /\ c[key] \in Compiled
         /\ key = Key(text) => c[key] = parse_ida_pattern(text)
         /\ key \notin DOMAIN cache => c[key] = parse_ida_pattern(text)
         /\ DOMAIN c = DOMAIN cache \cup {key}
         /\ \A k \in DOMAIN cache : c[k] = cache[k]
<1> DEFINE c == WithKey(cache, key, text)
<1>1. CASE key \in DOMAIN cache
  <2>1. c = cache
    BY <1>1 DEF WithKey
  <2>2. DOMAIN cache = DOMAIN cache \cup {key}
    BY <1>1
  <2>3. key = Key(text) => cache[key] = parse_ida_pattern(text)
    BY <1>1 DEF CacheOK
  <2>4. cache[key] \in Compiled
    BY <1>1 DEF CacheOK
  <2> HIDE DEF c
  <2>5. /\ CacheOK(c) /\ key \in DOMAIN c /\ c[key] \in Compiled
        /\ key = Key(text) => c[key] = parse_ida_pattern(text)
        /\ DOMAIN c = DOMAIN cache \cup {key} /\ \A k \in DOMAIN cache : c[k] = cache[k]
    BY <1>1, <2>1, <2>2, <2>3, <2>4
  <2> QED BY <1>1, <2>5 DEF c
<1>2. CASE key \notin DOMAIN cache
  <2>1. c = [k \in DOMAIN cache \cup {key} |-> IF k = key THEN parse_ida_pattern(text) ELSE cache[k]]
    BY <1>2 DEF WithKey
  <2> HIDE DEF c
  <2>2. /\ DOMAIN c = DOMAIN cache \cup {key} /\ c[key] = parse_ida_pattern(text)
        /\ \A k \in DOMAIN cache : c[k] = cache[k]
    BY <1>2, <2>1
  <2>3. parse_ida_pattern(text) \in Compiled
    BY DEF Compiled
  <2>4. ASSUME NEW k \in DOMAIN c PROVE c[k] \in Compiled
    BY <2>2, <2>3 DEF CacheOK
  <2>5. ASSUME NEW t \in ScanTexts, Key(t) \in DOMAIN c PROVE c[Key(t)] = parse_ida_pattern(t)
    <3>1. CASE Key(t) = key
      <4>1. key = Key(text)
        <5>1. Key(t) # PositionKey(0) /\ Key(t) # PositionKey(1)
          BY KeysApart
        <5> QED BY <3>1, <5>1
      <4>2. FlattenSeq(t) = FlattenSeq(text)
        BY <3>1, <4>1 DEF Key
      <4>3. parse_ida_pattern(t) = parse_ida_pattern(text)
        BY <4>2, Zenon DEF parse_ida_pattern
      <4> QED BY <2>2, <3>1, <4>3
    <3>2. CASE Key(t) # key
      BY <2>2, <2>5, <3>2 DEF CacheOK
    <3> QED BY <3>1, <3>2
  <2>6. CacheOK(c)
    BY <2>4, <2>5 DEF CacheOK
  <2> QED BY <1>2, <2>2, <2>3, <2>6 DEF c
<1> QED BY <1>1, <1>2

-----------------------------------------------------------------------------
(* One read *)

\* It delivers what there is up to the first hole.
LEMMA DeliveredIs ==
  ASSUME NEW p \in Nat \ {0}, NEW n \in Nat \ {0}, p + n <= Len(ScanMemory) + 1
  PROVE  LET data == Delivered(p, n) IN
         \E d \in 0 .. n :
           /\ Len(data) = d /\ (data = <<>> <=> d = 0)
           /\ \A i \in 1 .. d : data[i] = ScanMemory[p + i - 1] /\ data[i] # Hole
           /\ d = n \/ ScanMemory[p + d] = Hole
<1> DEFINE l == Len(ScanMemory)
           holes == {i \in p .. (p + n - 1) : ScanMemory[i] = Hole}
           e == IF holes = {} THEN p + n - 1 ELSE Min(holes) - 1
           d == e - p + 1
           data == Delivered(p, n)
<1>1. l \in Nat /\ ScanMemory \in Seq(0 .. 255 \cup {Hole})
  BY EnhancedAssumption
<1>2. data = SubSeq(ScanMemory, p, e)
  BY DEF Delivered
<1>3. /\ d \in 0 .. n /\ e = p + d - 1
      /\ \A i \in p .. e : ScanMemory[i] # Hole
      /\ d = n \/ ScanMemory[p + d] = Hole
  <2>1. CASE holes = {}
    <3>1. e = p + n - 1
      BY <2>1
    <3>2. \A i \in p .. (p + n - 1) : ScanMemory[i] # Hole
      BY <2>1
    <3> HIDE DEF e, holes
    <3> QED BY <3>1, <3>2
  <2>2. CASE holes # {}
    <3> DEFINE m == Min(holes)
    <3>1. holes \subseteq Nat
      OBVIOUS
    <3>2. m \in holes /\ \A x \in holes : m <= x
      <4> HIDE DEF holes
      <4> QED BY <2>2, <3>1, MinIs
    <3>3. e = m - 1
      BY <2>2
    <3> HIDE DEF m, e
    <3>4. m \in p .. (p + n - 1) /\ ScanMemory[m] = Hole
      BY <3>2
    <3>5. ASSUME NEW i \in p .. e PROVE ScanMemory[i] # Hole
      <4>1. i \in p .. (p + n - 1) /\ i < m
        BY <3>3, <3>4
      <4>2. i \notin holes
        BY <3>2, <3>4, <4>1
      <4> QED BY <4>1, <4>2
    <3>6. d = m - p /\ p + d = m
      BY <3>3, <3>4
    <3> QED BY <3>3, <3>4, <3>5, <3>6
  <2> QED BY <2>1, <2>2
<1> HIDE DEF e, d
<1>4. data = [i \in 1 .. d |-> ScanMemory[p + i - 1]]
  <2>1. \A i \in 1 .. d : p + i - 1 \in 1 .. l
    BY <1>1, <1>3
  <2>2. SubSeq(ScanMemory, p, e) = [i \in 1 .. d |-> ScanMemory[p + i - 1]]
    BY <1>1, <1>3
  <2> QED BY <1>2, <2>2
<1> HIDE DEF data
<1>5. Len(data) = d /\ (d = 0 => data = <<>>)
  <2>1. Len(data) = d
    BY <1>3, <1>4
  <2>2. d = 0 => data = <<>>
    BY <1>4
  <2> QED BY <2>1, <2>2
<1>6. ASSUME NEW i \in 1 .. d PROVE data[i] = ScanMemory[p + i - 1] /\ data[i] # Hole
  <2>1. data[i] = ScanMemory[p + i - 1]
    BY <1>4
  <2>2. p + i - 1 \in p .. e
    BY <1>3
  <2> QED BY <1>3, <2>1, <2>2
<1>7. data = <<>> => d = 0
  BY <1>5
<1> QED BY <1>3, <1>5, <1>6, <1>7 DEF data

LEMMA OccurrenceIs ==
  ASSUME NEW pattern \in Compiled, NEW start \in Int, NEW a \in Int, NEW x \in Int
  PROVE  x \in Occurrences(pattern, start, a)
           <=> /\ x \in start .. (a - Len(pattern))
               /\ \A j \in 1 .. Len(pattern) :
                    ScanMemory[x + j - 1] # Hole /\ pattern[j] \in {Wildcard, ScanMemory[x + j - 1]}
<1>1. DOMAIN pattern = 1 .. Len(pattern)
  BY PatternFits
<1>2. x \in Occurrences(pattern, start, a)
        <=> /\ x \in start .. (a - Len(pattern))
            /\ \A j \in DOMAIN pattern :
                 ScanMemory[x + j - 1] # Hole /\ pattern[j] \in {Wildcard, ScanMemory[x + j - 1]}
  BY Zenon DEF Occurrences
<1> QED BY <1>1, <1>2, Zenon

\* A pattern is found at the places where it lies inside what was read.
LEMMA OffsetsAre ==
  ASSUME NEW pattern \in Compiled, NEW p \in Nat \ {0}, NEW data, NEW d \in Nat,
         Len(data) = d,
         \A i \in 1 .. d : data[i] = ScanMemory[p + i - 1] /\ data[i] # Hole
  PROVE  /\ Offsets(data, pattern) \in SUBSET Nat
         /\ IsFiniteSet(Offsets(data, pattern))
         /\ \A i \in Nat : i \in Offsets(data, pattern) <=> p + i \in Occurrences(pattern, 1, p + d)
<1> DEFINE z == Len(pattern)
           O == Offsets(data, pattern)
<1>1. z \in Nat /\ DOMAIN pattern = 1 .. z
  BY PatternFits
<1>2. O = {i \in 0 .. (d - z) : MatchAt(data, i, pattern)}
  BY DEF Offsets
<1>3. \A i \in Nat : p + i \in Occurrences(pattern, 1, p + d)
        <=> /\ p + i \in 1 .. (p + d - z)
            /\ \A j \in 1 .. z :
                 /\ ScanMemory[(p + i) + j - 1] # Hole
                 /\ pattern[j] \in {Wildcard, ScanMemory[(p + i) + j - 1]}
  <2> TAKE i \in Nat
  <2>1. p + i \in Int /\ p + d \in Int /\ 1 \in Int
    OBVIOUS
  <2> QED BY <2>1, OccurrenceIs
<1> HIDE DEF z, O
<1>4. O \in SUBSET Nat /\ IsFiniteSet(O)
  <2>1. IsFiniteSet(0 .. (d - z))
    BY <1>1, FS_Interval
  <2>2. O \in SUBSET (0 .. (d - z)) /\ O \in SUBSET Nat
    BY <1>1, <1>2
  <2> QED BY <2>1, <2>2, FS_Subset
<1>5. ASSUME NEW i \in Nat PROVE i \in O <=> p + i \in Occurrences(pattern, 1, p + d)
  <2>1. i \in 0 .. (d - z) <=> p + i \in 1 .. (p + d - z)
    BY <1>1
  <2>2. ASSUME i \in 0 .. (d - z), NEW j \in 1 .. z
        PROVE  /\ ScanMemory[(p + i) + j - 1] = data[i + j]
               /\ ScanMemory[(p + i) + j - 1] # Hole
    <3> DEFINE k == i + j
    <3>1. k \in 1 .. d /\ p + k - 1 = (p + i) + j - 1
      <4>1. i <= d - z /\ j <= z /\ 1 <= j /\ j \in Nat
        BY <1>1, <2>2
      <4> QED BY <1>1, <4>1
    <3> HIDE DEF k
    <3>2. data[k] = ScanMemory[(p + i) + j - 1] /\ data[k] # Hole
      BY <3>1
    <3> QED BY <3>2 DEF k
  <2>3. MatchAt(data, i, pattern)
          <=> \A j \in 1 .. z : pattern[j] = Wildcard \/ data[i + j] = pattern[j]
    BY <1>1 DEF MatchAt
  <2>4. ASSUME i \in 0 .. (d - z)
        PROVE  (\A j \in 1 .. z : ScanMemory[(p + i) + j - 1] # Hole
                   /\ pattern[j] \in {Wildcard, ScanMemory[(p + i) + j - 1]})
               <=> MatchAt(data, i, pattern)
    BY <2>2, <2>3, <2>4
  <2> QED BY <1>2, <1>3, <2>1, <2>4
<1> QED BY <1>4, <1>5 DEF O

\* They are reported in their order, all of them or the first.
LEMMA FoundIs ==
  ASSUME NEW data, NEW pattern, NEW first \in BOOLEAN,
         Offsets(data, pattern) \in SUBSET Nat, IsFiniteSet(Offsets(data, pattern))
  PROVE  LET found == match_pattern_in_buffer(data, pattern, first) IN
         /\ found \in Seq(Offsets(data, pattern))
         /\ \A i, j \in DOMAIN found : i < j => found[i] < found[j]
         /\ ~first => {found[i] : i \in DOMAIN found} = Offsets(data, pattern)
<1> DEFINE O == Offsets(data, pattern)
           s == Ascending(O)
           found == match_pattern_in_buffer(data, pattern, first)
<1>1. found = IF first /\ s # <<>> THEN <<s[1]>> ELSE s
  BY DEF match_pattern_in_buffer
<1> HIDE DEF O
<1>2. Enumerates(s, O) /\ s \in Seq(O)
  BY AscendingIs DEF O
<1> HIDE DEF s, found
<1>3. O = {s[i] : i \in DOMAIN s} /\ \A i, j \in DOMAIN s : i < j => s[i] < s[j]
  BY <1>2 DEF Enumerates
<1>4. CASE first /\ s # <<>>
  <2>1. s[1] \in O /\ found = <<s[1]>>
    BY <1>1, <1>2, <1>4
  <2>2. found \in Seq(O) /\ DOMAIN found = {1}
    BY <2>1
  <2>3. \A i, j \in DOMAIN found : i < j => found[i] < found[j]
    BY <2>2
  <2> QED BY <1>4, <2>2, <2>3 DEF O, found
<1>5. CASE ~(first /\ s # <<>>)
  <2>1. found = s
    BY <1>1, <1>5
  <2>2. /\ found \in Seq(O) /\ {found[i] : i \in DOMAIN found} = O
        /\ \A i, j \in DOMAIN found : i < j => found[i] < found[j]
    BY <1>2, <1>3, <2>1
  <2> QED BY <2>2 DEF O, found
<1> QED BY <1>4, <1>5

-----------------------------------------------------------------------------
(* One chunk *)

\* Before the first chunk nothing is decided.
LEMMA NothingDecided ==
  ASSUME NEW pattern \in Compiled, NEW start \in Starts, NEW first
  PROVE  ScanOK(pattern, start, start, <<>>, first)
<1> DEFINE z == Len(pattern)
           l == Len(ScanMemory)
           decided == Min({start + z - 1, l + 1})
<1>1. z \in Nat /\ l \in Nat /\ start \in 1 .. l
  BY PatternFits, EnhancedAssumption
<1>2. Occurrences(pattern, start, decided) = {}
  <2>1. decided \in Int /\ decided <= start + z - 1
    <3> HIDE DEF z, l
    <3>1. decided = IF start + z - 1 <= l + 1 THEN start + z - 1 ELSE l + 1
      BY <1>1, MinOfTwo
    <3> HIDE DEF decided
    <3> QED BY <1>1, <3>1
  <2>2. Occurrences(pattern, start, decided) \subseteq start .. (decided - z)
    BY DEF Occurrences
  <2> HIDE DEF decided, z
  <2> QED BY <1>1, <2>1, <2>2
<1>3. /\ start \in Nat \ {0} /\ <<>> \in Seq(Nat) /\ start <= start
      /\ \A i, j \in DOMAIN <<>> : i < j => <<>>[i] < <<>>[j]
      /\ \A i \in DOMAIN <<>> : <<>>[i] < start /\ <<>>[i] \in Occurrences(pattern, start, l + 1)
      /\ {<<>>[i] : i \in DOMAIN <<>>} = {}
  <2>1. DOMAIN <<>> = {} /\ <<>> \in Seq(Nat)
    OBVIOUS
  <2> QED BY <1>1, <2>1
<1> QED BY <1>2, <1>3, Zenon DEF ScanOK

LEMMA Joined ==
  ASSUME NEW r \in Seq(Nat), NEW f \in Seq(Nat)
  PROVE  /\ r \o f \in Seq(Nat) /\ Len(r \o f) = Len(r) + Len(f)
         /\ DOMAIN (r \o f) = 1 .. Len(r) + Len(f)
         /\ \A i \in 1 .. Len(r) + Len(f) :
              (r \o f)[i] = IF i <= Len(r) THEN r[i] ELSE f[i - Len(r)]
OBVIOUS

\* A pattern that fits nowhere is found nowhere, wherever the place goes.
LEMMA NothingFits ==
  ASSUME NEW pattern \in Compiled, Len(pattern) > 0,
         NEW start \in Starts, NEW p \in Nat \ {0}, NEW first,
         Len(pattern) > ScanChunk \/ Len(pattern) > Len(ScanMemory)
  PROVE  ScanOK(pattern, start, p, <<>>, first)
<1> DEFINE z == Len(pattern)
           l == Len(ScanMemory)
           decided == Min({p + z - 1, l + 1})
<1>1. z \in Nat /\ l \in Nat /\ start \in 1 .. l /\ ScanChunk \in Nat
  BY PatternFits, EnhancedAssumption
<1>2. ASSUME z > l PROVE Occurrences(pattern, start, decided) = {}
  <2>1. decided \in Int /\ decided <= l + 1
    <3> HIDE DEF z, l
    <3>1. decided = IF p + z - 1 <= l + 1 THEN p + z - 1 ELSE l + 1
      BY <1>1, MinOfTwo
    <3> HIDE DEF decided
    <3> QED BY <1>1, <3>1
  <2>2. Occurrences(pattern, start, decided) \subseteq start .. (decided - z)
    BY DEF Occurrences
  <2> HIDE DEF decided, z, l
  <2> QED BY <1>1, <1>2, <2>1, <2>2
<1>3. /\ <<>> \in Seq(Nat) /\ {<<>>[i] : i \in DOMAIN <<>>} = {}
      /\ \A i, j \in DOMAIN <<>> : i < j => <<>>[i] < <<>>[j]
      /\ \A i \in DOMAIN <<>> : <<>>[i] < p /\ <<>>[i] \in Occurrences(pattern, start, l + 1)
  <2>1. DOMAIN <<>> = {} /\ <<>> \in Seq(Nat)
    OBVIOUS
  <2> QED BY <2>1
<1>4. z > ScanChunk \/ z > l
  OBVIOUS
<1>5. ~(z <= ScanChunk) \/ z > l
  <2> HIDE DEF z, l
  <2> QED BY <1>1, <1>4
<1>6. z > ScanChunk \/ l + 1 - p < z
  <2> HIDE DEF z, l
  <2> QED BY <1>1, <1>4
<1> QED BY <1>2, <1>3, <1>5, <1>6, Zenon DEF ScanOK

\* A chunk decides what lies inside it.
LEMMA ChunkDecides ==
  ASSUME NEW pattern \in Compiled, Len(pattern) > 0, Len(pattern) <= ScanChunk,
         Len(pattern) <= Len(ScanMemory), NEW start, NEW p, NEW r, NEW first \in BOOLEAN,
         ScanOK(pattern, start, p, r, first), p <= Len(ScanMemory)
  PROVE  LET n == Min({ScanChunk, Len(ScanMemory) - p + 1})
             data == Delivered(p, n)
             found == match_pattern_in_buffer(data, pattern, first)
         IN  /\ p + n - (Len(pattern) - 1) >= 1
             /\ ScanOK(pattern, start, IF data = <<>> THEN p + n ELSE p + n - (Len(pattern) - 1),
                       r \o [i \in DOMAIN found |-> p + found[i]], first)
<1> DEFINE z == Len(pattern)
           l == Len(ScanMemory)
           n == Min({ScanChunk, l - p + 1})
           data == Delivered(p, n)
           found == match_pattern_in_buffer(data, pattern, first)
           f == [i \in DOMAIN found |-> p + found[i]]
           s == r \o f
           q == IF data = <<>> THEN p + n ELSE p + n - (z - 1)
           O == Offsets(data, pattern)
           All == {r[i] : i \in DOMAIN r}
           New == {s[i] : i \in DOMAIN s}
<1>1. /\ z \in Nat \ {0} /\ z <= ScanChunk /\ z <= l
      /\ l \in Nat /\ ScanChunk \in Nat \ {0}
      /\ p \in 1 .. l /\ r \in Seq(Nat) /\ start \in 1 .. l
  BY PatternFits, EnhancedAssumption DEF ScanOK
<1>2. \A i, j \in DOMAIN r : i < j => r[i] < r[j]
  BY DEF ScanOK
<1>3. \A i \in DOMAIN r : r[i] < p /\ r[i] \in Occurrences(pattern, start, l + 1)
  BY DEF ScanOK
<1>4. LET e == Min({p + z - 1, l + 1}) IN Unbroken(start, e) /\ ~first => All = Occurrences(pattern, start, e)
  BY DEF ScanOK
<1>27. start <= p \/ l + 1 - p < z
  BY <1>1 DEF ScanOK
<1> HIDE DEF z, l
<1>5. n = IF ScanChunk <= l - p + 1 THEN ScanChunk ELSE l - p + 1
  BY <1>1, MinOfTwo
<1> HIDE DEF n
<1>6. n \in Nat \ {0} /\ p + n <= l + 1 /\ (n < z => p + n = l + 1)
  BY <1>1, <1>5
<1>7. PICK d \in 0 .. n :
        /\ Len(data) = d /\ (data = <<>> <=> d = 0)
        /\ \A i \in 1 .. d : data[i] = ScanMemory[p + i - 1] /\ data[i] # Hole
        /\ d = n \/ ScanMemory[p + d] = Hole
  <2>1. p \in Nat \ {0} /\ p + n <= Len(ScanMemory) + 1
    BY <1>1, <1>6 DEF l
  <2> QED BY <1>6, <2>1, DeliveredIs
<1> HIDE DEF data
<1>8. /\ O \in SUBSET Nat /\ IsFiniteSet(O)
      /\ \A i \in Nat : i \in O <=> p + i \in Occurrences(pattern, start, p + d)
  <2>1. p \in Nat \ {0} /\ d \in Nat
    BY <1>1, <1>6
  <2>2. /\ O \in SUBSET Nat /\ IsFiniteSet(O)
        /\ \A i \in Nat : i \in O <=> p + i \in Occurrences(pattern, 1, p + d)
    BY <1>7, <2>1, OffsetsAre
  <2> HIDE DEF O
  <2>3. ASSUME NEW i \in Nat
        PROVE  p + i \in Occurrences(pattern, 1, p + d)
                 <=> p + i \in Occurrences(pattern, start, p + d)
    <3> DEFINE a == p + d
               x == p + i
    <3>1. x \in 1 .. (a - z) <=> x \in start .. (a - z)
      <4>1. CASE start <= p
        BY <1>1, <2>1, <4>1
      <4>2. CASE ~(start <= p)
        <5>1. d < z
          BY <1>1, <1>6, <1>27, <2>1, <4>2
        <5> QED BY <1>1, <2>1, <5>1
      <4> QED BY <4>1, <4>2
    <3>2. 1 \in Int /\ start \in Int /\ a \in Int /\ x \in Int
      BY <1>1, <2>1
    <3> HIDE DEF a, x
    <3>4. x \in Occurrences(pattern, 1, a)
            <=> /\ x \in 1 .. (a - z)
                /\ \A j \in 1 .. z :
                     ScanMemory[x + j - 1] # Hole /\ pattern[j] \in {Wildcard, ScanMemory[x + j - 1]}
      BY <3>2, OccurrenceIs DEF z
    <3>5. x \in Occurrences(pattern, start, a)
            <=> /\ x \in start .. (a - z)
                /\ \A j \in 1 .. z :
                     ScanMemory[x + j - 1] # Hole /\ pattern[j] \in {Wildcard, ScanMemory[x + j - 1]}
      BY <3>2, OccurrenceIs DEF z
    <3> QED BY <3>1, <3>4, <3>5 DEF a, x
  <2> QED BY <2>2, <2>3
<1>9. /\ found \in Seq(O)
      /\ \A i, j \in DOMAIN found : i < j => found[i] < found[j]
      /\ ~first => {found[i] : i \in DOMAIN found} = O
  BY <1>8, FoundIs
<1> HIDE DEF found, O
\* Occurrences, with numbers for the lengths.
<1>10. \A a \in Int, x \in Int : x \in Occurrences(pattern, start, a)
         <=> /\ x \in start .. (a - z)
             /\ \A j \in 1 .. z : ScanMemory[x + j - 1] # Hole
                                  /\ pattern[j] \in {Wildcard, ScanMemory[x + j - 1]}
  <2> TAKE a \in Int, x \in Int
  <2>1. start \in Int
    BY <1>1
  <2> QED BY <2>1, OccurrenceIs DEF z
<1>11. \A a \in Int : Occurrences(pattern, start, a) \subseteq start .. (a - z)
  BY DEF Occurrences, z
<1>12. ASSUME NEW a \in Int, NEW b \in Int, a <= b, NEW x \in Int
       PROVE  x \in Occurrences(pattern, start, a) <=> x \in Occurrences(pattern, start, b) /\ x <= a - z
  <2>1. x \in start .. (a - z) <=> x \in start .. (b - z) /\ x <= a - z
    BY <1>1, <1>12
  <2> QED BY <1>10, <2>1
<1>13. p + n - (z - 1) >= 1 /\ q \in Nat /\ q > 1 /\ (data # <<>> => q = p + n - (z - 1)) /\ (data = <<>> => q = p + n)
  BY <1>1, <1>6
<1> HIDE DEF q
\* The addresses reported.
<1> DEFINE k == Len(r)
           m == Len(found)
<1>14. /\ f \in Seq(Nat) /\ Len(f) = m /\ m \in Nat /\ DOMAIN found = 1 .. m
       /\ \A i \in 1 .. m : f[i] = p + found[i] /\ found[i] \in O /\ found[i] \in Nat
  <2>1. m \in Nat /\ DOMAIN found = 1 .. m /\ \A i \in 1 .. m : found[i] \in O
    BY <1>9
  <2>2. \A i \in 1 .. m : found[i] \in Nat
    BY <1>8, <2>1
  <2> HIDE DEF m
  <2>3. \A i \in 1 .. m : p + found[i] \in Nat
    BY <1>1, <2>2
  <2>4. f = [i \in 1 .. m |-> p + found[i]]
    BY <2>1
  <2>5. f \in Seq(Nat) /\ Len(f) = m
    BY <2>1, <2>3, <2>4
  <2> QED BY <2>1, <2>2, <2>4, <2>5
<1>15. ASSUME NEW o \in O
       PROVE  /\ o \in Nat /\ p + o \in Occurrences(pattern, start, p + d) /\ p + o < q
              /\ p + o \in Occurrences(pattern, start, l + 1)
  <2>1. o \in Nat /\ p + o \in Occurrences(pattern, start, p + d)
    BY <1>8
  <2>2. p + o <= p + d - z
    BY <1>1, <1>7, <1>11, <2>1
  <2>3. data # <<>>
    BY <1>1, <1>7, <2>1, <2>2
  <2>4. p + o < q
    BY <1>1, <1>6, <1>7, <1>13, <2>1, <2>2, <2>3
  <2>5. p + d <= l + 1 /\ p + d \in Int /\ l + 1 \in Int /\ p + o \in Int
    BY <1>1, <1>6, <1>7, <2>1
  <2>6. p + o \in Occurrences(pattern, start, l + 1)
    BY <1>12, <2>1, <2>5
  <2> QED BY <2>1, <2>4, <2>6
<1> HIDE DEF f
<1>16. /\ s \in Seq(Nat) /\ k \in Nat /\ DOMAIN r = 1 .. k /\ DOMAIN s = 1 .. k + m
       /\ \A i \in 1 .. k : s[i] = r[i] /\ r[i] \in Nat
       /\ \A i \in 1 .. k + m : i > k => s[i] = f[i - k]
  <2>1. s \in Seq(Nat)
    BY <1>1, <1>14, Joined
  <2>2. k \in Nat /\ DOMAIN r = 1 .. k /\ \A i \in 1 .. k : r[i] \in Nat
    BY <1>1
  <2>3. Len(s) = k + Len(f) /\ DOMAIN s = 1 .. k + Len(f)
    BY <1>1, <1>14, Joined
  <2>4. \A i \in 1 .. k + Len(f) : s[i] = IF i <= k THEN r[i] ELSE f[i - k]
    BY <1>1, <1>14, Joined
  <2> HIDE DEF s, k, m
  <2>5. \A i \in 1 .. k + m : s[i] = IF i <= k THEN r[i] ELSE f[i - k]
    BY <1>14, <2>4
  <2>6. \A i \in 1 .. k : s[i] = r[i]
    BY <1>14, <2>2, <2>5
  <2>7. \A i \in 1 .. k + m : i > k => s[i] = f[i - k]
    BY <1>14, <2>2, <2>5
  <2> QED BY <1>14, <2>1, <2>2, <2>3, <2>6, <2>7
<1> HIDE DEF s, k, m
<1>17. ASSUME NEW i \in DOMAIN s
       PROVE  \/ i \in 1 .. k /\ s[i] = r[i]
              \/ i - k \in 1 .. m /\ s[i] = p + found[i - k]
  <2>1. i \in 1 .. k + m /\ k \in Nat /\ m \in Nat
    BY <1>14, <1>16
  <2>2. CASE i <= k
    BY <1>16, <2>1, <2>2
  <2>3. CASE i > k
    <3> DEFINE h == i - k
    <3>1. h \in 1 .. m /\ s[i] = f[h]
      BY <1>16, <2>1, <2>3
    <3> HIDE DEF h
    <3>2. s[i] = p + found[h]
      BY <1>14, <3>1
    <3> QED BY <3>1, <3>2 DEF h
  <2> QED BY <2>1, <2>2, <2>3
<1>18. ASSUME NEW i \in DOMAIN s PROVE s[i] < q /\ s[i] \in Occurrences(pattern, start, l + 1)
  <2>1. CASE i \in 1 .. k /\ s[i] = r[i]
    <3>1. r[i] \in Nat /\ r[i] < p /\ r[i] \in Occurrences(pattern, start, l + 1)
      BY <1>3, <1>16, <2>1
    <3>2. r[i] <= l + 1 - z
      BY <1>1, <1>11, <3>1
    <3>3. r[i] < q
      BY <1>1, <1>6, <1>13, <3>1, <3>2
    <3> QED BY <2>1, <3>1, <3>3
  <2>2. CASE i - k \in 1 .. m /\ s[i] = p + found[i - k]
    BY <1>14, <1>15, <2>2
  <2> QED BY <1>17, <2>1, <2>2
<1>19. ASSUME NEW i \in DOMAIN s, NEW j \in DOMAIN s, i < j PROVE s[i] < s[j]
  <2>1. i \in 1 .. k + m /\ j \in 1 .. k + m /\ k \in Nat /\ m \in Nat
    BY <1>14, <1>16
  <2>2. CASE j <= k
    <3>1. i \in 1 .. k /\ j \in 1 .. k
      BY <1>19, <2>1, <2>2
    <3> QED BY <1>2, <1>16, <1>19, <3>1
  <2>3. CASE j > k
    <3>1. j - k \in 1 .. m /\ s[j] = p + found[j - k] /\ found[j - k] \in Nat
      BY <1>14, <1>16, <2>1, <2>3
    <3>2. CASE i <= k
      <4>1. i \in 1 .. k
        BY <2>1, <3>2
      <4>2. s[i] \in Nat /\ s[i] < p
        BY <1>3, <1>16, <4>1
      <4> QED BY <1>1, <3>1, <4>2
    <3>3. CASE i > k
      <4>1. i - k \in 1 .. m /\ s[i] = p + found[i - k] /\ found[i - k] \in Nat
        BY <1>14, <1>16, <2>1, <3>3
      <4>2. i - k < j - k
        BY <1>19, <2>1
      <4>3. found[i - k] < found[j - k]
        BY <1>9, <1>14, <3>1, <4>1, <4>2
      <4> DEFINE x == found[i - k]
                 y == found[j - k]
      <4>4. x \in Nat /\ y \in Nat /\ x < y /\ s[i] = p + x /\ s[j] = p + y /\ p \in Nat
        BY <1>1, <3>1, <4>1, <4>3
      <4> HIDE DEF x, y
      <4> QED BY <4>4
    <3> QED BY <2>1, <3>2, <3>3
  <2> QED BY <2>1, <2>2, <2>3
\* Nothing before the next place is missing.
<1> DEFINE e == Min({q + z - 1, l + 1})
           b == Min({p + z - 1, l + 1})
<1>20. e = IF q + z - 1 <= l + 1 THEN q + z - 1 ELSE l + 1
  <2> DEFINE x == q + z - 1
  <2>1. x \in Int /\ l + 1 \in Int
    BY <1>1, <1>13
  <2> HIDE DEF x
  <2>2. Min({x, l + 1}) = IF x <= l + 1 THEN x ELSE l + 1
    BY <2>1, MinOfTwo
  <2> QED BY <2>2 DEF x, e
<1>21. b = IF p + z - 1 <= l + 1 THEN p + z - 1 ELSE l + 1
  <2> DEFINE x == p + z - 1
  <2>1. x \in Int /\ l + 1 \in Int
    BY <1>1
  <2> HIDE DEF x
  <2>2. Min({x, l + 1}) = IF x <= l + 1 THEN x ELSE l + 1
    BY <2>1, MinOfTwo
  <2> QED BY <2>2 DEF x, b
<1> HIDE DEF e, b
<1>22. ASSUME Unbroken(start, e), ~first PROVE New = Occurrences(pattern, start, e)
  <2>1. CASE start <= p
    <3>1. d = n
      <4> SUFFICES ASSUME d # n PROVE FALSE
        OBVIOUS
      <4>1. ScanMemory[p + d] = Hole
        BY <1>7
      <4>2. p + d \in start .. (e - 1)
        <5>1. CASE data = <<>>
          BY <1>1, <1>6, <1>7, <1>13, <1>20, <2>1, <5>1
        <5>2. CASE data # <<>>
          BY <1>1, <1>6, <1>7, <1>13, <1>20, <2>1, <5>2
        <5> QED BY <5>1, <5>2
      <4> QED BY <1>22, <4>1, <4>2 DEF Unbroken
    <3>2. data # <<>> /\ e = p + n
      BY <1>1, <1>6, <1>7, <1>13, <1>20, <3>1
    <3>3. b \in Int /\ b <= e /\ e \in Int
      BY <1>1, <1>6, <1>21, <3>2
    <3>4. All = Occurrences(pattern, start, b)
      <4>1. Unbroken(start, b)
        BY <1>22, <3>3 DEF Unbroken
      <4> QED BY <1>4, <1>22, <4>1 DEF b
    <3>5. \A x \in Nat : x \in All => x < p
      BY <1>3
    <3>6. ASSUME NEW x \in Occurrences(pattern, start, e) PROVE x \in New
      <4>1. x \in start .. (e - z)
        BY <1>11, <3>3
      <4>2. CASE x < p
        <5>1. x <= b - z
          BY <1>1, <1>6, <1>21, <3>2, <4>1, <4>2
        <5>2. x \in All
          BY <1>12, <3>3, <3>4, <4>1, <5>1
        <5>3. PICK i \in 1 .. k : x = r[i]
          BY <1>16, <5>2
        <5>4. i \in DOMAIN s /\ s[i] = x
          BY <1>14, <1>16, <5>3
        <5> QED BY <5>4
      <4>3. CASE x >= p
        <5> DEFINE o == x - p
        <5>1. o \in Nat /\ p + o = x
          BY <1>1, <4>1, <4>3
        <5> HIDE DEF o
        <5>2. p + d = e
          BY <3>1, <3>2
        <5>3. o \in O
          BY <1>8, <5>1, <5>2
        <5>4. PICK i \in DOMAIN found : found[i] = o
          BY <1>9, <1>22, <5>3
        <5>5. i \in 1 .. m /\ k \in Nat /\ m \in Nat
          BY <1>14, <1>16, <5>4
        <5>6. k + i \in DOMAIN s
          <6>1. k + i \in 1 .. k + m
            BY <5>5
          <6> QED BY <1>16, <6>1
        <5>7. s[k + i] = p + found[i]
          <6> DEFINE h == k + i
          <6>1. h \in 1 .. k + m /\ h > k /\ h - k = i
            BY <5>5
          <6> HIDE DEF h
          <6>2. s[h] = f[h - k]
            BY <1>14, <1>16, <6>1
          <6> QED BY <1>14, <5>5, <6>1, <6>2 DEF h
        <5> QED BY <5>1, <5>4, <5>6, <5>7
      <4> QED BY <1>1, <4>1, <4>2, <4>3
    <3>7. ASSUME NEW i \in DOMAIN s PROVE s[i] \in Occurrences(pattern, start, e)
      <4>1. CASE i \in 1 .. k /\ s[i] = r[i]
        <5>1. r[i] \in All /\ r[i] \in Int
          BY <1>16, <4>1
        <5> QED BY <1>12, <3>3, <3>4, <4>1, <5>1
      <4>2. CASE i - k \in 1 .. m /\ s[i] = p + found[i - k]
        <5>1. found[i - k] \in O
          BY <1>14, <4>2
        <5>2. s[i] \in Occurrences(pattern, start, p + d)
          BY <1>15, <4>2, <5>1
        <5> QED BY <3>1, <3>2, <5>2
      <4> QED BY <1>17, <4>1, <4>2
    <3> QED BY <3>6, <3>7
  <2>2. CASE ~(start <= p)
    <3>1. l + 1 - p < z /\ n = l + 1 - p
      BY <1>1, <1>5, <1>27, <2>2
    <3>2. b = l + 1 /\ e = l + 1
      <4>1. p + z - 1 >= l + 1
        BY <1>1, <3>1
      <4>2. q = l + 1 \/ q + z - 1 = l + 1
        BY <1>1, <1>6, <1>13, <3>1
      <4> QED BY <1>1, <1>13, <1>20, <1>21, <4>1, <4>2
    <3>3. All = Occurrences(pattern, start, e)
      BY <1>4, <1>22, <3>2 DEF b
    <3>4. m = 0
      <4>1. \A o \in O : p + o <= p + d - z /\ o \in Nat
        BY <1>1, <1>7, <1>8, <1>11
      <4>2. O = {}
        BY <1>1, <1>6, <1>7, <3>1, <4>1
      <4> QED BY <1>14, <4>2
    <3>5. DOMAIN s = DOMAIN r /\ \A i \in DOMAIN r : s[i] = r[i]
      BY <1>14, <1>16, <3>4
    <3> QED BY <3>3, <3>5
  <2> QED BY <2>1, <2>2
<1>23. start <= q \/ l + 1 - q < z
  <2>1. CASE start <= p
    BY <1>1, <1>5, <1>6, <1>13, <2>1
  <2>2. CASE ~(start <= p)
    BY <1>1, <1>5, <1>6, <1>13, <1>27, <2>2
  <2> QED BY <2>1, <2>2
<1>24. ScanOK(pattern, start, q, s, first)
  <2>1. q \in Nat \ {0} /\ s \in Seq(Nat) /\ start \in Starts
    BY <1>13, <1>16 DEF ScanOK
  <2>2. /\ \A i, j \in DOMAIN s : i < j => s[i] < s[j]
        /\ \A i \in DOMAIN s : s[i] < q /\ s[i] \in Occurrences(pattern, start, l + 1)
        /\ Unbroken(start, e) /\ ~first => New = Occurrences(pattern, start, e)
        /\ start <= q \/ l + 1 - q < z
    BY <1>18, <1>19, <1>22, <1>23
  <2>3. ~(z > ScanChunk)
    BY <1>1
  <2> QED BY <2>1, <2>2, <2>3, Zenon DEF ScanOK, e, z, l
<1> QED BY <1>13, <1>24 DEF q, s, f, found, data, n, z, l

\* So does any round.
LEMMA RoundDecides ==
  ASSUME NEW pattern \in Compiled, Len(pattern) > 0, NEW start, NEW p, NEW r,
         NEW first \in BOOLEAN, ScanOK(pattern, start, p, r, first), p <= Len(ScanMemory)
  PROVE  LET n == Min({ScanChunk, Len(ScanMemory) - p + 1})
             data == Delivered(p, n)
             found == match_pattern_in_buffer(data, pattern, first)
             back == p + n - (Len(pattern) - 1)
         IN  ScanOK(pattern, start, IF data = <<>> THEN p + n
                                    ELSE IF back < 1 THEN back + ScanSpace ELSE back,
                    r \o [i \in DOMAIN found |-> p + found[i]], first)
<1> DEFINE z == Len(pattern)
           l == Len(ScanMemory)
           n == Min({ScanChunk, l - p + 1})
           data == Delivered(p, n)
           found == match_pattern_in_buffer(data, pattern, first)
           back == p + n - (z - 1)
           q == IF data = <<>> THEN p + n ELSE IF back < 1 THEN back + ScanSpace ELSE back
           s == r \o [i \in DOMAIN found |-> p + found[i]]
<1>1. /\ z \in Nat \ {0} /\ l \in Nat /\ ScanChunk \in Nat \ {0} /\ z + l <= ScanSpace
      /\ ScanSpace \in Nat /\ p \in 1 .. l /\ r \in Seq(Nat) /\ start \in Starts
      /\ start \in 1 .. l
  BY PatternFits, EnhancedAssumption DEF ScanOK
<1>2. CASE z <= ScanChunk /\ z <= l
  <2>1. back >= 1 /\ ScanOK(pattern, start, IF data = <<>> THEN p + n ELSE back, s, first)
    BY <1>2, ChunkDecides
  <2> HIDE DEF s, data, back
  <2>2. back \in Int
    <3>1. n = IF ScanChunk <= l - p + 1 THEN ScanChunk ELSE l - p + 1
      <4> HIDE DEF l
      <4> QED BY <1>1, MinOfTwo
    <3> HIDE DEF n, z, l
    <3> QED BY <1>1, <3>1 DEF back
  <2>3. ~(back < 1)
    BY <2>1, <2>2
  <2>4. q = IF data = <<>> THEN p + n ELSE back
    BY <2>3
  <2> HIDE DEF q, n
  <2>5. ScanOK(pattern, start, q, s, first)
    BY <2>1, <2>4, Zenon
  <2> QED BY <2>5 DEF q, s, data, back, n, found
<1>3. CASE ~(z <= ScanChunk /\ z <= l)
  <2>1. z > ScanChunk \/ z > l
    <3> HIDE DEF z, l
    <3> QED BY <1>1, <1>3
  <2>8. r = <<>>
    <3>1. CASE z > ScanChunk
      BY <3>1 DEF ScanOK
    <3>2. CASE z > l
      <4>1. \A i \in DOMAIN r : r[i] \in Occurrences(pattern, start, l + 1)
        BY DEF ScanOK
      <4>2. \A i \in DOMAIN r : r[i] \in start .. (l + 1 - z)
        BY <4>1 DEF Occurrences
      <4> HIDE DEF z, l
      <4>3. DOMAIN r = {}
        BY <1>1, <3>2, <4>2
      <4> QED BY <1>1, <4>3
    <3> QED BY <2>1, <3>1, <3>2
  <2>2. n = IF ScanChunk <= l - p + 1 THEN ScanChunk ELSE l - p + 1
    <3> HIDE DEF l
    <3> QED BY <1>1, MinOfTwo
  <2> HIDE DEF n, l
  <2>3. n \in Nat \ {0} /\ p + n <= l + 1 /\ n <= ScanChunk /\ n <= l
    BY <1>1, <2>2
  <2>4. q \in Nat \ {0}
    <3>1. back \in Int /\ back + ScanSpace >= 1
      <4> HIDE DEF z
      <4> QED BY <1>1, <2>3
    <3> HIDE DEF back, data
    <3> QED BY <1>1, <2>3, <3>1
  <2>5. PICK d \in 0 .. n :
          /\ Len(data) = d
          /\ \A i \in 1 .. d : data[i] = ScanMemory[p + i - 1] /\ data[i] # Hole
    <3>1. p \in Nat \ {0} /\ p + n <= Len(ScanMemory) + 1
      BY <1>1, <2>3 DEF l
    <3> QED BY <2>3, <3>1, DeliveredIs
  <2>6. Offsets(data, pattern) = {}
    <3>1. Offsets(data, pattern) \subseteq 0 .. (Len(data) - Len(pattern))
      BY DEF Offsets
    <3> HIDE DEF data, z
    <3>2. Len(data) < z
      BY <1>1, <2>1, <2>3, <2>5
    <3> QED BY <1>1, <2>3, <2>5, <3>1, <3>2 DEF z
  <2>7. DOMAIN found = {}
    <3>1. found \in Seq(Offsets(data, pattern))
      BY <2>6, FS_EmptySet, FoundIs
    <3> HIDE DEF found, data
    <3> QED BY <2>6, <3>1
  <2>9. s = <<>>
    <3>1. [i \in DOMAIN found |-> p + found[i]] = <<>>
      BY <2>7
    <3> QED BY <2>8, <3>1
  <2> HIDE DEF q, s
  <2>10. ScanOK(pattern, start, q, <<>>, first)
    BY <1>1, <2>1, <2>4, NothingFits DEF z, l
  <2> QED BY <2>9, <2>10 DEF q, s, data, back, n, l, found
<1> QED BY <1>2, <1>3

-----------------------------------------------------------------------------
(* The steps *)

\* A lookup for one text leaves the patterns of the multi-scans alone.
LEMMA MultiStays ==
  ASSUME NEW cache, CacheOK(cache), NEW asked, MultiKnown(cache, asked), NEW text \in ScanTexts
  PROVE  MultiKnown(WithKey(cache, Key(text), text), asked)
<1> DEFINE c == WithKey(cache, Key(text), text)
<1>1. DOMAIN c = DOMAIN cache \cup {Key(text)} /\ \A k \in DOMAIN cache : c[k] = cache[k]
  <2>1. Key(text) \in {Key(text), PositionKey(0), PositionKey(1)}
    OBVIOUS
  <2> QED BY <2>1, WithKeyIs
<1>2. \A i \in 0 .. 1 : PositionKey(i) # Key(text)
  BY KeysApart
<1> HIDE DEF c
<1>3. \A i \in 0 .. 1 : PositionKey(i) \in DOMAIN c <=> PositionKey(i) \in DOMAIN cache
  BY <1>1, <1>2
<1>4. MultiKnown(c, asked)
  BY <1>1, <1>3 DEF MultiKnown
<1> QED BY <1>4 DEF c

LEMMA SearchBegins ==
  ASSUME EnhancedInv, NEW text \in ScanTexts, NEW start \in Starts, NEW first \in BOOLEAN,
         scan_pattern(text, start, first)
  PROVE  EnhancedInv'
<1> DEFINE cache == WithKey(pattern_cache_, Key(text), text)
           c == cache[Key(text)]
<1>1. CacheOK(cache) /\ c \in Compiled /\ c = parse_ida_pattern(text)
  <2>1. CacheOK(pattern_cache_) /\ Key(text) \in {Key(text), PositionKey(0), PositionKey(1)}
    BY DEF EnhancedInv
  <2> QED BY <2>1, WithKeyIs
<1>2. MultiKnown(cache, first_asked)
  BY MultiStays DEF EnhancedInv
<1>3. /\ pattern_cache_' = cache /\ todo' = <<c>> /\ texts' = <<text>> /\ position' = start
      /\ start_address' = start /\ first_only' = first /\ results' = <<>>
      /\ multi' = FALSE /\ first_asked' = first_asked
  BY DEF scan_pattern, Begin
<1> HIDE DEF cache, c
<1>4. /\ CacheOK(pattern_cache_') /\ MultiKnown(pattern_cache_', first_asked')
      /\ todo' \in Seq(Compiled) /\ texts' \in Seq(ScanTexts) /\ first_asked' \in Seq(ScanTexts)
      /\ todo'[1] = c /\ first_only' \in BOOLEAN /\ start_address' \in Nat
  BY <1>1, <1>2, <1>3, EnhancedAssumption DEF EnhancedInv
<1>5. PatternAsAsked'
  <2>1. /\ Len(texts') - Len(todo') = 0 /\ DOMAIN todo' = {1}
        /\ todo'[1] = parse_ida_pattern(texts'[0 + 1])
    BY <1>1, <1>3
  <2> QED BY <1>3, <2>1 DEF PatternAsAsked
<1>6. ScanOK(todo'[1], start_address', position', results', first_only')
  BY <1>1, <1>3, <1>4, NothingDecided
<1> QED BY <1>4, <1>5, <1>6 DEF EnhancedInv

LEMMA MultiBegins ==
  ASSUME EnhancedInv, NEW first \in ScanTexts, NEW second \in ScanTexts, NEW start \in Starts,
         NEW one \in BOOLEAN, scan_multi_patterns(first, second, start, one)
  PROVE  EnhancedInv'
<1> DEFINE a == WithKey(pattern_cache_, PositionKey(0), first)
           b == WithKey(a, PositionKey(1), second)
           c == b[PositionKey(0)]
           d == b[PositionKey(1)]
           asked == IF first_asked = <<>> THEN <<first, second>> ELSE first_asked
<1>1. PositionKey(0) # PositionKey(1)
  BY DEF PositionKey
<1>2. /\ CacheOK(a) /\ a[PositionKey(0)] \in Compiled /\ PositionKey(0) \in DOMAIN a
      /\ PositionKey(0) \notin DOMAIN pattern_cache_ => a[PositionKey(0)] = parse_ida_pattern(first)
      /\ DOMAIN a = DOMAIN pattern_cache_ \cup {PositionKey(0)}
      /\ \A k \in DOMAIN pattern_cache_ : a[k] = pattern_cache_[k]
  <2>1. CacheOK(pattern_cache_) /\ PositionKey(0) \in {Key(first), PositionKey(0), PositionKey(1)}
    BY DEF EnhancedInv
  <2> QED BY <2>1, WithKeyIs
<1> HIDE DEF a
<1>3. /\ CacheOK(b) /\ d \in Compiled /\ PositionKey(1) \in DOMAIN b
      /\ PositionKey(1) \notin DOMAIN a => d = parse_ida_pattern(second)
      /\ DOMAIN b = DOMAIN a \cup {PositionKey(1)}
      /\ \A k \in DOMAIN a : b[k] = a[k]
  <2>1. PositionKey(1) \in {Key(second), PositionKey(0), PositionKey(1)}
    OBVIOUS
  <2> QED BY <1>2, <2>1, WithKeyIs
<1>4. /\ pattern_cache_' = b /\ todo' = <<c, d>> /\ texts' = <<first, second>>
      /\ start_address' = start /\ position' = start /\ first_only' = one /\ results' = <<>>
      /\ multi' = TRUE /\ first_asked' = asked
  BY DEF scan_multi_patterns, Begin, a
<1> HIDE DEF b
<1>5. c = a[PositionKey(0)] /\ c \in Compiled
  BY <1>2, <1>3
<1>6. MultiKnown(pattern_cache_, first_asked) /\ first_asked \in Seq(ScanTexts)
  BY DEF EnhancedInv
<1>7. /\ asked \in Seq(ScanTexts) /\ Len(asked) = 2 /\ asked # <<>>
      /\ c = parse_ida_pattern(asked[1]) /\ d = parse_ida_pattern(asked[2])
  <2>1. CASE first_asked = <<>>
    <3>1. asked = <<first, second>> /\ asked[1] = first /\ asked[2] = second
      BY <2>1
    <3>2. PositionKey(0) \notin DOMAIN pattern_cache_ /\ PositionKey(1) \notin DOMAIN pattern_cache_
      BY <1>6, <2>1 DEF MultiKnown
    <3>3. PositionKey(1) \notin DOMAIN a
      BY <1>1, <1>2, <3>2
    <3> HIDE DEF c, d, asked
    <3> QED BY <1>2, <1>3, <1>5, <3>1, <3>2, <3>3
  <2>2. CASE first_asked # <<>>
    <3>1. /\ Len(first_asked) = 2
          /\ PositionKey(0) \in DOMAIN pattern_cache_ /\ PositionKey(1) \in DOMAIN pattern_cache_
          /\ pattern_cache_[PositionKey(0)] = parse_ida_pattern(first_asked[0 + 1])
          /\ pattern_cache_[PositionKey(1)] = parse_ida_pattern(first_asked[1 + 1])
      BY <1>6, <2>2 DEF MultiKnown
    <3>2. d = a[PositionKey(1)] /\ a[PositionKey(1)] = pattern_cache_[PositionKey(1)]
      BY <1>2, <1>3, <3>1
    <3>3. c = pattern_cache_[PositionKey(0)]
      BY <1>2, <1>5, <3>1
    <3>4. asked = first_asked
      BY <2>2
    <3> HIDE DEF c, d, asked
    <3> QED BY <1>6, <2>2, <3>1, <3>2, <3>3, <3>4
  <2> QED BY <2>1, <2>2
<1> HIDE DEF asked
<1>8. MultiKnown(b, asked)
  <2>1. PositionKey(0) \in DOMAIN b
    BY <1>2, <1>3
  <2>2. ASSUME NEW i \in 0 .. 1
        PROVE  PositionKey(i) \in DOMAIN b /\ b[PositionKey(i)] = parse_ida_pattern(asked[i + 1])
    <3>1. CASE i = 0
      BY <1>7, <2>1, <3>1
    <3>2. CASE i = 1
      BY <1>3, <1>7, <3>2
    <3> QED BY <3>1, <3>2
  <2> QED BY <1>7, <2>2 DEF MultiKnown
<1> HIDE DEF c, d
<1>9. /\ CacheOK(pattern_cache_') /\ MultiKnown(pattern_cache_', first_asked')
      /\ todo' \in Seq(Compiled) /\ texts' \in Seq(ScanTexts) /\ first_asked' \in Seq(ScanTexts)
      /\ todo'[1] = c /\ first_only' \in BOOLEAN /\ start_address' \in Nat
  BY <1>3, <1>4, <1>5, <1>7, <1>8, EnhancedAssumption
<1>10. PatternAsAsked'
  <2>1. Len(first_asked') - Len(todo') = 0 /\ DOMAIN todo' = {1, 2} /\ todo'[1] = c /\ todo'[2] = d
    BY <1>4, <1>7
  <2>2. \A i \in DOMAIN todo' : todo'[i] = parse_ida_pattern(first_asked'[0 + i])
    BY <1>4, <1>7, <2>1
  <2>3. \A i \in DOMAIN todo' :
          todo'[i] = parse_ida_pattern(first_asked'[Len(first_asked') - Len(todo') + i])
    BY <2>1, <2>2
  <2>4. multi'
    BY <1>4
  <2> QED BY <2>3, <2>4, Zenon DEF PatternAsAsked
<1>11. ScanOK(todo'[1], start_address', position', results', first_only')
  BY <1>4, <1>5, <1>9, NothingDecided
<1> QED BY <1>9, <1>10, <1>11 DEF EnhancedInv

LEMMA RoundInv ==
  ASSUME EnhancedInv, ChunkRound
  PROVE  EnhancedInv'
<1> DEFINE n == Min({ScanChunk, Len(ScanMemory) - position + 1})
           data == Delivered(position, n)
           found == match_pattern_in_buffer(data, todo[1], first_only)
           back == position + n - (Len(todo[1]) - 1)
<1>1. /\ todo # <<>> /\ Len(todo[1]) > 0 /\ position <= Len(ScanMemory)
      /\ results' = results \o [i \in DOMAIN found |-> position + found[i]]
      /\ position' = IF data = <<>> THEN position + n
                     ELSE IF back < 1 THEN back + ScanSpace ELSE back
  BY DEF ChunkRound, NextChunk, Size
<1>2. /\ pattern_cache_' = pattern_cache_ /\ todo' = todo /\ texts' = texts
      /\ first_only' = first_only /\ multi' = multi /\ start_address' = start_address
      /\ first_asked' = first_asked
  BY DEF ChunkRound
<1>3. todo[1] \in Compiled /\ ScanOK(todo[1], start_address, position, results, first_only)
  BY <1>1 DEF EnhancedInv
<1>4. ScanOK(todo[1], start_address, position', results', first_only)
  <2>1. first_only \in BOOLEAN
    BY DEF EnhancedInv
  <2>2. ScanOK(todo[1], start_address,
               IF data = <<>> THEN position + n ELSE IF back < 1 THEN back + ScanSpace ELSE back,
               results \o [i \in DOMAIN found |-> position + found[i]], first_only)
    BY <1>1, <1>3, <2>1, RoundDecides
  <2> QED BY <1>1, <2>2, Zenon
<1>5. PatternAsAsked'
  BY <1>2 DEF EnhancedInv, PatternAsAsked
<1> QED BY <1>2, <1>4, <1>5 DEF EnhancedInv

LEMMA EndInv ==
  ASSUME EnhancedInv, EndPattern
  PROVE  EnhancedInv'
<1>1. /\ pattern_cache_' = pattern_cache_ /\ texts' = texts /\ multi' = multi
      /\ first_asked' = first_asked /\ start_address' = start_address /\ first_only' = first_only
      /\ todo # <<>> /\ todo' \in {<<>>, Tail(todo)} /\ position' = start_address /\ results' = <<>>
  BY DEF EndPattern
<1>2. CASE todo' = <<>>
  <2>1. PatternAsAsked'
    BY <1>2 DEF PatternAsAsked
  <2> QED BY <1>1, <1>2, <2>1 DEF EnhancedInv
<1>3. CASE todo' = Tail(todo) /\ Tail(todo) # <<>>
  <2>1. todo' \in Seq(Compiled) /\ Len(todo') = Len(todo) - 1 /\ Len(todo) \in Nat
        /\ \A i \in DOMAIN todo' : i + 1 \in DOMAIN todo /\ todo'[i] = todo[i + 1] /\ i \in Nat
    BY <1>1, <1>3 DEF EnhancedInv
  <2>2. PatternAsAsked'
    <3> DEFINE asked == IF multi THEN first_asked ELSE texts
               k == Len(asked) - Len(todo)
    <3>1. asked' = asked /\ Len(asked) \in Nat
      BY <1>1 DEF EnhancedInv
    <3>2. \A i \in DOMAIN todo : todo[i] = parse_ida_pattern(asked[k + i])
      BY <1>1 DEF EnhancedInv, PatternAsAsked
    <3> HIDE DEF asked
    <3>3. k \in Int /\ Len(asked) - Len(todo') = k + 1
      BY <2>1, <3>1
    <3> HIDE DEF k
    <3>4. ASSUME NEW i \in DOMAIN todo' PROVE todo'[i] = parse_ida_pattern(asked[k + 1 + i])
      <4>1. k + (i + 1) = k + 1 + i
        BY <2>1, <3>3
      <4> QED BY <2>1, <3>2, <4>1
    <3>5. asked = IF multi' THEN first_asked' ELSE texts'
      BY <1>1 DEF asked
    <3>6. \A i \in DOMAIN todo' : todo'[i] = parse_ida_pattern(asked[Len(asked) - Len(todo') + i])
      BY <3>3, <3>4
    <3> QED BY <3>5, <3>6, Zenon DEF PatternAsAsked
  <2>3. ScanOK(todo'[1], start_address', position', results', first_only')
    <3>1. todo'[1] \in Compiled
      BY <1>3, <2>1
    <3>2. start_address \in Starts
      BY <1>1 DEF EnhancedInv, ScanOK
    <3> QED BY <1>1, <3>1, <3>2, NothingDecided
  <2> QED BY <1>1, <2>1, <2>2, <2>3 DEF EnhancedInv
<1> QED BY <1>1, <1>2, <1>3

LEMMA EnhancedSays ==
  ASSUME EnhancedInv
  PROVE  EnhancedSound
<1>1. todo # <<>> => ScanOK(todo[1], start_address, position, results, first_only)
  BY DEF EnhancedInv
<1>2. EachOnce
  BY <1>1 DEF EachOnce, ScanOK, Size
<1> QED BY <1>2 DEF EnhancedSound, EnhancedInv

-----------------------------------------------------------------------------
LEMMA EnhancedInvariance == EnhancedSpec => []EnhancedInv
<1>1. EnhancedInit => EnhancedInv
  <2> SUFFICES ASSUME EnhancedInit PROVE EnhancedInv
    OBVIOUS
  <2>1. CacheOK(pattern_cache_) /\ MultiKnown(pattern_cache_, first_asked) /\ PatternAsAsked
    BY DEF EnhancedInit, CacheOK, MultiKnown, PatternAsAsked
  <2>2. todo \in Seq(Compiled) /\ texts \in Seq(ScanTexts) /\ first_asked \in Seq(ScanTexts)
    BY DEF EnhancedInit
  <2> QED BY <2>1, <2>2 DEF EnhancedInit, EnhancedInv
<1>2. EnhancedInv /\ [EnhancedNext]_enhanced_vars => EnhancedInv'
  <2> SUFFICES ASSUME EnhancedInv, [EnhancedNext]_enhanced_vars PROVE EnhancedInv'
    OBVIOUS
  <2>1. ASSUME NEW start \in Starts, NEW one \in BOOLEAN,
               NEW text \in ScanTexts, scan_pattern(text, start, one)
        PROVE  EnhancedInv'
    BY <2>1, SearchBegins
  <2>2. ASSUME NEW start \in Starts, NEW one \in BOOLEAN, NEW first \in ScanTexts,
               NEW second \in ScanTexts, scan_multi_patterns(first, second, start, one)
        PROVE  EnhancedInv'
    BY <2>2, MultiBegins
  <2>3. CASE ChunkRound
    BY <2>3, RoundInv
  <2>4. CASE EndPattern
    BY <2>4, EndInv
  <2>5. CASE clear_cache
    <3>1. /\ todo = <<>> /\ pattern_cache_' = <<>> /\ todo' = todo /\ texts' = texts
          /\ first_asked' = <<>> /\ first_only' = first_only /\ start_address' = start_address
      BY <2>5 DEF clear_cache
    <3>2. CacheOK(<<>>) /\ MultiKnown(<<>>, <<>>) /\ <<>> \in Seq(ScanTexts)
      BY DEF CacheOK, MultiKnown
    <3>3. PatternAsAsked'
      BY <3>1 DEF PatternAsAsked
    <3> QED BY <3>1, <3>2, <3>3 DEF EnhancedInv
  <2>6. CASE reset_stats \/ UNCHANGED enhanced_vars
    <3>1. UNCHANGED <<pattern_cache_, todo, texts, start_address, position, first_only, multi,
                      results, first_asked>>
      BY <2>6 DEF reset_stats, enhanced_vars
    <3>2. PatternAsAsked'
      BY <3>1 DEF EnhancedInv, PatternAsAsked
    <3> QED BY <3>1, <3>2 DEF EnhancedInv
  <2> QED BY <2>1, <2>2, <2>3, <2>4, <2>5, <2>6 DEF EnhancedNext
<1> QED BY <1>1, <1>2, PTL DEF EnhancedSpec

\* However chunks, holes and starts fall, with patterns of any length: what a scan reports
\* are occurrences inside its range, once and in order, and all of them up to where it has
\* come while no read failed and the pattern fits into a chunk; it looks for the pattern it
\* was asked for, a multi-scan for those of the first one since the cache was cleared.
THEOREM EnhancedIsSound == EnhancedSpec => []EnhancedSound
<1>1. EnhancedInv => EnhancedSound
  BY EnhancedSays
<1> QED BY <1>1, EnhancedInvariance, PTL

-----------------------------------------------------------------------------
(***************************************************************************)
(* Proofs about PatternLibrary, for any searchers, names, texts and files. *)
(*                                                                         *)
(* A searcher that is about to store a counter has loaded one that still   *)
(* left room for it and for all others that search.                        *)
(***************************************************************************)
Lookup == [counter : {"none", "total_searches", "found", "cache_hits"}, seen : Nat,
           name : LibraryNames \cup {"none"}]

LibraryTypeOK ==
  /\ DOMAIN patterns \subseteq LibraryNames /\ IsFiniteSet(DOMAIN patterns)
  /\ library_stats \in [total_patterns : Nat, total_searches : Nat, cache_hits : Nat]
  /\ library_file \in Seq(Line)
  /\ searching \in [Searchers -> Lookup]
  /\ searched \in Nat
  /\ overlapped \in BOOLEAN /\ uncounted \in Int /\ restored \in BOOLEAN

EntriesValid ==
  /\ Cardinality(DOMAIN patterns) <= MAX_PATTERNS
  /\ \A n \in DOMAIN patterns : patterns[n] \in Text /\ validate_pattern(patterns[n])

Busy == {t \in Searchers : searching[t] # NotSearching}
Storing == {t \in Searchers : searching[t].counter = "total_searches"}

\* Nobody counts twice: there is room for all who have not yet stored.
RoomToCount ==
  /\ library_stats.cache_hits + Cardinality(Busy) <= searched
  /\ \A t \in Searchers : searching[t].counter = "cache_hits" =>
       searching[t].seen + Cardinality(Busy) <= searched
  /\ library_stats.total_searches + Cardinality(Storing) <= searched
  /\ \A t \in Storing : searching[t].seen + Cardinality(Storing) <= searched

\* One search at a time is counted.
CountedAlone ==
  ~overlapped =>
    /\ \A t, u \in Busy : t = u
    /\ \A t \in Storing : searching[t].seen + 1 = searched
    /\ Storing = {} => library_stats.total_searches = searched

PatternsCounted == library_stats.total_patterns + uncounted = Cardinality(DOMAIN patterns)

\* The file that was saved has the entries that were saved.
FileKnown ==
  saved # <<>> =>
    /\ \A i \in DOMAIN library_file :
         /\ library_file[i].name \in DOMAIN saved /\ library_file[i].text = saved[library_file[i].name]
         /\ library_file[i].full
    /\ \A n \in DOMAIN saved : \E i \in DOMAIN library_file : library_file[i].name = n

LibraryInv ==
  /\ LibraryTypeOK /\ EntriesValid
  /\ RoomToCount /\ CountedAlone /\ PatternsCounted
  /\ FileKnown /\ ComesBack

-----------------------------------------------------------------------------
\* What the library lets in is what CompiledPattern accepts.
LEMMA ValidTokens ==
  ASSUME NEW text \in Text, validate_pattern(text)
  PROVE  \A i \in DOMAIN text : parse_token(text[i]) # Invalid
<1> SUFFICES ASSUME NEW i \in DOMAIN text PROVE parse_token(text[i]) # Invalid
  OBVIOUS
<1> DEFINE t == text[i]
<1>1. t \in Seq(STRING)
  BY DEF Text
<1>2. t \in {<<"?">>, <<"?", "?">>} \/ (Len(t) = 2 /\ Hex(t))
  BY DEF validate_pattern
<1> HIDE DEF t
<1>3. CASE t \in {<<"?">>, <<"?", "?">>}
  <2>1. ~Hex(t)
    BY <1>3 DEF Hex, DigitValue
  <2>2. parse_token(t) = Wildcard
    BY <1>3, <2>1 DEF parse_token
  <2> QED BY <2>2 DEF t, Wildcard, Invalid
<1>4. CASE t \notin {<<"?">>, <<"?", "?">>}
  <2>1. parse_token(t) = Value(t)
    BY <1>2, <1>4 DEF parse_token
  <2>2. Value(t) \in 0 .. 255
    BY <1>1, <1>2, <1>4, DigitsAre
  <2>3. parse_token(t) # Invalid
    BY <2>1, <2>2 DEF Invalid
  <2> QED BY <2>3 DEF t
<1> QED BY <1>3, <1>4

\* No one searches while a call holds the lock alone.
LEMMA AloneIs ==
  ASSUME LibraryInv, Exclusive
  PROVE  /\ Busy = {} /\ Storing = {}
         /\ Cardinality(Busy) = 0 /\ Cardinality(Storing) = 0
<1>1. Busy = {} /\ Storing = {}
  BY DEF Exclusive, Busy, Storing, NotSearching
<1> QED BY <1>1, FS_EmptySet

LEMMA BusyAre ==
  ASSUME LibraryTypeOK
  PROVE  /\ IsFiniteSet(Busy) /\ IsFiniteSet(Storing) /\ Storing \subseteq Busy
         /\ Cardinality(Busy) \in Nat /\ Cardinality(Storing) \in Nat
<1>1. Busy \subseteq Searchers /\ Storing \subseteq Searchers /\ Storing \subseteq Busy
  BY DEF Busy, Storing, NotSearching
<1>2. IsFiniteSet(Busy) /\ IsFiniteSet(Storing)
  BY <1>1, LibraryAssumption, FS_Subset
<1> QED BY <1>1, <1>2, FS_CardinalityType

\* A call that replaces the entries and lets the counters be.
LEMMA NewEntries ==
  ASSUME LibraryInv, Exclusive, NEW new,
         DOMAIN new \subseteq LibraryNames, IsFiniteSet(DOMAIN new),
         Cardinality(DOMAIN new) <= MAX_PATTERNS,
         \A n \in DOMAIN new : new[n] \in Text /\ validate_pattern(new[n]),
         patterns' = new,
         \/ library_stats' = Counted(new) /\ uncounted' = 0
         \/ /\ library_stats' = library_stats
            /\ uncounted' = uncounted + Cardinality(DOMAIN new) - Cardinality(DOMAIN patterns),
         restored' \in BOOLEAN, ComesBack',
         UNCHANGED <<library_file, searching, searched, overlapped, saved>>
  PROVE  LibraryInv'
<1>1. Cardinality(DOMAIN new) \in Nat
  BY FS_CardinalityType
<1>2. /\ library_stats' \in [total_patterns : Nat, total_searches : Nat, cache_hits : Nat]
      /\ library_stats'.total_searches = library_stats.total_searches
      /\ library_stats'.cache_hits = library_stats.cache_hits
      /\ library_stats'.total_patterns + uncounted' = Cardinality(DOMAIN new)
      /\ uncounted' \in Int
  <2>1. /\ library_stats \in [total_patterns : Nat, total_searches : Nat, cache_hits : Nat]
        /\ library_stats.total_patterns + uncounted = Cardinality(DOMAIN patterns)
        /\ uncounted \in Int /\ Cardinality(DOMAIN patterns) \in Nat
    BY FS_CardinalityType DEF LibraryInv, LibraryTypeOK, PatternsCounted
  <2>2. CASE library_stats' = Counted(new) /\ uncounted' = 0
    BY <1>1, <2>1, <2>2 DEF Counted
  <2>3. CASE /\ library_stats' = library_stats
             /\ uncounted' = uncounted + Cardinality(DOMAIN new) - Cardinality(DOMAIN patterns)
    BY <1>1, <2>1, <2>3
  <2> QED BY <2>2, <2>3
<1>3. Busy' = Busy /\ Storing' = Storing
  BY DEF Busy, Storing
<1>4. LibraryTypeOK'
  BY <1>2 DEF LibraryInv, LibraryTypeOK, Lookup
<1>5. EntriesValid'
  BY DEF EntriesValid, validate_pattern
<1>6. RoomToCount' /\ CountedAlone'
  BY <1>2, <1>3 DEF LibraryInv, RoomToCount, CountedAlone
<1>7. PatternsCounted'
  BY <1>2 DEF PatternsCounted
<1>8. FileKnown'
  BY DEF LibraryInv, FileKnown
<1> QED BY <1>4, <1>5, <1>6, <1>7, <1>8 DEF LibraryInv

LEMMA AddInv ==
  ASSUME LibraryInv, NEW name \in LibraryNames, NEW text \in LibraryTexts, add_pattern(name, text)
  PROVE  LibraryInv'
<1> DEFINE new == [n \in DOMAIN patterns \cup {name} |-> IF n = name THEN text ELSE patterns[n]]
           D == DOMAIN patterns
<1>1. /\ Exclusive /\ validate_pattern(text) /\ patterns' = new
      /\ Cardinality(D) < MAX_PATTERNS \/ name \in D
      /\ library_stats' = Counted(new) /\ uncounted' = 0 /\ restored' = FALSE
      /\ UNCHANGED <<library_file, searching, searched, overlapped, saved>>
  BY DEF add_pattern, is_valid, Entry
<1>2. DOMAIN new = D \cup {name} /\ \A n \in DOMAIN new : new[n] = IF n = name THEN text ELSE patterns[n]
  OBVIOUS
<1>3. D \subseteq LibraryNames /\ IsFiniteSet(D) /\ Cardinality(D) <= MAX_PATTERNS
      /\ \A n \in D : patterns[n] \in Text /\ validate_pattern(patterns[n])
  BY DEF LibraryInv, LibraryTypeOK, EntriesValid
<1> HIDE DEF new, D
<1>4. IsFiniteSet(DOMAIN new) /\ Cardinality(DOMAIN new) <= MAX_PATTERNS
  <2>1. IsFiniteSet(D \cup {name})
        /\ Cardinality(D \cup {name}) = IF name \in D THEN Cardinality(D) ELSE Cardinality(D) + 1
    BY <1>3, FS_AddElement
  <2>2. Cardinality(D) \in Nat /\ MAX_PATTERNS \in Nat
    BY <1>3, FS_CardinalityType, LibraryAssumption
  <2> QED BY <1>1, <1>2, <1>3, <2>1, <2>2
<1>5. text \in Text
  BY LibraryAssumption
<1>6. \A n \in DOMAIN new : n \in LibraryNames /\ new[n] \in Text /\ validate_pattern(new[n])
  BY <1>1, <1>2, <1>3, <1>5
<1>7. ComesBack'
  BY <1>1 DEF ComesBack
<1> QED BY <1>1, <1>4, <1>6, <1>7, NewEntries

LEMMA RemoveInv ==
  ASSUME LibraryInv, NEW name \in LibraryNames, remove_pattern(name)
  PROVE  LibraryInv'
<1> DEFINE D == DOMAIN patterns
           new == [n \in D \ {name} |-> patterns[n]]
<1>1. /\ Exclusive /\ patterns' = new
      /\ library_stats' = Counted(new) /\ uncounted' = 0 /\ restored' = FALSE
      /\ UNCHANGED <<library_file, searching, searched, overlapped, saved>>
  BY DEF remove_pattern
<1>2. DOMAIN new = D \ {name} /\ \A n \in DOMAIN new : new[n] = patterns[n]
  OBVIOUS
<1>3. D \subseteq LibraryNames /\ IsFiniteSet(D) /\ Cardinality(D) <= MAX_PATTERNS
      /\ \A n \in D : patterns[n] \in Text /\ validate_pattern(patterns[n])
  BY DEF LibraryInv, LibraryTypeOK, EntriesValid
<1> HIDE DEF new, D
<1>4. IsFiniteSet(DOMAIN new) /\ Cardinality(DOMAIN new) <= MAX_PATTERNS
  <2>1. IsFiniteSet(D \ {name})
        /\ Cardinality(D \ {name}) = IF name \in D THEN Cardinality(D) - 1 ELSE Cardinality(D)
    BY <1>3, FS_RemoveElement
  <2>2. Cardinality(D) \in Nat /\ MAX_PATTERNS \in Nat
    BY <1>3, FS_CardinalityType, LibraryAssumption
  <2> QED BY <1>2, <1>3, <2>1, <2>2
<1>5. \A n \in DOMAIN new : n \in LibraryNames /\ new[n] \in Text /\ validate_pattern(new[n])
  BY <1>2, <1>3
<1>6. ComesBack'
  BY <1>1 DEF ComesBack
<1> QED BY <1>1, <1>4, <1>5, <1>6, NewEntries

LEMMA ClearInv ==
  ASSUME LibraryInv, clear_library
  PROVE  LibraryInv'
<1>1. /\ Exclusive /\ patterns' = <<>> /\ library_stats' = NoLibraryStats
      /\ searched' = 0 /\ overlapped' = FALSE /\ uncounted' = 0 /\ restored' = FALSE
      /\ UNCHANGED <<library_file, searching, saved>>
  BY DEF clear_library
<1>2. DOMAIN patterns' = {} /\ IsFiniteSet(DOMAIN patterns') /\ Cardinality(DOMAIN patterns') = 0
  BY <1>1, FS_EmptySet
<1>3. Busy' = {} /\ Storing' = {} /\ Cardinality(Busy') = 0 /\ Cardinality(Storing') = 0
  <2>1. Busy' = Busy /\ Storing' = Storing
    BY <1>1 DEF Busy, Storing
  <2> QED BY <1>1, <2>1, AloneIs
<1>4. \A t \in Searchers : searching'[t] = NotSearching
  BY <1>1 DEF Exclusive
<1>5. /\ library_stats'.total_patterns = 0 /\ library_stats'.total_searches = 0
      /\ library_stats'.cache_hits = 0
      /\ library_stats' \in [total_patterns : Nat, total_searches : Nat, cache_hits : Nat]
  BY <1>1 DEF NoLibraryStats
<1>6. LibraryTypeOK'
  <2>1. uncounted' \in Int /\ searched' \in Nat
    BY <1>1
  <2>2. library_file' \in Seq(Line) /\ searching' \in [Searchers -> Lookup]
    BY <1>1 DEF LibraryInv, LibraryTypeOK
  <2>3. overlapped' \in BOOLEAN /\ restored' \in BOOLEAN
    BY <1>1
  <2> QED BY <1>2, <1>5, <2>1, <2>2, <2>3 DEF LibraryTypeOK
<1>7. EntriesValid'
  BY <1>2, LibraryAssumption DEF EntriesValid
<1>8. RoomToCount'
  BY <1>1, <1>3, <1>4, <1>5 DEF RoomToCount, NotSearching
<1>9. CountedAlone' /\ PatternsCounted'
  BY <1>1, <1>2, <1>3, <1>5 DEF CountedAlone, PatternsCounted
<1>10. FileKnown' /\ ComesBack'
  BY <1>1 DEF LibraryInv, FileKnown, ComesBack
<1> QED BY <1>6, <1>7, <1>8, <1>9, <1>10 DEF LibraryInv

-----------------------------------------------------------------------------
\* What a line is read as is an entry by its name and its text.
LEMMA TextReadIs ==
  ASSUME NEW name \in LibraryNames, NEW text \in Text
  PROVE  Read(name, text).name \in LibraryNames /\ Read(name, text).text \in Text
BY LibraryAssumption DEF Read, Entry

\* The lines taken have names of their own, and leave the library within its limit.
LEMMA TakenFit ==
  ASSUME LibraryInv
  PROVE  /\ IsFiniteSet(DOMAIN patterns \cup NamesOf(Taken))
         /\ Cardinality(DOMAIN patterns \cup NamesOf(Taken)) <= MAX_PATTERNS
         /\ NamesOf(Taken) \subseteq LibraryNames
         /\ \A i \in Taken : Parsed(i).text \in Text /\ validate_pattern(Parsed(i).text)
<1> DEFINE D == DOMAIN patterns
           T == Taken
           N == NamesOf(T)
           L == Len(library_file)
<1>1. /\ D \subseteq LibraryNames /\ IsFiniteSet(D) /\ Cardinality(D) \in Nat
      /\ Cardinality(D) <= MAX_PATTERNS /\ MAX_PATTERNS \in Nat
  BY FS_CardinalityType, LibraryAssumption DEF LibraryInv, LibraryTypeOK, EntriesValid
<1>2. /\ L \in Nat /\ DOMAIN library_file = 1 .. L
      /\ \A i \in 1 .. L : Parsed(i).name \in LibraryNames /\ Parsed(i).text \in Text
  <2>1. library_file \in Seq(Line)
    BY DEF LibraryInv, LibraryTypeOK
  <2>2. \A e \in Line : e.name \in LibraryNames /\ e.text \in Text
    BY DEF Line
  <2>3. L \in Nat /\ DOMAIN library_file = 1 .. L /\ \A i \in 1 .. L : library_file[i] \in Line
    BY <2>1
  <2>4. ASSUME NEW i \in 1 .. L PROVE Parsed(i).name \in LibraryNames /\ Parsed(i).text \in Text
    BY <2>2, <2>3, TextReadIs DEF Parsed
  <2> QED BY <2>3, <2>4
<1>3. Lines \subseteq 1 .. L /\ T \subseteq Lines /\ \A i \in T, j \in Lines : j <= i => ~Refused(j)
  BY <1>2 DEF Lines, Taken
<1>4. \A i \in T : ~Refused(i)
  BY <1>2, <1>3
<1>5. N = {Parsed(i).name : i \in T}
  BY DEF NamesOf
<1> HIDE DEF D, T, N, L
<1>6. IsFiniteSet(T) /\ IsFiniteSet(Lines)
  <2>1. IsFiniteSet(1 .. L)
    BY <1>2, FS_Interval
  <2> QED BY <1>3, <2>1, FS_Subset
<1>7. IsFiniteSet(N) /\ Cardinality(N) <= Cardinality(T)
  <2> DEFINE f == [i \in T |-> Parsed(i).name]
  <2>1. f \in Surjection(T, N)
    BY <1>5 DEF Surjection
  <2> HIDE DEF f
  <2> QED BY <1>6, <2>1, FS_Surjection
<1>8. T = {} => N = {}
  BY <1>5
<1>9. IsFiniteSet(D \cup N) /\ Cardinality(D \cup N) <= MAX_PATTERNS
  <2>1. CASE T = {}
    <3>1. D \cup N = D
      BY <1>8, <2>1
    <3> QED BY <1>1, <3>1
  <2>2. CASE T # {}
    <3>1. T \in SUBSET Nat
      BY <1>2, <1>3
    <3> DEFINE m == Max(T)
               U == {j \in Lines : j <= m}
    <3>2. m \in T /\ \A i \in T : m >= i
      BY <1>6, <2>2, <3>1, MaxIs
    <3> HIDE DEF m
    <3>3. T \subseteq U /\ IsFiniteSet(U)
      <4>1. ASSUME NEW i \in T PROVE i \in Lines /\ i <= m
        BY <1>3, <3>1, <3>2
      <4>2. U \subseteq Lines
        OBVIOUS
      <4> QED BY <1>6, <4>1, <4>2, FS_Subset
    <3>4. Cardinality(T) <= Cardinality(U) /\ Cardinality(U) \in Nat /\ Cardinality(T) \in Nat
      <4> HIDE DEF U
      <4> QED BY <1>6, <3>3, FS_Subset, FS_CardinalityType
    <3>5. ~(Cardinality(D) + Cardinality(U) > MAX_PATTERNS)
      BY <1>4, <3>2 DEF Refused, D
    <3> HIDE DEF U
    <3>6. Cardinality(N) \in Nat /\ Cardinality(D \cap N) \in Nat /\ IsFiniteSet(D \cup N)
          /\ Cardinality(D \cup N) = Cardinality(D) + Cardinality(N) - Cardinality(D \cap N)
      BY <1>1, <1>7, FS_Union, FS_Intersection, FS_CardinalityType
    <3> QED BY <1>1, <1>7, <3>4, <3>5, <3>6
  <2> QED BY <2>1, <2>2
<1>10. N \subseteq LibraryNames
  BY <1>2, <1>3, <1>5
<1>11. \A i \in T : Parsed(i).text \in Text /\ validate_pattern(Parsed(i).text)
  BY <1>2, <1>3, <1>4 DEF Refused, is_valid
<1> QED BY <1>8, <1>9, <1>10, <1>11 DEF D, N, T

\* No two of the lines taken name the same entry.
LEMMA OneLineEach ==
  ASSUME LibraryInv
  PROVE  \A i, j \in Taken : Parsed(i).name = Parsed(j).name => i = j
<1>1. /\ Taken \subseteq Lines /\ Lines \subseteq Nat
      /\ \A i \in Taken : i \in Lines /\ ~Refused(i)
  <2>1. library_file \in Seq(Line)
    BY DEF LibraryInv, LibraryTypeOK
  <2>2. Lines \subseteq Nat
    BY <2>1 DEF Lines
  <2>3. \A i \in Taken : i <= i
    BY <2>2 DEF Taken
  <2> QED BY <2>2, <2>3 DEF Taken
<1>2. ASSUME NEW i \in Taken, NEW j \in Taken, j < i PROVE Parsed(i).name # Parsed(j).name
  <2>1. Parsed(i).name \notin NamesOf({k \in Lines : k < i})
    BY <1>1 DEF Refused
  <2> QED BY <1>1, <1>2, <2>1 DEF NamesOf
<1> QED BY <1>1, <1>2

LEMMA LoadInv ==
  ASSUME LibraryInv, load_from_file
  PROVE  LibraryInv'
<1> DEFINE D == DOMAIN patterns
           N == NamesOf(Taken)
           LineOf(n) == CHOOSE i \in Taken : Parsed(i).name = n
           new == [n \in D \cup N |-> IF n \in N THEN Parsed(LineOf(n)).text ELSE patterns[n]]
           complete == Taken = Lines
<1>1. /\ Exclusive /\ patterns' = new
      /\ library_stats' = IF complete THEN Counted(new) ELSE library_stats
      /\ uncounted' = IF complete THEN 0
                      ELSE uncounted + Cardinality(DOMAIN new) - Cardinality(DOMAIN patterns)
      /\ restored' = (complete /\ patterns = <<>> /\ saved # <<>>)
      /\ UNCHANGED <<library_file, searching, searched, overlapped, saved>>
  BY DEF load_from_file
<1>2. /\ IsFiniteSet(D \cup N) /\ Cardinality(D \cup N) <= MAX_PATTERNS /\ N \subseteq LibraryNames
      /\ \A i \in Taken : Parsed(i).text \in Text /\ validate_pattern(Parsed(i).text)
  BY TakenFit
<1>3. D \subseteq LibraryNames
      /\ \A n \in D : patterns[n] \in Text /\ validate_pattern(patterns[n])
  BY DEF LibraryInv, LibraryTypeOK, EntriesValid
<1>4. ASSUME NEW n \in N PROVE LineOf(n) \in Taken /\ Parsed(LineOf(n)).name = n
  <2>1. \E i \in Taken : Parsed(i).name = n
    BY DEF NamesOf
  <2> QED BY <2>1
<1> HIDE DEF LineOf
<1>5. DOMAIN new = D \cup N /\ \A n \in D \cup N :
        new[n] = IF n \in N THEN Parsed(LineOf(n)).text ELSE patterns[n]
  OBVIOUS
<1> HIDE DEF new, D, N, complete
<1>6. \A n \in DOMAIN new : n \in LibraryNames /\ new[n] \in Text /\ validate_pattern(new[n])
  <2> SUFFICES ASSUME NEW n \in D \cup N
               PROVE  n \in LibraryNames /\ new[n] \in Text /\ validate_pattern(new[n])
    BY <1>5
  <2>1. CASE n \in N
    BY <1>2, <1>4, <1>5, <2>1
  <2>2. CASE n \notin N
    BY <1>3, <1>5, <2>2
  <2> QED BY <2>1, <2>2
<1>7. \/ library_stats' = Counted(new) /\ uncounted' = 0
      \/ /\ library_stats' = library_stats
         /\ uncounted' = uncounted + Cardinality(DOMAIN new) - Cardinality(DOMAIN patterns)
  BY <1>1
<1>8. restored' \in BOOLEAN
  BY <1>1
<1>9. ComesBack'
  <2> DEFINE S == DOMAIN saved \ HashNames
             back == {Read(n, saved[n]) : n \in S}
  <2> SUFFICES ASSUME complete, patterns = <<>>, saved # <<>>
               PROVE  DOMAIN new = {e.name : e \in back} /\ \A e \in back : new[e.name] = e.text
    BY <1>1 DEF ComesBack
  <2>1. D = {}
    BY DEF D
  <2>2. /\ \A i \in DOMAIN library_file : /\ library_file[i].name \in DOMAIN saved
                                         /\ library_file[i].text = saved[library_file[i].name]
                                         /\ library_file[i].full
        /\ \A n \in DOMAIN saved : \E i \in DOMAIN library_file : library_file[i].name = n
    BY DEF LibraryInv, FileKnown
  <2>3. /\ Taken = Lines
        /\ Taken = {i \in DOMAIN library_file : library_file[i].name \notin HashNames}
    BY <2>2 DEF complete, Lines
  <2>4. ASSUME NEW i \in Taken PROVE Parsed(i) \in back
    <3>1. library_file[i].name \in S /\ library_file[i].text = saved[library_file[i].name]
      BY <2>2, <2>3
    <3> QED BY <3>1 DEF Parsed
  <2>5. ASSUME NEW e \in back PROVE \E i \in Taken : Parsed(i) = e
    <3>1. PICK n \in S : e = Read(n, saved[n])
      OBVIOUS
    <3>2. PICK i \in DOMAIN library_file : library_file[i].name = n
      BY <2>2
    <3>3. i \in Taken /\ library_file[i].text = saved[n]
      BY <2>2, <2>3, <3>2
    <3> QED BY <3>1, <3>2, <3>3 DEF Parsed
  <2> HIDE DEF back
  <2>6. N = {e.name : e \in back}
    <3>1. N = {Parsed(i).name : i \in Taken}
      BY DEF N, NamesOf
    <3> QED BY <2>4, <2>5, <3>1
  <2>7. ASSUME NEW e \in back PROVE new[e.name] = e.text
    <3>1. PICK i \in Taken : Parsed(i) = e
      BY <2>5
    <3>2. e.name \in N
      BY <2>6
    <3>3. LineOf(e.name) \in Taken /\ Parsed(LineOf(e.name)).name = Parsed(i).name
      BY <1>4, <3>1, <3>2
    <3>4. LineOf(e.name) = i
      BY <3>1, <3>3, OneLineEach
    <3> QED BY <1>5, <3>1, <3>2, <3>4
  <2> QED BY <1>5, <2>1, <2>6, <2>7
<1> QED BY <1>1, <1>2, <1>5, <1>6, <1>7, <1>8, <1>9, NewEntries

\* Only the file changes, and what is remembered of it.
LEMMA NewFile ==
  ASSUME LibraryInv, library_file' \in Seq(Line), FileKnown',
         restored' = FALSE,
         UNCHANGED <<patterns, library_stats, searching, searched, overlapped, uncounted>>
  PROVE  LibraryInv'
<1>1. Busy' = Busy /\ Storing' = Storing
  BY DEF Busy, Storing
<1>2. LibraryTypeOK' /\ EntriesValid'
  BY DEF LibraryInv, LibraryTypeOK, Lookup, EntriesValid, validate_pattern
<1>3. RoomToCount' /\ CountedAlone' /\ PatternsCounted'
  BY <1>1 DEF LibraryInv, RoomToCount, CountedAlone, PatternsCounted
<1>4. ComesBack'
  BY DEF ComesBack
<1> QED BY <1>2, <1>3, <1>4 DEF LibraryInv

LEMMA SaveInv ==
  ASSUME LibraryInv, save_to_file
  PROVE  LibraryInv'
<1> DEFINE D == DOMAIN patterns
           n == Cardinality(D)
<1>1. PICK order \in SetToSeqs(D) :
        library_file' = [i \in DOMAIN order |->
          [name |-> order[i], text |-> patterns[order[i]], full |-> TRUE]]
  BY DEF save_to_file
<1>2. /\ saved' = patterns /\ restored' = FALSE
      /\ UNCHANGED <<patterns, library_stats, searching, searched, overlapped, uncounted>>
  BY DEF save_to_file
<1>3. /\ D \subseteq LibraryNames /\ IsFiniteSet(D) /\ n \in Nat
      /\ \A m \in D : patterns[m] \in Text
  BY FS_CardinalityType DEF LibraryInv, LibraryTypeOK, EntriesValid
<1>4. order \in [1 .. n -> D] /\ \A i, j \in 1 .. n : i # j => order[i] # order[j]
  BY DEF SetToSeqs
<1> HIDE DEF D, n
<1>5. \A m \in D : \E i \in 1 .. n : order[i] = m
  <2>1. order \in Injection(1 .. n, D)
    BY <1>4 DEF Injection, IsInjective
  <2>2. IsFiniteSet(1 .. n) /\ Cardinality(1 .. n) = n
    BY <1>3, FS_Interval
  <2>3. order \in Surjection(1 .. n, D)
    BY <1>3, <2>1, <2>2, FS_Injection DEF n
  <2> QED BY <2>3 DEF Surjection
<1>6. /\ DOMAIN library_file' = 1 .. n
      /\ \A i \in 1 .. n : library_file'[i] = [name |-> order[i], text |-> patterns[order[i]], full |-> TRUE]
  BY <1>1, <1>4
<1>7. library_file' \in Seq(Line)
  <2>1. \A i \in 1 .. n : [name |-> order[i], text |-> patterns[order[i]], full |-> TRUE] \in Line
    BY <1>3, <1>4 DEF Line
  <2>2. library_file' = [i \in 1 .. n |-> [name |-> order[i], text |-> patterns[order[i]], full |-> TRUE]]
    BY <1>1, <1>4
  <2> QED BY <1>3, <2>1, <2>2
<1>8. FileKnown'
  <2>1. DOMAIN saved' = D /\ \A m \in D : saved'[m] = patterns[m]
    BY <1>2 DEF D
  <2>2. ASSUME NEW i \in 1 .. n
        PROVE  /\ library_file'[i].name \in D /\ library_file'[i].full
               /\ library_file'[i].text = patterns[library_file'[i].name]
    BY <1>4, <1>6
  <2>3. ASSUME NEW m \in D PROVE \E i \in 1 .. n : library_file'[i].name = m
    BY <1>5, <1>6
  <2>4. \A i \in DOMAIN library_file' :
          /\ library_file'[i].name \in DOMAIN saved'
          /\ library_file'[i].text = saved'[library_file'[i].name]
          /\ library_file'[i].full
    BY <1>6, <2>1, <2>2
  <2>5. \A m \in DOMAIN saved' : \E i \in DOMAIN library_file' : library_file'[i].name = m
    BY <1>6, <2>1, <2>3
  <2> QED BY <2>4, <2>5 DEF FileKnown
<1> QED BY <1>2, <1>7, <1>8, NewFile

LEMMA WriteInv ==
  ASSUME LibraryInv, NEW lines \in HandWritten, WriteByHand(lines)
  PROVE  LibraryInv'
<1>1. /\ library_file' = lines /\ saved' = <<>> /\ restored' = FALSE
      /\ UNCHANGED <<patterns, library_stats, searching, searched, overlapped, uncounted>>
  BY DEF WriteByHand
<1>2. lines \in Seq(Line)
  BY LibraryAssumption
<1>3. FileKnown'
  BY <1>1 DEF FileKnown
<1> QED BY <1>1, <1>2, <1>3, NewFile

-----------------------------------------------------------------------------
\* The steps of a search leave entries and file alone.
LEMMA OnlyCounters ==
  ASSUME LibraryInv, searching' \in [Searchers -> Lookup], searched' \in Nat,
         overlapped' \in BOOLEAN,
         library_stats' \in [total_patterns : Nat, total_searches : Nat, cache_hits : Nat],
         library_stats'.total_patterns = library_stats.total_patterns,
         RoomToCount', CountedAlone',
         UNCHANGED <<patterns, library_file, uncounted, saved, restored>>
  PROVE  LibraryInv'
<1>1. LibraryTypeOK' /\ EntriesValid'
  BY DEF LibraryInv, LibraryTypeOK, EntriesValid, validate_pattern
<1>2. PatternsCounted' /\ FileKnown' /\ ComesBack'
  BY DEF LibraryInv, PatternsCounted, FileKnown, ComesBack
<1> QED BY <1>1, <1>2 DEF LibraryInv

LEMMA GetInv ==
  ASSUME LibraryInv, NEW t \in Searchers, NEW name \in LibraryNames, get_pattern(t, name)
  PROVE  LibraryInv'
<1> DEFINE total == library_stats.total_searches
           s == [counter |-> "total_searches", seen |-> total, name |-> name]
<1>1. /\ searching[t] = NotSearching
      /\ searching' = [searching EXCEPT ![t] = s]
      /\ searched' = searched + 1
      /\ overlapped' = (overlapped \/ \E u \in Searchers : searching[u] # NotSearching)
      /\ UNCHANGED <<patterns, library_stats, library_file, uncounted, saved, restored>>
  BY DEF get_pattern
<1>2. /\ searching \in [Searchers -> Lookup] /\ searched \in Nat /\ overlapped \in BOOLEAN
      /\ total \in Nat /\ library_stats.cache_hits \in Nat
      /\ library_stats \in [total_patterns : Nat, total_searches : Nat, cache_hits : Nat]
  BY DEF LibraryInv, LibraryTypeOK
<1>3. s \in Lookup /\ s.counter = "total_searches" /\ s.seen = total /\ s # NotSearching
  BY <1>2 DEF Lookup, NotSearching
<1> HIDE DEF s, total
<1>4. /\ searching' \in [Searchers -> Lookup] /\ searching'[t] = s
      /\ \A u \in Searchers \ {t} : searching'[u] = searching[u]
  BY <1>1, <1>2, <1>3
<1>5. Busy' = Busy \cup {t} /\ t \notin Busy /\ Storing' = Storing \cup {t} /\ t \notin Storing
  BY <1>1, <1>3, <1>4 DEF Busy, Storing, NotSearching
<1>6. /\ Cardinality(Busy') = Cardinality(Busy) + 1 /\ Cardinality(Busy) \in Nat
      /\ Cardinality(Storing') = Cardinality(Storing) + 1 /\ Cardinality(Storing) \in Nat
      /\ IsFiniteSet(Busy)
  <2>1. LibraryTypeOK
    BY DEF LibraryInv
  <2> QED BY <1>5, <2>1, BusyAre, FS_AddElement
<1>7. \A u \in Searchers : searching[u].seen \in Nat
  BY <1>2 DEF Lookup
<1>8. RoomToCount'
  <2>1. library_stats'.cache_hits = library_stats.cache_hits /\ library_stats'.total_searches = total
    BY <1>1 DEF total
  <2>2. /\ library_stats.cache_hits + Cardinality(Busy) <= searched
        /\ \A u \in Searchers : searching[u].counter = "cache_hits" =>
             searching[u].seen + Cardinality(Busy) <= searched
        /\ total + Cardinality(Storing) <= searched
        /\ \A u \in Storing : searching[u].seen + Cardinality(Storing) <= searched
    BY DEF LibraryInv, RoomToCount, total
  <2>3. library_stats'.cache_hits + Cardinality(Busy') <= searched'
    BY <1>1, <1>2, <1>6, <2>1, <2>2
  <2>4. ASSUME NEW u \in Searchers, searching'[u].counter = "cache_hits"
        PROVE  searching'[u].seen + Cardinality(Busy') <= searched'
    <3>1. u # t /\ searching'[u] = searching[u]
      BY <1>3, <1>4, <2>4
    <3>2. searching[u].seen + Cardinality(Busy) <= searched
      BY <2>2, <2>4, <3>1
    <3> QED BY <1>1, <1>2, <1>6, <1>7, <3>1, <3>2
  <2>5. library_stats'.total_searches + Cardinality(Storing') <= searched'
    BY <1>1, <1>2, <1>6, <2>1, <2>2
  <2>6. ASSUME NEW u \in Storing' PROVE searching'[u].seen + Cardinality(Storing') <= searched'
    <3>1. CASE u = t
      BY <1>1, <1>2, <1>3, <1>4, <1>6, <2>2, <3>1
    <3>2. CASE u # t
      <4>1. u \in Storing /\ u \in Searchers /\ searching'[u] = searching[u]
        BY <1>4, <1>5, <3>2 DEF Storing
      <4>2. searching[u].seen + Cardinality(Storing) <= searched
        BY <2>2, <4>1
      <4> QED BY <1>1, <1>2, <1>6, <1>7, <4>1, <4>2
    <3> QED BY <3>1, <3>2
  <2> QED BY <2>3, <2>4, <2>5, <2>6 DEF RoomToCount
<1>9. CountedAlone'
  <2> SUFFICES ASSUME ~overlapped'
               PROVE  /\ \A u, v \in Busy' : u = v
                      /\ \A u \in Storing' : searching'[u].seen + 1 = searched'
                      /\ Storing' = {} => library_stats'.total_searches = searched'
    BY DEF CountedAlone
  <2>1. ~overlapped /\ Busy = {}
    BY <1>1, <1>2 DEF Busy
  <2>2. Storing = {}
    BY <2>1, BusyAre DEF LibraryInv
  <2>3. total = searched
    BY <2>1, <2>2 DEF LibraryInv, CountedAlone, total
  <2>4. Busy' = {t} /\ Storing' = {t}
    BY <1>5, <2>1, <2>2
  <2> QED BY <1>1, <1>3, <1>4, <2>3, <2>4
<1>10. overlapped' \in BOOLEAN /\ searched' \in Nat
  BY <1>1, <1>2
<1> QED BY <1>1, <1>2, <1>4, <1>8, <1>9, <1>10, OnlyCounters

LEMMA LoadHitsInv ==
  ASSUME LibraryInv, NEW t \in Searchers, LoadHits(t)
  PROVE  LibraryInv'
<1> DEFINE hits == library_stats.cache_hits
<1>1. /\ searching[t].counter = "found"
      /\ searching' = [searching EXCEPT ![t].counter = "cache_hits", ![t].seen = hits]
      /\ UNCHANGED <<patterns, library_stats, library_file, searched, overlapped, uncounted, saved, restored>>
  BY DEF LoadHits
<1>2. /\ searching \in [Searchers -> Lookup] /\ searched \in Nat /\ overlapped \in BOOLEAN
      /\ hits \in Nat /\ library_stats.total_searches \in Nat
      /\ library_stats \in [total_patterns : Nat, total_searches : Nat, cache_hits : Nat]
  BY DEF LibraryInv, LibraryTypeOK
<1> HIDE DEF hits
<1>3. /\ searching' \in [Searchers -> Lookup]
      /\ searching'[t].counter = "cache_hits" /\ searching'[t].seen = hits
      /\ \A u \in Searchers \ {t} : searching'[u] = searching[u]
  BY <1>1, <1>2 DEF Lookup
<1>4. Busy' = Busy /\ Storing' = Storing /\ t \notin Storing
  <2>1. t \in Busy /\ t \notin Storing
    BY <1>1 DEF Busy, Storing, NotSearching
  <2>2. searching'[t] # NotSearching /\ searching'[t].counter # "total_searches"
    BY <1>3 DEF NotSearching
  <2> QED BY <1>3, <2>1, <2>2 DEF Busy, Storing
<1>5. RoomToCount'
  <2>1. ASSUME NEW u \in Searchers, searching'[u].counter = "cache_hits"
        PROVE  searching'[u].seen + Cardinality(Busy) <= searched
    <3>1. CASE u = t
      BY <1>3, <3>1 DEF LibraryInv, RoomToCount, hits
    <3>2. CASE u # t
      BY <1>3, <2>1, <3>2 DEF LibraryInv, RoomToCount
    <3> QED BY <3>1, <3>2
  <2>2. \A u \in Storing : searching'[u] = searching[u]
    BY <1>3, <1>4 DEF Storing
  <2> QED BY <1>1, <1>4, <2>1, <2>2 DEF LibraryInv, RoomToCount
<1>6. CountedAlone'
  <2>1. \A u \in Storing : searching'[u] = searching[u]
    BY <1>3, <1>4 DEF Storing
  <2> QED BY <1>1, <1>4, <2>1 DEF LibraryInv, CountedAlone
<1> QED BY <1>1, <1>2, <1>3, <1>5, <1>6, OnlyCounters

LEMMA StoreInv ==
  ASSUME LibraryInv, NEW t \in Searchers, StoreCounter(t)
  PROVE  LibraryInv'
<1> DEFINE s == searching[t]
           hit == s.counter = "total_searches" /\ s.name \in DOMAIN patterns
           left == IF hit THEN [s EXCEPT !.counter = "found"] ELSE NotSearching
           b == Cardinality(Busy)
           w == Cardinality(Storing)
<1>1. /\ s.counter \in {"total_searches", "cache_hits"}
      /\ library_stats' = [library_stats EXCEPT ![s.counter] = s.seen + 1]
      /\ searching' = [searching EXCEPT ![t] = left]
      /\ UNCHANGED <<patterns, library_file, searched, overlapped, uncounted, saved, restored>>
  BY DEF StoreCounter
<1>2. /\ searching \in [Searchers -> Lookup] /\ searched \in Nat /\ overlapped \in BOOLEAN
      /\ library_stats \in [total_patterns : Nat, total_searches : Nat, cache_hits : Nat]
      /\ s \in Lookup /\ s.seen \in Nat
  BY DEF LibraryInv, LibraryTypeOK, Lookup
<1>3. left \in Lookup /\ left.counter \in {"none", "found"}
      /\ (left # NotSearching => s.counter = "total_searches")
  <2>1. CASE hit
    <3>1. left = [s EXCEPT !.counter = "found"]
      BY <2>1
    <3>2. left \in Lookup /\ left.counter = "found"
      BY <1>2, <3>1 DEF Lookup
    <3> QED BY <2>1, <3>2
  <2>2. CASE ~hit
    BY <2>2 DEF Lookup, NotSearching
  <2> QED BY <2>1, <2>2
<1>4. /\ \A u \in Busy, v \in Busy : ~overlapped => u = v
      /\ library_stats.cache_hits + b <= searched /\ library_stats.total_searches + w <= searched
      /\ \A u \in Searchers : searching[u].counter = "cache_hits" => searching[u].seen + b <= searched
      /\ \A u \in Storing : searching[u].seen + w <= searched
      /\ \A u \in Storing : ~overlapped => searching[u].seen + 1 = searched
      /\ ~overlapped /\ Storing = {} => library_stats.total_searches = searched
  BY <1>2 DEF LibraryInv, RoomToCount, CountedAlone
<1>5. b \in Nat /\ w \in Nat /\ IsFiniteSet(Busy) /\ IsFiniteSet(Storing) /\ Storing \subseteq Busy
  BY BusyAre DEF LibraryInv
<1>6. t \in Busy /\ (s.counter = "total_searches" <=> t \in Storing)
  BY <1>1 DEF Busy, Storing, NotSearching
<1> HIDE DEF hit, left
<1>7. /\ searching' \in [Searchers -> Lookup] /\ searching'[t] = left
      /\ \A u \in Searchers \ {t} : searching'[u] = searching[u]
  BY <1>1, <1>2, <1>3
<1>8. Storing' = Storing \ {t} /\ Busy' \in {Busy, Busy \ {t}} /\ (t \notin Storing => Busy' = Busy \ {t})
  <2>1. Storing' = Storing \ {t}
    BY <1>3, <1>7 DEF Storing
  <2>2. Busy' = IF left = NotSearching THEN Busy \ {t} ELSE Busy
    BY <1>6, <1>7 DEF Busy
  <2>3. t \notin Storing => left = NotSearching
    BY <1>3, <1>6
  <2> QED BY <2>1, <2>2, <2>3
<1>9. Cardinality(Busy \ {t}) = b - 1 /\ (t \in Storing => Cardinality(Storing \ {t}) = w - 1)
  BY <1>5, <1>6, FS_RemoveElement
<1>10. /\ Cardinality(Busy') \in Nat /\ Cardinality(Busy') <= b
       /\ t \notin Storing => Cardinality(Busy') = b - 1
       /\ Cardinality(Storing') = IF t \in Storing THEN w - 1 ELSE w
       /\ Cardinality(Storing') \in Nat
  <2>1. IsFiniteSet(Busy') /\ IsFiniteSet(Storing')
    <3>1. IsFiniteSet(Busy \ {t}) /\ IsFiniteSet(Storing \ {t})
      BY <1>5, FS_RemoveElement
    <3> QED BY <1>5, <1>8, <3>1
  <2>2. Cardinality(Busy') \in Nat /\ Cardinality(Storing') \in Nat
    BY <2>1, FS_CardinalityType
  <2>3. t \notin Storing => Storing \ {t} = Storing
    OBVIOUS
  <2>4. Cardinality(Storing') = IF t \in Storing THEN w - 1 ELSE w
    BY <1>8, <1>9, <2>3
  <2>5. Cardinality(Busy') = b \/ Cardinality(Busy') = b - 1
    BY <1>8, <1>9
  <2>6. t \notin Storing => Cardinality(Busy') = b - 1
    BY <1>8, <1>9
  <2> HIDE DEF b, w
  <2>7. Cardinality(Busy') <= b
    BY <1>5, <2>5
  <2> QED BY <2>2, <2>4, <2>6, <2>7
<1> HIDE DEF b, w, s
<1>11. \A u \in Searchers : searching[u].seen \in Nat
  BY <1>2 DEF Lookup
<1>12. /\ library_stats' \in [total_patterns : Nat, total_searches : Nat, cache_hits : Nat]
       /\ library_stats'.total_patterns = library_stats.total_patterns
       /\ t \in Storing => /\ library_stats'.total_searches = s.seen + 1
                           /\ library_stats'.cache_hits = library_stats.cache_hits
       /\ t \notin Storing => /\ library_stats'.total_searches = library_stats.total_searches
                              /\ library_stats'.cache_hits = s.seen + 1
  <2>1. s.seen + 1 \in Nat
    BY <1>2
  <2>2. CASE t \in Storing
    <3>1. library_stats' = [library_stats EXCEPT !.total_searches = s.seen + 1]
      BY <1>1, <1>6, <2>2
    <3> QED BY <1>2, <2>1, <2>2, <3>1
  <2>3. CASE t \notin Storing
    <3>1. library_stats' = [library_stats EXCEPT !.cache_hits = s.seen + 1]
      BY <1>1, <1>6, <2>3
    <3> QED BY <1>2, <2>1, <2>3, <3>1
  <2> QED BY <2>2, <2>3
<1>13. /\ t \in Storing => s.seen + w <= searched /\ (~overlapped => s.seen + 1 = searched)
       /\ t \notin Storing => s.seen + b <= searched
  BY <1>1, <1>4, <1>6 DEF s
<1>14. RoomToCount'
  <2>1. library_stats.cache_hits \in Nat /\ library_stats.total_searches \in Nat
    BY <1>2
  <2>2. library_stats'.cache_hits + Cardinality(Busy') <= searched'
    BY <1>1, <1>2, <1>4, <1>5, <1>10, <1>12, <1>13, <2>1
  <2>3. ASSUME NEW u \in Searchers, searching'[u].counter = "cache_hits"
        PROVE  searching'[u].seen + Cardinality(Busy') <= searched'
    <3>1. u # t
      BY <1>3, <1>7, <2>3
    <3>2. searching'[u] = searching[u] /\ searching[u].seen + b <= searched
      BY <1>4, <1>7, <2>3, <3>1
    <3> QED BY <1>1, <1>2, <1>5, <1>10, <1>11, <3>2
  <2>4. library_stats'.total_searches + Cardinality(Storing') <= searched'
    BY <1>1, <1>2, <1>4, <1>5, <1>10, <1>12, <1>13, <2>1
  <2>5. ASSUME NEW u \in Storing' PROVE searching'[u].seen + Cardinality(Storing') <= searched'
    <3>1. u # t /\ u \in Storing /\ u \in Searchers
      BY <1>8 DEF Storing
    <3>2. searching'[u] = searching[u] /\ searching[u].seen + w <= searched
      BY <1>4, <1>7, <3>1
    <3> QED BY <1>1, <1>2, <1>5, <1>10, <1>11, <3>1, <3>2
  <2> QED BY <2>2, <2>3, <2>4, <2>5 DEF RoomToCount
<1>15. CountedAlone'
  <2> SUFFICES ASSUME ~overlapped
               PROVE  /\ \A u, v \in Busy' : u = v
                      /\ \A u \in Storing' : searching'[u].seen + 1 = searched
                      /\ Storing' = {} => library_stats'.total_searches = searched
    BY <1>1 DEF CountedAlone
  <2>1. Busy' \subseteq Busy /\ \A u, v \in Busy : u = v
    BY <1>4, <1>8
  <2>2. Storing \subseteq {t}
    BY <1>5, <1>6, <2>1
  <2>3. Storing' = {}
    BY <1>8, <2>2
  <2>4. library_stats'.total_searches = searched
    <3>1. CASE t \in Storing
      BY <1>12, <1>13, <3>1
    <3>2. CASE t \notin Storing
      <4>1. Storing = {}
        BY <2>2, <3>2
      <4> QED BY <1>4, <1>12, <3>2, <4>1
    <3> QED BY <3>1, <3>2
  <2> QED BY <2>1, <2>3, <2>4
<1> QED BY <1>1, <1>2, <1>7, <1>12, <1>14, <1>15, OnlyCounters

-----------------------------------------------------------------------------
LibrarySpec == LibraryInit /\ [][LibraryNext]_library_vars

LEMMA LibraryInvariance == LibrarySpec => []LibraryInv
<1>1. LibraryInit => LibraryInv
  <2> SUFFICES ASSUME LibraryInit PROVE LibraryInv
    OBVIOUS
  <2>1. /\ patterns = <<>> /\ library_stats = NoLibraryStats /\ library_file = <<>>
        /\ searching = [t \in Searchers |-> NotSearching] /\ searched = 0
        /\ overlapped = FALSE /\ uncounted = 0 /\ saved = <<>> /\ restored = FALSE
    BY DEF LibraryInit
  <2>2. DOMAIN patterns = {} /\ IsFiniteSet(DOMAIN patterns) /\ Cardinality(DOMAIN patterns) = 0
    BY <2>1, FS_EmptySet
  <2>3. Busy = {} /\ Storing = {} /\ Cardinality(Busy) = 0 /\ Cardinality(Storing) = 0
    <3>1. Busy = {} /\ Storing = {}
      BY <2>1 DEF Busy, Storing, NotSearching
    <3> QED BY <3>1, FS_EmptySet
  <2>4. /\ library_stats.total_patterns = 0 /\ library_stats.total_searches = 0
        /\ library_stats.cache_hits = 0
        /\ library_stats \in [total_patterns : Nat, total_searches : Nat, cache_hits : Nat]
    BY <2>1 DEF NoLibraryStats
  <2>5. LibraryTypeOK
    <3>1. NotSearching \in Lookup
      BY DEF NotSearching, Lookup
    <3>2. library_file \in Seq(Line)
      BY <2>1
    <3>3. searching \in [Searchers -> Lookup] /\ searched \in Nat
      BY <2>1, <3>1
    <3>4. overlapped \in BOOLEAN /\ restored \in BOOLEAN
      BY <2>1
    <3>5. uncounted \in Int
      BY <2>1
    <3> QED BY <2>2, <2>4, <3>2, <3>3, <3>4, <3>5 DEF LibraryTypeOK
  <2>6. EntriesValid
    BY <2>2, LibraryAssumption DEF EntriesValid
  <2>7. RoomToCount /\ CountedAlone /\ PatternsCounted
    BY <2>1, <2>2, <2>3, <2>4 DEF RoomToCount, CountedAlone, PatternsCounted, NotSearching
  <2>8. FileKnown /\ ComesBack
    BY <2>1 DEF FileKnown, ComesBack
  <2> QED BY <2>5, <2>6, <2>7, <2>8 DEF LibraryInv
<1>2. ASSUME LibraryInv, [LibraryNext]_library_vars PROVE LibraryInv'
  <2>1. CASE UNCHANGED library_vars
    <3>1. UNCHANGED <<patterns, library_stats, library_file, searching, searched, overlapped, uncounted, saved, restored>>
      BY <2>1 DEF library_vars
    <3>2. Busy' = Busy /\ Storing' = Storing
      BY <3>1 DEF Busy, Storing
    <3>3. RoomToCount' /\ CountedAlone'
      BY <1>2, <3>1, <3>2 DEF LibraryInv, RoomToCount, CountedAlone
    <3>4. /\ searching' \in [Searchers -> Lookup] /\ searched' \in Nat /\ overlapped' \in BOOLEAN
          /\ library_stats' \in [total_patterns : Nat, total_searches : Nat, cache_hits : Nat]
      BY <1>2, <3>1 DEF LibraryInv, LibraryTypeOK
    <3> QED BY <1>2, <3>1, <3>3, <3>4, OnlyCounters
  <2>2. CASE LibraryNext
    <3>1. CASE \E name \in LibraryNames :
                 \/ \E text \in LibraryTexts : add_pattern(name, text)
                 \/ remove_pattern(name)
                 \/ \E t \in Searchers : get_pattern(t, name)
      BY <1>2, <3>1, AddInv, RemoveInv, GetInv
    <3>2. CASE clear_library \/ load_from_file \/ save_to_file
      BY <1>2, <3>2, ClearInv, LoadInv, SaveInv
    <3>3. CASE \E lines \in HandWritten : WriteByHand(lines)
      BY <1>2, <3>3, WriteInv
    <3>4. CASE \E t \in Searchers : StoreCounter(t) \/ LoadHits(t)
      BY <1>2, <3>4, StoreInv, LoadHitsInv
    <3> QED BY <2>2, <3>1, <3>2, <3>3, <3>4 DEF LibraryNext
  <2> QED BY <1>2, <2>1, <2>2
<1> QED BY <1>1, <1>2, PTL DEF LibrarySpec

\* For any number of searchers, any names, texts, limit and files: the entries are within
\* the limit, valid and read alike by both parsers, total_patterns lags by what failed loads
\* stored, no search is counted twice and none is lost while they do not overlap, and a load
\* brings back exactly what the saved lines are read as.
THEOREM LibraryIsSound == LibrarySpec => []LibrarySound
<1>1. LibraryInv => LibrarySound
  <2> SUFFICES ASSUME LibraryInv PROVE LibrarySound
    OBVIOUS
  <2>1. EntriesUsable
    <3>1. ASSUME NEW n \in DOMAIN patterns, Len(patterns[n]) <= MaxLength
          PROVE  parse_signature(patterns[n]) = compile(patterns[n])
      <4>1. patterns[n] \in Text /\ validate_pattern(patterns[n])
        BY DEF LibraryInv, EntriesValid
      <4> QED BY <3>1, <4>1, ValidTokens, SignatureAgrees
    <3>2. ASSUME NEW n \in DOMAIN patterns, NEW i \in DOMAIN patterns[n]
          PROVE  /\ parse_token(patterns[n][i]) # Invalid
                 /\ Len(patterns[n][i]) = 2 \/ patterns[n][i] = <<"?">>
      <4>1. patterns[n] \in Text /\ validate_pattern(patterns[n])
        BY DEF LibraryInv, EntriesValid
      <4>2. parse_token(patterns[n][i]) # Invalid
        BY <4>1, ValidTokens
      <4>3. Len(<<"?", "?">>) = 2
        OBVIOUS
      <4> QED BY <4>1, <4>2, <4>3 DEF validate_pattern
    <3> QED BY <3>1, <3>2 DEF LibraryInv, EntriesValid, EntriesUsable
  <2>2. LibraryCounts
    <3>1. /\ library_stats.cache_hits + Cardinality(Busy) <= searched
          /\ library_stats.total_searches + Cardinality(Storing) <= searched
          /\ Cardinality(Busy) \in Nat /\ Cardinality(Storing) \in Nat /\ searched \in Nat
          /\ library_stats.cache_hits \in Nat /\ library_stats.total_searches \in Nat
      BY BusyAre DEF LibraryInv, LibraryTypeOK, RoomToCount
    <3>2. (\A t \in Searchers : searching[t] = NotSearching) => Storing = {}
      BY DEF Storing, NotSearching
    <3>3. ~overlapped /\ (\A t \in Searchers : searching[t] = NotSearching) =>
            library_stats.total_searches = searched
      BY <3>2 DEF LibraryInv, CountedAlone
    <3>4. library_stats.cache_hits <= searched /\ library_stats.total_searches <= searched
      BY <3>1
    <3> QED BY <3>3, <3>4 DEF LibraryInv, PatternsCounted, LibraryCounts
  <2> QED BY <2>1, <2>2 DEF LibraryInv, LibrarySound
<1>2. QED BY <1>1, LibraryInvariance, PTL

=============================================================================
