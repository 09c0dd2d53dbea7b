---------------------------- MODULE ToolkitProofs ----------------------------
(***************************************************************************)
(* Proofs about a DMA object and what surrounds it.                        *)
(***************************************************************************)
EXTENDS Metrics, Scatter, MockDMA, DMAObject, Offsets, FileSink, Sums

-----------------------------------------------------------------------------
(***************************************************************************)
(* Proofs about Metrics, for any number of threads and any durations.      *)
(*                                                                         *)
(* Extremes: Marked follows a thread through the two loops; a reset wipes  *)
(* an extreme only while no read that counts is under way.  Scans: the sum *)
(* is wrong while reset runs, and Outcomes bounds each counter it has      *)
(* already cleared by the scans it ran beside.  Reads: Balances does the   *)
(* same for theirs, with the reads that are still under way.               *)
(***************************************************************************)
Places == {"idle", "load_min", "swap_min", "load_max", "swap_max", "timed"}
            \cup {"found", "missed", "failed"}
Clears == {"no", "total", "failed", "min", "max", "scanned", "found", "missed", "hits"}

MetricsTypeOK ==
  /\ count \in [Scanning \cup Reading -> Nat]
  /\ extreme \in [min : Nat, max : Nat]
  /\ at \in [Recorders -> Places]
  /\ time \in [Recorders -> Nat]
  /\ seen \in [Recorders -> Nat]
  /\ clearing \in Clears
  /\ clean \in [Recorders -> BOOLEAN]
  /\ timed \subseteq Nat
  /\ torn \in Nat /\ succeeded \in Nat /\ beside \in Nat

\* Between the first store of reset and the last extreme no read counts.
Wiping ==
  clearing \in {"total", "failed", "min", "max"} =>
    timed = {} /\ \A r \in Recorders : ~clean[r]

\* A thread past a loop has left its mark on the extreme.
Marked ==
  \A r \in Recorders :
    clean[r] =>
      /\ at[r] \in {"load_max", "swap_max", "timed"} => extreme.min <= time[r]
      /\ at[r] = "timed" => time[r] <= extreme.max

\* A thread about to exchange improves on the value it compares with.
Improves ==
  \A r \in Recorders :
    /\ at[r] = "swap_min" => time[r] < seen[r]
    /\ at[r] = "swap_max" => seen[r] < time[r]

Extremes == Wiping /\ ExtremesKept /\ Marked /\ Improves

\* What the scans a reset runs beside can add to the counters it has cleared.
Outcomes ==
  LET half == Cardinality(Half) IN
  /\ half \in Nat
  /\ clearing \in {"total", "failed", "min", "max", "scanned"} => half <= torn
  /\ clearing = "found" => half <= torn /\ count.scanned <= torn
  /\ clearing = "missed" => count.found + half <= torn /\ count.scanned <= torn

\* What the reads a reset runs beside can add to the counters it has cleared, and the
\* balance when none runs.
Balances ==
  LET failing == Cardinality(Failing)
      going == Cardinality(Succeeding) IN
  /\ failing \in Nat /\ going \in Nat
  /\ clearing # "no" => succeeded = 0 /\ failing + going <= beside
  /\ clearing \notin {"no", "total"} => count["total"] <= beside
  /\ clearing \notin {"no", "total", "failed"} => count["failed"] + failing <= beside
  /\ clearing = "no" =>
       /\ count["total"] <= count["failed"] + failing + succeeded + beside
       /\ count["failed"] + failing + succeeded <= count["total"] + beside
       /\ count["hits"] + going <= succeeded + beside

MetricsInv == MetricsTypeOK /\ Extremes /\ Outcomes /\ ScansAddUp /\ Balances

-----------------------------------------------------------------------------
(* The extremes *)

\* A fresh collector: UINT64_MAX and zero, nothing timed.
LEMMA MetricsInitInv == MetricsInit => MetricsInv
<1> SUFFICES ASSUME MetricsInit PROVE MetricsInv
  OBVIOUS
<1> USE MetricsAssumption DEF MetricsInit
<1>1. MetricsTypeOK
  BY DEF MetricsTypeOK, Scanning, Reading, Places, Clears
<1>2. Extremes
  BY DEF Extremes, Wiping, ExtremesKept, Marked, Improves
<1>3. Half = {} /\ Failing = {} /\ Succeeding = {}
  BY DEF Half, Failing, Succeeding
<1>4. Cardinality(Half) = 0 /\ Cardinality(Failing) = 0 /\ Cardinality(Succeeding) = 0
  BY <1>3, FS_EmptySet
<1>5. Outcomes /\ ScansAddUp
  BY <1>4 DEF Outcomes, ScansAddUp, Scanning
<1>6. Balances
  BY <1>4 DEF Balances, Reading
<1> QED BY <1>1, <1>2, <1>5, <1>6 DEF MetricsInv

\* The operation is counted.
LEMMA CountReadTyped ==
  ASSUME MetricsTypeOK, NEW r \in Recorders, CountRead(r)
  PROVE  count' \in [Scanning \cup Reading -> Nat] /\ beside' \in Nat
BY DEF MetricsTypeOK, CountRead, Raise, Reading

\* A read begins: it counts if no reset is under way.
LEMMA ReadExtremes ==
  ASSUME MetricsTypeOK, Extremes, NEW r \in Recorders, NEW d \in Durations, record_read(r, d)
  PROVE  MetricsTypeOK' /\ Extremes'
<1> USE MetricsAssumption DEF record_read, Step
<1>0. count' \in [Scanning \cup Reading -> Nat] /\ beside' \in Nat /\ at[r] = "idle"
  BY CountReadTyped DEF CountRead
<1>1. MetricsTypeOK'
  BY <1>0 DEF MetricsTypeOK, Places
<1>2. Wiping' /\ ExtremesKept'
  BY DEF MetricsTypeOK, Extremes, Wiping, ExtremesKept
<1>3. Marked' /\ Improves'
  BY DEF MetricsTypeOK, Extremes, Marked, Improves
<1> QED BY <1>1, <1>2, <1>3 DEF Extremes

\* A load, which leaves the loop when the extreme is good enough.
LEMMA LoadExtremes ==
  ASSUME MetricsTypeOK, Extremes, NEW r \in Recorders, LoadMin(r) \/ LoadMax(r)
  PROVE  MetricsTypeOK' /\ Extremes'
<1>1. MetricsTypeOK'
  BY DEF MetricsTypeOK, LoadMin, LoadMax, Step, Places
<1>2. Wiping' /\ ExtremesKept'
  BY DEF LoadMin, LoadMax, Extremes, Wiping, ExtremesKept
<1>3. /\ UNCHANGED <<extreme, time, clean>>
      /\ at \in [Recorders -> Places] /\ at' = [at EXCEPT ![r] = at'[r]]
      /\ time \in [Recorders -> Nat] /\ extreme \in [min : Nat, max : Nat]
      /\ \/ at[r] = "load_min" /\ at'[r] = "swap_min"
         \/ at[r] = "load_min" /\ at'[r] = "load_max" /\ extreme.min <= time[r]
         \/ at[r] = "load_max" /\ at'[r] = "swap_max"
         \/ at[r] = "load_max" /\ at'[r] = "timed" /\ time[r] <= extreme.max
  <2>1. CASE LoadMin(r)
    BY <2>1 DEF MetricsTypeOK, LoadMin, Step
  <2>2. CASE LoadMax(r)
    BY <2>2 DEF MetricsTypeOK, LoadMax, Step
  <2> QED BY <2>1, <2>2
<1>4. Marked'
  <2> SUFFICES ASSUME NEW s \in Recorders, clean[s]
      PROVE  /\ at'[s] \in {"load_max", "swap_max", "timed"} => extreme.min <= time[s]
             /\ at'[s] = "timed" => time[s] <= extreme.max
    BY <1>3 DEF Marked
  <2>1. CASE s = r
    BY <1>3, <2>1 DEF Extremes, Marked
  <2>2. CASE s # r
    <3>1. at'[s] = at[s]
      BY <1>3, <2>2
    <3> QED BY <3>1 DEF Extremes, Marked
  <2> QED BY <2>1, <2>2
<1>5. Improves'
  BY DEF MetricsTypeOK, Extremes, Improves, LoadMin, LoadMax, Step
<1> QED BY <1>1, <1>2, <1>4, <1>5 DEF Extremes

\* An exchange on the minimum: it only ever lowers it, or loads it anew.
LEMMA SwapMinExtremes ==
  ASSUME MetricsTypeOK, Extremes, NEW r \in Recorders, SwapMin(r)
  PROVE  MetricsTypeOK' /\ Extremes'
<1>1. MetricsTypeOK'
  BY DEF MetricsTypeOK, SwapMin, Step, Places
<1>2. /\ extreme'.max = extreme.max
      /\ extreme'.min <= extreme.min
      /\ extreme.min \in Nat /\ extreme'.min \in Nat
      /\ at[r] = "swap_min"
      /\ at'[r] \in {"swap_min", "load_max"}
      /\ at'[r] = "load_max" => extreme'.min <= time[r]
      /\ at'[r] = "swap_min" => time[r] < seen'[r]
      /\ \A s \in Recorders \ {r} : at'[s] = at[s] /\ seen'[s] = seen[s]
      /\ UNCHANGED <<time, clearing, clean, timed>>
  <2>1. /\ extreme \in [min : Nat, max : Nat] /\ time \in [Recorders -> Nat]
        /\ at \in [Recorders -> Places] /\ seen \in [Recorders -> Nat]
        /\ at[r] = "swap_min" /\ UNCHANGED <<time, clearing, clean, timed>>
    BY DEF MetricsTypeOK, SwapMin
  <2>2. time[r] < seen[r]
    BY <2>1 DEF Extremes, Improves
  <2>3. CASE /\ extreme.min = seen[r] /\ extreme' = [extreme EXCEPT !.min = time[r]]
             /\ at' = [at EXCEPT ![r] = "load_max"] /\ UNCHANGED seen
    <3>1. extreme'.min = time[r] /\ extreme'.max = extreme.max
      BY <2>1, <2>3
    <3>2. extreme.min \in Nat /\ time[r] \in Nat
      BY <2>1
    <3>3. extreme'.min <= extreme.min
      BY <2>2, <2>3, <3>1, <3>2
    <3>4. at'[r] = "load_max" /\ \A s \in Recorders \ {r} : at'[s] = at[s] /\ seen'[s] = seen[s]
      BY <2>1, <2>3
    <3> QED BY <2>1, <3>1, <3>2, <3>3, <3>4
  <2>4. CASE /\ seen' = [seen EXCEPT ![r] = extreme.min] /\ UNCHANGED extreme
             /\ at' = [at EXCEPT ![r] = IF time[r] < extreme.min
                                        THEN "swap_min" ELSE "load_max"]
    <3>1. extreme'.min = extreme.min /\ extreme'.max = extreme.max
      BY <2>4
    <3>2. extreme.min \in Nat /\ extreme.max \in Nat /\ time[r] \in Nat
      BY <2>1
    <3>3. \A s \in Recorders \ {r} : at'[s] = at[s] /\ seen'[s] = seen[s]
      BY <2>1, <2>4
    <3>4. /\ at'[r] = IF time[r] < extreme.min THEN "swap_min" ELSE "load_max"
          /\ seen'[r] = extreme.min
      BY <2>1, <2>4
    <3> QED BY <2>1, <3>1, <3>2, <3>3, <3>4
  <2> QED BY <2>3, <2>4 DEF SwapMin, Step
<1>3. Wiping' /\ ExtremesKept'
  <2>1. timed \subseteq Nat /\ extreme \in [min : Nat, max : Nat]
    BY DEF MetricsTypeOK
  <2>2. ASSUME NEW d \in timed PROVE extreme'.min <= d /\ d <= extreme'.max
    <3>1. d \in Nat /\ extreme.min <= d /\ d <= extreme.max
      BY <2>1 DEF Extremes, ExtremesKept
    <3> QED BY <1>2, <2>1, <3>1
  <2> QED BY <1>2, <2>2 DEF Extremes, Wiping, ExtremesKept
<1>4. Marked'
  <2> SUFFICES ASSUME NEW s \in Recorders, clean[s]
      PROVE  /\ at'[s] \in {"load_max", "swap_max", "timed"} => extreme'.min <= time[s]
             /\ at'[s] = "timed" => time[s] <= extreme'.max
    BY <1>2 DEF Marked
  <2>1. CASE s = r
    BY <1>2, <2>1
  <2>2. CASE s # r
    <3>1. at'[s] = at[s] /\ time[s] \in Nat /\ extreme.max = extreme'.max
      BY <1>2, <2>2 DEF MetricsTypeOK
    <3>2. /\ at[s] \in {"load_max", "swap_max", "timed"} => extreme.min <= time[s]
          /\ at[s] = "timed" => time[s] <= extreme.max
      BY DEF Extremes, Marked
    <3> QED BY <1>2, <3>1, <3>2
  <2> QED BY <2>1, <2>2
<1>5. Improves'
  BY <1>2 DEF Extremes, Improves
<1> QED BY <1>1, <1>3, <1>4, <1>5 DEF Extremes

\* An exchange on the maximum: it only ever raises it, or loads it anew.
LEMMA SwapMaxExtremes ==
  ASSUME MetricsTypeOK, Extremes, NEW r \in Recorders, SwapMax(r)
  PROVE  MetricsTypeOK' /\ Extremes'
<1>1. MetricsTypeOK'
  BY DEF MetricsTypeOK, SwapMax, Step, Places
<1>2. /\ extreme'.min = extreme.min
      /\ extreme.max <= extreme'.max
      /\ extreme.max \in Nat /\ extreme'.max \in Nat
      /\ at[r] = "swap_max"
      /\ at'[r] \in {"swap_max", "timed"}
      /\ at'[r] = "timed" => time[r] <= extreme'.max
      /\ at'[r] = "swap_max" => seen'[r] < time[r]
      /\ \A s \in Recorders \ {r} : at'[s] = at[s] /\ seen'[s] = seen[s]
      /\ UNCHANGED <<time, clearing, clean, timed>>
  <2>1. /\ extreme \in [min : Nat, max : Nat] /\ time \in [Recorders -> Nat]
        /\ at \in [Recorders -> Places] /\ seen \in [Recorders -> Nat]
        /\ at[r] = "swap_max" /\ UNCHANGED <<time, clearing, clean, timed>>
    BY DEF MetricsTypeOK, SwapMax
  <2>2. seen[r] < time[r]
    BY <2>1 DEF Extremes, Improves
  <2>3. CASE /\ extreme.max = seen[r] /\ extreme' = [extreme EXCEPT !.max = time[r]]
             /\ at' = [at EXCEPT ![r] = "timed"] /\ UNCHANGED seen
    <3>1. extreme'.max = time[r] /\ extreme'.min = extreme.min
      BY <2>1, <2>3
    <3>2. extreme.max \in Nat /\ time[r] \in Nat
      BY <2>1
    <3>3. extreme.max <= extreme'.max
      BY <2>2, <2>3, <3>1, <3>2
    <3>4. at'[r] = "timed" /\ \A s \in Recorders \ {r} : at'[s] = at[s] /\ seen'[s] = seen[s]
      BY <2>1, <2>3
    <3> QED BY <2>1, <3>1, <3>2, <3>3, <3>4
  <2>4. CASE /\ seen' = [seen EXCEPT ![r] = extreme.max] /\ UNCHANGED extreme
             /\ at' = [at EXCEPT ![r] = IF time[r] > extreme.max
                                        THEN "swap_max" ELSE "timed"]
    <3>1. extreme'.min = extreme.min /\ extreme'.max = extreme.max
      BY <2>4
    <3>2. extreme.min \in Nat /\ extreme.max \in Nat /\ time[r] \in Nat
      BY <2>1
    <3>3. \A s \in Recorders \ {r} : at'[s] = at[s] /\ seen'[s] = seen[s]
      BY <2>1, <2>4
    <3>4. /\ at'[r] = IF time[r] > extreme.max THEN "swap_max" ELSE "timed"
          /\ seen'[r] = extreme.max
      BY <2>1, <2>4
    <3> QED BY <2>1, <3>1, <3>2, <3>3, <3>4
  <2> QED BY <2>3, <2>4 DEF SwapMax, Step
<1>3. Wiping' /\ ExtremesKept'
  <2>1. timed \subseteq Nat /\ extreme \in [min : Nat, max : Nat]
    BY DEF MetricsTypeOK
  <2>2. ASSUME NEW d \in timed PROVE extreme'.min <= d /\ d <= extreme'.max
    <3>1. d \in Nat /\ extreme.min <= d /\ d <= extreme.max
      BY <2>1 DEF Extremes, ExtremesKept
    <3> QED BY <1>2, <2>1, <3>1
  <2> QED BY <1>2, <2>2 DEF Extremes, Wiping, ExtremesKept
<1>4. Marked'
  <2> SUFFICES ASSUME NEW s \in Recorders, clean[s]
      PROVE  /\ at'[s] \in {"load_max", "swap_max", "timed"} => extreme'.min <= time[s]
             /\ at'[s] = "timed" => time[s] <= extreme'.max
    BY <1>2 DEF Marked
  <2>1. CASE s = r
    BY <1>2, <2>1 DEF Extremes, Marked
  <2>2. CASE s # r
    <3>1. at'[s] = at[s] /\ time[s] \in Nat /\ extreme.min = extreme'.min
      BY <1>2, <2>2 DEF MetricsTypeOK
    <3>2. /\ at[s] \in {"load_max", "swap_max", "timed"} => extreme.min <= time[s]
          /\ at[s] = "timed" => time[s] <= extreme.max
      BY DEF Extremes, Marked
    <3> QED BY <1>2, <3>1, <3>2
  <2> QED BY <2>1, <2>2
<1>5. Improves'
  BY <1>2 DEF Extremes, Improves
<1> QED BY <1>1, <1>3, <1>4, <1>5 DEF Extremes

\* A read returns, between the extremes.
LEMMA RecordedExtremes ==
  ASSUME MetricsTypeOK, Extremes, NEW r \in Recorders, Recorded(r)
  PROVE  MetricsTypeOK' /\ Extremes'
<1> USE DEF Recorded, Step
<1>0. count' \in [Scanning \cup Reading -> Nat]
  BY DEF MetricsTypeOK, Raise, Reading
<1>1. MetricsTypeOK'
  BY <1>0 DEF MetricsTypeOK, Places
<1>2. clean[r] => extreme.min <= time[r] /\ time[r] <= extreme.max
  BY DEF Extremes, Marked
<1>3. Wiping' /\ ExtremesKept'
  BY <1>2 DEF MetricsTypeOK, Extremes, Wiping, ExtremesKept
<1>4. Marked' /\ Improves'
  BY DEF MetricsTypeOK, Extremes, Marked, Improves
<1> QED BY <1>1, <1>3, <1>4 DEF Extremes

\* The stores of reset: from the first one on, no read counts that is under way.
LEMMA ResetExtremes ==
  ASSUME MetricsTypeOK, Extremes, Outcomes, Balances,
         Resetting
  PROVE  MetricsTypeOK' /\ Extremes'
<1> USE MetricsAssumption DEF Clear
<1>1. CASE reset
  <2>1. MetricsTypeOK'
    BY <1>1 DEF reset, MetricsTypeOK, Clears, Outcomes, Balances
  <2>2. Extremes'
    BY <1>1 DEF reset, MetricsTypeOK, Extremes, Wiping, ExtremesKept, Marked, Improves
  <2> QED BY <2>1, <2>2
<1>2. CASE ResetMin
  <2>1. MetricsTypeOK'
    <3>1. extreme \in [min : Nat, max : Nat] /\ extreme' = [extreme EXCEPT !.min = Huge]
      BY <1>2 DEF ResetMin, MetricsTypeOK
    <3>2. extreme' \in [min : Nat, max : Nat]
      BY <3>1
    <3> QED BY <1>2, <3>2 DEF ResetMin, MetricsTypeOK, Clears
  <2>2. Extremes'
    BY <1>2 DEF ResetMin, MetricsTypeOK, Extremes, Wiping, ExtremesKept, Marked, Improves
  <2> QED BY <2>1, <2>2
<1>3. CASE ResetMax
  <2>1. MetricsTypeOK'
    <3>1. extreme \in [min : Nat, max : Nat] /\ extreme' = [extreme EXCEPT !.max = 0]
      BY <1>3 DEF ResetMax, MetricsTypeOK
    <3>2. extreme' \in [min : Nat, max : Nat]
      BY <3>1
    <3> QED BY <1>3, <3>2 DEF ResetMax, MetricsTypeOK, Clears
  <2>2. Extremes'
    BY <1>3 DEF ResetMax, MetricsTypeOK, Extremes, Wiping, ExtremesKept, Marked, Improves
  <2> QED BY <2>1, <2>2
<1>4. ASSUME NEW c \in Scanning \cup Reading, NEW next \in Clears, ResetCount(c, next),
             next \in {"found", "missed", "hits", "no"} \/ (c \in {"total", "failed"} /\ next # "max")
      PROVE  MetricsTypeOK' /\ Extremes'
  <2>1. MetricsTypeOK'
    BY <1>4 DEF ResetCount, MetricsTypeOK, Clears
  <2>2. Extremes'
    BY <1>4 DEF ResetCount, MetricsTypeOK, Extremes, Wiping, ExtremesKept, Marked, Improves
  <2> QED BY <2>1, <2>2
<1> QED BY <1>1, <1>2, <1>3, <1>4 DEF Resetting, Scanning, Reading, Clears

\* A scan and a failure touch no extreme.
LEMMA ScanExtremes ==
  ASSUME MetricsTypeOK, Extremes, NEW r \in Recorders, record_scan(r) \/ record_failed_read(r) \/ RecordOutcome(r)
  PROVE  MetricsTypeOK' /\ Extremes'
<1>1. CASE record_scan(r)
  <2>1. MetricsTypeOK'
    BY <1>1 DEF record_scan, Raise, Step, MetricsTypeOK, Places, Scanning, Reading
  <2>2. Extremes'
    BY <1>1 DEF record_scan, Step, MetricsTypeOK, Extremes, Wiping, ExtremesKept,
                Marked, Improves
  <2> QED BY <2>1, <2>2
<1>2. CASE RecordOutcome(r)
  <2>1. MetricsTypeOK'
    BY <1>2 DEF RecordOutcome, Raise, Step, MetricsTypeOK, Places, Scanning, Reading
  <2>2. Extremes'
    BY <1>2 DEF RecordOutcome, Step, MetricsTypeOK, Extremes, Wiping, ExtremesKept,
                Marked, Improves
  <2> QED BY <2>1, <2>2
<1>3. CASE record_failed_read(r)
  <2>1. count' \in [Scanning \cup Reading -> Nat] /\ beside' \in Nat /\ at[r] = "idle"
    BY <1>3, CountReadTyped DEF record_failed_read, CountRead
  <2>2. MetricsTypeOK'
    BY <1>3, <2>1 DEF record_failed_read, Step, MetricsTypeOK, Places
  <2>3. Extremes'
    BY <1>3, <2>1 DEF record_failed_read, Step, MetricsTypeOK, Extremes, Wiping, ExtremesKept,
                      Marked, Improves
  <2> QED BY <2>2, <2>3
<1> QED BY <1>1, <1>2, <1>3

-----------------------------------------------------------------------------
(* The counters *)

\* Threads that go from one place of record_read to another are not half-counted scans.
LEMMA SameHalf ==
  ASSUME MetricsTypeOK, NEW r \in Recorders,
         \/ \E d \in Durations : record_read(r, d)
         \/ record_failed_read(r)
         \/ RecordOutcome(r) /\ at[r] = "failed"
         \/ LoadMin(r) \/ SwapMin(r) \/ LoadMax(r) \/ SwapMax(r) \/ Recorded(r)
  PROVE  /\ Half' = Half
         /\ \A c \in Scanning : count'[c] = count[c]
         /\ UNCHANGED <<clearing, torn>>
<1>1. /\ at[r] \notin {"found", "missed"} /\ at'[r] \notin {"found", "missed"}
      /\ \A s \in Recorders \ {r} : at'[s] = at[s]
  BY DEF record_read, record_failed_read, CountRead, RecordOutcome, LoadMin, SwapMin, LoadMax,
         SwapMax, Recorded, Step, MetricsTypeOK
<1>2. \A c \in Scanning : count'[c] = count[c]
  BY DEF record_read, record_failed_read, CountRead, RecordOutcome, LoadMin, SwapMin, LoadMax,
         SwapMax, Recorded, Raise, MetricsTypeOK, Scanning, Reading
<1>3. UNCHANGED <<clearing, torn>>
  BY DEF record_read, record_failed_read, RecordOutcome, LoadMin, SwapMin, LoadMax,
         SwapMax, Recorded
<1> QED BY <1>1, <1>2, <1>3 DEF Half

\* The steps that change no counter and no half-counted scan.
LEMMA QuietOutcomes ==
  ASSUME Outcomes, ScansAddUp, Half' = Half, \A c \in Scanning : count'[c] = count[c],
         UNCHANGED <<clearing, torn>>
  PROVE  Outcomes' /\ ScansAddUp'
BY DEF Outcomes, ScansAddUp, Scanning

\* A scan is counted before its outcome.
LEMMA ScanOutcomes ==
  ASSUME MetricsTypeOK, Outcomes, ScansAddUp, NEW r \in Recorders, record_scan(r)
  PROVE  Outcomes' /\ ScansAddUp'
<1>1. Half' = Half \cup {r} /\ r \notin Half
  BY DEF Half, record_scan, Step, MetricsTypeOK
<1>2. IsFiniteSet(Half)
  BY MetricsAssumption, FS_Subset DEF Half
<1>3. Cardinality(Half') = Cardinality(Half) + 1
  BY <1>1, <1>2, FS_AddElement
<1>4. /\ count'.scanned = count.scanned + 1
      /\ count'.found = count.found /\ count'.missed = count.missed
      /\ count.scanned \in Nat /\ count.found \in Nat /\ count.missed \in Nat
      /\ torn \in Nat /\ clearing' = clearing
      /\ torn' = IF clearing = "no" THEN torn ELSE torn + 1
  BY DEF record_scan, Raise, MetricsTypeOK, Scanning, Reading
<1>5. Outcomes'
  BY <1>3, <1>4 DEF Outcomes
<1>6. ScansAddUp'
  BY <1>3, <1>4 DEF Outcomes, ScansAddUp
<1> QED BY <1>5, <1>6

\* The outcome is counted, and the scan is no longer half counted.
LEMMA FindingOutcomes ==
  ASSUME MetricsTypeOK, Outcomes, ScansAddUp, NEW r \in Recorders, RecordOutcome(r),
         at[r] # "failed"
  PROVE  Outcomes' /\ ScansAddUp'
<1>1. Half' = Half \ {r} /\ r \in Half
  BY DEF Half, RecordOutcome, Step, MetricsTypeOK
<1>2. IsFiniteSet(Half)
  BY MetricsAssumption, FS_Subset DEF Half
<1>3. Cardinality(Half') = Cardinality(Half) - 1 /\ Cardinality(Half') \in Nat
  BY <1>1, <1>2, FS_RemoveElement, FS_CardinalityType, FS_Subset
<1>4. /\ count'.scanned = count.scanned
      /\ \/ count'.found = count.found + 1 /\ count'.missed = count.missed
         \/ count'.found = count.found /\ count'.missed = count.missed + 1
      /\ count.scanned \in Nat /\ count.found \in Nat /\ count.missed \in Nat
      /\ torn \in Nat /\ clearing' = clearing /\ torn' = torn
  BY DEF RecordOutcome, Raise, MetricsTypeOK, Scanning, Reading
<1>5. Outcomes'
  BY <1>3, <1>4 DEF Outcomes
<1>6. ScansAddUp'
  BY <1>3, <1>4 DEF Outcomes, ScansAddUp
<1> QED BY <1>5, <1>6

\* Each store of reset: what was counted since is bounded by the scans it ran beside.
LEMMA ResetOutcomes ==
  ASSUME MetricsTypeOK, Outcomes, ScansAddUp,
         Resetting
  PROVE  Outcomes' /\ ScansAddUp'
<1>1. Half' = Half
  BY DEF Half, Resetting, reset, ResetMin, ResetMax, ResetCount, Clear
<1>2. CASE reset
  BY <1>1, <1>2 DEF reset, Clear, Outcomes, ScansAddUp
<1>3. CASE ResetMin \/ ResetMax
  BY <1>1, <1>3 DEF ResetMin, ResetMax, Clear, Outcomes, ScansAddUp
<1>4. ASSUME NEW c \in Scanning \cup Reading, NEW next, ResetCount(c, next)
      PROVE  /\ clearing = c /\ clearing' = next /\ torn' = torn
             /\ count'[c] = 0 /\ \A d \in Scanning \ {c} : count'[d] = count[d]
             /\ count.scanned \in Nat /\ count.found \in Nat /\ count.missed \in Nat /\ torn \in Nat
  BY <1>4 DEF ResetCount, Clear, MetricsTypeOK, Scanning, Reading
<1>5. CASE ResetCount("scanned", "found")
  BY <1>1, <1>4, <1>5 DEF Outcomes, ScansAddUp, Scanning
<1>6. CASE ResetCount("found", "missed")
  BY <1>1, <1>4, <1>6 DEF Outcomes, ScansAddUp, Scanning
<1>7. CASE ResetCount("missed", "hits")
  BY <1>1, <1>4, <1>7 DEF Outcomes, ScansAddUp, Scanning
<1>8. CASE ResetCount("total", "failed") \/ ResetCount("failed", "min") \/ ResetCount("hits", "no")
  BY <1>1, <1>4, <1>8 DEF Outcomes, ScansAddUp, Scanning, Reading
<1> QED BY <1>2, <1>3, <1>5, <1>6, <1>7, <1>8 DEF Resetting

-----------------------------------------------------------------------------
(* The balance of the reads *)

\* Reads under way, which a thread joins or leaves.
LEMMA UnderWay ==
  /\ IsFiniteSet(Failing) /\ IsFiniteSet(Succeeding)
  /\ Cardinality(Failing) \in Nat /\ Cardinality(Succeeding) \in Nat
<1>1. IsFiniteSet(Failing) /\ IsFiniteSet(Succeeding)
  BY MetricsAssumption, FS_Subset DEF Failing, Succeeding
<1> QED BY <1>1, FS_CardinalityType

\* The counters of the reads.
LEMMA ReadCounts ==
  ASSUME MetricsTypeOK
  PROVE  count["total"] \in Nat /\ count["failed"] \in Nat /\ count["hits"] \in Nat
BY DEF MetricsTypeOK, Reading

\* The operation is counted, then the read fails or goes on.
LEMMA CountedBalance ==
  ASSUME MetricsTypeOK, Balances, NEW r \in Recorders,
         record_failed_read(r) \/ \E d \in Durations : record_read(r, d)
  PROVE  Balances'
<1>1. /\ count'["total"] = count["total"] + 1 /\ count'["failed"] = count["failed"]
      /\ count'["hits"] = count["hits"] /\ clearing' = clearing
      /\ beside' = IF clearing = "no" THEN beside ELSE beside + 1
      /\ at[r] = "idle" /\ beside \in Nat /\ succeeded \in Nat
  BY DEF record_failed_read, record_read, CountRead, Raise, MetricsTypeOK, Scanning, Reading
<1>2. CASE record_failed_read(r)
  <2>1. Failing' = Failing \cup {r} /\ r \notin Failing /\ Succeeding' = Succeeding
    BY <1>1, <1>2 DEF record_failed_read, Step, MetricsTypeOK, Failing, Succeeding
  <2>2. /\ Cardinality(Failing') = Cardinality(Failing) + 1
        /\ Cardinality(Succeeding') = Cardinality(Succeeding)
    BY <2>1, UnderWay, FS_AddElement
  <2>3. succeeded' = succeeded
    BY <1>2 DEF record_failed_read
  <2> QED BY <1>1, <2>2, <2>3, UnderWay, ReadCounts DEF Balances
<1>3. ASSUME NEW d \in Durations, record_read(r, d) PROVE Balances'
  <2>1. Succeeding' = Succeeding \cup {r} /\ r \notin Succeeding /\ Failing' = Failing
    BY <1>1, <1>3 DEF record_read, Step, MetricsTypeOK, Failing, Succeeding
  <2>2. /\ Cardinality(Succeeding') = Cardinality(Succeeding) + 1
        /\ Cardinality(Failing') = Cardinality(Failing)
    BY <2>1, UnderWay, FS_AddElement
  <2>3. succeeded' = IF clearing = "no" THEN succeeded + 1 ELSE succeeded
    BY <1>3 DEF record_read
  <2> QED BY <1>1, <2>2, <2>3, UnderWay, ReadCounts DEF Balances
<1> QED BY <1>2, <1>3

\* A read is over: as a failure, as a success, or as a hit.
LEMMA OverBalance ==
  ASSUME MetricsTypeOK, Balances, NEW r \in Recorders,
         Recorded(r) \/ (RecordOutcome(r) /\ at[r] = "failed")
  PROVE  Balances'
<1>1. UNCHANGED <<clearing, succeeded, beside>> /\ beside \in Nat /\ succeeded \in Nat
  BY DEF Recorded, RecordOutcome, MetricsTypeOK
<1>2. CASE Recorded(r)
  <2>1. Succeeding' = Succeeding \ {r} /\ r \in Succeeding /\ Failing' = Failing
    BY <1>2 DEF Recorded, Step, MetricsTypeOK, Failing, Succeeding
  <2>2. /\ Cardinality(Succeeding') = Cardinality(Succeeding) - 1
        /\ Cardinality(Failing') = Cardinality(Failing) /\ Cardinality(Succeeding') \in Nat
    BY <2>1, UnderWay, FS_RemoveElement, FS_CardinalityType
  <2>3. /\ count'["total"] = count["total"] /\ count'["failed"] = count["failed"]
        /\ count'["hits"] \in {count["hits"], count["hits"] + 1}
    BY <1>2 DEF Recorded, Raise, MetricsTypeOK, Scanning, Reading
  <2> QED BY <1>1, <2>2, <2>3, UnderWay, ReadCounts DEF Balances
<1>3. CASE RecordOutcome(r) /\ at[r] = "failed"
  <2>1. Failing' = Failing \ {r} /\ r \in Failing /\ Succeeding' = Succeeding
    BY <1>3 DEF RecordOutcome, Step, MetricsTypeOK, Failing, Succeeding
  <2>2. /\ Cardinality(Failing') = Cardinality(Failing) - 1
        /\ Cardinality(Succeeding') = Cardinality(Succeeding) /\ Cardinality(Failing') \in Nat
    BY <2>1, UnderWay, FS_RemoveElement, FS_CardinalityType
  <2>3. /\ count'["total"] = count["total"] /\ count'["failed"] = count["failed"] + 1
        /\ count'["hits"] = count["hits"]
    BY <1>3 DEF RecordOutcome, Raise, MetricsTypeOK, Scanning, Reading
  <2> QED BY <1>1, <2>2, <2>3, UnderWay, ReadCounts DEF Balances
<1> QED BY <1>2, <1>3

\* Steps that move no read and change none of its counters.
LEMMA OtherBalance ==
  ASSUME MetricsTypeOK, Balances, NEW r \in Recorders,
         \/ LoadMin(r) \/ SwapMin(r) \/ LoadMax(r) \/ SwapMax(r)
         \/ record_scan(r) \/ (RecordOutcome(r) /\ at[r] # "failed")
  PROVE  Balances'
<1>1. Failing' = Failing /\ Succeeding' = Succeeding
  BY DEF LoadMin, SwapMin, LoadMax, SwapMax, record_scan, RecordOutcome, Step, MetricsTypeOK,
         Failing, Succeeding
<1>2. \A c \in Reading : count'[c] = count[c]
  BY DEF LoadMin, SwapMin, LoadMax, SwapMax, record_scan, RecordOutcome, Raise, MetricsTypeOK,
         Scanning, Reading
<1>3. UNCHANGED <<clearing, succeeded, beside>>
  BY DEF LoadMin, SwapMin, LoadMax, SwapMax, record_scan, RecordOutcome
<1> QED BY <1>1, <1>2, <1>3 DEF Balances, Reading

\* Each store of reset: what was counted since is bounded by the reads it ran beside.
LEMMA ResetBalance ==
  ASSUME MetricsTypeOK, Balances, Resetting
  PROVE  Balances'
<1>1. Failing' = Failing /\ Succeeding' = Succeeding
  BY DEF Failing, Succeeding, Resetting, reset, ResetMin, ResetMax, ResetCount, Clear
<1>2. CASE reset
  BY <1>1, <1>2, UnderWay DEF reset, Clear, Balances
<1>3. CASE ResetMin \/ ResetMax
  BY <1>1, <1>3 DEF ResetMin, ResetMax, Clear, Balances
<1>4. ASSUME NEW c \in Scanning \cup Reading, NEW next, ResetCount(c, next)
      PROVE  /\ clearing = c /\ clearing' = next /\ UNCHANGED <<beside, succeeded>>
             /\ count'[c] = 0 /\ \A d \in Reading \ {c} : count'[d] = count[d]
             /\ beside \in Nat /\ succeeded \in Nat
  BY <1>4 DEF ResetCount, Clear, MetricsTypeOK, Scanning, Reading
<1>5. CASE ResetCount("scanned", "found") \/ ResetCount("found", "missed") \/ ResetCount("missed", "hits")
  BY <1>1, <1>4, <1>5 DEF Balances, Scanning, Reading
<1>6. CASE ResetCount("total", "failed")
  BY <1>1, <1>4, <1>6, UnderWay, ReadCounts DEF Balances, Reading
<1>7. CASE ResetCount("failed", "min")
  BY <1>1, <1>4, <1>7, UnderWay, ReadCounts DEF Balances, Reading
<1>8. CASE ResetCount("hits", "no")
  BY <1>1, <1>4, <1>8, UnderWay, ReadCounts DEF Balances, Reading
<1> QED BY <1>2, <1>3, <1>5, <1>6, <1>7, <1>8 DEF Resetting

-----------------------------------------------------------------------------
\* Every step of the collector keeps MetricsInv.
LEMMA MetricsNextInv == MetricsInv /\ [MetricsNext]_metrics_vars => MetricsInv'
<1> SUFFICES ASSUME MetricsInv, [MetricsNext]_metrics_vars PROVE MetricsInv'
  OBVIOUS
<1>0. MetricsTypeOK /\ Extremes /\ Outcomes /\ ScansAddUp /\ Balances
  BY DEF MetricsInv
<1>1. ASSUME NEW r \in Recorders,
             \/ \E d \in Durations : record_read(r, d)
             \/ LoadMin(r) \/ SwapMin(r) \/ LoadMax(r) \/ SwapMax(r) \/ Recorded(r)
             \/ record_scan(r) \/ record_failed_read(r) \/ RecordOutcome(r)
      PROVE  MetricsInv'
  <2>1. MetricsTypeOK' /\ Extremes'
    BY <1>0, <1>1, ReadExtremes, LoadExtremes, SwapMinExtremes, SwapMaxExtremes,
       RecordedExtremes, ScanExtremes
  <2>2. Outcomes' /\ ScansAddUp'
    <3>1. CASE record_scan(r) \/ (RecordOutcome(r) /\ at[r] # "failed")
      BY <1>0, <3>1, ScanOutcomes, FindingOutcomes
    <3>2. CASE ~(record_scan(r) \/ (RecordOutcome(r) /\ at[r] # "failed"))
      BY <1>0, <1>1, <3>2, SameHalf, QuietOutcomes
    <3> QED BY <3>1, <3>2
  <2>3. Balances'
    BY <1>0, <1>1, CountedBalance, OverBalance, OtherBalance
  <2> QED BY <2>1, <2>2, <2>3 DEF MetricsInv
<1>2. CASE Resetting
  BY <1>0, <1>2, ResetExtremes, ResetOutcomes, ResetBalance DEF MetricsInv
<1>3. CASE UNCHANGED metrics_vars
  BY <1>3 DEF metrics_vars, collector, MetricsInv, MetricsTypeOK, Extremes, Wiping, ExtremesKept,
              Marked, Improves, Outcomes, ScansAddUp, Half, Balances, Failing, Succeeding
<1> QED BY <1>1, <1>2, <1>3 DEF MetricsNext, Recording

\* MetricsInv holds in every state of a collector.
THEOREM MetricsInvariance == MetricsSpec => []MetricsInv
<1> QED BY MetricsInitInv, MetricsNextInv, PTL DEF MetricsSpec

\* No thread's mark on the minimum or the maximum read time is lost to another's, and
\* the scans and the reads add up with their outcomes but for those a reset ran beside,
\* for any number of threads.
THEOREM MetricsAgreement == MetricsSpec => []MetricsAgree
<1>1. ASSUME MetricsInv PROVE ReadsAddUp
  <2>1. MetricsTypeOK /\ Balances
    BY <1>1 DEF MetricsInv
  <2>2. beside \in Nat /\ succeeded \in Nat
    BY <2>1 DEF MetricsTypeOK
  <2> QED BY <2>1, <2>2, UnderWay, ReadCounts DEF Balances, ReadsAddUp
<1>2. MetricsInv => MetricsAgree
  BY <1>1 DEF MetricsInv, Extremes, MetricsAgree
<1> QED BY <1>2, MetricsInvariance, PTL

-----------------------------------------------------------------------------
(***************************************************************************)
(* Proofs about Scatter, for any handles and any number of requests.       *)
(*                                                                         *)
(* execute_scatter goes by the count that Process keeps beside the         *)
(* library.  Counting says that this count can be trusted: where it is     *)
(* zero or missing, nothing has been added since the last call.            *)
(***************************************************************************)
ScatterTypeOK ==
  /\ open_handles \subseteq ScatterHandles
  /\ requests \in 0..MaxRequests
  /\ scatter_counts \in [ScatterHandles -> 0..requests \cup {NoCount}]
  /\ prepared \in [ScatterHandles -> SUBSET Nat]
  /\ done \in [ScatterHandles -> SUBSET Nat]
  /\ owed \in [ScatterHandles -> SUBSET Nat]
  /\ executed \in [success : BOOLEAN, missed : SUBSET Nat]

Counting ==
  \A h \in ScatterHandles : scatter_counts[h] \in {0, NoCount} => owed[h] = {}

\* What is owed has been prepared in the library, or is carried out and not cleared.
Delivered == \A h \in ScatterHandles : owed[h] \subseteq prepared[h] \cup done[h]

ScatterInv == ScatterTypeOK /\ Counting /\ Delivered /\ NothingMissed

\* A Process without handles.
LEMMA ScatterInitInv == ScatterInit => ScatterInv
<1> SUFFICES ASSUME ScatterInit PROVE ScatterInv
  OBVIOUS
<1> USE ScatterAssumption DEF ScatterInit
<1>1. ScatterTypeOK
  BY DEF ScatterTypeOK, NoCount, NoExecution, Empty
<1>2. Counting /\ Delivered /\ NothingMissed
  BY DEF Counting, Delivered, NothingMissed, Empty, NoExecution
<1> QED BY <1>1, <1>2 DEF ScatterInv

\* A handle that is opened or closed owes nothing.
LEMMA HandleInv ==
  ASSUME ScatterInv, NEW h \in ScatterHandles, create_scatter(h) \/ close_scatter(h)
  PROVE  ScatterInv'
<1> USE ScatterAssumption DEF ScatterInv
<1>1. CASE create_scatter(h)
  <2>1. ScatterTypeOK'
    BY <1>1 DEF create_scatter, ScatterTypeOK, NoCount
  <2>2. Counting' /\ Delivered' /\ NothingMissed'
    BY <1>1 DEF create_scatter, Counting, Delivered, NothingMissed, NoCount
  <2> QED BY <2>1, <2>2
<1>2. CASE close_scatter(h)
  <2>1. ScatterTypeOK'
    BY <1>2 DEF close_scatter, ScatterTypeOK, NoCount
  <2>2. Counting' /\ Delivered' /\ NothingMissed'
    BY <1>2 DEF close_scatter, ScatterTypeOK, Counting, Delivered, NothingMissed, NoCount
  <2> QED BY <2>1, <2>2
<1> QED BY <1>1, <1>2

\* A request is prepared and counted together; the count stays below NoCount.
LEMMA AddInv ==
  ASSUME ScatterInv, NEW h \in ScatterHandles, add_scatter(h)
  PROVE  ScatterInv'
<1> USE ScatterAssumption DEF ScatterInv, add_scatter
<1>1. Counted(h) \in 1..requests' /\ requests' \in 1..MaxRequests
  BY DEF Counted, ScatterTypeOK, NoCount
<1>2. ScatterTypeOK'
  BY <1>1 DEF ScatterTypeOK, NoCount
<1>3. Counting'
  BY <1>1 DEF ScatterTypeOK, Counting, NoCount
<1>4. Delivered' /\ NothingMissed'
  BY DEF ScatterTypeOK, Delivered, NothingMissed
<1> QED BY <1>2, <1>3, <1>4

\* Whether the library fails or not, and whether anything was there to carry out.
LEMMA ExecuteInv ==
  ASSUME ScatterInv, NEW h \in ScatterHandles, NEW ran \in BOOLEAN, NEW cleared \in BOOLEAN,
         execute_scatter(h, ran, cleared)
  PROVE  ScatterInv'
<1> DEFINE carried == IF ran THEN done[h] \cup prepared[h] ELSE done[h]
<1>0. /\ owed' = [owed EXCEPT ![h] = {}]
      /\ UNCHANGED <<open_handles, requests>>
      /\ ScatterTypeOK /\ Counting /\ Delivered
  BY DEF execute_scatter, ScatterInv
<1>1. CASE scatter_counts[h] \in {0, NoCount}
  <2>1. /\ executed' = [success |-> TRUE, missed |-> owed[h] \ done[h]]
        /\ UNCHANGED <<scatter_counts, prepared, done>>
    BY <1>1 DEF execute_scatter
  <2>2. owed[h] \ done[h] = {}
    BY <1>0, <1>1 DEF Counting
  <2>3. ScatterTypeOK'
    BY <1>0, <2>1, <2>2 DEF ScatterTypeOK, NoCount
  <2>4. Counting' /\ Delivered' /\ NothingMissed'
    BY <1>0, <2>1, <2>2 DEF ScatterTypeOK, Counting, Delivered, NothingMissed, NoCount
  <2> QED BY <2>3, <2>4 DEF ScatterInv
<1>2. CASE scatter_counts[h] \notin {0, NoCount}
  <2>1. /\ executed' = [success |-> ran /\ cleared, missed |-> owed[h] \ carried]
        /\ prepared' = IF cleared THEN [prepared EXCEPT ![h] = {}] ELSE prepared
        /\ done' = [done EXCEPT ![h] = IF cleared THEN {} ELSE carried]
        /\ scatter_counts' = [scatter_counts EXCEPT ![h] = 0]
    BY <1>2 DEF execute_scatter
  <2>2. ScatterTypeOK'
    BY <1>0, <2>1, ScatterAssumption DEF ScatterTypeOK, NoCount
  <2>3. ran => owed[h] \ carried = {}
    BY <1>0 DEF Delivered
  <2>4. NothingMissed'
    BY <2>1, <2>3 DEF NothingMissed
  <2>5. Counting' /\ Delivered'
    BY <1>0, <2>1 DEF ScatterTypeOK, Counting, Delivered, NoCount
  <2> QED BY <2>2, <2>4, <2>5 DEF ScatterInv
<1> QED BY <1>1, <1>2

\* ScatterInv holds in every state.
THEOREM ScatterInvariance == ScatterSpec => []ScatterInv
<1>1. ASSUME ScatterInv, [ScatterNext]_scatter_vars PROVE ScatterInv'
  <2>1. CASE ScatterNext
    BY <1>1, <2>1, HandleInv, AddInv, ExecuteInv DEF ScatterNext
  <2>2. CASE UNCHANGED scatter_vars
    BY <1>1, <2>2 DEF scatter_vars, ScatterInv, ScatterTypeOK, Counting, Delivered,
                      NothingMissed, NoCount
  <2> QED BY <1>1, <2>1, <2>2
<1> QED BY ScatterInitInv, <1>1, PTL DEF ScatterSpec

\* When execute_scatter answers TRUE, no request added since its last call is left out,
\* for any number of handles that the library hands out again after they are closed.
THEOREM ScatterComplete == ScatterSpec => []NothingMissed
<1>1. ScatterInv => NothingMissed
  BY DEF ScatterInv
<1> QED BY <1>1, ScatterInvariance, PTL

-----------------------------------------------------------------------------
(***************************************************************************)
(* Proofs about MockDMA, for any addresses and sizes.                      *)
(*                                                                         *)
(* The bytes the mock counts are kept modulo the width of its counter;     *)
(* HeldBytes sums the regions themselves. They agree because nothing       *)
(* wraps: the bytes counted stay within the limit, and a region more than  *)
(* that is still below the width.                                          *)
(***************************************************************************)
MockTypeOK ==
  /\ regions \in [MockAddresses -> Nat]
  /\ used \in 0 .. Wrap - 1
  /\ refused \in BOOLEAN

MockInv == MockTypeOK /\ MockUsage

\* Counting modulo Wrap changes nothing below it.
LEMMA Unwrapped ==
  ASSUME NEW x \in 0 .. Wrap - 1
  PROVE  x % Wrap = x /\ (x + Wrap) % Wrap = x
<1>1. Wrap \in Nat \ {0}
  BY MockAssumption
<1>2. x % Wrap = x
  BY <1>1, SMTT(20)
<1>3. (x + Wrap) % Wrap = x
  BY <1>1, SMTT(20)
<1> QED BY <1>2, <1>3

\* What is counted modulo Wrap stays below it.
LEMMA Wrapped == ASSUME NEW x \in Int PROVE x % Wrap \in 0 .. Wrap - 1
<1>1. Wrap \in Nat \ {0}
  BY MockAssumption
<1> QED BY <1>1, SMTT(20)

\* HeldBytes, and what it is after a step, as the sum the lemmas are about.
LEMMA HeldIs ==
  /\ HeldBytes = SumOf(regions, MockAddresses)
  /\ HeldBytes' = SumOf(regions', MockAddresses)
BY DEF HeldBytes, SumOf, MapThenSumSet, MapThenFoldSet

\* What the region at a becomes shows in the sum.
LEMMA HeldChange ==
  ASSUME MockTypeOK, NEW a \in MockAddresses, NEW n \in Nat,
         regions' = [regions EXCEPT ![a] = n]
  PROVE  HeldBytes' = HeldBytes - regions[a] + n /\ regions[a] \in Nat /\ regions[a] <= HeldBytes
<1>1. regions \in [MockAddresses -> Nat] /\ n \in Nat /\ regions[a] \in Nat
  BY DEF MockTypeOK
<1>2. /\ SumOf([regions EXCEPT ![a] = n], MockAddresses) + regions[a]
           = SumOf(regions, MockAddresses) + n
      /\ SumOf([regions EXCEPT ![a] = n], MockAddresses) \in Nat
      /\ SumOf(regions, MockAddresses) \in Nat
  <2>1. IsFiniteSet(MockAddresses) /\ MockAddresses \subseteq MockAddresses
    BY MockAssumption
  <2> QED BY <1>1, <2>1, SumExcept, Zenon
<1>3. HeldBytes' = SumOf(regions', MockAddresses)
  BY HeldIs
<1>4. regions[a] <= SumOf(regions, MockAddresses)
  <2>1. IsFiniteSet(MockAddresses) /\ IsFiniteSet(MockAddresses \ {a})
        /\ \A x \in MockAddresses : regions[x] \in Nat
    BY <1>1, MockAssumption, FS_RemoveElement
  <2>2. SumOf(regions, MockAddresses) = regions[a] + SumOf(regions, MockAddresses \ {a})
    BY <2>1, SumRemove
  <2>3. SumOf(regions, MockAddresses \ {a}) \in Nat
    BY <2>1, SumNat
  <2> QED BY <1>1, <2>2, <2>3
<1>5. SumOf([regions EXCEPT ![a] = n], MockAddresses)
        = SumOf(regions, MockAddresses) - regions[a] + n
  <2> DEFINE p == SumOf([regions EXCEPT ![a] = n], MockAddresses)
             q == SumOf(regions, MockAddresses)
             r == regions[a]
  <2> HIDE DEF p, q, r
  <2>1. p + r = q + n /\ p \in Nat /\ q \in Nat /\ r \in Nat
    BY <1>1, <1>2 DEF p, q, r
  <2>2. p = q - r + n
    BY <2>1
  <2> QED BY <2>2 DEF p, q, r
<1> QED BY <1>1, <1>3, <1>4, <1>5, HeldIs

\* While nothing has been refused, the bytes of the region can be taken off.
LEMMA FreedIs ==
  ASSUME MockInv, NEW a \in MockAddresses
  PROVE  /\ Freed(a) \in 0 .. Wrap - 1
         /\ regions[a] = 0 => Freed(a) = used
         /\ regions[a] \in Nat /\ used \in Nat
         /\ ~refused => Freed(a) = used - regions[a] /\ regions[a] <= used
<1>1. regions[a] \in Nat /\ used \in 0 .. Wrap - 1 /\ Wrap \in Nat
  BY MockAssumption DEF MockInv, MockTypeOK
<1>2. Freed(a) \in 0 .. Wrap - 1
  <2> DEFINE x == used - regions[a] + Wrap
  <2>1. x \in Int
    BY <1>1
  <2> HIDE DEF x
  <2>2. x % Wrap \in 0 .. Wrap - 1
    BY <2>1, Wrapped
  <2> QED BY <2>2 DEF Freed, x
<1>3. regions[a] = 0 => Freed(a) = used
  BY <1>1, Unwrapped DEF Freed
<1>4. ASSUME ~refused PROVE Freed(a) = used - regions[a] /\ regions[a] <= used
  <2>1. regions[a] <= SumOf(regions, MockAddresses)
    <3>1. IsFiniteSet(MockAddresses) /\ IsFiniteSet(MockAddresses \ {a})
          /\ \A x \in MockAddresses : regions[x] \in Nat
      BY MockAssumption, FS_RemoveElement DEF MockInv, MockTypeOK
    <3>2. SumOf(regions, MockAddresses) = regions[a] + SumOf(regions, MockAddresses \ {a})
      BY <3>1, SumRemove
    <3>3. SumOf(regions, MockAddresses \ {a}) \in Nat
      BY <3>1, SumNat
    <3> QED BY <1>1, <3>2, <3>3
  <2>2. regions[a] <= used
    BY <1>4, <2>1, HeldIs DEF MockInv, MockUsage
  <2>3. used - regions[a] \in 0 .. Wrap - 1
    BY <1>1, <2>2
  <2> QED BY <2>2, <2>3, Unwrapped DEF Freed
<1> QED BY <1>1, <1>2, <1>3, <1>4

\* Nothing is set.
LEMMA NoneHeld ==
  ASSUME NEW sizes, \A a \in MockAddresses : sizes[a] = 0
  PROVE  SumOf(sizes, MockAddresses) = 0
BY MockAssumption, SumZero

\* An empty mock.
LEMMA MockInitInv == MockInit => MockInv
<1> SUFFICES ASSUME MockInit PROVE MockInv
  OBVIOUS
<1>1. HeldBytes = 0
  BY NoneHeld, HeldIs DEF MockInit
<1>2. 0 \in 0 .. Wrap - 1 /\ 0 <= MAX_MEMORY_SIZE
  BY MockAssumption
<1> QED BY <1>1, <1>2 DEF MockInit, MockInv, MockTypeOK, MockUsage

\* Without room, the bytes of the old region stay uncounted, and refused says so.
LEMMA SetInv ==
  ASSUME MockInv, NEW a \in MockAddresses, NEW size \in RegionSizes, set_memory(a, size)
  PROVE  MockInv'
<1> DEFINE total == (Freed(a) + size) % Wrap
<1>0. /\ size \in Nat /\ MockTypeOK /\ regions[a] \in Nat
      /\ regions \in [MockAddresses -> Nat] /\ refused \in BOOLEAN
  BY MockAssumption DEF MockInv, MockTypeOK
<1>1. total \in 0 .. Wrap - 1
  BY <1>0, FreedIs, Wrapped
<1>2. CASE UNCHANGED <<regions, used, refused>>
  BY <1>2, HeldIs DEF MockInv, MockTypeOK, MockUsage
<1>3. CASE used' = Freed(a) /\ refused' = (refused \/ a \in Held) /\ UNCHANGED regions
  <2>1. MockTypeOK'
    BY <1>0, <1>3, FreedIs DEF MockTypeOK
  <2>2. ASSUME ~refused' PROVE used' = used /\ ~refused
    <3>1. ~refused /\ a \notin Held
      BY <1>3, <2>2, Zenon
    <3>2. regions[a] = 0
      BY <1>0, <3>1 DEF Held
    <3> QED BY <1>3, <3>1, <3>2, FreedIs
  <2> QED BY <1>3, <2>1, <2>2, HeldIs DEF MockInv, MockUsage
<1>4. CASE /\ total <= MAX_MEMORY_SIZE
           /\ regions' = [regions EXCEPT ![a] = size] /\ used' = total /\ UNCHANGED refused
  <2>1. MockTypeOK'
    BY <1>0, <1>1, <1>4 DEF MockTypeOK
  <2>2. ASSUME ~refused PROVE used' = HeldBytes' /\ used' <= MAX_MEMORY_SIZE
    <3>1. HeldBytes' = HeldBytes - regions[a] + size
      BY <1>0, <1>4, HeldChange
    <3>2. /\ Freed(a) = used - regions[a] /\ regions[a] <= used /\ used \in Nat
          /\ used = HeldBytes /\ used <= MAX_MEMORY_SIZE
      BY <2>2, FreedIs DEF MockInv, MockUsage
    <3>3. Freed(a) + size \in 0 .. Wrap - 1
      BY <1>0, <3>2, MockAssumption
    <3>4. total = Freed(a) + size
      BY <3>3, Unwrapped
    <3> HIDE DEF total
    <3> QED BY <1>0, <1>4, <3>1, <3>2, <3>4
  <2> QED BY <1>4, <2>1, <2>2 DEF MockInv, MockUsage
<1>5. \/ UNCHANGED <<regions, used, refused>>
      \/ used' = Freed(a) /\ refused' = (refused \/ a \in Held) /\ UNCHANGED regions
      \/ /\ ~(total > MAX_MEMORY_SIZE)
         /\ regions' = [regions EXCEPT ![a] = size] /\ used' = total /\ UNCHANGED refused
  BY DEF set_memory
<1>6. ~(total > MAX_MEMORY_SIZE) => total <= MAX_MEMORY_SIZE
  <2> HIDE DEF total
  <2> QED BY <1>1, MockAssumption
<1> QED BY <1>2, <1>3, <1>4, <1>5, <1>6

\* The bytes of an evicted region are taken off.
LEMMA EvictInv ==
  ASSUME MockInv, NEW a \in MockAddresses, evict_oldest_region(a)
  PROVE  MockInv'
<1>0. /\ regions' = [regions EXCEPT ![a] = 0] /\ used' = Freed(a) /\ UNCHANGED refused
      /\ MockTypeOK
  BY DEF evict_oldest_region, Evicted, MockInv
<1>1. MockTypeOK'
  BY <1>0, FreedIs DEF MockTypeOK
<1>2. ASSUME ~refused PROVE used' = HeldBytes' /\ used' <= MAX_MEMORY_SIZE
  <2>1. HeldBytes' = HeldBytes - regions[a] + 0
    BY <1>0, HeldChange
  <2>2. /\ Freed(a) = used - regions[a] /\ used \in Nat /\ regions[a] \in Nat
        /\ used = HeldBytes /\ used <= MAX_MEMORY_SIZE
    BY <1>2, FreedIs DEF MockInv, MockUsage
  <2> QED BY <1>0, <2>1, <2>2, MockAssumption
<1> QED BY <1>0, <1>1, <1>2 DEF MockInv, MockUsage

\* Nothing is held and nothing counted.
LEMMA ClearInv == ASSUME clear PROVE MockInv'
<1>1. HeldBytes' = 0
  BY NoneHeld, HeldIs DEF clear
<1>2. 0 \in 0 .. Wrap - 1 /\ 0 <= MAX_MEMORY_SIZE
  BY MockAssumption
<1> QED BY <1>1, <1>2 DEF clear, MockInv, MockTypeOK, MockUsage

\* Reads and searches only change which region was used last.
LEMMA LookInv ==
  ASSUME MockInv,
         \/ \E a \in MockAddresses : find_signature(a)
         \/ \E a \in MockAddresses, s \in {1, 2} : Read(a, s)
         \/ read_u8
         \/ UNCHANGED mock_vars
  PROVE  MockInv'
<1>1. UNCHANGED <<regions, used, refused>>
  BY DEF find_signature, Read, read_u8, mock_vars
<1> QED BY <1>1, HeldIs DEF MockInv, MockTypeOK, MockUsage

\* MockInv holds in every state.
THEOREM MockInvariance == MockSpec => []MockInv
<1>1. ASSUME MockInv, [MockNext]_mock_vars PROVE MockInv'
  BY <1>1, SetInv, EvictInv, ClearInv, LookInv DEF MockNext
<1> QED BY MockInitInv, <1>1, PTL DEF MockSpec

\* For any addresses and sizes: the counter of bytes is the sum of the regions and stays
\* within MAX_MEMORY_SIZE, never wrapping below zero, until a region could not be replaced.
THEOREM MockCounts == MockSpec => []MockUsage
<1>1. MockInv => MockUsage
  BY DEF MockInv
<1> QED BY <1>1, MockInvariance, PTL

-----------------------------------------------------------------------------
(***************************************************************************)
(* Proofs about DMAObject, for any callers and process identifiers.        *)
(*                                                                         *)
(* The order in which the members are built and destroyed is a fixed list  *)
(* of names, which the lemmas read once; the rest is about the registries  *)
(* of tools and who still holds a pointer into them.                       *)
(***************************************************************************)
Members == {Declared[i] : i \in DOMAIN Declared}
Pointers == Tools \cup freed \cup {None}

ObjectTypeOK ==
  /\ phase \in {"building", "open", "closing", "gone"}
  /\ built \in 0 .. 10 /\ (phase = "building" => built < 10)
  /\ alive \subseteq Members
  /\ tool \in [Slots -> Nat] /\ made \in Nat /\ \A s \in Slots : tool[s] <= made
  /\ needs \in Seq(SUBSET Nat) /\ Len(needs) = made
  /\ handle \in [Callers -> Nat] /\ freed \subseteq Nat

\* What the constructor has built is there.
BuiltParts == phase = "building" => \A i \in 1 .. built : Constructed[i] \in alive

\* The registries are there while calls are made, and take their tools with them.
Registries ==
  /\ phase = "open" => Kinds \subseteq alive
  /\ \A s \in Slots : s[1] \notin alive => tool[s] = None

\* Only finders keep pointers.
FindersOnly ==
  \A s \in Slots : tool[s] # None /\ s[1] # "offset_finders" => needs[tool[s]] = {}

\* The finder under way, and what it has been given.
FindingKnown ==
  \/ finding = NoFinding
  \/ /\ phase = "open"
     /\ finding \in [by : Callers, pid : ToolPids, scanner : Pointers, enumerator : Pointers,
                     step : {"scanner", "enumerator", "make"}]

\* The logger is there until the destruction begins, and something is until it ends.
Logging == phase \in {"building", "open"} => "logger" \in alive

NoHandles == phase = "building" => \A c \in Callers : handle[c] = None

ObjectInv ==
  /\ ObjectTypeOK /\ BuiltParts /\ Registries /\ FindersOnly /\ FindingKnown /\ NoHandles
  /\ Logging /\ NothingDangles

\* The names of the members, and who uses whom.
LEMMA Names ==
  /\ DOMAIN Declared = 1 .. 17 /\ Declared[1] = "handle"
  /\ \A i \in 1 .. 17 : Declared[i] = "handle" => i = 1
  /\ \A i \in 1 .. 17 : Declared[i] = "circuit_breaker" => i = 9
  /\ Declared[10] = "self_healing" /\ Declared[16] = "offset_finders"
  /\ \A i \in 1 .. 17 : Declared[i] \in Kinds => i <= 16
  /\ Kinds \subseteq Members
  /\ {"handle", "cache", "rate_limiter", "health_monitor", "logger"} \subseteq Members
BY DEF Declared, Kinds, Members

\* What the constructor builds, and in which order.
LEMMA BuiltNames ==
  /\ Len(Constructed) = 10
  /\ \A i \in 1 .. 10 : Constructed[i] \in Members
  /\ Constructed[1] = "handle" /\ Constructed[8] = "circuit_breaker"
  /\ \A i \in 1 .. 10 : Constructed[i] = "self_healing" => i = 9
  /\ \A i \in 1 .. 10 : Constructed[i] \notin Kinds
BY DEF Constructed, Declared, Members, Kinds

\* Who keeps a pointer to whom.
LEMMA UsesAre ==
  /\ \A m : Uses(m) \subseteq {"handle", "circuit_breaker", "logger"}
  /\ \A m : "circuit_breaker" \in Uses(m) => m = "self_healing"
  /\ Uses("cache") = {} /\ Uses("rate_limiter") = {} /\ Uses("health_monitor") = {}
BY DEF Uses, Kinds

\* The last member in the order of declaration: none that is alive is declared later.
LEMMA LastIs ==
  ASSUME alive \subseteq Members, alive # {}
  PROVE  \E i \in 1 .. 17 : /\ LastMember = Declared[i] /\ Declared[i] \in alive
                           /\ \A j \in i + 1 .. 17 : Declared[j] \notin alive
<1> DEFINE S == {i \in 1 .. 17 : Declared[i] \in alive}
           P(i) == Declared[i] \in alive /\ \A j \in i + 1 .. Len(Declared) : Declared[j] \notin alive
<1>1. DOMAIN Declared = 1 .. 17 /\ Len(Declared) = 17
  BY DEF Declared
<1>2. S # {} /\ S \subseteq Nat /\ IsFiniteSet(S)
  <2>1. IsFiniteSet(1 .. 17)
    <3>1. 1 \in Int /\ 17 \in Int
      OBVIOUS
    <3> QED BY <3>1, FS_Interval
  <2>2. IsFiniteSet(S)
    BY <2>1, FS_Subset
  <2> QED BY <1>1, <2>2 DEF Members
<1>3. Max(S) \in S /\ \A j \in S : Max(S) >= j
  <2> HIDE DEF S
  <2> QED BY <1>2, MaxIs
<1>4. \E i \in DOMAIN Declared : P(i)
  BY <1>1, <1>3
<1>5. LastMember = Declared[CHOOSE i \in DOMAIN Declared : P(i)]
  BY DEF LastMember
<1> HIDE DEF P
<1>6. (CHOOSE i \in DOMAIN Declared : P(i)) \in DOMAIN Declared /\ P(CHOOSE i \in DOMAIN Declared : P(i))
  BY <1>4
<1> QED BY <1>1, <1>5, <1>6 DEF P

-----------------------------------------------------------------------------
\* Nothing is built.
LEMMA ObjectInitInv == ObjectInit => ObjectInv
<1> SUFFICES ASSUME ObjectInit PROVE ObjectInv
  OBVIOUS
<1>1. /\ phase = "building" /\ built = 0 /\ alive = {"logger"} /\ made = 0 /\ needs = <<>> /\ freed = {}
      /\ tool = [s \in Slots |-> 0] /\ finding = NoFinding /\ handle = [c \in Callers |-> 0]
  BY DEF ObjectInit, None
<1>2. ObjectTypeOK
  BY <1>1, Names DEF ObjectTypeOK
<1>3. Tools = {}
  BY <1>1 DEF Tools, None
<1>4. Uses("logger") = {}
  BY DEF Uses, Kinds
<1> QED BY <1>1, <1>2, <1>3, <1>4 DEF ObjectInv, BuiltParts, Registries, FindersOnly, FindingKnown, NoHandles,
                                    Logging, NothingDangles, UsersFirst, FreedOnRequest, None

\* A part is built after what it uses.
LEMMA BuildInv ==
  ASSUME ObjectInv, Build
  PROVE  ObjectInv'
<1>1. /\ phase = "building" /\ built' = built + 1 /\ alive' = alive \cup {Constructed[built']} \cup Kinds
      /\ phase' = IF built' = 10 THEN "open" ELSE "building"
      /\ UNCHANGED <<inside, tool, made, needs, freed, finding, handle>>
      /\ ObjectTypeOK /\ BuiltParts /\ Registries /\ FindersOnly /\ FindingKnown /\ NoHandles
      /\ Logging /\ UsersFirst /\ FreedOnRequest
  BY BuiltNames DEF Build, ObjectInv, NothingDangles
<1>2. built' \in 1 .. 10 /\ Constructed[built'] \in Members
  BY <1>1, BuiltNames DEF ObjectTypeOK
<1>3. ObjectTypeOK'
  <2>1. alive' \subseteq Members
    BY <1>1, <1>2, Names DEF ObjectTypeOK
  <2>2. phase' \in {"building", "open"} /\ built' \in 0 .. 10 /\ (phase' = "building" => built' < 10)
    BY <1>1, <1>2
  <2> QED BY <1>1, <2>1, <2>2 DEF ObjectTypeOK
<1>4. \A i \in 1 .. built' : Constructed[i] \in alive'
  <2>1. built \in 0 .. 10 /\ \A i \in 1 .. built : Constructed[i] \in alive
    BY <1>1 DEF BuiltParts, ObjectTypeOK
  <2> SUFFICES ASSUME NEW i \in 1 .. built' PROVE Constructed[i] \in alive'
    OBVIOUS
  <2>2. CASE i = built'
    BY <1>1, <2>2
  <2>3. CASE i # built'
    <3>1. i \in 1 .. built
      BY <1>1, <2>1, <2>3
    <3> QED BY <1>1, <2>1, <3>1
  <2> QED BY <2>2, <2>3
<1>5. Tools' = Tools /\ Pointers' = Pointers
  BY <1>1 DEF Tools, Pointers
<1>6. ASSUME NEW m \in alive' PROVE Uses(m) \subseteq alive'
  <2>1. "handle" \in alive'
    BY <1>2, <1>4, BuiltNames
  <2>2. m = "self_healing" => "circuit_breaker" \in alive'
    <3>1. CASE m \in alive
      <4>1. Uses("self_healing") = {"circuit_breaker", "logger"}
        BY DEF Uses, Kinds
      <4>2. Uses(m) \ {} \subseteq alive
        BY <1>1, <3>1 DEF UsersFirst
      <4> QED BY <1>1, <4>1, <4>2
    <3>2. CASE m \notin alive
      <4>1. m = "self_healing" => built' = 9
        BY <1>1, <1>2, <1>6, <3>2, BuiltNames DEF Kinds
      <4> QED BY <1>4, <4>1, BuiltNames
    <3> QED BY <3>1, <3>2
  <2>3. "logger" \in alive'
    BY <1>1 DEF Logging
  <2> QED BY <2>1, <2>2, <2>3, UsesAre
<1>7. UsersFirst'
  BY <1>1, <1>5, <1>6 DEF UsersFirst
<1>8. FreedOnRequest' /\ NoHandles' /\ Logging'
  BY <1>1, <1>5 DEF NoHandles, FreedOnRequest, Logging
<1>9. BuiltParts' /\ Registries' /\ FindersOnly'
  BY <1>1, <1>4 DEF BuiltParts, Registries, FindersOnly
<1>10. FindingKnown'
  BY <1>1 DEF FindingKnown
<1> QED BY <1>3, <1>7, <1>8, <1>9, <1>10 DEF ObjectInv, NothingDangles

\* The object closes, whole or half built, with no call under way.
LEMMA CloseInv ==
  ASSUME ObjectInv, Throw \/ Close
  PROVE  ObjectInv'
<1>1. /\ phase' = "closing" /\ finding = NoFinding
      /\ UNCHANGED <<built, alive, inside, tool, made, needs, freed, finding, handle>>
      /\ ObjectTypeOK /\ Registries /\ FindersOnly /\ UsersFirst
  BY DEF Throw, Close, ObjectInv, NothingDangles, FindingKnown
<1>2. Tools' = Tools
  BY <1>1 DEF Tools
<1>3. UsersFirst'
  <2>1. \A m \in alive : Uses(m) \ {"logger"} \subseteq alive
    BY <1>1 DEF UsersFirst
  <2> QED BY <1>1, <1>2, <2>1 DEF UsersFirst
<1> QED BY <1>1, <1>2, <1>3 DEF ObjectInv, ObjectTypeOK, BuiltParts, Registries, FindersOnly, FindingKnown,
                               NoHandles, Logging, NothingDangles, FreedOnRequest

\* What is destroyed is used by nothing that is left.
LEMMA DestroyMemberInv ==
  ASSUME ObjectInv, DestroyMember
  PROVE  ObjectInv'
<1>1. /\ phase = "closing" /\ alive # {} /\ alive' = alive \ {LastMember}
      /\ tool' = [s \in Slots |-> IF s[1] = LastMember THEN None ELSE tool[s]]
      /\ phase' = IF alive' = {} THEN "gone" ELSE "closing"
      /\ UNCHANGED <<built, inside, made, needs, freed, finding, handle>>
      /\ ObjectTypeOK /\ Registries /\ FindersOnly /\ UsersFirst /\ FindingKnown
  BY DEF DestroyMember, ObjectInv, NothingDangles
<1>2. PICK i \in 1 .. 17 : /\ LastMember = Declared[i] /\ Declared[i] \in alive
                           /\ \A j \in i + 1 .. 17 : Declared[j] \notin alive
  BY <1>1, LastIs DEF ObjectTypeOK
<1>3. finding = NoFinding
  BY <1>1 DEF FindingKnown
<1>4. /\ tool' \in [Slots -> Nat] /\ \A s \in Slots : tool'[s] <= made /\ tool'[s] \in {tool[s], None}
      /\ \A s \in Slots : s[1] # LastMember => tool'[s] = tool[s]
      /\ \A s \in Slots : s[1] = LastMember => tool'[s] = None
  BY <1>1 DEF ObjectTypeOK, None
<1>5. ObjectTypeOK'
  BY <1>1, <1>4 DEF ObjectTypeOK
<1>6. Registries' /\ FindersOnly'
  BY <1>1, <1>4 DEF Registries, FindersOnly
<1>7. ASSUME NEW m \in alive' PROVE Uses(m) \ {"logger"} \subseteq alive'
  <2>1. Uses(m) \ {"logger"} \subseteq alive /\ m \in alive /\ m # LastMember
    BY <1>1, <1>7 DEF UsersFirst
  <2>2. PICK k \in 1 .. 17 : m = Declared[k]
    BY <1>1, <2>1, Names DEF ObjectTypeOK, Members
  <2>3. k < i
    BY <1>2, <2>1, <2>2
  <2>4. LastMember # "handle"
    BY <1>2, <2>3, Names
  <2>5. m = "self_healing" => LastMember # "circuit_breaker"
    <3>1. LastMember = "circuit_breaker" => "self_healing" \notin alive
      <4> SUFFICES ASSUME LastMember = "circuit_breaker" PROVE "self_healing" \notin alive
        OBVIOUS
      <4>1. i = 9
        BY <1>2, Names
      <4>2. 10 \in i + 1 .. 17
        BY <4>1
      <4> QED BY <1>2, <4>2, Names
    <3> QED BY <2>1, <3>1
  <2> QED BY <1>1, <2>1, <2>4, <2>5, UsesAre
<1>8. ASSUME NEW t \in Tools' PROVE needs'[t] \subseteq Tools' \cup freed'
  <2>1. PICK s \in Slots : t = tool'[s] /\ t # None
    BY <1>8 DEF Tools
  <2>2. t = tool[s] /\ s[1] # LastMember
    BY <1>4, <2>1
  <2>3. CASE s[1] # "offset_finders"
    BY <1>1, <2>1, <2>2, <2>3 DEF FindersOnly
  <2>4. CASE s[1] = "offset_finders"
    <3>1. "offset_finders" \in alive
      BY <1>1, <2>1, <2>2, <2>4 DEF Registries
    <3>2. needs[t] \subseteq Tools \cup freed /\ LastMember # "offset_finders"
      BY <1>1, <2>1, <2>2, <2>4 DEF UsersFirst, Tools
    <3>3. LastMember \notin Kinds
      <4>1. i >= 16
        BY <1>2, <3>1, Names
      <4>2. i # 16
        BY <1>2, <3>2, Names
      <4>3. i = 17
        BY <4>1, <4>2
      <4> QED BY <1>2, <4>3, Names
    <3>4. \A z \in Slots : tool'[z] = tool[z]
      BY <1>4, <3>3 DEF Slots
    <3>5. Tools' = Tools
      BY <3>4 DEF Tools
    <3> QED BY <1>1, <3>2, <3>5
  <2> QED BY <2>3, <2>4
<1>9. UsersFirst'
  <2>1. CASE alive' = {}
    BY <1>8, <2>1 DEF UsersFirst
  <2>2. CASE alive' # {}
    BY <1>1, <1>7, <1>8, <2>2 DEF UsersFirst
  <2> QED BY <2>1, <2>2
<1> QED BY <1>1, <1>3, <1>5, <1>6, <1>9 DEF ObjectInv, BuiltParts, FindingKnown, NoHandles,
                                           Logging, NothingDangles, FreedOnRequest

\* A setting makes a part, or destroys one that nothing uses.
LEMMA SettleInv ==
  ASSUME ObjectInv, NEW members, Settle(members), members \subseteq Members,
         alive \ {"cache", "rate_limiter"} \subseteq members,
         members \subseteq alive \cup {"cache", "rate_limiter", "health_monitor"}
  PROVE  ObjectInv'
<1>1. /\ phase = "open" /\ alive' = members
      /\ UNCHANGED <<phase, built, inside, tool, made, needs, freed, finding, handle>>
      /\ ObjectTypeOK /\ Registries /\ FindersOnly /\ UsersFirst /\ FindingKnown /\ FreedOnRequest
      /\ Logging
  BY DEF Settle, ObjectInv, NothingDangles
<1>2. Tools' = Tools /\ Pointers' = Pointers
  BY <1>1 DEF Tools, Pointers
<1>3. ASSUME NEW m \in alive' PROVE Uses(m) \subseteq alive'
  <2>1. m \in alive => Uses(m) \subseteq alive
    BY <1>1 DEF UsersFirst
  <2>2. m \in alive => Uses(m) \subseteq alive \cap {"handle", "circuit_breaker", "logger"}
    BY <2>1, UsesAre
  <2> QED BY <1>1, <1>3, <2>2, UsesAre
<1>4. Registries'
  BY <1>1 DEF Registries, Kinds, Slots
<1>5. UsersFirst' /\ FreedOnRequest' /\ FindingKnown' /\ Logging'
  BY <1>1, <1>2, <1>3 DEF UsersFirst, FreedOnRequest, FindingKnown, Logging
<1> QED BY <1>1, <1>4, <1>5 DEF ObjectInv, NothingDangles, ObjectTypeOK, BuiltParts, FindersOnly, NoHandles

\* A read enters a member, or comes back.
LEMMA ReadInv ==
  ASSUME ObjectInv, UNCHANGED <<phase, built, alive, tool, made, needs, freed, finding, handle>>
  PROVE  ObjectInv'
BY DEF ObjectInv, ObjectTypeOK, BuiltParts, Registries, FindersOnly, FindingKnown, Pointers, NoHandles,
       Logging, NothingDangles, UsersFirst, FreedOnRequest, Tools

-----------------------------------------------------------------------------
\* What is kept of the tools when one is made for an empty place: the new one points only
\* to tools that are there or were freed, and is given to the caller.
LEMMA CreateInv ==
  ASSUME ObjectInv, phase = "open", Unmoved, UNCHANGED freed,
         NEW c \in Callers, NEW kind \in Kinds, NEW pid \in ToolPids, NEW need,
         Create(c, kind, pid, need),
         need \subseteq Tools \cup freed, need # {} => kind = "offset_finders",
         finding' \in {finding, NoFinding}
  PROVE  ObjectInv'
<1>1. /\ UNCHANGED <<phase, built, alive, inside>>
      /\ ObjectTypeOK /\ Registries /\ FindersOnly /\ UsersFirst /\ FindingKnown /\ FreedOnRequest
  BY DEF Unmoved, ObjectInv, NothingDangles
<1>2. <<kind, pid>> \in Slots /\ handle' = [handle EXCEPT ![c] = tool'[<<kind, pid>>]]
  BY DEF Slots, Create, Give
<1>3. /\ tool' \in [Slots -> Nat] /\ made' \in Nat /\ needs' \in Seq(SUBSET Nat) /\ Len(needs') = made'
      /\ \A s \in Slots : tool'[s] <= made'
      /\ \A s \in Slots : tool[s] # None => tool'[s] = tool[s] /\ needs'[tool[s]] = needs[tool[s]]
      /\ \A s \in Slots : tool'[s] # tool[s] =>
           s = <<kind, pid>> /\ tool'[s] # None /\ needs'[tool'[s]] = need
  <2>1. CASE tool[<<kind, pid>>] = None
    <3>1. made' = made + 1 /\ tool' = [tool EXCEPT ![<<kind, pid>>] = made + 1] /\ needs' = Append(needs, need)
      BY <2>1 DEF Create
    <3>2. need \in SUBSET Nat
      <4>1. freed \in SUBSET Nat /\ Tools \subseteq Nat
        BY <1>1 DEF ObjectTypeOK, Tools
      <4> QED BY <4>1
    <3>3. made \in Nat /\ needs \in Seq(SUBSET Nat) /\ Len(needs) = made /\ tool \in [Slots -> Nat]
          /\ \A s \in Slots : tool[s] <= made
      BY <1>1 DEF ObjectTypeOK
    <3>4. needs' \in Seq(SUBSET Nat) /\ Len(needs') = made + 1 /\ needs'[made + 1] = need
          /\ \A i \in 1 .. made : needs'[i] = needs[i]
      BY <3>1, <3>2, <3>3
    <3>5. tool' \in [Slots -> Nat] /\ tool'[<<kind, pid>>] = made + 1
          /\ \A s \in Slots : s # <<kind, pid>> => tool'[s] = tool[s]
      BY <1>2, <3>1, <3>3
    <3>6. \A s \in Slots : tool[s] # None => tool'[s] = tool[s] /\ needs'[tool[s]] = needs[tool[s]]
      <4> SUFFICES ASSUME NEW s \in Slots, tool[s] # 0
                   PROVE  tool'[s] = tool[s] /\ needs'[tool[s]] = needs[tool[s]]
        BY DEF None
      <4>1. s # <<kind, pid>>
        BY <2>1 DEF None
      <4>2. tool[s] \in 1 .. made
        BY <3>3
      <4> QED BY <3>4, <3>5, <4>1, <4>2
    <3>7. \A s \in Slots : tool'[s] <= made + 1
      <4> SUFFICES ASSUME NEW s \in Slots PROVE tool'[s] <= made + 1
        OBVIOUS
      <4>1. CASE s = <<kind, pid>>
        BY <3>3, <3>5, <4>1
      <4>2. CASE s # <<kind, pid>>
        <5>1. tool'[s] = tool[s] /\ tool[s] <= made /\ tool[s] \in Nat
          BY <3>3, <3>5, <4>2
        <5> QED BY <3>3, <5>1
      <4> QED BY <4>1, <4>2
    <3> QED BY <1>2, <3>1, <3>3, <3>4, <3>5, <3>6, <3>7 DEF None
  <2>2. CASE tool[<<kind, pid>>] # None
    BY <1>1, <2>2 DEF Create, ObjectTypeOK
  <2> QED BY <2>1, <2>2
<1>4. tool'[<<kind, pid>>] # None
  <2>1. CASE tool[<<kind, pid>>] = None
    BY <1>2, <1>3, <2>1 DEF Create, ObjectTypeOK, None
  <2>2. CASE tool[<<kind, pid>>] # None
    BY <1>2, <1>3, <2>2
  <2> QED BY <2>1, <2>2
<1>5. Tools \subseteq Tools' /\ tool'[<<kind, pid>>] \in Tools' /\ Pointers \subseteq Pointers'
  BY <1>2, <1>3, <1>4 DEF Tools, Pointers
<1>6. ObjectTypeOK'
  <2>1. handle' \in [Callers -> Nat]
    BY <1>1, <1>2, <1>3 DEF ObjectTypeOK
  <2> QED BY <1>1, <1>3, <2>1 DEF ObjectTypeOK
<1>7. ASSUME NEW t \in Tools' PROVE needs'[t] \subseteq Tools' \cup freed'
  <2>1. PICK s \in Slots : t = tool'[s] /\ t # None
    BY <1>7 DEF Tools
  <2>2. CASE tool'[s] # tool[s]
    BY <1>3, <1>5, <2>1, <2>2
  <2>3. CASE tool'[s] = tool[s]
    <3>1. t \in Tools /\ needs'[t] = needs[t]
      BY <1>3, <2>1, <2>3 DEF Tools
    <3> QED BY <1>1, <1>5, <3>1 DEF UsersFirst
  <2> QED BY <2>2, <2>3
<1>8. FreedOnRequest'
  BY <1>1, <1>2, <1>5 DEF FreedOnRequest, ObjectTypeOK
<1>9. Registries'
  BY <1>1, <1>3 DEF Registries, Slots
<1>10. FindersOnly'
  <2> SUFFICES ASSUME NEW s \in Slots, tool'[s] # None, s[1] # "offset_finders"
               PROVE  needs'[tool'[s]] = {}
    BY DEF FindersOnly
  <2>1. CASE tool'[s] # tool[s]
    BY <1>3, <2>1
  <2>2. CASE tool'[s] = tool[s]
    BY <1>1, <1>3, <2>2 DEF FindersOnly
  <2> QED BY <2>1, <2>2
<1>11. FindingKnown'
  BY <1>1, <1>5 DEF FindingKnown
<1>12. UsersFirst'
  BY <1>1, <1>7 DEF UsersFirst
<1> QED BY <1>1, <1>6, <1>8, <1>9, <1>10, <1>11, <1>12 DEF ObjectInv, BuiltParts, NoHandles, Logging, NothingDangles

\* A caller is given the pointer to a tool that is there, or none.
LEMMA GetInv ==
  ASSUME ObjectInv, phase = "open", Unmoved, UNCHANGED <<tool, made, needs, freed>>,
         NEW c \in Callers, NEW t \in Pointers, Give(c, t),
         finding' \in {finding, NoFinding}
  PROVE  ObjectInv'
<1>1. /\ UNCHANGED <<phase, built, alive, inside>>
      /\ ObjectTypeOK /\ Registries /\ FindersOnly /\ UsersFirst /\ FindingKnown /\ FreedOnRequest
  BY DEF Unmoved, ObjectInv, NothingDangles
<1>2. handle' = [handle EXCEPT ![c] = t] /\ Tools' = Tools /\ Pointers' = Pointers
  BY DEF Give, Tools, Pointers
<1>3. t \in Nat
  <2>1. t \in Tools => t \in Nat
    BY <1>1 DEF ObjectTypeOK, Tools
  <2>2. t \in freed => t \in Nat
    BY <1>1 DEF ObjectTypeOK
  <2> QED BY <2>1, <2>2 DEF Pointers, None
<1>4. ObjectTypeOK'
  BY <1>1, <1>2, <1>3 DEF ObjectTypeOK
<1>5. FreedOnRequest'
  BY <1>1, <1>2 DEF FreedOnRequest, ObjectTypeOK, Pointers
<1>6. FindingKnown'
  BY <1>1, <1>2 DEF FindingKnown
<1>7. UsersFirst' /\ Registries' /\ FindersOnly'
  BY <1>1, <1>2 DEF UsersFirst, Registries, FindersOnly
<1> QED BY <1>1, <1>4, <1>5, <1>6, <1>7 DEF ObjectInv, BuiltParts, NoHandles, Logging, NothingDangles

\* A tool that is destroyed on request is remembered as freed.
LEMMA DestroyInv ==
  ASSUME ObjectInv, NEW c \in Callers, NEW kind \in Kinds, NEW pid \in ToolPids,
         destroy(c, kind, pid)
  PROVE  ObjectInv'
<1>1. /\ phase = "open" /\ UNCHANGED <<phase, built, alive, inside, made, needs, finding, handle>>
      /\ freed' = freed \cup ({tool[<<kind, pid>>]} \ {None})
      /\ tool' = [tool EXCEPT ![<<kind, pid>>] = None]
      /\ ObjectTypeOK /\ Registries /\ FindersOnly /\ UsersFirst /\ FindingKnown /\ FreedOnRequest
  BY DEF destroy, Idle, Unmoved, ObjectInv, NothingDangles
<1>2. <<kind, pid>> \in Slots /\ tool \in [Slots -> Nat]
  BY <1>1 DEF Slots, ObjectTypeOK
<1>3. /\ tool' \in [Slots -> Nat]
      /\ \A s \in Slots : tool'[s] = IF s = <<kind, pid>> THEN None ELSE tool[s]
  BY <1>1, <1>2 DEF None
<1>4. Tools' \subseteq Tools /\ Tools \subseteq Tools' \cup freed'
  BY <1>1, <1>2, <1>3 DEF Tools
<1>5. Pointers \subseteq Pointers'
  BY <1>1, <1>4 DEF Pointers
<1>6. ObjectTypeOK'
  <2>1. made \in Nat /\ \A s \in Slots : tool[s] <= made
    BY <1>1 DEF ObjectTypeOK
  <2>2. \A s \in Slots : tool'[s] <= made
    BY <1>3, <2>1 DEF None
  <2>3. freed' \subseteq Nat
    BY <1>1, <1>2 DEF ObjectTypeOK
  <2> QED BY <1>1, <1>3, <2>2, <2>3 DEF ObjectTypeOK
<1>7. UsersFirst'
  BY <1>1, <1>4 DEF UsersFirst
<1>8. FreedOnRequest' /\ FindingKnown'
  BY <1>1, <1>4, <1>5 DEF FreedOnRequest, FindingKnown
<1>9. Registries' /\ FindersOnly'
  BY <1>1, <1>3 DEF Registries, FindersOnly
<1> QED BY <1>1, <1>6, <1>7, <1>8, <1>9 DEF ObjectInv, BuiltParts, NoHandles, Logging, NothingDangles

\* create_offset_finder goes on with what it looked up.
LEMMA FindingInv ==
  ASSUME ObjectInv, phase = "open", Unmoved, UNCHANGED <<tool, made, needs, freed, handle>>,
         finding' \in [by : Callers, pid : ToolPids, scanner : Pointers, enumerator : Pointers,
                       step : {"scanner", "enumerator", "make"}]
  PROVE  ObjectInv'
<1>1. /\ UNCHANGED <<phase, built, alive, inside>>
      /\ ObjectTypeOK /\ Registries /\ FindersOnly /\ UsersFirst /\ FreedOnRequest
      /\ Tools' = Tools /\ Pointers' = Pointers
  BY DEF Unmoved, ObjectInv, NothingDangles, Tools, Pointers
<1>2. FindingKnown'
  BY <1>1 DEF FindingKnown
<1>3. UsersFirst' /\ FreedOnRequest'
  BY <1>1 DEF UsersFirst, FreedOnRequest
<1> QED BY <1>1, <1>2, <1>3 DEF ObjectInv, ObjectTypeOK, BuiltParts, Registries, FindersOnly, NoHandles,
                               Logging, NothingDangles

\* Each call of a caller, and the steps of create_offset_finder.
LEMMA CallerInv ==
  ASSUME ObjectInv, NEW c \in Callers, NEW pid \in ToolPids,
         \/ \E kind \in Kinds : create(c, kind, pid) \/ get(c, kind, pid) \/ destroy(c, kind, pid)
         \/ create_offset_finder(c, pid)
  PROVE  ObjectInv'
<1>1. \A kind \in Kinds : tool[<<kind, pid>>] \in Pointers
  BY DEF Pointers, Tools, Slots
<1>2. ASSUME NEW kind \in Kinds, create(c, kind, pid) PROVE ObjectInv'
  BY <1>2, CreateInv DEF create, Idle
<1>3. ASSUME NEW kind \in Kinds, get(c, kind, pid) PROVE ObjectInv'
  BY <1>1, <1>3, GetInv DEF get, Idle
<1>4. CASE create_offset_finder(c, pid)
  <2>1. "offset_finders" \in Kinds
    BY DEF Kinds
  <2>2. CASE tool[<<"offset_finders", pid>>] # None
    BY <1>1, <1>4, <2>1, <2>2, GetInv DEF create_offset_finder, Idle
  <2>3. CASE tool[<<"offset_finders", pid>>] = None
    <3>1. /\ finding' = [by |-> c, pid |-> pid, scanner |-> None, enumerator |-> None, step |-> "scanner"]
          /\ phase = "open" /\ Unmoved /\ UNCHANGED <<tool, made, needs, freed, handle>>
      BY <1>4, <2>3 DEF create_offset_finder, Idle, NoFinding
    <3>2. None \in Pointers
      BY DEF Pointers
    <3> QED BY <3>1, <3>2, FindingInv
  <2> QED BY <2>2, <2>3
<1> QED BY <1>2, <1>3, <1>4, DestroyInv

\* A step of get_offset_finder: the tools it needs are looked up one after the other.
LEMMA FindingStepInv ==
  ASSUME ObjectInv, GetScanner \/ GetEnumerator \/ MakeFinder
  PROVE  ObjectInv'
<1>1. /\ phase = "open" /\ Unmoved
      /\ finding \in [by : Callers, pid : ToolPids, scanner : Pointers, enumerator : Pointers,
                      step : {"scanner", "enumerator", "make"}]
  BY DEF GetScanner, GetEnumerator, MakeFinder, ObjectInv, FindingKnown, NoFinding
<1>2. <<"pattern_scanners", finding.pid>> \in Slots /\ <<"module_enumerators", finding.pid>> \in Slots
  BY <1>1 DEF Slots, Kinds
<1>3. tool[<<"pattern_scanners", finding.pid>>] \in Pointers /\ tool[<<"module_enumerators", finding.pid>>] \in Pointers
  BY <1>2 DEF Pointers, Tools
<1>4. CASE GetScanner
  <2> DEFINE given == [finding EXCEPT !.scanner = tool[<<"pattern_scanners", finding.pid>>]]
  <2>1. given \in [by : Callers, pid : ToolPids, scanner : Pointers, enumerator : Pointers,
                   step : {"scanner", "enumerator", "make"}]
    BY <1>1, <1>3
  <2>2. finding' = [given EXCEPT !.step = "enumerator"] /\ UNCHANGED <<tool, made, needs, freed, handle>>
    BY <1>4 DEF GetScanner
  <2> HIDE DEF given
  <2>3. [given EXCEPT !.step = "enumerator"]
          \in [by : Callers, pid : ToolPids, scanner : Pointers, enumerator : Pointers,
               step : {"scanner", "enumerator", "make"}]
    BY <2>1
  <2> QED BY <1>1, <2>2, <2>3, FindingInv
<1>5. CASE GetEnumerator
  <2> DEFINE given == [finding EXCEPT !.enumerator = tool[<<"module_enumerators", finding.pid>>]]
  <2>1. given \in [by : Callers, pid : ToolPids, scanner : Pointers, enumerator : Pointers,
                   step : {"scanner", "enumerator", "make"}]
    BY <1>1, <1>3
  <2>2. finding' = [given EXCEPT !.step = "make"] /\ UNCHANGED <<tool, made, needs, freed, handle>>
    BY <1>5 DEF GetEnumerator
  <2> HIDE DEF given
  <2>3. [given EXCEPT !.step = "make"]
          \in [by : Callers, pid : ToolPids, scanner : Pointers, enumerator : Pointers,
               step : {"scanner", "enumerator", "make"}]
    BY <2>1
  <2> QED BY <1>1, <2>2, <2>3, FindingInv
<1>6. CASE MakeFinder
  <2> DEFINE need == {finding.scanner, finding.enumerator}
  <2>1. /\ finding' = NoFinding /\ UNCHANGED freed
        /\ IF None \in need
           THEN Give(finding.by, None) /\ UNCHANGED <<tool, made, needs>>
           ELSE Create(finding.by, "offset_finders", finding.pid, need)
    BY <1>6 DEF MakeFinder
  <2>2. finding.by \in Callers /\ finding.pid \in ToolPids /\ need \subseteq Pointers /\ None \in Pointers
        /\ "offset_finders" \in Kinds
    BY <1>1 DEF Pointers, Kinds
  <2>3. CASE None \in need
    BY <1>1, <2>1, <2>2, <2>3, GetInv
  <2>4. CASE None \notin need
    <3>1. need \subseteq Tools \cup freed
      BY <2>2, <2>4 DEF Pointers
    <3> HIDE DEF need
    <3> QED BY <1>1, <2>1, <2>2, <2>4, <3>1, CreateInv
  <2> QED BY <2>3, <2>4
<1> QED BY <1>4, <1>5, <1>6

-----------------------------------------------------------------------------
\* The invariant holds of every reachable state of an object.
THEOREM ObjectInvariance == ObjectSpec => []ObjectInv
<1>1. ObjectInv /\ [ObjectNext]_object_vars => ObjectInv'
  <2> SUFFICES ASSUME ObjectInv, [ObjectNext]_object_vars PROVE ObjectInv'
    OBVIOUS
  <2>1. CASE UNCHANGED object_vars
    BY <2>1 DEF object_vars, ObjectInv, ObjectTypeOK, BuiltParts, Registries, FindersOnly, FindingKnown,
                Pointers, NoHandles, Logging, NothingDangles, UsersFirst, FreedOnRequest, Tools
  <2>2. CASE Build \/ Throw \/ Close \/ DestroyMember
    BY <2>2, BuildInv, CloseInv, DestroyMemberInv
  <2>3. ASSUME NEW members, Settle(members),
               alive \ {"cache", "rate_limiter"} \subseteq members,
               members \subseteq alive \cup {"cache", "rate_limiter", "health_monitor"}
        PROVE  ObjectInv'
    BY <2>3, SettleInv, Names DEF ObjectInv, ObjectTypeOK
  <2>4. ASSUME NEW member \in Optional, Call(member) \/ \E on \in BOOLEAN : enable(member, on)
        PROVE  ObjectInv'
    <3>1. CASE Call(member)
      BY <3>1, ReadInv DEF Call
    <3>2. CASE \E on \in BOOLEAN : enable(member, on)
      BY <2>3, <3>2 DEF enable, Optional
    <3> QED BY <2>4, <3>1, <3>2
  <2>5. CASE Return \/ set_rate_limit
    BY <2>3, <2>5, ReadInv DEF set_rate_limit, Return
  <2>6. CASE enable_health_monitoring
    BY <2>3, <2>6 DEF enable_health_monitoring
  <2>7. ASSUME NEW c \in Callers, NEW pid \in ToolPids,
               \/ \E kind \in Kinds : create(c, kind, pid) \/ get(c, kind, pid) \/ destroy(c, kind, pid)
               \/ create_offset_finder(c, pid)
        PROVE  ObjectInv'
    BY <2>7, CallerInv
  <2>8. CASE GetScanner \/ GetEnumerator \/ MakeFinder
    BY <2>8, FindingStepInv
  <2> QED BY <2>1, <2>2, <2>4, <2>5, <2>6, <2>7, <2>8 DEF ObjectNext
<1> QED BY <1>1, ObjectInitInv, PTL DEF ObjectSpec

\* Whatever settings are changed, tools made and freed and constructors thrown: what a
\* member or a finder points to is there as long as it is, but for the logger, which is
\* sure only until the destruction begins, and for the tools that callers had freed.
THEOREM NothingEverDangles == ObjectSpec => []NothingDangles
<1>1. ObjectInv => NothingDangles
  BY DEF ObjectInv
<1> QED BY <1>1, ObjectInvariance, PTL

-----------------------------------------------------------------------------
(***************************************************************************)
(* Proofs about Offsets, for any modules, bases, sites and names.          *)
(*                                                                         *)
(* The target keeps its modules apart, so a match inside the module that a *)
(* list in force points to is the site of that module and of no other.     *)
(* FineOffset carries this from the scan to every later use of the offset. *)
(***************************************************************************)
\* The offsets there may be.
AnyOffset ==
  [module : Modules, rva : Int, signed : BOOLEAN, valid : BOOLEAN, sound : BOOLEAN]

\* An offset, and whether it is what it claims to be.
FineOffset(o) ==
  \/ o = NoOffset
  \/ o \in AnyOffset /\ (o.sound => o.rva \in Nat /\ o.rva = target[o.module].site)

\* The modules of the target do not overlap.
Apart ==
  \A m, k \in Loaded : m # k =>
    \/ target[m].base >= target[k].base + ModuleSize
    \/ target[m].base + ModuleSize <= target[k].base

\* A module in a list that is fresh is where the list has it.
Follows == fresh => \A m \in Modules : list[m] \in {0, target[m].base}

OffsetsInv ==
  /\ target \in [Modules -> [base : Nat, site : Sites \cup {NoSite}]]
  /\ list \in [Modules -> Nat] /\ fresh \in BOOLEAN
  /\ DOMAIN offsets = OffsetNames /\ \A n \in OffsetNames : FineOffset(offsets[n])
  /\ \A n \in OffsetNames : file[n] \in AnyOffset \cup {NoOffset}
  /\ Apart /\ Follows
  /\ answer.sure => answer.address \in Matches(answer.address, answer.address + 1)

\* What a call works with: the list, filled before if it was empty and the library answers.
LEMMA SeenIs ==
  ASSUME OffsetsInv, NEW ok \in BOOLEAN, See(ok), target' = target
  PROVE  /\ list' = Seen(ok) /\ Seen(ok) \in [Modules -> Nat] /\ fresh' \in BOOLEAN /\ Follows'
         /\ fresh' => \A m \in Modules : Seen(ok)[m] \in {0, target[m].base}
<1>1. /\ list' = Seen(ok) /\ fresh' = (fresh \/ (list = NoList /\ ok))
      /\ \A m \in Modules : target[m].base \in Nat
      /\ list \in [Modules -> Nat] /\ Follows /\ fresh \in BOOLEAN
  BY DEF See, OffsetsInv
<1>2. fresh' \in BOOLEAN
  BY <1>1
<1>3. CASE list = NoList /\ ok
  <2>1. Seen(ok) = [m \in Modules |-> target[m].base]
    BY <1>3 DEF Seen, refresh_modules
  <2> QED BY <1>1, <1>2, <2>1 DEF Follows
<1>4. CASE ~(list = NoList /\ ok)
  <2>1. fresh' = fresh
    BY <1>1, <1>4
  <2>2. Seen(ok) = list
    BY <1>1, <1>4 DEF Seen, refresh_modules
  <2> QED BY <1>1, <1>2, <2>1, <2>2 DEF Follows
<1> QED BY <1>3, <1>4

\* A match in a module is the site of some module, and of this one if it is where the
\* list has it.
LEMMA FoundIs ==
  ASSUME OffsetsInv, NEW listed \in [Modules -> Nat], NEW m \in Modules, NEW from \in Nat,
         NEW size \in Nat, NEW a, a = find_signature_in_module(listed, m, from, size)
  PROVE  /\ a \in Nat
         /\ contains_address(listed[m], a) =>
              /\ a - listed[m] \in Nat
              /\ listed[m] = target[m].base => a - listed[m] = target[m].site
<1> DEFINE start == IF from = 0 THEN listed[m] ELSE from
           found == IF listed[m] = 0 THEN {} ELSE Matches(start, start + size)
<1>1. /\ \A k \in Modules : target[k].base \in Nat /\ target[k].site \in Sites \cup {NoSite}
      /\ Sites \subseteq 0 .. ModuleSize - 1 /\ ModuleSize \in Nat /\ NoSite = -1 /\ listed[m] \in Nat
  BY OffsetsAssumption DEF OffsetsInv, NoSite
<1>2. found \subseteq Nat
  BY <1>1 DEF Matches
<1>3. a = IF found = {} THEN 0 ELSE CHOOSE x \in found : \A y \in found : x <= y
  BY DEF find_signature_in_module
<1>4. found # {} => \E x \in found : \A y \in found : x <= y
  <2> HIDE DEF found
  <2> QED BY <1>2, LeastNat
<1>5. found # {} => a \in found
  <2> HIDE DEF found
  <2> QED BY <1>3, <1>4
<1>6. a \in Nat
  BY <1>2, <1>3, <1>5
<1>7. ASSUME contains_address(listed[m], a)
      PROVE  a - listed[m] \in Nat /\ (listed[m] = target[m].base => a - listed[m] = target[m].site)
  <2>1. listed[m] # 0 /\ listed[m] <= a /\ a < listed[m] + ModuleSize
    BY <1>7 DEF contains_address
  <2>2. a \in found
    BY <1>1, <1>3, <1>5, <2>1
  <2>3. PICK k \in Loaded : target[k].site # NoSite /\ a = target[k].base + target[k].site
    BY <2>2 DEF Matches
  <2>4. k \in Modules /\ target[k].site \in 0 .. ModuleSize - 1
    BY <1>1, <2>3 DEF Loaded
  <2>5. ASSUME listed[m] = target[m].base PROVE k = m
    <3>1. m \in Loaded
      BY <2>1, <2>5 DEF Loaded
    <3> QED BY <1>1, <2>1, <2>3, <2>4, <2>5, <3>1 DEF OffsetsInv, Apart
  <2> QED BY <1>1, <1>6, <2>1, <2>3, <2>4, <2>5
<1> QED BY <1>6, <1>7

\* What is kept of the rest when a call has changed offsets.
LEMMA KeepInv ==
  ASSUME OffsetsInv, UNCHANGED target, list' \in [Modules -> Nat], fresh' \in BOOLEAN, Follows',
         DOMAIN offsets' = OffsetNames, \A n \in OffsetNames : FineOffset(offsets'[n]),
         \A n \in OffsetNames : file'[n] \in AnyOffset \cup {NoOffset},
         answer'.sure => answer'.address \in Matches(answer'.address, answer'.address + 1)
  PROVE  OffsetsInv'
BY DEF OffsetsInv, FineOffset, Apart, Loaded, Matches

\* The offset that is registered or found again.
LEMMA RegisterFine ==
  ASSUME OffsetsInv, NEW listed \in [Modules -> Nat], NEW n \in OffsetNames, NEW m \in Modules,
         NEW rva \in Int, NEW s \in BOOLEAN
  PROVE  FineOffset(Register(listed, n, m, rva, s))
<1>2. Offset(m, rva, s, FALSE) \in AnyOffset
  BY DEF AnyOffset, Offset
<1>3. ~Offset(m, rva, s, FALSE).sound
  BY DEF Offset
<1> QED BY <1>2, <1>3 DEF Register, FineOffset, OffsetsInv

\* The offset that a scan finds, with a list in which a sound one may be believed.
LEMMA FoundFine ==
  ASSUME OffsetsInv, NEW listed \in [Modules -> Nat], NEW m \in Modules, NEW from \in Nat,
         NEW size \in Nat, NEW sound \in BOOLEAN, sound => listed[m] \in {0, target[m].base},
         NEW a, a = find_signature_in_module(listed, m, from, size), contains_address(listed[m], a)
  PROVE  FineOffset(Offset(m, a - listed[m], TRUE, sound))
<1>1. a \in Nat /\ a - listed[m] \in Nat /\ (listed[m] = target[m].base => a - listed[m] = target[m].site)
  BY FoundIs
<1>2. sound => a - listed[m] = target[m].site
  BY <1>1 DEF contains_address
<1>3. Offset(m, a - listed[m], TRUE, sound) \in AnyOffset
  BY <1>1 DEF AnyOffset, Offset
<1>4. /\ Offset(m, a - listed[m], TRUE, sound).sound = sound
      /\ Offset(m, a - listed[m], TRUE, sound).rva = a - listed[m]
      /\ Offset(m, a - listed[m], TRUE, sound).module = m
  BY DEF Offset
<1> QED BY <1>1, <1>2, <1>3, <1>4 DEF FineOffset

\* The offset that is scanned again.
LEMMA UpdatedFine ==
  ASSUME OffsetsInv, NEW listed \in [Modules -> Nat], NEW o, FineOffset(o), o # NoOffset,
         NEW sound \in BOOLEAN, sound => \A m \in Modules : listed[m] \in {0, target[m].base}
  PROVE  FineOffset(Updated(listed, o, sound)) /\ FineOffset([o EXCEPT !.valid = FALSE])
<1>1. o \in AnyOffset /\ o.module \in Modules
  BY DEF FineOffset, AnyOffset
<1>2. FineOffset([o EXCEPT !.valid = FALSE])
  <2>1. /\ [o EXCEPT !.valid = FALSE] \in AnyOffset
        /\ [o EXCEPT !.valid = FALSE].sound = o.sound /\ [o EXCEPT !.valid = FALSE].rva = o.rva
        /\ [o EXCEPT !.valid = FALSE].module = o.module
    BY <1>1 DEF AnyOffset
  <2> QED BY <1>1, <2>1 DEF FineOffset
<1> DEFINE a == find_signature_in_module(listed, o.module, 0, ModuleSize)
<1>3. contains_address(listed[o.module], a) => FineOffset(Offset(o.module, a - listed[o.module], TRUE, sound))
  <2> HIDE DEF a
  <2>1. a = find_signature_in_module(listed, o.module, 0, ModuleSize)
    BY DEF a
  <2>2. ModuleSize \in Nat /\ 0 \in Nat
    BY OffsetsAssumption
  <2> QED BY <1>1, <2>1, <2>2, FoundFine
<1> QED BY <1>2, <1>3 DEF Updated

-----------------------------------------------------------------------------
\* Nothing is loaded, listed or registered.
LEMMA OffsetsInitInv == OffsetsInit => OffsetsInv
<1> SUFFICES ASSUME OffsetsInit PROVE OffsetsInv
  OBVIOUS
<1>1. /\ target \in [Modules -> [base : {0}, site : {NoSite}]]
      /\ list = [m \in Modules |-> 0] /\ offsets = [n \in OffsetNames |-> NoOffset]
      /\ answer = NoAnswer /\ fresh = FALSE
  BY DEF OffsetsInit, NoList
<1>2. /\ target \in [Modules -> [base : Nat, site : Sites \cup {NoSite}]]
      /\ \A m \in Modules : target[m].base = 0
  BY <1>1
<1>3. Apart
  BY <1>2 DEF Apart, Loaded
<1>4. list \in [Modules -> Nat] /\ fresh \in BOOLEAN /\ Follows
  BY <1>1 DEF Follows
<1>5. DOMAIN offsets = OffsetNames /\ \A n \in OffsetNames : FineOffset(offsets[n])
  BY <1>1 DEF FineOffset
<1>7. \A n \in OffsetNames : file[n] \in AnyOffset \cup {NoOffset}
  <2>1. Sites \subseteq Int
    BY OffsetsAssumption
  <2>2. \A m \in Modules, rva \in Sites : Offset(m, rva, TRUE, FALSE) \in AnyOffset
    BY <2>1 DEF Offset, AnyOffset
  <2>3. CASE file = offsets
    BY <1>1, <2>3
  <2>4. ASSUME NEW m \in Modules, NEW rva \in Sites, file = [n \in OffsetNames |-> Offset(m, rva, TRUE, FALSE)]
        PROVE  \A n \in OffsetNames : file[n] \in AnyOffset \cup {NoOffset}
    BY <2>2, <2>4
  <2>6. file = offsets \/ \E m \in Modules, rva \in Sites :
                           file = [n \in OffsetNames |-> Offset(m, rva, TRUE, FALSE)]
    BY Zenon DEF OffsetsInit
  <2> QED BY <2>3, <2>4, <2>6
<1>6. ~answer.sure
  BY <1>1 DEF NoAnswer
<1> QED BY <1>2, <1>3, <1>4, <1>5, <1>6, <1>7 DEF OffsetsInv

\* The calls of the enumerator.
LEMMA EnumeratorInv ==
  ASSUME OffsetsInv,
         \/ \E ok \in BOOLEAN : find_module(ok) \/ \E force \in BOOLEAN : enumerate_modules(force, ok)
         \/ clear_module_cache
  PROVE  OffsetsInv'
<1>1. ASSUME UNCHANGED <<target, offsets, file, answer>>, list' \in [Modules -> Nat],
             fresh' \in BOOLEAN, Follows'
      PROVE  OffsetsInv'
  BY <1>1, KeepInv DEF OffsetsInv
<1>2. ASSUME NEW ok \in BOOLEAN, find_module(ok) PROVE OffsetsInv'
  <2>1. See(ok) /\ UNCHANGED <<target, offsets, file, answer>>
    BY <1>2 DEF find_module
  <2> QED BY <1>1, <2>1, SeenIs
<1>3. ASSUME NEW ok \in BOOLEAN, NEW force \in BOOLEAN, enumerate_modules(force, ok) PROVE OffsetsInv'
  <2>1. /\ list' = IF force THEN refresh_modules(ok) ELSE Seen(ok)
        /\ fresh' = (fresh \/ ((force \/ list = NoList) /\ ok))
        /\ UNCHANGED <<target, offsets, file, answer>>
    BY <1>3 DEF enumerate_modules
  <2>2. CASE ~force
    <3>1. See(ok)
      BY <2>1, <2>2 DEF See
    <3> QED BY <1>1, <2>1, <3>1, SeenIs
  <2>3. CASE force /\ ok
    <3>1. list' = [m \in Modules |-> target[m].base] /\ fresh'
      BY <2>1, <2>3 DEF refresh_modules
    <3>2. \A m \in Modules : target[m].base \in Nat
      BY DEF OffsetsInv
    <3>3. fresh' \in BOOLEAN
      BY <2>1
    <3> QED BY <1>1, <2>1, <3>1, <3>2, <3>3 DEF Follows
  <2>4. CASE force /\ ~ok
    <3>1. list' = [m \in Modules |-> 0] /\ fresh' = fresh /\ fresh \in BOOLEAN
      BY <2>1, <2>4 DEF refresh_modules, NoList, OffsetsInv
    <3> QED BY <1>1, <2>1, <3>1 DEF Follows
  <2> QED BY <2>2, <2>3, <2>4
<1>4. CASE clear_module_cache
  <2>1. /\ list' = [m \in Modules |-> 0] /\ fresh' = FALSE /\ UNCHANGED <<target, offsets, file, answer>>
    BY <1>4 DEF clear_module_cache, NoList
  <2> QED BY <1>1, <2>1 DEF Follows
<1> QED BY <1>2, <1>3, <1>4

\* A call that sees the list and changes offsets, all to what they claim to be.
LEMMA OffsetLookInv ==
  ASSUME OffsetsInv, NEW ok \in BOOLEAN, See(ok), UNCHANGED <<target, file>>,
         DOMAIN offsets' = OffsetNames, \A n \in OffsetNames : FineOffset(offsets'[n]),
         answer'.sure => answer'.address \in Matches(answer'.address, answer'.address + 1)
  PROVE  OffsetsInv'
<1>1. list' \in [Modules -> Nat] /\ fresh' \in BOOLEAN /\ Follows'
  BY SeenIs
<1> QED BY <1>1, KeepInv DEF OffsetsInv

\* An offset is looked for, or registered.
LEMMA FindInv ==
  ASSUME OffsetsInv, NEW ok \in BOOLEAN, NEW n \in OffsetNames, NEW m \in Modules,
         \/ \E start \in {0} \cup LoadBases, size \in {ModuleSize, 2 * ModuleSize} : find_offset(n, m, start, size, ok)
         \/ \E rva \in Sites, s \in BOOLEAN : register_offset(n, m, rva, s, ok)
  PROVE  OffsetsInv'
<1>1. /\ See(ok) /\ UNCHANGED <<target, file, answer>>
  BY DEF find_offset, register_offset
<1>2. /\ Seen(ok) \in [Modules -> Nat] /\ fresh' \in BOOLEAN
      /\ fresh' => \A k \in Modules : Seen(ok)[k] \in {0, target[k].base}
  BY <1>1, SeenIs
<1>3. DOMAIN offsets = OffsetNames /\ \A k \in OffsetNames : FineOffset(offsets[k])
  BY DEF OffsetsInv
<1>4. ASSUME NEW new, FineOffset(new), offsets' = [offsets EXCEPT ![n] = new] PROVE OffsetsInv'
  <2>1. DOMAIN offsets' = OffsetNames /\ \A k \in OffsetNames : FineOffset(offsets'[k])
    BY <1>3, <1>4
  <2> QED BY <1>1, <2>1, OffsetLookInv DEF OffsetsInv
<1>5. ASSUME NEW start \in {0} \cup LoadBases, NEW size \in {ModuleSize, 2 * ModuleSize},
             find_offset(n, m, start, size, ok)
      PROVE  OffsetsInv'
  <2> DEFINE listed == Seen(ok)
             a == find_signature_in_module(listed, m, start, size)
  <2>1. offsets' = IF contains_address(listed[m], a)
                   THEN [offsets EXCEPT ![n] = Offset(m, a - listed[m], TRUE, fresh')] ELSE offsets
    BY <1>5 DEF find_offset
  <2>2. size \in Nat /\ start \in Nat
    BY OffsetsAssumption
  <2>3. a = find_signature_in_module(listed, m, start, size) /\ listed = Seen(ok)
    OBVIOUS
  <2> HIDE DEF a, listed
  <2>4. CASE contains_address(listed[m], a)
    <3>1. FineOffset(Offset(m, a - listed[m], TRUE, fresh'))
      BY <1>2, <2>2, <2>3, <2>4, FoundFine
    <3> QED BY <1>4, <2>1, <2>4, <3>1
  <2>5. CASE ~contains_address(listed[m], a)
    BY <1>1, <1>3, <2>1, <2>5, OffsetLookInv DEF OffsetsInv
  <2> QED BY <2>4, <2>5
<1>6. ASSUME NEW rva \in Sites, NEW s \in BOOLEAN, register_offset(n, m, rva, s, ok) PROVE OffsetsInv'
  <2>1. rva \in Int
    BY OffsetsAssumption
  <2>2. FineOffset(Register(Seen(ok), n, m, rva, s))
    BY <1>2, <2>1, RegisterFine
  <2> QED BY <1>4, <1>6, <2>2 DEF register_offset
<1> QED BY <1>5, <1>6

\* An address is answered; it is sure only of a module that is where the list has it.
LEMMA AnswerInv ==
  ASSUME OffsetsInv, NEW ok \in BOOLEAN, NEW n \in OffsetNames, get_absolute_address(n, ok)
  PROVE  OffsetsInv'
<1> DEFINE o == offsets[n]
           base == Seen(ok)[o.module]
<1>1. /\ o # NoOffset /\ See(ok) /\ UNCHANGED <<target, file>>
      /\ answer' = IF base = 0 THEN NoAnswer
                   ELSE [name |-> n, address |-> base + o.rva, sure |-> fresh' /\ o.sound]
      /\ UNCHANGED offsets
  BY DEF get_absolute_address, Registered
<1>2. /\ Seen(ok) \in [Modules -> Nat] /\ fresh' \in BOOLEAN
      /\ fresh' => \A k \in Modules : Seen(ok)[k] \in {0, target[k].base}
  BY <1>1, SeenIs
<1>3. /\ DOMAIN offsets = OffsetNames /\ (\A k \in OffsetNames : FineOffset(offsets[k]))
      /\ o \in AnyOffset /\ o.module \in Modules /\ o.rva \in Int
      /\ o.sound => o.rva \in Nat /\ o.rva = target[o.module].site
  BY <1>1 DEF OffsetsInv, FineOffset, AnyOffset
<1>4. CASE base = 0
  BY <1>1, <1>3, <1>4, OffsetLookInv DEF NoAnswer
<1>5. CASE base # 0
  <2>1. base \in Nat /\ base + o.rva \in Int
    BY <1>2, <1>3
  <2>4. answer'.address = base + o.rva /\ answer'.sure = (fresh' /\ o.sound)
    <3>1. answer' = [name |-> n, address |-> base + o.rva, sure |-> fresh' /\ o.sound]
      BY <1>1, <1>5
    <3> HIDE DEF o, base
    <3> QED BY <3>1, Zenon
  <2>7. ASSUME answer'.sure PROVE answer'.address \in Matches(answer'.address, answer'.address + 1)
    <3>1. base = target[o.module].base /\ o.rva = target[o.module].site /\ o.rva \in Nat
      BY <1>2, <1>3, <1>5, <2>4, <2>7
    <3>2. o.module \in Loaded /\ target[o.module].site # NoSite
      BY <1>3, <1>5, <3>1 DEF Loaded, NoSite
    <3>3. answer'.address = target[o.module].base + target[o.module].site /\ answer'.address \in Int
      BY <2>1, <2>4, <3>1
    <3> HIDE DEF o, base
    <3> QED BY <3>2, <3>3 DEF Matches
  <2> QED BY <1>1, <1>3, <2>7, OffsetLookInv
<1> QED BY <1>4, <1>5

\* All offsets with a signature are scanned again.
LEMMA UpdateInv ==
  ASSUME OffsetsInv, NEW blind \in SUBSET OffsetNames, update_all_offsets(blind)
  PROVE  OffsetsInv'
<1> DEFINE signed == {n \in Registered : offsets[n].signed}
           ok == blind # signed
<1>1. /\ See(ok) /\ UNCHANGED <<target, file, answer>> /\ blind \subseteq signed
      /\ offsets' = [n \in OffsetNames |->
           CASE n \in blind -> [offsets[n] EXCEPT !.valid = FALSE]
             [] n \in signed \ blind -> Updated(Seen(ok), offsets[n], fresh')
             [] OTHER -> offsets[n]]
  BY DEF update_all_offsets, Blinded
<1>2. ok \in BOOLEAN
  OBVIOUS
<1> HIDE DEF ok
<1>3. /\ Seen(ok) \in [Modules -> Nat] /\ fresh' \in BOOLEAN
      /\ fresh' => \A k \in Modules : Seen(ok)[k] \in {0, target[k].base}
  BY <1>1, <1>2, SeenIs
<1>4. ASSUME NEW n \in OffsetNames PROVE FineOffset(offsets'[n])
  <2>1. FineOffset(offsets[n]) /\ (n \in signed => offsets[n] # NoOffset)
    BY DEF OffsetsInv, Registered
  <2>2. CASE n \in signed
    <3>1. FineOffset(Updated(Seen(ok), offsets[n], fresh')) /\ FineOffset([offsets[n] EXCEPT !.valid = FALSE])
      BY <1>3, <2>1, <2>2, UpdatedFine
    <3> QED BY <1>1, <2>2, <3>1
  <2>3. CASE n \notin signed
    BY <1>1, <2>1, <2>3
  <2> QED BY <2>2, <2>3
<1>5. DOMAIN offsets' = OffsetNames
  BY <1>1
<1> QED BY <1>1, <1>2, <1>4, <1>5, OffsetLookInv DEF OffsetsInv

\* An offset is validated.
LEMMA ValidateInv ==
  ASSUME OffsetsInv, NEW ok \in BOOLEAN, NEW n \in OffsetNames, NEW readable \in BOOLEAN,
         validate_offset(n, ok, readable)
  PROVE  OffsetsInv'
<1> DEFINE o == offsets[n]
           base == Seen(ok)[o.module]
           new == [o EXCEPT !.valid = base # 0 /\ readable]
<1>1. o # NoOffset /\ See(ok) /\ UNCHANGED <<target, file, answer>>
  BY DEF validate_offset, Registered
<1>1a. /\ DOMAIN offsets' = OffsetNames /\ \A k \in OffsetNames \ {n} : offsets'[k] = offsets[k]
      /\ offsets'[n] = new
  <2>1. offsets' = [offsets EXCEPT ![n].valid = base # 0 /\ readable]
    BY DEF validate_offset
  <2>2. DOMAIN offsets = OffsetNames
    BY DEF OffsetsInv
  <2> HIDE DEF base
  <2> QED BY <2>1, <2>2
<1>3. /\ DOMAIN offsets = OffsetNames /\ (\A k \in OffsetNames : FineOffset(offsets[k]))
      /\ o \in AnyOffset /\ o.module \in Modules /\ o.rva \in Int
      /\ o.sound => o.rva \in Nat /\ o.rva = target[o.module].site
  BY <1>1 DEF OffsetsInv, FineOffset, AnyOffset
<1>6. new \in AnyOffset /\ new.sound = o.sound /\ new.rva = o.rva /\ new.module = o.module
  <2>1. (base # 0 /\ readable) \in BOOLEAN
    OBVIOUS
  <2> HIDE DEF o, base
  <2> QED BY <1>3, <2>1 DEF AnyOffset
<1>7. FineOffset(new)
  <2> HIDE DEF new, o
  <2> QED BY <1>3, <1>6 DEF FineOffset
<1>8. DOMAIN offsets' = OffsetNames /\ \A k \in OffsetNames : FineOffset(offsets'[k])
  <2> HIDE DEF new
  <2> QED BY <1>1, <1>3, <1>7, <1>1a
<1> QED BY <1>1, <1>8, OffsetLookInv DEF OffsetsInv

\* Offsets are removed, written to the file, or read back from it.
LEMMA StoreInv ==
  ASSUME OffsetsInv,
         \/ \E n \in OffsetNames : remove_offset(n)
         \/ clear_offsets_found \/ export_to_file
         \/ \E blind \in SUBSET OffsetNames : import_from_file(blind)
  PROVE  OffsetsInv'
<1>1. FineOffset(NoOffset) /\ \A n \in OffsetNames : FineOffset(offsets[n]) /\ offsets[n] \in AnyOffset \cup {NoOffset}
  BY DEF FineOffset, OffsetsInv
<1>2. ASSUME NEW n \in OffsetNames, remove_offset(n) PROVE OffsetsInv'
  <2>1. /\ UNCHANGED <<target, list, file, answer, fresh>>
        /\ offsets' = [offsets EXCEPT ![n] = NoOffset]
    BY <1>2 DEF remove_offset
  <2>2. DOMAIN offsets' = OffsetNames /\ \A k \in OffsetNames : FineOffset(offsets'[k])
    <3> HIDE DEF NoOffset
    <3> QED BY <1>1, <2>1 DEF OffsetsInv
  <2> QED BY <2>1, <2>2, KeepInv DEF OffsetsInv, Follows
<1>3. CASE clear_offsets_found
  <2>1. /\ UNCHANGED <<target, list, file, answer, fresh>>
        /\ offsets' = [n \in OffsetNames |-> NoOffset]
    BY <1>3 DEF clear_offsets_found
  <2>2. DOMAIN offsets' = OffsetNames /\ \A k \in OffsetNames : FineOffset(offsets'[k])
    BY <1>1, <2>1
  <2> QED BY <2>1, <2>2, KeepInv DEF OffsetsInv, Follows
<1>4. CASE export_to_file
  <2>1. file' = offsets /\ UNCHANGED <<target, list, offsets, answer, fresh>>
    BY <1>4 DEF export_to_file
  <2> QED BY <1>1, <2>1, KeepInv DEF OffsetsInv, Follows
<1>5. ASSUME NEW blind \in SUBSET OffsetNames, import_from_file(blind) PROVE OffsetsInv'
  <2> DEFINE entries == {n \in OffsetNames : file[n] # NoOffset}
             ok == blind # entries
  <2>1. /\ See(ok) /\ UNCHANGED <<target, file, answer>>
        /\ offsets' = [n \in OffsetNames |->
             IF n \in entries \ blind
             THEN Register(Seen(ok), n, file[n].module, file[n].rva, file[n].signed) ELSE offsets[n]]
    BY <1>5 DEF import_from_file
  <2>0. ok \in BOOLEAN
    OBVIOUS
  <2> HIDE DEF ok
  <2>2. Seen(ok) \in [Modules -> Nat]
    BY <2>1, <2>0, SeenIs
  <2>3. ASSUME NEW n \in OffsetNames PROVE FineOffset(offsets'[n])
    <3>1. CASE n \notin entries \ blind
      BY <1>1, <2>1, <3>1
    <3>2. CASE n \in entries \ blind
      <4>1. file[n].module \in Modules /\ file[n].rva \in Int /\ file[n].signed \in BOOLEAN
        BY <3>2 DEF OffsetsInv, AnyOffset
      <4>2. FineOffset(Register(Seen(ok), n, file[n].module, file[n].rva, file[n].signed))
        BY <2>2, <4>1, RegisterFine
      <4> QED BY <2>1, <3>2, <4>2
    <3> QED BY <3>1, <3>2
  <2>4. DOMAIN offsets' = OffsetNames
    BY <2>1
  <2> QED BY <2>1, <2>0, <2>3, <2>4, OffsetLookInv DEF OffsetsInv
<1> QED BY <1>2, <1>3, <1>4, <1>5

\* The target moves or patches a module; what was found in it remembers a patch.
LEMMA TargetInv ==
  ASSUME OffsetsInv, NEW m \in Modules, NEW base \in LoadBases \cup {0},
         NEW site \in Sites \cup {NoSite}, TargetMoves(m, base, site)
  PROVE  OffsetsInv'
<1>1. /\ target' = [target EXCEPT ![m] = [base |-> base, site |-> site]]
      /\ \A k \in Loaded \ {m} :
           base = 0 \/ base >= target[k].base + ModuleSize \/ base + ModuleSize <= target[k].base
      /\ fresh' = (fresh /\ base = target[m].base)
      /\ offsets' = [n \in OffsetNames |->
           IF n \in Registered /\ offsets[n].module = m
           THEN [offsets[n] EXCEPT !.sound = @ /\ site = target[m].site] ELSE offsets[n]]
      /\ answer' = NoAnswer /\ UNCHANGED <<list, file>>
  BY DEF TargetMoves
<1>2. /\ target \in [Modules -> [base : Nat, site : Sites \cup {NoSite}]]
      /\ list \in [Modules -> Nat] /\ fresh \in BOOLEAN /\ Apart /\ Follows
      /\ \A n \in OffsetNames : FineOffset(offsets[n])
      /\ base \in Nat /\ ModuleSize \in Nat
  BY OffsetsAssumption DEF OffsetsInv
<1>3. /\ target' \in [Modules -> [base : Nat, site : Sites \cup {NoSite}]]
      /\ target'[m].base = base /\ target'[m].site = site
      /\ \A k \in Modules \ {m} : target'[k] = target[k]
  BY <1>1, <1>2
<1>4. Apart'
  <2> SUFFICES ASSUME NEW j \in Modules, NEW k \in Modules, target'[j].base # 0, target'[k].base # 0, j # k
               PROVE  \/ target'[j].base >= target'[k].base + ModuleSize
                      \/ target'[j].base + ModuleSize <= target'[k].base
    BY DEF Apart, Loaded
  <2>1. CASE j # m /\ k # m
    BY <1>2, <1>3, <2>1 DEF Apart, Loaded
  <2>2. CASE j = m
    <3>1. k \in Loaded \ {m} /\ target'[k] = target[k]
      BY <1>3, <2>2 DEF Loaded
    <3> QED BY <1>1, <1>2, <1>3, <2>2, <3>1
  <2>3. CASE k = m
    <3>1. j \in Loaded \ {m} /\ target'[j] = target[j]
      BY <1>3, <2>3 DEF Loaded
    <3>2. target[j].base \in Nat
      BY <1>2
    <3> QED BY <1>1, <1>2, <1>3, <2>3, <3>1, <3>2
  <2> QED BY <2>1, <2>2, <2>3
<1>5. Follows' /\ fresh' \in BOOLEAN
  BY <1>1, <1>2, <1>3 DEF Follows
<1>6. ASSUME NEW n \in OffsetNames PROVE FineOffset(offsets[n])'
  <2>1. FineOffset(offsets[n])
    BY <1>2
  <2>2. CASE offsets[n] = NoOffset
    BY <1>1, <2>2 DEF FineOffset, Registered
  <2>3. CASE offsets[n] # NoOffset /\ offsets[n].module # m
    <3>1. /\ offsets'[n] = offsets[n] /\ offsets[n] \in AnyOffset /\ offsets[n].module \in Modules
          /\ offsets[n].sound => offsets[n].rva \in Nat /\ offsets[n].rva = target[offsets[n].module].site
      BY <1>1, <2>1, <2>3 DEF FineOffset, AnyOffset
    <3>2. target'[offsets[n].module] = target[offsets[n].module]
      BY <1>3, <2>3, <3>1
    <3> QED BY <3>1, <3>2 DEF FineOffset
  <2>4. CASE offsets[n] # NoOffset /\ offsets[n].module = m
    <3> DEFINE o == offsets[n]
               kept == o.sound /\ site = target[m].site
               new == [o EXCEPT !.sound = kept]
    <3>1. offsets'[n] = new
      BY <1>1, <2>4 DEF Registered
    <3>2. o \in AnyOffset /\ (o.sound => o.rva \in Nat /\ o.rva = target[m].site) /\ o.module = m
      BY <2>1, <2>4 DEF FineOffset
    <3>3. kept \in BOOLEAN
      OBVIOUS
    <3>4. new \in AnyOffset /\ new.sound = kept /\ new.rva = o.rva /\ new.module = m
      <4> HIDE DEF kept, o
      <4> QED BY <3>2, <3>3 DEF AnyOffset
    <3>5. new.sound => new.rva \in Nat /\ new.rva = target'[new.module].site
      <4>1. kept => o.sound /\ site = target[m].site
        OBVIOUS
      <4> HIDE DEF new, o, kept
      <4> QED BY <1>3, <3>2, <3>4, <4>1
    <3> HIDE DEF new
    <3> QED BY <3>1, <3>4, <3>5 DEF FineOffset
  <2> QED BY <2>2, <2>3, <2>4
<1>7. DOMAIN offsets' = OffsetNames /\ ~answer'.sure
  BY <1>1 DEF NoAnswer
<1>8. \A n \in OffsetNames : FineOffset(offsets[n])'
  BY <1>6 DEF FineOffset
<1> QED BY <1>1, <1>2, <1>3, <1>4, <1>5, <1>7, <1>8 DEF OffsetsInv

-----------------------------------------------------------------------------
\* The invariant holds of every reachable state.
THEOREM OffsetsInvariance == OffsetsSpec => []OffsetsInv
<1>1. OffsetsInv /\ [OffsetsNext]_offsets_vars => OffsetsInv'
  <2> SUFFICES ASSUME OffsetsInv, [OffsetsNext]_offsets_vars PROVE OffsetsInv'
    OBVIOUS
  <2>1. CASE UNCHANGED offsets_vars
    BY <2>1, KeepInv DEF offsets_vars, OffsetsInv, Follows
  <2>2. CASE \/ \E ok \in BOOLEAN : find_module(ok) \/ \E force \in BOOLEAN : enumerate_modules(force, ok)
             \/ clear_module_cache
    BY <2>2, EnumeratorInv
  <2>3. ASSUME NEW ok \in BOOLEAN, NEW n \in OffsetNames,
               \/ \E m \in Modules, start \in {0} \cup LoadBases, size \in {ModuleSize, 2 * ModuleSize} :
                    find_offset(n, m, start, size, ok)
               \/ \E m \in Modules, rva \in Sites, s \in BOOLEAN : register_offset(n, m, rva, s, ok)
        PROVE  OffsetsInv'
    BY <2>3, FindInv
  <2>4. ASSUME NEW ok \in BOOLEAN, NEW n \in OffsetNames, get_absolute_address(n, ok)
        PROVE  OffsetsInv'
    BY <2>4, AnswerInv
  <2>5. ASSUME NEW ok \in BOOLEAN, NEW n \in OffsetNames, NEW readable \in BOOLEAN,
               validate_offset(n, ok, readable)
        PROVE  OffsetsInv'
    BY <2>5, ValidateInv
  <2>6. CASE \/ \E n \in OffsetNames : remove_offset(n)
             \/ clear_offsets_found \/ export_to_file
             \/ \E blind \in SUBSET OffsetNames : import_from_file(blind)
    BY <2>6, StoreInv
  <2>7. ASSUME NEW blind \in SUBSET OffsetNames, update_all_offsets(blind)
        PROVE  OffsetsInv'
    BY <2>7, UpdateInv
  <2>8. ASSUME NEW m \in Modules, NEW base \in LoadBases \cup {0}, NEW site \in Sites \cup {NoSite},
               TargetMoves(m, base, site)
        PROVE  OffsetsInv'
    BY <2>8, TargetInv
  <2> QED BY <2>1, <2>2, <2>3, <2>4, <2>5, <2>6, <2>7, <2>8 DEF OffsetsNext
<1> QED BY <1>1, OffsetsInitInv, PTL DEF OffsetsSpec

\* However the target moves, patches and unloads its modules between the calls: an offset
\* found with a fresh list stays the place of its signature until the module is patched,
\* and the address answered for it while the list is fresh is right.
THEOREM OffsetsArePortable == OffsetsSpec => []PortableOffsets
<1>1. OffsetsInv => PortableOffsets
  <2> SUFFICES ASSUME OffsetsInv PROVE PortableOffsets
    OBVIOUS
  <2>1. \A n \in Registered : offsets[n].sound => offsets[n].rva = target[offsets[n].module].site
    BY DEF OffsetsInv, Registered, FineOffset
  <2> QED BY <2>1 DEF OffsetsInv, PortableOffsets
<1> QED BY <1>1, OffsetsInvariance, PTL

-----------------------------------------------------------------------------
(***************************************************************************)
(* Proofs about FileSink, for any number of files, lines and restarts.     *)
(*                                                                         *)
(* The buffer and the files are one list of texts by age. To write a line, *)
(* to flush, to rotate and to crash each do one thing to that list; a      *)
(* lemma for each says that the lines stay in order and which may go. The  *)
(* rest shows what the calls do to the files to be these.                  *)
(***************************************************************************)
\* The lines in the texts T.
There(T) == UNION {{T[i][x] : x \in DOMAIN T[i]} : i \in Ages}

\* T are texts of the lines 1 to n, in order, from some line on but for those in gone.
InOrder(T, n, gone) ==
  /\ T \in [Ages -> Seq(Nat)]
  /\ \A i \in Ages : \A x \in DOMAIN T[i] : T[i][x] \in 1 .. n
  /\ \A i, j \in Ages : \A x \in DOMAIN T[i], y \in DOMAIN T[j] :
       j < i \/ (j = i /\ x < y) => T[i][x] < T[j][y]
  /\ \A first \in There(T) : first .. n \subseteq There(T) \cup gone

\* What the buffer s and the files d hold.
Texts(d, s) ==
  [age \in Ages |-> IF age = 0 THEN s ELSE IF d[age - 1] = Missing THEN <<>> ELSE d[age - 1]]

SinkInv ==
  /\ max_files \in MaxFiles /\ line \in Nat
  /\ disk \in [Numbers -> Seq(Nat)] /\ stream \in Seq(Nat) /\ opened \in BOOLEAN
  /\ IF opened THEN disk[0] # Missing ELSE stream = <<>>
  /\ \A i \in Numbers : i > Oldest => disk[i] = Missing
  /\ InOrder(Texts(disk, stream), line, lost)

\* The ages, and the oldest file there may be.
LEMMA AgesAre ==
  ASSUME max_files \in MaxFiles
  PROVE  /\ Ages = 0 .. TopFile + 1 /\ Numbers = 0 .. TopFile /\ TopFile \in Nat \ {0}
         /\ {0, 1} \subseteq Ages /\ 0 \in Numbers
         /\ \A age \in Ages : age # 0 => age - 1 \in Numbers
         /\ Oldest \in 1 .. TopFile
BY SinkAssumption DEF Ages, Numbers, Oldest

\* A line in a text is in some text, and the other way round.
LEMMA ThereIs ==
  ASSUME NEW T, NEW a
  PROVE  a \in There(T) <=> \E i \in Ages : \E x \in DOMAIN T[i] : a = T[i][x]
BY DEF There

-----------------------------------------------------------------------------
\* A line is put in the buffer.
LEMMA WrittenInOrder ==
  ASSUME NEW T, NEW n \in Nat, NEW gone, InOrder(T, n, gone)
  PROVE  InOrder([T EXCEPT ![0] = Append(@, n + 1)], n + 1, gone)
<1> DEFINE U == [T EXCEPT ![0] = Append(T[0], n + 1)]
<1>1. 0 \in Ages /\ \A i \in Ages : i \in Nat
  BY SinkAssumption DEF Ages
<1>2. /\ T \in [Ages -> Seq(Nat)] /\ \A i \in Ages : \A x \in DOMAIN T[i] : T[i][x] \in 1 .. n
      /\ \A i, j \in Ages : \A x \in DOMAIN T[i], y \in DOMAIN T[j] :
           j < i \/ (j = i /\ x < y) => T[i][x] < T[j][y]
      /\ \A first \in There(T) : first .. n \subseteq There(T) \cup gone
  BY DEF InOrder
<1>3. /\ U \in [Ages -> Seq(Nat)] /\ \A i \in Ages \ {0} : U[i] = T[i]
      /\ U[0] = Append(T[0], n + 1)
  <2>1. n + 1 \in Nat /\ T[0] \in Seq(Nat)
    BY <1>1, <1>2
  <2> QED BY <1>1, <1>2, <2>1
<1>4. /\ DOMAIN U[0] = DOMAIN T[0] \cup {Len(T[0]) + 1} /\ DOMAIN T[0] = 1 .. Len(T[0])
      /\ Len(T[0]) \in Nat /\ U[0][Len(T[0]) + 1] = n + 1
      /\ \A x \in DOMAIN T[0] : U[0][x] = T[0][x]
  <2>1. T[0] \in Seq(Nat)
    BY <1>1, <1>2
  <2> QED BY <1>3, <2>1
<1> HIDE DEF U
<1>5. ASSUME NEW i \in Ages, NEW x \in DOMAIN U[i]
      PROVE  \/ x \in DOMAIN T[i] /\ U[i][x] = T[i][x] /\ U[i][x] \in 1 .. n
             \/ i = 0 /\ x = Len(T[0]) + 1 /\ U[i][x] = n + 1
  BY <1>2, <1>3, <1>4
<1>6. \A i \in Ages : \A x \in DOMAIN U[i] : U[i][x] \in 1 .. n + 1
  BY <1>5
<1>7. ASSUME NEW i \in Ages, NEW j \in Ages, NEW x \in DOMAIN U[i], NEW y \in DOMAIN U[j],
             j < i \/ (j = i /\ x < y)
      PROVE  U[i][x] < U[j][y]
  <2>1. CASE x \in DOMAIN T[i] /\ U[i][x] = T[i][x] /\ U[i][x] \in 1 .. n
    <3>1. CASE y \in DOMAIN T[j] /\ U[j][y] = T[j][y]
      BY <1>2, <1>7, <2>1, <3>1
    <3>2. CASE U[j][y] = n + 1
      BY <2>1, <3>2
    <3> QED BY <1>5, <3>1, <3>2
  <2>2. CASE i = 0 /\ x = Len(T[0]) + 1 /\ U[i][x] = n + 1
    <3>1. j = 0 /\ y \in DOMAIN U[0]
      BY <1>1, <1>7, <2>2
    <3> QED BY <1>4, <1>7, <2>2, <3>1
  <2> QED BY <1>5, <2>1, <2>2
<1>8. There(U) = There(T) \cup {n + 1}
  <2>1. There(T) \subseteq There(U)
    <3> SUFFICES ASSUME NEW a \in There(T) PROVE a \in There(U)
      OBVIOUS
    <3>1. PICK i, x : i \in Ages /\ x \in DOMAIN T[i] /\ a = T[i][x]
      BY ThereIs
    <3>2. x \in DOMAIN U[i] /\ U[i][x] = a
      BY <1>3, <1>4, <3>1
    <3> QED BY <3>1, <3>2, ThereIs
  <2>2. n + 1 \in There(U)
    BY <1>1, <1>4, ThereIs
  <2>3. There(U) \subseteq There(T) \cup {n + 1}
    <3> SUFFICES ASSUME NEW a \in There(U), a # n + 1 PROVE a \in There(T)
      OBVIOUS
    <3>1. PICK i, x : i \in Ages /\ x \in DOMAIN U[i] /\ a = U[i][x]
      BY ThereIs
    <3>2. x \in DOMAIN T[i] /\ a = T[i][x]
      BY <1>5, <3>1
    <3> QED BY <3>1, <3>2, ThereIs
  <2> QED BY <2>1, <2>2, <2>3
<1>9. ASSUME NEW first \in There(U) PROVE first .. n + 1 \subseteq There(U) \cup gone
  <2>1. CASE first \in There(T)
    <3>1. first .. n \subseteq There(T) \cup gone
      BY <1>2, <2>1
    <3>2. first \in Nat
      BY <1>2, <2>1, ThereIs
    <3>3. first .. n + 1 \subseteq (first .. n) \cup {n + 1}
      BY <3>2
    <3> QED BY <1>8, <3>1, <3>3
  <2>2. CASE first = n + 1
    BY <1>8, <2>2
  <2> QED BY <1>8, <2>1, <2>2
<1>10. InOrder(U, n + 1, gone)
  BY <1>3, <1>6, <1>7, <1>9 DEF InOrder
<1> QED BY <1>10 DEF U

\* What is in the buffer is written to the file.
LEMMA JoinedInOrder ==
  ASSUME NEW T, NEW n \in Nat, NEW gone, InOrder(T, n, gone)
  PROVE  InOrder([[T EXCEPT ![0] = <<>>] EXCEPT ![1] = T[1] \o T[0]], n, gone)
<1> DEFINE a == T[1]
           b == T[0]
           c == a \o b
           V == [T EXCEPT ![0] = <<>>]
           U == [V EXCEPT ![1] = c]
<1>1. {0, 1} \subseteq Ages /\ \A i \in Ages : i \in Nat
  BY SinkAssumption DEF Ages
<1>2. /\ T \in [Ages -> Seq(Nat)] /\ \A i \in Ages : \A x \in DOMAIN T[i] : T[i][x] \in 1 .. n
      /\ \A i, j \in Ages : \A x \in DOMAIN T[i], y \in DOMAIN T[j] :
           j < i \/ (j = i /\ x < y) => T[i][x] < T[j][y]
      /\ \A first \in There(T) : first .. n \subseteq There(T) \cup gone
  BY DEF InOrder
<1>3. a \in Seq(Nat) /\ b \in Seq(Nat)
  BY <1>1, <1>2
<1>4. /\ c \in Seq(Nat) /\ DOMAIN a = 1 .. Len(a) /\ DOMAIN b = 1 .. Len(b)
      /\ DOMAIN c = 1 .. Len(a) + Len(b) /\ Len(a) \in Nat /\ Len(b) \in Nat
      /\ (\A x \in DOMAIN a : c[x] = a[x]) /\ \A x \in DOMAIN b : c[Len(a) + x] = b[x]
  <2> HIDE DEF a, b
  <2> QED BY <1>3
<1>5. /\ U \in [Ages -> Seq(Nat)] /\ (\A i \in Ages \ {0, 1} : U[i] = T[i])
      /\ U[1] = c /\ U[0] = <<>>
  <2>1. V \in [Ages -> Seq(Nat)] /\ V[0] = <<>> /\ \A i \in Ages \ {0} : V[i] = T[i]
    BY <1>1, <1>2
  <2> HIDE DEF V, c
  <2> QED BY <1>1, <1>4, <2>1
<1>6. a = T[1] /\ b = T[0]
  OBVIOUS
<1> HIDE DEF U, a, b, c
\* Where a line of the new texts was.
<1>7. ASSUME NEW i \in Ages, NEW x \in DOMAIN U[i]
      PROVE  \/ i # 0 /\ x \in DOMAIN T[i] /\ U[i][x] = T[i][x]
             \/ i = 1 /\ x - Len(a) \in DOMAIN T[0] /\ U[i][x] = T[0][x - Len(a)] /\ x > Len(a)
  <2>1. CASE i = 0
    BY <1>5, <2>1
  <2>2. CASE i = 1
    <3>1. x \in 1 .. Len(a) + Len(b)
      BY <1>4, <1>5, <2>2
    <3>2. CASE x \in DOMAIN a
      <4>1. U[i][x] = a[x]
        BY <1>4, <1>5, <2>2, <3>2
      <4> QED BY <1>6, <2>2, <3>2, <4>1
    <3>3. CASE x \notin DOMAIN a
      <4>1. x - Len(a) \in DOMAIN b /\ Len(a) + (x - Len(a)) = x /\ x > Len(a)
        BY <1>4, <3>1, <3>3
      <4>2. U[i][x] = b[x - Len(a)]
        BY <1>4, <1>5, <2>2, <4>1
      <4> QED BY <1>6, <2>2, <4>1, <4>2
    <3> QED BY <3>2, <3>3
  <2>3. CASE i \notin {0, 1}
    BY <1>5, <2>3
  <2> QED BY <2>1, <2>2, <2>3
<1>8. \A i \in Ages : \A x \in DOMAIN U[i] : U[i][x] \in 1 .. n
  BY <1>1, <1>2, <1>7
<1>9. ASSUME NEW i \in Ages, NEW j \in Ages, NEW x \in DOMAIN U[i], NEW y \in DOMAIN U[j],
             j < i \/ (j = i /\ x < y)
      PROVE  U[i][x] < U[j][y]
  <2>1. i \in Nat /\ j \in Nat /\ 0 \in Ages
    BY <1>1
  <2>2. x \in Nat /\ y \in Nat /\ Len(a) \in Nat
    <3>1. \A q \in Seq(Nat) : \A z \in DOMAIN q : z \in Nat
      OBVIOUS
    <3> QED BY <1>4, <1>5, <3>1
  <2>3. CASE i # 0 /\ x \in DOMAIN T[i] /\ U[i][x] = T[i][x]
    <3>1. CASE j # 0 /\ y \in DOMAIN T[j] /\ U[j][y] = T[j][y]
      BY <1>2, <1>9, <2>3, <3>1
    <3>2. CASE y - Len(a) \in DOMAIN T[0] /\ U[j][y] = T[0][y - Len(a)]
      <4>1. 0 < i
        BY <2>1, <2>3
      <4> QED BY <1>2, <2>1, <2>3, <3>2, <4>1
    <3> QED BY <1>7, <3>1, <3>2
  <2>4. CASE i = 1 /\ x - Len(a) \in DOMAIN T[0] /\ U[i][x] = T[0][x - Len(a)] /\ x > Len(a)
    <3>1. j = 1
      BY <1>5, <1>9, <2>1, <2>4
    <3>2. x < y /\ y > Len(a) /\ x - Len(a) < y - Len(a)
      BY <1>9, <2>2, <2>4, <3>1
    <3>3. y - Len(a) \in DOMAIN T[0] /\ U[j][y] = T[0][y - Len(a)]
      BY <1>4, <1>6, <1>7, <3>1, <3>2
    <3> QED BY <1>2, <2>1, <2>4, <3>2, <3>3
  <2> QED BY <1>7, <2>3, <2>4
<1>10. There(U) = There(T)
  <2>1. ASSUME NEW l \in There(U) PROVE l \in There(T)
    <3>1. PICK i, x : i \in Ages /\ x \in DOMAIN U[i] /\ l = U[i][x]
      BY <2>1, ThereIs
    <3> QED BY <1>1, <1>7, <3>1, ThereIs
  <2>2. ASSUME NEW l \in There(T) PROVE l \in There(U)
    <3>1. PICK i, x : i \in Ages /\ x \in DOMAIN T[i] /\ l = T[i][x]
      BY <2>2, ThereIs
    <3>2. CASE i = 0
      <4>1. Len(a) + x \in DOMAIN U[1] /\ U[1][Len(a) + x] = l
        <5>1. x \in DOMAIN b /\ b[x] = l
          BY <1>6, <3>1, <3>2
        <5>2. x \in 1 .. Len(b) /\ Len(a) \in Nat /\ Len(b) \in Nat
          BY <1>4, <5>1
        <5>3. Len(a) + x \in 1 .. Len(a) + Len(b)
          BY <5>2
        <5> QED BY <1>4, <1>5, <5>1, <5>3
      <4> QED BY <1>1, <4>1, ThereIs
    <3>3. CASE i = 1
      <4>1. x \in DOMAIN U[1] /\ U[1][x] = l
        <5>1. x \in DOMAIN a /\ a[x] = l
          BY <1>6, <3>1, <3>3
        <5>2. x \in 1 .. Len(a) /\ Len(a) \in Nat /\ Len(b) \in Nat
          BY <1>4, <5>1
        <5>3. x \in 1 .. Len(a) + Len(b)
          BY <5>2
        <5> QED BY <1>4, <1>5, <5>1, <5>3
      <4> QED BY <1>1, <4>1, ThereIs
    <3>4. CASE i \notin {0, 1}
      BY <1>5, <3>1, <3>4, ThereIs
    <3> QED BY <3>2, <3>3, <3>4
  <2> QED BY <2>1, <2>2
<1>11. InOrder(U, n, gone)
  BY <1>2, <1>5, <1>8, <1>9, <1>10 DEF InOrder
<1> QED BY <1>11 DEF U, V, a, b, c

\* A crash takes what is in the buffer.
LEMMA DroppedInOrder ==
  ASSUME NEW T, NEW n \in Nat, NEW gone, InOrder(T, n, gone)
  PROVE  InOrder([T EXCEPT ![0] = <<>>], n, gone \cup {T[0][x] : x \in DOMAIN T[0]})
<1> DEFINE U == [T EXCEPT ![0] = <<>>]
           taken == {T[0][x] : x \in DOMAIN T[0]}
<1>1. 0 \in Ages
  BY SinkAssumption DEF Ages
<1>2. /\ T \in [Ages -> Seq(Nat)] /\ \A i \in Ages : \A x \in DOMAIN T[i] : T[i][x] \in 1 .. n
      /\ \A i, j \in Ages : \A x \in DOMAIN T[i], y \in DOMAIN T[j] :
           j < i \/ (j = i /\ x < y) => T[i][x] < T[j][y]
      /\ \A first \in There(T) : first .. n \subseteq There(T) \cup gone
  BY DEF InOrder
<1>3. U \in [Ages -> Seq(Nat)] /\ U[0] = <<>> /\ \A i \in Ages \ {0} : U[i] = T[i]
  BY <1>1, <1>2
<1> HIDE DEF U
<1>4. \A i \in Ages : \A x \in DOMAIN U[i] : x \in DOMAIN T[i] /\ U[i][x] = T[i][x]
  <2>1. DOMAIN U[0] = {}
    BY <1>3
  <2> QED BY <1>3, <2>1
<1>5. There(T) \subseteq There(U) \cup taken
  <2> SUFFICES ASSUME NEW l \in There(T) PROVE l \in There(U) \cup taken
    OBVIOUS
  <2>1. PICK i, x : i \in Ages /\ x \in DOMAIN T[i] /\ l = T[i][x]
    BY ThereIs
  <2> QED BY <1>3, <2>1, ThereIs
<1>6. There(U) \subseteq There(T)
  BY <1>4, ThereIs
<1>7. InOrder(U, n, gone \cup taken)
  <2> HIDE DEF taken
  <2>1. \A i \in Ages : \A x \in DOMAIN U[i] : U[i][x] \in 1 .. n
    BY <1>2, <1>4
  <2>2. \A i, j \in Ages : \A x \in DOMAIN U[i], y \in DOMAIN U[j] :
          j < i \/ (j = i /\ x < y) => U[i][x] < U[j][y]
    BY <1>2, <1>4
  <2>3. \A first \in There(U) : first .. n \subseteq There(U) \cup (gone \cup taken)
    BY <1>2, <1>5, <1>6
  <2> QED BY <1>3, <2>1, <2>2, <2>3 DEF InOrder
<1> QED BY <1>7 DEF U

\* The texts from the age `young` to `old` grow older, the one of the age `old` goes, and
\* none is older.
LEMMA ShiftedInOrder ==
  ASSUME NEW T, NEW n \in Nat, NEW gone, InOrder(T, n, gone),
         NEW young \in Ages, NEW old \in Ages, young <= old,
         \A i \in Ages : i > old => T[i] = <<>>
  PROVE  InOrder([i \in Ages |-> IF i = young THEN <<>>
                                 ELSE IF young < i /\ i <= old THEN T[i - 1] ELSE T[i]], n, gone)
<1> DEFINE U == [i \in Ages |-> IF i = young THEN <<>>
                                ELSE IF young < i /\ i <= old THEN T[i - 1] ELSE T[i]]
           Was(i) == IF young < i /\ i <= old THEN i - 1 ELSE i
<1>1. Ages = 0 .. TopFile + 1 /\ TopFile \in Nat
  BY SinkAssumption DEF Ages
<1>2. /\ T \in [Ages -> Seq(Nat)] /\ \A i \in Ages : \A x \in DOMAIN T[i] : T[i][x] \in 1 .. n
      /\ \A i, j \in Ages : \A x \in DOMAIN T[i], y \in DOMAIN T[j] :
           j < i \/ (j = i /\ x < y) => T[i][x] < T[j][y]
      /\ \A first \in There(T) : first .. n \subseteq There(T) \cup gone
  BY DEF InOrder
<1>3. ASSUME NEW i \in Ages PROVE Was(i) \in Ages /\ (i # young => U[i] = T[Was(i)]) /\ U[young] = <<>>
  BY <1>1
<1>4. U \in [Ages -> Seq(Nat)]
  BY <1>1, <1>2
<1>5. ASSUME NEW i \in Ages, NEW j \in Ages, i # young, j # young
      PROVE  (i < j => Was(i) < Was(j)) /\ (i = j => Was(i) = Was(j))
  BY <1>1, <1>5
<1>6. \A i \in Ages : Was(i) = IF young < i /\ i <= old THEN i - 1 ELSE i
  OBVIOUS
<1> HIDE DEF U, Was
<1>7. \A i \in Ages : \A x \in DOMAIN U[i] :
        i # young /\ Was(i) \in Ages /\ x \in DOMAIN T[Was(i)] /\ U[i][x] = T[Was(i)][x]
  BY <1>3
<1>8. \A i \in Ages : \A x \in DOMAIN U[i] : U[i][x] \in 1 .. n
  BY <1>2, <1>7
<1>9. ASSUME NEW i \in Ages, NEW j \in Ages, NEW x \in DOMAIN U[i], NEW y \in DOMAIN U[j],
             j < i \/ (j = i /\ x < y)
      PROVE  U[i][x] < U[j][y]
  <2>1. Was(j) < Was(i) \/ (Was(j) = Was(i) /\ x < y)
    BY <1>5, <1>7, <1>9
  <2> QED BY <1>2, <1>7, <2>1
<1>10. There(U) \subseteq There(T)
  BY <1>7, ThereIs
\* What went is older than all that is left.
<1>11. ASSUME NEW l \in There(T), l \notin There(U), NEW k \in There(U) PROVE l < k
  <2>1. PICK i, x : i \in Ages /\ x \in DOMAIN T[i] /\ l = T[i][x]
    BY <1>11, ThereIs
  <2>2. PICK j, y : j \in Ages /\ y \in DOMAIN U[j] /\ k = U[j][y]
    BY <1>11, ThereIs
  <2>3. i = old
    <3>1. i <= old
      BY <1>1, <2>1
    <3>2. CASE i < young
      <4>1. Was(i) = i /\ i # young
        BY <1>1, <1>6, <2>1, <3>2
      <4> QED BY <1>3, <1>11, <2>1, <4>1, ThereIs
    <3>3. CASE young <= i /\ i < old
      <4>1. i + 1 \in Ages /\ i + 1 # young /\ Was(i + 1) = i
        BY <1>1, <1>6, <2>1, <3>3
      <4> QED BY <1>3, <1>11, <2>1, <4>1, ThereIs
    <3> QED BY <1>1, <2>1, <3>1, <3>2, <3>3
  <2>4. Was(j) < old /\ Was(j) \in Ages /\ y \in DOMAIN T[Was(j)] /\ k = T[Was(j)][y]
    <3>1. j # young /\ Was(j) \in Ages /\ y \in DOMAIN T[Was(j)] /\ k = T[Was(j)][y]
      BY <1>7, <2>2
    <3>2. Was(j) <= old /\ Was(j) \in Nat
      BY <1>1, <3>1
    <3>3. Was(j) # old
      BY <1>1, <1>6, <2>2, <3>1
    <3> QED BY <1>1, <3>1, <3>2, <3>3
  <2> QED BY <1>2, <2>1, <2>3, <2>4
<1>12. ASSUME NEW first \in There(U), NEW l \in first .. n PROVE l \in There(U) \cup gone
  <2>1. l \in There(T) \cup gone
    BY <1>2, <1>10, <1>12
  <2>2. l \in Nat /\ first \in Nat /\ first <= l
    <3>1. first \in 1 .. n
      BY <1>8, <1>12, ThereIs
    <3> QED BY <1>12, <3>1
  <2> QED BY <1>11, <2>1, <2>2
<1>13. InOrder(U, n, gone)
  BY <1>4, <1>8, <1>9, <1>12 DEF InOrder
<1> QED BY <1>13 DEF U

-----------------------------------------------------------------------------
(* The steps of the sink *)

\* What the files hold is a sequence, or nothing when they are missing.
LEMMA TextsAre ==
  ASSUME NEW d \in [Numbers -> Seq(Nat)], NEW s \in Seq(Nat)
  PROVE  /\ Texts(d, s) \in [Ages -> Seq(Nat)] /\ Texts(d, s)[0] = s
         /\ \A i \in Numbers : i + 1 \in Ages
              /\ Texts(d, s)[i + 1] = IF d[i] = Missing THEN <<>> ELSE d[i]
<1>1. /\ Ages = 0 .. TopFile + 1 /\ Numbers = 0 .. TopFile /\ TopFile \in Nat
  BY SinkAssumption DEF Ages, Numbers
<1>2. ASSUME NEW i \in Ages PROVE i = 0 \/ (i # 0 /\ i - 1 \in Numbers)
  BY <1>1
<1>3. <<>> \in Seq(Nat)
  OBVIOUS
<1>4. \A i \in Numbers : i + 1 \in Ages /\ i + 1 # 0 /\ i + 1 - 1 = i
  BY <1>1
<1>5. 0 \in Ages
  BY <1>1
<1> DEFINE f(age) == IF age = 0 THEN s ELSE IF d[age - 1] = Missing THEN <<>> ELSE d[age - 1]
<1>6. Texts(d, s) = [age \in Ages |-> f(age)]
  BY DEF Texts
<1> HIDE DEF Missing
<1>7. \A i \in Ages : f(i) \in Seq(Nat)
  BY <1>2, <1>3
<1>8. f(0) = s /\ \A i \in Numbers : f(i + 1) = IF d[i] = Missing THEN <<>> ELSE d[i]
  <2>1. ASSUME NEW i \in Numbers PROVE f(i + 1) = IF d[i] = Missing THEN <<>> ELSE d[i]
    <3>1. PICK age : age = i + 1
      OBVIOUS
    <3>2. age # 0 /\ age - 1 = i
      BY <1>1, <3>1
    <3>3. f(age) = IF d[i] = Missing THEN <<>> ELSE d[i]
      BY <3>2
    <3> HIDE DEF f
    <3> QED BY <3>1, <3>3
  <2> QED BY <2>1
<1> HIDE DEF f
<1> QED BY <1>4, <1>5, <1>6, <1>7, <1>8

\* A file that holds lines is not one that is missing.
LEMMA LinesAreThere ==
  ASSUME NEW q \in Seq(Nat), NEW n \in Nat, \A x \in DOMAIN q : q[x] \in 1 .. n
  PROVE  q # Missing
BY DEF Missing

\* The buffer is flushed into the file.
LEMMA ClosedInOrder ==
  ASSUME SinkInv
  PROVE  /\ Closed \in [Numbers -> Seq(Nat)] /\ InOrder(Texts(Closed, <<>>), line, lost)
         /\ \A i \in Numbers : i > Oldest => Closed[i] = Missing
         /\ Closed[0] = Missing <=> disk[0] = Missing
<1>1. /\ disk \in [Numbers -> Seq(Nat)] /\ stream \in Seq(Nat) /\ line \in Nat
      /\ IF opened THEN disk[0] # Missing ELSE stream = <<>>
      /\ \A i \in Numbers : i > Oldest => disk[i] = Missing
      /\ InOrder(Texts(disk, stream), line, lost)
  BY DEF SinkInv
<1>2. /\ Ages = 0 .. TopFile + 1 /\ Numbers = 0 .. TopFile /\ TopFile \in Nat \ {0}
      /\ Oldest \in 1 .. TopFile
  BY AgesAre DEF SinkInv
<1>3. CASE ~opened
  BY <1>1, <1>3 DEF Closed
<1>4. CASE opened
  <2> DEFINE T == Texts(disk, stream)
             full == disk[0] \o stream
             U == [[T EXCEPT ![0] = <<>>] EXCEPT ![1] = T[1] \o T[0]]
  <2>1. InOrder(U, line, lost)
    BY <1>1, JoinedInOrder
  <2>2. 0 \in Numbers /\ 1 \in Ages /\ 0 \in Ages /\ disk[0] \in Seq(Nat)
    BY <1>1, <1>2
  <2>3. T \in [Ages -> Seq(Nat)] /\ T[0] = stream /\ T[1] = disk[0]
    <3>1. 0 + 1 = 1
      OBVIOUS
    <3> QED BY <1>1, <1>4, <2>2, <3>1, TextsAre
  <2>4. U \in [Ages -> Seq(Nat)] /\ U[1] = full /\ U[0] = <<>> /\ \A i \in Ages \ {0, 1} : U[i] = T[i]
    <3>1. full \in Seq(Nat)
      BY <1>1, <2>2
    <3> DEFINE empty == [T EXCEPT ![0] = <<>>]
    <3>2. empty \in [Ages -> Seq(Nat)] /\ empty[0] = <<>> /\ \A i \in Ages \ {0} : empty[i] = T[i]
      BY <2>2, <2>3
    <3>3. U = [empty EXCEPT ![1] = full]
      BY <2>3
    <3> HIDE DEF T, U, empty, full
    <3> QED BY <2>2, <2>3, <3>1, <3>2, <3>3
  <2>5. full # Missing
    <3>1. \A x \in DOMAIN U[1] : U[1][x] \in 1 .. line
      BY <2>1, <2>2 DEF InOrder
    <3>2. full \in Seq(Nat) /\ \A x \in DOMAIN full : full[x] \in 1 .. line
      BY <2>2, <2>4, <3>1
    <3> HIDE DEF full
    <3> QED BY <1>1, <3>2, LinesAreThere
  <2>6. /\ Closed \in [Numbers -> Seq(Nat)] /\ Closed[0] = full
        /\ \A i \in Numbers \ {0} : Closed[i] = disk[i]
    <3>1. full \in Seq(Nat)
      BY <1>1, <2>2
    <3> QED BY <1>1, <1>4, <2>2, <3>1 DEF Closed
  <2>7. Texts(Closed, <<>>) = U
    <3> HIDE DEF U, T, full
    <3> DEFINE C == Texts(Closed, <<>>)
    <3>1. /\ C \in [Ages -> Seq(Nat)] /\ C[0] = <<>>
          /\ \A i \in Numbers : i + 1 \in Ages
               /\ C[i + 1] = IF Closed[i] = Missing THEN <<>> ELSE Closed[i]
      <4>1. <<>> \in Seq(Nat)
        OBVIOUS
      <4> QED BY <2>6, <4>1, TextsAre
    <3>2. \A i \in Numbers : T[i + 1] = IF disk[i] = Missing THEN <<>> ELSE disk[i]
      BY <1>1, TextsAre DEF T
    <3> HIDE DEF C
    <3>3. ASSUME NEW i \in Ages PROVE C[i] = U[i]
      <4>1. CASE i = 0
        BY <2>4, <3>1, <4>1
      <4>2. CASE i = 1
        <5>1. C[0 + 1] = full
          BY <2>2, <2>5, <2>6, <3>1
        <5> QED BY <2>4, <4>2, <5>1
      <4>3. CASE i \notin {0, 1}
        <5>1. i - 1 \in Numbers \ {0} /\ i - 1 + 1 = i
          BY <1>2, <4>3
        <5>2. C[i - 1 + 1] = T[i - 1 + 1]
          BY <2>6, <3>1, <3>2, <5>1
        <5> QED BY <2>4, <4>3, <5>1, <5>2
      <4> QED BY <4>1, <4>2, <4>3
    <3>4. C = U
      BY <2>4, <3>1, <3>3
    <3> QED BY <3>4 DEF C
  <2> HIDE DEF full, U
  <2> QED BY <1>1, <1>2, <1>4, <2>1, <2>5, <2>6, <2>7
<1> QED BY <1>3, <1>4

\* A rotation, in whole or from the file numbered last on.
LEMMA RotatedInOrder ==
  ASSUME SinkInv, NEW last \in 0 .. Oldest
  PROVE  /\ Rotated(last) \in [Numbers -> Seq(Nat)] /\ InOrder(Texts(Rotated(last), <<>>), line, lost)
         /\ \A i \in Numbers : i > Oldest => Rotated(last)[i] = Missing
<1>1. /\ Closed \in [Numbers -> Seq(Nat)] /\ InOrder(Texts(Closed, <<>>), line, lost)
      /\ \A i \in Numbers : i > Oldest => Closed[i] = Missing
      /\ line \in Nat
  BY ClosedInOrder DEF SinkInv
<1>2. /\ Ages = 0 .. TopFile + 1 /\ Numbers = 0 .. TopFile /\ TopFile \in Nat \ {0}
      /\ Oldest \in 1 .. TopFile
  BY AgesAre DEF SinkInv
<1>3. CASE max_files = 0 /\ (last = 1 \/ disk[0] = Missing)
  BY <1>1, <1>3 DEF Rotated
<1>4. CASE ~(max_files = 0 /\ (last = 1 \/ disk[0] = Missing))
  <2> DEFINE R == Rotated(last)
             T == Texts(Closed, <<>>)
             young == last + 1
             old == Oldest + 1
             U == [i \in Ages |-> IF i = young THEN <<>>
                                  ELSE IF young < i /\ i <= old THEN T[i - 1] ELSE T[i]]
  <2>1. R = [i \in Numbers |-> CASE i = last -> Missing
                                [] last < i /\ i <= Oldest -> Closed[i - 1]
                                [] OTHER -> Closed[i]]
    BY <1>4 DEF Rotated
  <2>2. Missing \in Seq(Nat) /\ <<>> \in Seq(Nat)
    BY DEF Missing
  <2>3. ASSUME NEW i \in Numbers
        PROVE  R[i] = IF i = last THEN Missing
                      ELSE IF last < i /\ i <= Oldest THEN Closed[i - 1] ELSE Closed[i]
    BY <2>1
  <2>4. R \in [Numbers -> Seq(Nat)]
    <3>1. \A i \in Numbers : R[i] \in Seq(Nat)
      <4> SUFFICES ASSUME NEW i \in Numbers PROVE R[i] \in Seq(Nat)
        OBVIOUS
      <4>1. last < i => i - 1 \in Numbers
        BY <1>2
      <4> HIDE DEF R
      <4> QED BY <1>1, <2>2, <2>3, <4>1
    <3>2. R = [i \in Numbers |-> R[i]]
      BY <2>1
    <3> HIDE DEF R
    <3> QED BY <3>1, <3>2
  <2>5. /\ T \in [Ages -> Seq(Nat)] /\ T[0] = <<>>
        /\ \A i \in Numbers : T[i + 1] = IF Closed[i] = Missing THEN <<>> ELSE Closed[i]
    BY <1>1, <2>2, TextsAre
  <2>6. /\ Texts(R, <<>>) \in [Ages -> Seq(Nat)] /\ Texts(R, <<>>)[0] = <<>>
        /\ \A i \in Numbers : Texts(R, <<>>)[i + 1] = IF R[i] = Missing THEN <<>> ELSE R[i]
    <3> HIDE DEF R
    <3> QED BY <2>2, <2>4, TextsAre
  <2>7. young \in Ages /\ old \in Ages /\ young <= old
    BY <1>2
  <2>8. \A i \in Ages : i > old => T[i] = <<>>
    <3> SUFFICES ASSUME NEW i \in Ages, i > old PROVE T[i] = <<>>
      OBVIOUS
    <3>1. i - 1 \in Numbers /\ i - 1 + 1 = i /\ i - 1 > Oldest
      BY <1>2
    <3> HIDE DEF T
    <3>2. T[i - 1 + 1] = <<>>
      BY <1>1, <2>5, <3>1
    <3> QED BY <3>1, <3>2
  <2>9. InOrder(U, line, lost)
    <3> HIDE DEF T, young, old
    <3>1. InOrder(T, line, lost)
      BY <1>1 DEF T
    <3> QED BY <1>1, <2>7, <2>8, <3>1, ShiftedInOrder
  <2>10. Texts(R, <<>>) = U
    <3> DEFINE W == Texts(R, <<>>)
    <3> HIDE DEF R, T, W
    <3>1. ASSUME NEW i \in Ages PROVE W[i] = U[i]
      <4>1. CASE i = 0
        <5>1. i # young /\ ~(young < i /\ i <= old)
          BY <1>2, <4>1
        <5>2. U[i] = T[i]
          BY <5>1
        <5> HIDE DEF U
        <5> QED BY <2>5, <2>6, <4>1, <5>2 DEF W
      <4>2. CASE i # 0
        <5>1. PICK j \in Numbers : i = j + 1
          <6>1. i - 1 \in Numbers /\ i = i - 1 + 1
            BY <1>2, <4>2
          <6> QED BY <6>1
        <5>2. W[i] = IF R[j] = Missing THEN <<>> ELSE R[j]
          BY <2>6, <5>1 DEF W
        <5>3. CASE j = last
          <6>1. W[i] = <<>> /\ i = young
            BY <2>3, <5>1, <5>2, <5>3
          <6> QED BY <6>1
        <5>4. CASE last < j /\ j <= Oldest
          <6>1. j - 1 \in Numbers /\ j - 1 + 1 = j /\ i # young /\ young < i /\ i <= old /\ i - 1 = j
            BY <1>2, <5>1, <5>4
          <6>2. T[j - 1 + 1] = IF Closed[j - 1] = Missing THEN <<>> ELSE Closed[j - 1]
            BY <2>5, <6>1
          <6>3. R[j] = Closed[j - 1]
            BY <1>2, <2>3, <5>4
          <6>4. U[i] = T[j]
            BY <6>1
          <6> HIDE DEF U
          <6> QED BY <5>2, <6>1, <6>2, <6>3, <6>4
        <5>5. CASE j # last /\ ~(last < j /\ j <= Oldest)
          <6>1. i # young /\ ~(young < i /\ i <= old)
            BY <1>2, <5>1, <5>5
          <6>2. R[j] = Closed[j]
            BY <2>3, <5>5
          <6>3. U[i] = T[i]
            BY <6>1
          <6> HIDE DEF U
          <6> QED BY <2>5, <5>1, <5>2, <6>2, <6>3
        <5> QED BY <5>3, <5>4, <5>5
      <4> QED BY <4>1, <4>2
    <3>2. W \in [Ages -> Seq(Nat)]
      BY <2>6 DEF W
    <3>3. W = U
      BY <3>1, <3>2
    <3> QED BY <3>3 DEF W
  <2>11. \A i \in Numbers : i > Oldest => R[i] = Missing
    <3> SUFFICES ASSUME NEW i \in Numbers, i > Oldest PROVE R[i] = Missing
      OBVIOUS
    <3>1. i # last /\ ~(i <= Oldest)
      BY <1>2
    <3> HIDE DEF R
    <3> QED BY <1>1, <2>3, <3>1
  <2> HIDE DEF U
  <2>12. InOrder(Texts(R, <<>>), line, lost)
    BY <2>9, <2>10
  <2> QED BY <2>4, <2>11, <2>12
<1> QED BY <1>3, <1>4

\* A file that is opened to append holds what it held.
LEMMA OpenedInOrder ==
  ASSUME max_files \in MaxFiles, NEW d \in [Numbers -> Seq(Nat)],
         \A i \in Numbers : i > Oldest => d[i] = Missing
  PROVE  /\ open_file(d) \in [Numbers -> Seq(Nat)] /\ open_file(d)[0] # Missing
         /\ \A i \in Numbers : i > Oldest => open_file(d)[i] = Missing
         /\ \A s : Texts(open_file(d), s) = Texts(d, s)
<1>1. /\ Ages = 0 .. TopFile + 1 /\ Numbers = 0 .. TopFile /\ TopFile \in Nat \ {0}
      /\ Oldest \in 1 .. TopFile
  BY AgesAre
<1>2. <<>> \in Seq(Nat) /\ <<>> # Missing
  BY DEF Missing
<1>3. 0 \in Numbers
  BY <1>1
<1>4. CASE d[0] # Missing
  BY <1>1, <1>4 DEF open_file
<1>5. CASE d[0] = Missing
  <2> HIDE DEF Missing
  <2>1. open_file(d) = [d EXCEPT ![0] = <<>>]
    BY <1>5 DEF open_file
  <2> DEFINE e == open_file(d)
  <2>2. e \in [Numbers -> Seq(Nat)] /\ e[0] = <<>> /\ \A i \in Numbers \ {0} : e[i] = d[i]
    BY <1>2, <1>3, <2>1
  <2> HIDE DEF e
  <2>3. ASSUME NEW s PROVE Texts(e, s) = Texts(d, s)
    <3>1. \A i \in Numbers : (IF e[i] = Missing THEN <<>> ELSE e[i])
                             = (IF d[i] = Missing THEN <<>> ELSE d[i])
      BY <1>2, <1>5, <2>2
    <3>2. \A i \in Ages : i = 0 \/ i - 1 \in Numbers
      BY <1>1
    <3> QED BY <3>1, <3>2 DEF Texts
  <2>4. \A i \in Numbers : i > Oldest => i # 0
    BY <1>1
  <2> QED BY <1>2, <2>2, <2>3, <2>4 DEF e
<1> QED BY <1>4, <1>5

\* A line is written.
LEMMA AppendedInOrder ==
  ASSUME max_files \in MaxFiles, UNCHANGED <<max_files, lost>>, line \in Nat, opened',
         NEW d \in [Numbers -> Seq(Nat)], NEW s \in Seq(Nat), NEW size, Append1(d, s, size),
         d[0] # Missing, \A i \in Numbers : i > Oldest => d[i] = Missing,
         InOrder(Texts(d, s), line, lost), opened' \in BOOLEAN
  PROVE  SinkInv'
<1>1. /\ Ages = 0 .. TopFile + 1 /\ Numbers = 0 .. TopFile /\ TopFile \in Nat \ {0}
      /\ Oldest \in 1 .. TopFile
  BY AgesAre
<1> DEFINE more == Append(s, line + 1)
           T == Texts(d, s)
           U == [T EXCEPT ![0] = Append(@, line + 1)]
<1>2. line' = line + 1 /\ line' \in Nat /\ more \in Seq(Nat) /\ Oldest' = Oldest
  BY DEF Append1, Oldest
<1>3. InOrder(U, line', lost)
  BY <1>2, WrittenInOrder
<1>4. /\ T \in [Ages -> Seq(Nat)] /\ T[0] = s
      /\ \A i \in Numbers : T[i + 1] = IF d[i] = Missing THEN <<>> ELSE d[i]
  BY TextsAre
<1>5. U = Texts(d, more)
  <2>1. 0 \in Ages
    BY <1>1
  <2> HIDE DEF Missing
  <2> QED BY <1>4, <2>1 DEF Texts
<1>6. CASE disk' = d /\ stream' = more
  BY <1>1, <1>2, <1>3, <1>5, <1>6 DEF SinkInv
<1>7. CASE disk' = [d EXCEPT ![0] = @ \o more] /\ stream' = <<>>
  <2> DEFINE M == Texts(d, more)
             V == [[M EXCEPT ![0] = <<>>] EXCEPT ![1] = M[1] \o M[0]]
             full == d[0] \o more
  <2>1. InOrder(V, line', lost)
    BY <1>2, <1>3, <1>5, JoinedInOrder
  <2>2. 0 \in Numbers /\ {0, 1} \subseteq Ages /\ 0 + 1 = 1 /\ full \in Seq(Nat) /\ <<>> \in Seq(Nat)
    BY <1>1, <1>2
  <2>3. /\ M \in [Ages -> Seq(Nat)] /\ M[0] = more /\ M[1] = d[0]
        /\ \A i \in Numbers : M[i + 1] = IF d[i] = Missing THEN <<>> ELSE d[i]
    <3> HIDE DEF more
    <3>1. /\ M \in [Ages -> Seq(Nat)] /\ M[0] = more
          /\ \A i \in Numbers : M[i + 1] = IF d[i] = Missing THEN <<>> ELSE d[i]
      BY <1>2, TextsAre
    <3>2. M[0 + 1] = d[0]
      BY <2>2, <3>1
    <3> QED BY <2>2, <3>1, <3>2
  <2>4. V \in [Ages -> Seq(Nat)] /\ V[0] = <<>> /\ V[1] = full /\ \A i \in Ages \ {0, 1} : V[i] = M[i]
    <3> DEFINE empty == [M EXCEPT ![0] = <<>>]
    <3>1. empty \in [Ages -> Seq(Nat)] /\ empty[0] = <<>> /\ \A i \in Ages \ {0} : empty[i] = M[i]
      BY <2>2, <2>3
    <3>2. V = [empty EXCEPT ![1] = full]
      BY <2>3
    <3> HIDE DEF M, V, empty, full
    <3> QED BY <2>2, <2>3, <3>1, <3>2
  <2>5. disk' \in [Numbers -> Seq(Nat)] /\ disk'[0] = full /\ \A i \in Numbers \ {0} : disk'[i] = d[i]
    <3> HIDE DEF more
    <3> QED BY <1>7, <2>2
  <2>6. full # Missing
    <3>1. \A x \in DOMAIN V[1] : V[1][x] \in 1 .. line'
      BY <2>1, <2>2 DEF InOrder
    <3>2. \A x \in DOMAIN full : full[x] \in 1 .. line'
      BY <2>4, <3>1
    <3> HIDE DEF full
    <3> QED BY <1>2, <2>2, <3>2, LinesAreThere
  <2> DEFINE W == Texts(disk', <<>>)
  <2>7. /\ W \in [Ages -> Seq(Nat)] /\ W[0] = <<>>
        /\ \A i \in Numbers : W[i + 1] = IF disk'[i] = Missing THEN <<>> ELSE disk'[i]
    <3>1. PICK e : e = disk'
      OBVIOUS
    <3>2. e \in [Numbers -> Seq(Nat)] /\ <<>> \in Seq(Nat)
      BY <2>2, <2>5, <3>1
    <3>3. /\ Texts(e, <<>>) \in [Ages -> Seq(Nat)] /\ Texts(e, <<>>)[0] = <<>>
          /\ \A i \in Numbers : Texts(e, <<>>)[i + 1] = IF e[i] = Missing THEN <<>> ELSE e[i]
      BY <3>2, TextsAre
    <3> QED BY <3>1, <3>3
  <2> HIDE DEF V, M, full, W
  <2>8. ASSUME NEW i \in Ages PROVE W[i] = V[i]
    <3>1. CASE i = 0
      BY <2>4, <2>7, <3>1
    <3>2. CASE i = 1
      BY <2>2, <2>4, <2>5, <2>6, <2>7, <3>2
    <3>3. CASE i \notin {0, 1}
      <4>1. PICK j \in Numbers \ {0} : i = j + 1
        <5>1. i - 1 \in Numbers \ {0} /\ i = i - 1 + 1
          BY <1>1, <3>3
        <5> QED BY <5>1
      <4>2. W[j + 1] = IF disk'[j] = Missing THEN <<>> ELSE disk'[j]
        BY <2>7
      <4>3. M[j + 1] = IF d[j] = Missing THEN <<>> ELSE d[j]
        BY <2>3
      <4>4. disk'[j] = d[j]
        BY <2>5
      <4> HIDE DEF Missing
      <4> QED BY <2>4, <3>3, <4>1, <4>2, <4>3, <4>4
    <3> QED BY <3>1, <3>2, <3>3
  <2>9. W = V
    BY <2>4, <2>7, <2>8
  <2>10. InOrder(Texts(disk', stream'), line', lost')
    BY <1>7, <2>1, <2>9 DEF W
  <2>11. \A i \in Numbers : i > Oldest => disk'[i] = Missing
    BY <1>1, <2>5
  <2> QED BY <1>2, <1>7, <2>2, <2>5, <2>6, <2>10, <2>11 DEF SinkInv
<1> QED BY <1>6, <1>7 DEF Append1

\* The steps keep it, given what is written, flushed or rotated.
LEMMA SinkStep ==
  ASSUME SinkInv, UNCHANGED <<max_files, line, lost>>, NEW d \in [Numbers -> Seq(Nat)],
         disk' = d, stream' = <<>>, opened' \in BOOLEAN, opened' => d[0] # Missing,
         \A i \in Numbers : i > Oldest => d[i] = Missing, InOrder(Texts(d, <<>>), line, lost)
  PROVE  SinkInv'
BY DEF SinkInv, Oldest

\* The file is opened, or not, over the files d.
LEMMA OpenStep ==
  ASSUME SinkInv, UNCHANGED <<max_files, line, lost>>, NEW d \in [Numbers -> Seq(Nat)],
         NEW opens \in BOOLEAN, disk' = IF opens THEN open_file(d) ELSE d,
         stream' = <<>>, opened' = opens,
         \A i \in Numbers : i > Oldest => d[i] = Missing, InOrder(Texts(d, <<>>), line, lost)
  PROVE  SinkInv'
<1>1. max_files \in MaxFiles
  BY DEF SinkInv
<1>2. CASE opens
  <2>1. /\ open_file(d) \in [Numbers -> Seq(Nat)] /\ open_file(d)[0] # Missing
        /\ \A i \in Numbers : i > Oldest => open_file(d)[i] = Missing
        /\ Texts(open_file(d), <<>>) = Texts(d, <<>>)
    BY <1>1, OpenedInOrder
  <2> QED BY <1>2, <2>1, SinkStep
<1>3. CASE ~opens
  BY <1>3, SinkStep
<1> QED BY <1>2, <1>3

\* A line is written, to the file that is open or to one that is opened for it.
LEMMA WriteInv ==
  ASSUME SinkInv, NEW opens \in BOOLEAN, write(opens) \/ write_rotating(opens)
  PROVE  SinkInv'
<1>1. /\ max_files \in MaxFiles /\ line \in Nat /\ UNCHANGED <<max_files, lost>>
      /\ disk \in [Numbers -> Seq(Nat)] /\ stream \in Seq(Nat) /\ opened \in BOOLEAN
      /\ IF opened THEN disk[0] # Missing ELSE stream = <<>>
      /\ \A i \in Numbers : i > Oldest => disk[i] = Missing
      /\ InOrder(Texts(disk, stream), line, lost)
  BY DEF SinkInv, write, write_rotating, Rest
<1>2. <<>> \in Seq(Nat)
  OBVIOUS
<1>3. ASSUME NEW d \in [Numbers -> Seq(Nat)], NEW size, Append1(open_file(d), <<>>, size), opened',
             \A i \in Numbers : i > Oldest => d[i] = Missing, InOrder(Texts(d, <<>>), line, lost)
      PROVE  SinkInv'
  <2>1. /\ open_file(d) \in [Numbers -> Seq(Nat)] /\ open_file(d)[0] # Missing
        /\ \A i \in Numbers : i > Oldest => open_file(d)[i] = Missing
        /\ Texts(open_file(d), <<>>) = Texts(d, <<>>)
    BY <1>1, <1>3, OpenedInOrder
  <2>2. opened' \in BOOLEAN
    BY DEF write, write_rotating, SinkInv, perform_rotation
  <2> QED BY <1>1, <1>2, <1>3, <2>1, <2>2, AppendedInOrder
<1>4. CASE write(opens) /\ opened
  <2>1. Append1(disk, stream, current_size) /\ opened' = opened
    BY <1>4 DEF write
  <2> QED BY <1>1, <1>4, <2>1, AppendedInOrder
<1>5. CASE write(opens) /\ ~opened /\ opens
  <2>1. Append1(open_file(disk), <<>>, Len(open_file(disk)[0])) /\ opened'
    BY <1>5 DEF write
  <2> QED BY <1>1, <1>3, <1>5, <2>1
<1>6. CASE write(opens) /\ ~opened /\ ~opens
  <2>1. UNCHANGED <<disk, stream, line, opened>>
    BY <1>6 DEF write
  <2> QED BY <1>1, <2>1 DEF SinkInv, Oldest
<1>7. CASE write_rotating(opens)
  <2>1. 0 \in 0 .. Oldest
    BY <1>1, AgesAre
  <2>2. /\ Rotated(0) \in [Numbers -> Seq(Nat)] /\ InOrder(Texts(Rotated(0), <<>>), line, lost)
        /\ \A i \in Numbers : i > Oldest => Rotated(0)[i] = Missing
    BY <2>1, RotatedInOrder
  <2>3. CASE opens
    <3>1. Append1(open_file(Rotated(0)), <<>>, 0) /\ opened'
      BY <1>7, <2>3 DEF write_rotating
    <3> QED BY <1>3, <2>2, <3>1
  <2>4. CASE ~opens
    <3>1. disk' = Rotated(0) /\ stream' = <<>> /\ opened' = opens /\ line' = line
      BY <1>7, <2>4 DEF write_rotating, perform_rotation
    <3> QED BY <1>1, <2>2, <2>4, <3>1, OpenStep
  <2> QED BY <2>3, <2>4
<1> QED BY <1>4, <1>5, <1>6, <1>7

\* A rotation on request, or one that a rename ends half way.
LEMMA RotateInv ==
  ASSUME SinkInv,
         (\E opens \in BOOLEAN : rotate(opens)) \/ \E last \in Numbers : RotationThrows(last)
  PROVE  SinkInv'
<1>1. max_files \in MaxFiles /\ UNCHANGED <<max_files, line, lost>> /\ Oldest \in 1 .. TopFile
  BY AgesAre DEF SinkInv, rotate, RotationThrows, Rest
<1>2. ASSUME NEW opens \in BOOLEAN, rotate(opens) PROVE SinkInv'
  <2>1. 0 \in 0 .. Oldest
    BY <1>1
  <2>2. /\ Rotated(0) \in [Numbers -> Seq(Nat)] /\ InOrder(Texts(Rotated(0), <<>>), line, lost)
        /\ \A i \in Numbers : i > Oldest => Rotated(0)[i] = Missing
    BY <2>1, RotatedInOrder
  <2>3. /\ disk' = IF opens THEN open_file(Rotated(0)) ELSE Rotated(0)
        /\ stream' = <<>> /\ opened' = opens
    BY <1>2 DEF rotate, perform_rotation
  <2> QED BY <1>1, <2>2, <2>3, OpenStep
<1>3. ASSUME NEW last \in Numbers, RotationThrows(last) PROVE SinkInv'
  <2>1. last \in 0 .. Oldest /\ disk' = Rotated(last) /\ stream' = <<>> /\ opened' = FALSE
    BY <1>1, <1>3 DEF RotationThrows
  <2>2. /\ Rotated(last) \in [Numbers -> Seq(Nat)] /\ InOrder(Texts(Rotated(last), <<>>), line, lost)
        /\ \A i \in Numbers : i > Oldest => Rotated(last)[i] = Missing
    BY <2>1, RotatedInOrder
  <2> QED BY <1>1, <2>1, <2>2, SinkStep
<1> QED BY <1>2, <1>3

\* The sink is constructed, flushed or constructed again.
LEMMA StartInv ==
  ASSUME SinkInv,
         \/ \E opens \in BOOLEAN : Start(opens) \/ \E crash \in BOOLEAN : Restart(crash, opens)
         \/ flush
  PROVE  SinkInv'
<1>1. /\ max_files \in MaxFiles /\ line \in Nat
      /\ disk \in [Numbers -> Seq(Nat)] /\ stream \in Seq(Nat) /\ opened \in BOOLEAN
      /\ IF opened THEN disk[0] # Missing ELSE stream = <<>>
      /\ \A i \in Numbers : i > Oldest => disk[i] = Missing
      /\ InOrder(Texts(disk, stream), line, lost)
  BY DEF SinkInv
<1>2. /\ Closed \in [Numbers -> Seq(Nat)] /\ InOrder(Texts(Closed, <<>>), line, lost)
      /\ \A i \in Numbers : i > Oldest => Closed[i] = Missing
      /\ Closed[0] = Missing <=> disk[0] = Missing
  BY ClosedInOrder
<1>3. CASE flush
  <2>1. UNCHANGED <<max_files, line, lost, opened>> /\ disk' = Closed /\ stream' = <<>> /\ opened
    BY <1>3 DEF flush, Rest
  <2> QED BY <1>1, <1>2, <2>1, SinkStep
<1>4. ASSUME NEW opens \in BOOLEAN, Start(opens) PROVE SinkInv'
  <2>1. /\ UNCHANGED <<max_files, line, lost, stream>> /\ ~opened /\ opened' = opens
        /\ disk' = IF opens THEN open_file(disk) ELSE disk
    BY <1>4 DEF Start, Rest
  <2> QED BY <1>1, <2>1, OpenStep
<1>5. ASSUME NEW opens \in BOOLEAN, Restart(FALSE, opens) PROVE SinkInv'
  <2>1. /\ UNCHANGED <<max_files, line, lost>> /\ opened' = opens /\ stream' = <<>>
        /\ disk' = IF opens THEN open_file(Closed) ELSE Closed
    BY <1>5 DEF Restart
  <2> QED BY <1>2, <2>1, OpenStep
<1>6. ASSUME NEW opens \in BOOLEAN, Restart(TRUE, opens) PROVE SinkInv'
  <2> DEFINE gone == lost \cup {stream[i] : i \in DOMAIN stream}
             T == Texts(disk, stream)
  <2>1. /\ UNCHANGED <<max_files, line>> /\ opened' = opens /\ stream' = <<>> /\ lost' = gone
        /\ disk' = IF opens THEN open_file(disk) ELSE disk
    BY <1>6 DEF Restart
  <2>2. T \in [Ages -> Seq(Nat)] /\ T[0] = stream
    BY <1>1, TextsAre
  <2>3. InOrder([T EXCEPT ![0] = <<>>], line, gone)
    <3>1. InOrder([T EXCEPT ![0] = <<>>], line, lost \cup {T[0][x] : x \in DOMAIN T[0]})
      BY <1>1, DroppedInOrder
    <3> HIDE DEF T
    <3> QED BY <2>2, <3>1
  <2>4. [T EXCEPT ![0] = <<>>] = Texts(disk, <<>>)
    <3> HIDE DEF Missing
    <3> QED BY <2>2 DEF Texts
  <2>5. InOrder(Texts(disk, <<>>), line, gone)
    BY <2>3, <2>4
  <2>6. CASE opens
    <3>1. /\ open_file(disk) \in [Numbers -> Seq(Nat)] /\ open_file(disk)[0] # Missing
          /\ \A i \in Numbers : i > Oldest => open_file(disk)[i] = Missing
          /\ Texts(open_file(disk), <<>>) = Texts(disk, <<>>)
      BY <1>1, OpenedInOrder
    <3> QED BY <1>1, <2>1, <2>5, <2>6, <3>1 DEF SinkInv, Oldest
  <2>7. CASE ~opens
    BY <1>1, <2>1, <2>5, <2>7 DEF SinkInv, Oldest
  <2> QED BY <2>6, <2>7
<1> QED BY <1>3, <1>4, <1>5, <1>6

\* The invariant holds of every reachable state.
THEOREM SinkInvariance == SinkSpec => []SinkInv
<1>1. SinkInit => SinkInv
  <2> SUFFICES ASSUME SinkInit PROVE SinkInv
    OBVIOUS
  <2>1. /\ max_files \in MaxFiles /\ disk = [i \in Numbers |-> Missing] /\ stream = <<>>
        /\ opened = FALSE /\ line = 0 /\ lost = {}
    BY DEF SinkInit
  <2>2. Missing \in Seq(Nat) /\ stream \in Seq(Nat) /\ disk \in [Numbers -> Seq(Nat)]
    BY <2>1 DEF Missing
  <2>3. Ages = 0 .. TopFile + 1 /\ \A i \in Ages : i # 0 => i - 1 \in Numbers
    BY <2>1, AgesAre
  <2> DEFINE T == Texts(disk, stream)
  <2>4. T \in [Ages -> Seq(Nat)]
    BY <2>2, TextsAre
  <2>5. \A i \in Ages : T[i] = <<>>
    <3> HIDE DEF Missing
    <3> QED BY <2>1, <2>3 DEF Texts
  <2> HIDE DEF T
  <2>6. \A i \in Ages : DOMAIN T[i] = {}
    BY <2>5
  <2>7. There(T) = {}
    BY <2>6, ThereIs
  <2>8. InOrder(T, line, lost)
    BY <2>4, <2>6, <2>7 DEF InOrder
  <2> QED BY <2>1, <2>2, <2>8 DEF SinkInv, T
<1>2. SinkInv /\ [SinkNext]_sink_vars => SinkInv'
  <2> SUFFICES ASSUME SinkInv, [SinkNext]_sink_vars PROVE SinkInv'
    OBVIOUS
  <2>1. ASSUME UNCHANGED <<max_files, disk, stream, opened, line, lost>> PROVE SinkInv'
    BY <2>1 DEF SinkInv, Oldest
  <2>2. CASE flush \/ \E opens \in BOOLEAN : Start(opens) \/ \E crash \in BOOLEAN : Restart(crash, opens)
    BY <2>2, StartInv
  <2>3. CASE \E opens \in BOOLEAN : write(opens) \/ write_rotating(opens)
    BY <2>3, WriteInv
  <2>4. CASE (\E opens \in BOOLEAN : rotate(opens)) \/ \E last \in Numbers : RotationThrows(last)
    BY <2>4, RotateInv
  <2>5. CASE TimePasses \/ \E e \in BOOLEAN : set_enabled(e)
    BY <2>1, <2>5 DEF TimePasses, set_enabled, Rest
  <2>6. CASE UNCHANGED sink_vars
    BY <2>1, <2>6 DEF sink_vars
  <2> QED BY <2>2, <2>3, <2>4, <2>5, <2>6 DEF SinkNext
<1> QED BY <1>1, <1>2, PTL DEF SinkSpec

\* Through rotations that fail half way, files that do not open, restarts and crashes the
\* files and the buffer hold the lines in the order in which they were written, and only
\* older ones than all of these are gone, but for those that a crash took: FileSink, for
\* any number of files, lines and restarts.
THEOREM LinesStayInOrder == SinkSpec => []KeptInOrder
<1>1. SinkInv => KeptInOrder
  <2> SUFFICES ASSUME SinkInv PROVE KeptInOrder
    OBVIOUS
  <2> DEFINE T == Texts(disk, stream)
  <2>1. InOrder(T, line, lost)
    BY DEF SinkInv
  <2>2. \A i \in Ages : T[i] = Text(i)
    BY DEF Texts, Text
  <2>3. There(T) = UNION {{Text(i)[x] : x \in DOMAIN Text(i)} : i \in Ages}
    <3> HIDE DEF T
    <3> QED BY <2>2 DEF There
  <2> HIDE DEF T
  <2> QED BY <2>1, <2>2, <2>3 DEF InOrder, KeptInOrder
<1> QED BY <1>1, SinkInvariance, PTL

=============================================================================
