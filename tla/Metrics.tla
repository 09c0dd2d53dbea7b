------------------------------ MODULE Metrics ------------------------------
(***************************************************************************)
(* MetricsCollector (metrics.cpp) as all threads of a DMA object use it:   *)
(* separate atomic counters, raised one after the other by record_read,    *)
(* record_cache_hit and record_scan, extremes kept by compare-and-exchange *)
(* loops, a reset that stores the counters one by one, and a getter that   *)
(* loads two of them.                                                      *)
(***************************************************************************)
EXTENDS Integers, FiniteSets

CONSTANTS
  Recorders,     \* threads
  Durations,     \* durations of a read
  Huge,          \* UINT64_MAX, above every duration
  MaxRecords     \* bound on the records

ASSUME MetricsAssumption ==
  /\ IsFiniteSet(Recorders)
  /\ Durations \subseteq Nat /\ Huge \in Nat /\ \A d \in Durations : d < Huge
  /\ MaxRecords \in Nat

VARIABLES
  count,      \* total_signatures_scanned, signatures_found, signatures_not_found,
              \* total_read_operations, failed_read_operations, cache_hits
  extreme,    \* min_read_time_us and max_read_time_us
  at,         \* where each thread is
  time,       \* the duration it records
  seen,       \* the extreme it loaded last
  clearing,   \* whether reset is under way
  records,
  clean,      \* history: whether its read began after the last reset
  timed,      \* history: the durations of such reads that are over
  torn,       \* history: scans that the last reset ran beside
  succeeded,  \* history: reads that succeeded since
  beside,     \* history: reads that the last reset ran beside
  asked,      \* what get_successful_reads loaded first, or Unasked
  successful  \* and what it answered, or Unasked

collector ==
  <<count, extreme, at, time, seen, clearing, records, clean, timed, torn, succeeded, beside>>
asking == <<asked, successful>>
metrics_vars == <<collector, asking>>

Scanning == {"scanned", "found", "missed"}
Reading == {"total", "failed", "hits"}
Unasked == -1

MetricsInit ==
  /\ count = [c \in Scanning \cup Reading |-> 0]
  /\ extreme = [min |-> Huge, max |-> 0]
  /\ at = [r \in Recorders |-> "idle"]
  /\ time = [r \in Recorders |-> 0]
  /\ seen = [r \in Recorders |-> 0]
  /\ clearing = "no"
  /\ records = 0
  /\ clean = [r \in Recorders |-> FALSE]
  /\ timed = {} /\ torn = 0
  /\ succeeded = 0 /\ beside = 0
  /\ asked = Unasked /\ successful = Unasked

Step(r, s) == at' = [at EXCEPT ![r] = s]
\* Scans that are counted, and their outcome not yet.
Half == {r \in Recorders : at[r] \in {"found", "missed"}}
\* Reads that are counted, and have failed or succeeded, which is counted yet.
Failing == {r \in Recorders : at[r] = "failed"}
Succeeding == {r \in Recorders : at[r] \in {"load_min", "swap_min", "load_max", "swap_max", "timed"}}
Raise(c) == count' = [count EXCEPT ![c] = @ + 1]

-----------------------------------------------------------------------------
\* The operation is counted first, whatever has come of it.
CountRead(r) ==
  /\ at[r] = "idle" /\ records < MaxRecords
  /\ records' = records + 1
  /\ Raise("total")
  /\ beside' = IF clearing = "no" THEN beside ELSE beside + 1

\* record_read of a success: its sums are left out, the extremes come last.
record_read(r, d) ==
  /\ CountRead(r)
  /\ time' = [time EXCEPT ![r] = d]
  /\ Step(r, "load_min")
  /\ clean' = [clean EXCEPT ![r] = clearing = "no"]
  /\ succeeded' = IF clearing = "no" THEN succeeded + 1 ELSE succeeded
  /\ UNCHANGED <<extreme, seen, clearing, timed, torn>>

\* record_read of a failure.
record_failed_read(r) ==
  /\ CountRead(r)
  /\ Step(r, "failed")
  /\ UNCHANGED <<extreme, time, seen, clearing, clean, timed, torn, succeeded>>

LoadMin(r) ==
  /\ at[r] = "load_min"
  /\ seen' = [seen EXCEPT ![r] = extreme.min]
  /\ Step(r, IF time[r] < extreme.min THEN "swap_min" ELSE "load_max")
  /\ UNCHANGED <<count, extreme, time, clearing, records, clean, timed, torn, succeeded, beside>>

\* Mutant of SwapMin: the minimum is stored, whatever it has become.
SwapMinBlindly(r) ==
  /\ at[r] = "swap_min"
  /\ extreme' = [extreme EXCEPT !.min = time[r]]
  /\ Step(r, "load_max")
  /\ UNCHANGED <<count, time, seen, clearing, records, clean, timed, torn, succeeded, beside>>

\* compare_exchange_weak: it may fail for no reason, and then loads the value anew.
SwapMin(r) ==
  /\ at[r] = "swap_min"
  /\ \/ /\ extreme.min = seen[r]
        /\ extreme' = [extreme EXCEPT !.min = time[r]]
        /\ Step(r, "load_max") /\ UNCHANGED seen
     \/ /\ seen' = [seen EXCEPT ![r] = extreme.min]
        /\ Step(r, IF time[r] < extreme.min THEN "swap_min" ELSE "load_max")
        /\ UNCHANGED extreme
  /\ UNCHANGED <<count, time, clearing, records, clean, timed, torn, succeeded, beside>>

LoadMax(r) ==
  /\ at[r] = "load_max"
  /\ seen' = [seen EXCEPT ![r] = extreme.max]
  /\ Step(r, IF time[r] > extreme.max THEN "swap_max" ELSE "timed")
  /\ UNCHANGED <<count, extreme, time, clearing, records, clean, timed, torn, succeeded, beside>>

SwapMax(r) ==
  /\ at[r] = "swap_max"
  /\ \/ /\ extreme.max = seen[r]
        /\ extreme' = [extreme EXCEPT !.max = time[r]]
        /\ Step(r, "timed") /\ UNCHANGED seen
     \/ /\ seen' = [seen EXCEPT ![r] = extreme.max]
        /\ Step(r, IF time[r] > extreme.max THEN "swap_max" ELSE "timed")
        /\ UNCHANGED extreme
  /\ UNCHANGED <<count, time, clearing, records, clean, timed, torn, succeeded, beside>>

\* The call returns; if the read was answered by the cache, record_cache_hit follows.
Recorded(r) ==
  /\ at[r] = "timed"
  /\ UNCHANGED count \/ Raise("hits")
  /\ Step(r, "idle")
  /\ timed' = IF clean[r] THEN timed \cup {time[r]} ELSE timed
  /\ clean' = [clean EXCEPT ![r] = FALSE]
  /\ time' = [time EXCEPT ![r] = 0]
  /\ seen' = [seen EXCEPT ![r] = 0]
  /\ UNCHANGED <<extreme, clearing, records, torn, succeeded, beside>>

\* record_scan: the scan is counted, and then its outcome.
record_scan(r) ==
  /\ at[r] = "idle" /\ records < MaxRecords
  /\ records' = records + 1
  /\ Raise("scanned")
  /\ \E outcome \in {"found", "missed"} : Step(r, outcome)
  /\ torn' = IF clearing = "no" THEN torn ELSE torn + 1
  /\ UNCHANGED <<extreme, time, seen, clearing, clean, timed, succeeded, beside>>

\* Of a scan, or of a read that failed.
RecordOutcome(r) ==
  /\ at[r] \in {"found", "missed", "failed"}
  /\ Raise(at[r])
  /\ Step(r, "idle")
  /\ UNCHANGED <<extreme, time, seen, clearing, records, clean, timed, torn, succeeded, beside>>

-----------------------------------------------------------------------------
Clear(from, to) ==
  /\ clearing = from /\ clearing' = to
  /\ UNCHANGED <<at, time, seen, records>>

\* reset, in the order of its stores; the calls that it runs beside are noted.
reset ==
  /\ Clear("no", "total")
  /\ clean' = [r \in Recorders |-> FALSE] /\ timed' = {}
  /\ torn' = Cardinality(Half)
  /\ succeeded' = 0 /\ beside' = Cardinality(Failing) + Cardinality(Succeeding)
  /\ UNCHANGED <<count, extreme>>
ResetMin ==
  /\ Clear("min", "max") /\ extreme' = [extreme EXCEPT !.min = Huge]
  /\ UNCHANGED <<count, clean, timed, torn, succeeded, beside>>
ResetMax ==
  /\ Clear("max", "scanned") /\ extreme' = [extreme EXCEPT !.max = 0]
  /\ UNCHANGED <<count, clean, timed, torn, succeeded, beside>>
ResetCount(c, next) ==
  /\ Clear(c, next) /\ count' = [count EXCEPT ![c] = 0]
  /\ UNCHANGED <<extreme, clean, timed, torn, succeeded, beside>>

\* get_successful_reads: two loads, and the difference of unsigned numbers.
get_successful_reads ==
  /\ asked = Unasked
  /\ asked' = count["total"] /\ successful' = Unasked
LoadFailed ==
  /\ asked # Unasked
  /\ successful' = (asked - count["failed"]) % (Huge + 1) /\ asked' = Unasked

Recording ==
  \E r \in Recorders :
    \/ \E d \in Durations : record_read(r, d)
    \/ record_failed_read(r)
    \/ LoadMin(r) \/ SwapMin(r) \/ LoadMax(r) \/ SwapMax(r) \/ Recorded(r)
    \/ record_scan(r) \/ RecordOutcome(r)

Resetting ==
  \/ reset \/ ResetCount("total", "failed") \/ ResetCount("failed", "min")
  \/ ResetMin \/ ResetMax
  \/ ResetCount("scanned", "found") \/ ResetCount("found", "missed")
  \/ ResetCount("missed", "hits") \/ ResetCount("hits", "no")

MetricsNext == (Recording \/ Resetting) /\ UNCHANGED asking

MetricsSpec == MetricsInit /\ [][MetricsNext]_metrics_vars

\* With a thread that asks; it disturbs nobody.
Asking == (get_successful_reads \/ LoadFailed) /\ UNCHANGED collector
AskedSpec == MetricsInit /\ [][MetricsNext \/ Asking]_metrics_vars

-----------------------------------------------------------------------------
\* Of the reads that a reset did not run beside, none is below the minimum or above the
\* maximum: no thread's mark is beside to another's.
ExtremesKept == \A d \in timed : extreme.min <= d /\ d <= extreme.max

\* Every scan has one outcome or has it to come, but for those a reset ran beside, which
\* may be counted by half.
ScansAddUp ==
  clearing \in {"hits", "no"} =>
    LET outcomes == count.found + count.missed + Cardinality(Half) IN
    count.scanned - outcomes \in - torn .. torn

\* Between resets the operations are the reads that failed and those that succeeded, and
\* of these no more are hits than are over: but for the reads a reset ran beside, some of
\* whose counts came before its stores and some after.
ReadsAddUp ==
  clearing = "no" =>
    LET failed == count["failed"] + Cardinality(Failing) IN
    /\ count["total"] - (failed + succeeded) \in - beside .. beside
    /\ count["hits"] + Cardinality(Succeeding) <= succeeded + beside

MetricsAgree == ExtremesKept /\ ScansAddUp /\ ReadsAddUp

\* metrics.hh says "Thread-safe metrics structure", and get_successful_reads answers a
\* number of reads.  Checked, and violated: a read fails between the two loads, or a reset
\* has cleared one counter and not the other, and the difference wraps.
SuccessesFit == successful <= MaxRecords
=============================================================================
