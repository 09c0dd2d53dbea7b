---------------------------- MODULE RateLimiter -----------------------------
(***************************************************************************)
(* ArgoSentry::RateLimiter (src/src/rate_limiter.cpp, rate_limiter.hh):    *)
(* threads ask for bytes and are put to sleep when the current one-second  *)
(* window has none left.                                                   *)
(*                                                                         *)
(* Time is a counter of ticks, a second being WindowTicks of them; it      *)
(* passes between any two steps.  A step is what happens between two       *)
(* readings of the clock, so mutex_ is modelled: it is held from Check to  *)
(* Decide, and released while a thread sleeps.                             *)
(***************************************************************************)
EXTENDS Integers, FiniteSetsExt

CONSTANTS
  Threads,
  Nobody,        \* no thread: mutex_ is free
  WindowTicks,   \* ticks in a second
  Requests,      \* sizes that wait_if_needed is called with
  Limits,        \* values set_limit is called with, 0 being "unlimited"
  InitialLimit,  \* the constructor's argument
  MaxNow,        \* bound on time
  MaxBytes       \* bound on total_bytes_consumed_ when a request is made

ASSUME RateAssumption ==
  /\ Nobody \notin Threads
  /\ IsFiniteSet(Threads) /\ IsFiniteSet(Requests) /\ IsFiniteSet(Limits)
  /\ WindowTicks \in Nat \ {0}
  /\ Requests \subseteq Nat \ {0}
  /\ Limits \subseteq Nat
  /\ InitialLimit \in Limits
  /\ MaxNow \in Nat
  /\ MaxBytes \in Nat

VARIABLES
  now,
  bytes_per_second_limit_, bytes_consumed_, last_reset_,
  total_bytes_consumed_, total_waits_, total_wait_time_ms_,
  mutex_,     \* the thread that holds it across steps
  pc, bytes,  \* each thread: its place in wait_if_needed and its argument
  wait_time,  \* each thread: how long it decided to sleep
  asleep,     \* each thread: since when it sleeps
  admitted    \* history: bytes granted at each tick since set_limit or reset
              \* was last called

limiter_vars == <<now, bytes_per_second_limit_, bytes_consumed_, last_reset_,
          total_bytes_consumed_, total_waits_, total_wait_time_ms_,
          mutex_, pc, bytes, wait_time, asleep, admitted>>

NothingYet == [i \in 0..MaxNow |-> 0]

LimiterInit ==
  /\ now = 0
  /\ bytes_per_second_limit_ = InitialLimit
  /\ bytes_consumed_ = 0
  /\ last_reset_ = 0
  /\ total_bytes_consumed_ = 0
  /\ total_waits_ = 0
  /\ total_wait_time_ms_ = 0
  /\ mutex_ = Nobody
  /\ pc = [t \in Threads |-> "idle"]
  /\ bytes = [t \in Threads |-> 0]
  /\ wait_time = [t \in Threads |-> 0]
  /\ asleep = [t \in Threads |-> 0]
  /\ admitted = NothingYet

-----------------------------------------------------------------------------
(* wait_if_needed *)

\* The fast path reads the limit without the mutex.
Call(t, b) ==
  /\ pc[t] = "idle"
  /\ total_bytes_consumed_ + b <= MaxBytes
  /\ bytes_per_second_limit_ # 0
  /\ pc' = [pc EXCEPT ![t] = "lock"]
  /\ bytes' = [bytes EXCEPT ![t] = b]
  /\ UNCHANGED <<now, bytes_per_second_limit_, bytes_consumed_, last_reset_,
                 total_bytes_consumed_, total_waits_, total_wait_time_ms_,
                 mutex_, wait_time, asleep, admitted>>

\* The last lines: charge the request to a counter that stood at `current`, return.
Consume(t, current) ==
  /\ bytes_consumed_' = current + bytes[t]
  /\ total_bytes_consumed_' = total_bytes_consumed_ + bytes[t]
  /\ admitted' = [admitted EXCEPT ![now] = @ + bytes[t]]
  /\ pc' = [pc EXCEPT ![t] = "idle"]

\* check_and_reset_window: is the window over?
WindowOver == now - last_reset_ >= WindowTicks

\* What check_and_reset_window leaves in last_reset_ ...
WindowStart == IF WindowOver THEN now ELSE last_reset_

\* ... and in bytes_consumed_.
Current == IF WindowOver THEN 0 ELSE bytes_consumed_

\* Mutant of Exceeds: the request itself is not counted.
ExceedsAlready(b) == Current > bytes_per_second_limit_

Exceeds(b) == Current + b > bytes_per_second_limit_

\* Lock, start a new window if the old one is over, and grant the request if it
\* fits; otherwise go on to read the clock again, with the mutex.
Check(t) ==
  /\ pc[t] = "lock"
  /\ mutex_ = Nobody
  /\ last_reset_' = WindowStart
  /\ \/ /\ ~Exceeds(bytes[t])
        /\ Consume(t, Current)
        /\ UNCHANGED mutex_
     \/ /\ Exceeds(bytes[t])
        /\ bytes_consumed_' = Current
        /\ pc' = [pc EXCEPT ![t] = "decide"]
        /\ mutex_' = t
        /\ UNCHANGED <<total_bytes_consumed_, admitted>>
  /\ UNCHANGED <<now, bytes_per_second_limit_, total_waits_, total_wait_time_ms_,
                 bytes, wait_time, asleep>>

\* seconds(1) - elapsed
WaitTime == WindowTicks - (now - last_reset_)

\* Still inside the second: unlock and sleep for the rest of it.
Decide(t) ==
  /\ pc[t] = "decide"
  /\ WaitTime > 0
  /\ wait_time' = [wait_time EXCEPT ![t] = WaitTime]
  /\ asleep' = [asleep EXCEPT ![t] = now]
  /\ pc' = [pc EXCEPT ![t] = "sleep"]
  /\ mutex_' = Nobody
  /\ UNCHANGED <<now, bytes_per_second_limit_, bytes_consumed_, last_reset_,
                 total_bytes_consumed_, total_waits_, total_wait_time_ms_, bytes, admitted>>

\* The second ended between the two readings of the clock: just reset.
DecideLate(t) ==
  /\ pc[t] = "decide"
  /\ WaitTime <= 0
  /\ last_reset_' = now
  /\ Consume(t, 0)
  /\ mutex_' = Nobody
  /\ UNCHANGED <<now, bytes_per_second_limit_, total_waits_, total_wait_time_ms_,
                 bytes, wait_time, asleep>>

\* Mutant of AfterWait: the counter is not reset after the sleep.
AfterWaitKeeps == bytes_consumed_

\* The counter a woken thread charges its request to: always a fresh one.
AfterWait == 0

\* Lock again after the sleep and reset, without looking at the window again.
Wake(t) ==
  /\ pc[t] = "sleep"
  /\ now - asleep[t] >= wait_time[t]
  /\ mutex_ = Nobody
  /\ last_reset_' = now
  /\ total_waits_' = total_waits_ + 1
  /\ total_wait_time_ms_' = total_wait_time_ms_ + wait_time[t]
  /\ Consume(t, AfterWait)
  /\ UNCHANGED <<now, bytes_per_second_limit_, mutex_, bytes, wait_time, asleep>>

Step(t) == Check(t) \/ Decide(t) \/ DecideLate(t) \/ Wake(t)

-----------------------------------------------------------------------------
set_limit(bytes_per_sec) ==
  /\ mutex_ = Nobody
  /\ bytes_per_second_limit_' = bytes_per_sec
  /\ bytes_consumed_' = 0
  /\ last_reset_' = now
  /\ admitted' = NothingYet
  /\ UNCHANGED <<now, total_bytes_consumed_, total_waits_, total_wait_time_ms_,
                 mutex_, pc, bytes, wait_time, asleep>>

reset ==
  /\ mutex_ = Nobody
  /\ bytes_consumed_' = 0
  /\ last_reset_' = now
  /\ admitted' = NothingYet
  /\ UNCHANGED <<now, bytes_per_second_limit_, total_bytes_consumed_, total_waits_,
                 total_wait_time_ms_, mutex_, pc, bytes, wait_time, asleep>>

ClockTick ==
  /\ now < MaxNow
  /\ now' = now + 1
  /\ UNCHANGED <<bytes_per_second_limit_, bytes_consumed_, last_reset_,
                 total_bytes_consumed_, total_waits_, total_wait_time_ms_,
                 mutex_, pc, bytes, wait_time, asleep, admitted>>

LimiterNext ==
  \/ \E t \in Threads, b \in Requests : Call(t, b)
  \/ \E t \in Threads : Step(t)
  \/ \E limit \in Limits : set_limit(limit)
  \/ reset
  \/ ClockTick

LimiterSpec == LimiterInit /\ [][LimiterNext]_limiter_vars

-----------------------------------------------------------------------------
(* Properties *)

LimiterTypeOK ==
  /\ now \in 0..MaxNow
  /\ bytes_per_second_limit_ \in Limits
  /\ bytes_consumed_ \in Nat
  /\ last_reset_ \in 0..now
  /\ total_bytes_consumed_ \in Nat
  /\ total_waits_ \in Nat
  /\ total_wait_time_ms_ \in Nat
  /\ mutex_ \in Threads \cup {Nobody}
  /\ pc \in [Threads -> {"idle", "lock", "decide", "sleep"}]
  /\ bytes \in [Threads -> Nat]
  /\ wait_time \in [Threads -> Nat]
  /\ asleep \in [Threads -> 0..MaxNow]
  /\ admitted \in [0..MaxNow -> Nat]

\* The counter never shows more than the limit, except when it shows one request
\* that is larger than the limit on its own; true under any interleaving with
\* set_limit, reset and late wakeups, because every path that skips the test
\* starts from zero.
CounterBound ==
  bytes_consumed_ <= bytes_per_second_limit_ \/ bytes_consumed_ \in Requests

\* No thread decides to sleep for more than a second, or not at all, and so
\* total_wait_time_ms_ is at most a second per recorded wait and at least one tick,
\* whatever set_limit and reset do to the window of a thread that sleeps.
WaitStats ==
  /\ \A t \in Threads : pc[t] = "sleep" => wait_time[t] \in 1..WindowTicks
  /\ total_wait_time_ms_ \in total_waits_..(total_waits_ * WindowTicks)

\* The counter and the waits of the limiter stay within their bounds.
LimiterBounds == CounterBound /\ WaitStats

\* Bytes granted in the second that ends with tick i.
GrantedInSecond(i) == MapThenSumSet(LAMBDA j : admitted[j], {j \in 0..i : j > i - WindowTicks})

\* The largest grant a window can make.
WindowMax == Max(Limits \cup Requests)

\* Any second contains at most two windows' worth of bytes, the usual bound of a
\* fixed-window limiter, and one request more for every further thread: a thread
\* that wakes starts a window of its own and charges its request to it.  set_limit
\* and reset start the count anew, and threads asleep at that time do no worse.
WaiterOverrun ==
  \A i \in 0..now : GrantedInSecond(i) <= (Cardinality(Threads) + 1) * WindowMax

\* rate_limiter.hh: "Maximum bytes per second", read as mildly as possible: no
\* single instant grants more than a second's bytes.
InstantBound == \A i \in 0..now : admitted[i] <= WindowMax
=============================================================================
