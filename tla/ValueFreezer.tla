---------------------------- MODULE ValueFreezer ----------------------------
(***************************************************************************)
(* ArgoSentry::ValueFreezer (src/src/value_freezer.cpp, .hh): a map of     *)
(* frozen values that a worker thread writes to the target again and again.*)
(*                                                                         *)
(* Grain.  A step is one critical section of mutex_, one access to an      *)
(* atomic flag, or one write to the target.  The worker copies the map and *)
(* writes from the copy without the lock, so users change the map between  *)
(* the copy and the writes.                                                *)
(*                                                                         *)
(* last_write is kept as the time since then ("age"), which stops counting *)
(* when it has reached every interval in use.                              *)
(***************************************************************************)
EXTENDS Integers, FiniteSets

CONSTANTS
  Addresses,   \* addresses that may be frozen, in the order of the map
  Values,      \* values they may be frozen at
  Other,       \* what the target itself writes
  Intervals,   \* write intervals, in ticks
  CountCap     \* bound: the write counters stop counting here

ASSUME FreezerAssumption ==
  /\ IsFiniteSet(Addresses)
  /\ Addresses \subseteq Int
  /\ Other \notin Values
  /\ Intervals \subseteq Nat
  /\ \E m \in Intervals : \A i \in Intervals : i <= m
  /\ CountCap \in Nat

MaxAge == CHOOSE m \in Intervals : \A i \in Intervals : i <= m

Ages == 0..MaxAge

VARIABLES
  frozen_values_,                 \* a function from the frozen addresses
  global_paused_, worker_running_,
  stats_,
  worker,     \* worker_loop: its place, the addresses left in this round, the copy, its age
  lifecycle,  \* "alive", "stopping" (in the destructor), "destroyed"
  memory,     \* the target's memory, external
  late        \* history: writes of an address that its entry no longer called for,
              \* since a user last changed what is wanted there

vars == <<frozen_values_, global_paused_, worker_running_, stats_, worker, lifecycle, memory, late>>

FrozenValue == [value : Values, interval : Intervals, age : Ages, paused : BOOLEAN]

NoEntries == [a \in {} |-> 0]

Init ==
  /\ frozen_values_ = NoEntries
  /\ global_paused_ = FALSE
  /\ worker_running_ = TRUE
  /\ stats_ = [active |-> 0, paused |-> 0, total |-> 0, failed |-> 0]
  /\ worker = [pc |-> "top", todo |-> {}, copy |-> NoEntries, age |-> 0]
  /\ lifecycle = "alive"
  /\ memory = [a \in Addresses |-> Other]
  /\ late = [a \in Addresses |-> 0]

Frozen == DOMAIN frozen_values_

Bump(n) == IF n < CountCap THEN n + 1 ELSE n

-----------------------------------------------------------------------------
(* Public methods *)

\* A user call that changes what is wanted at the addresses in A.
Call(A) ==
  /\ lifecycle = "alive"
  /\ late' = [a \in Addresses |-> IF a \in A THEN 0 ELSE late[a]]
  /\ UNCHANGED <<worker_running_, worker, lifecycle, memory>>

freeze_value(a, v, interval) ==
  /\ Call({a})
  /\ frozen_values_' = [b \in Frozen \cup {a} |->
       IF b = a THEN [value |-> v, interval |-> interval, age |-> 0, paused |-> FALSE]
                ELSE frozen_values_[b]]
  /\ stats_' = [stats_ EXCEPT !.active = Cardinality(Frozen \cup {a})]
  /\ UNCHANGED global_paused_

unfreeze(a) ==
  /\ Call({a})
  /\ frozen_values_' = [b \in Frozen \ {a} |-> frozen_values_[b]]
  /\ stats_' = [stats_ EXCEPT !.active = Cardinality(Frozen \ {a})]
  /\ UNCHANGED global_paused_

\* Mutant of unfreeze_all: the statistic is left as it was.
unfreeze_all_keeps_active ==
  /\ Call(Addresses)
  /\ frozen_values_' = NoEntries
  /\ UNCHANGED <<global_paused_, stats_>>

unfreeze_all ==
  /\ Call(Addresses)
  /\ frozen_values_' = NoEntries
  /\ stats_' = [stats_ EXCEPT !.active = 0]
  /\ UNCHANGED global_paused_

\* pause and resume of one address, which also recount the paused ones.
set_paused(a, paused) ==
  /\ a \in Frozen
  /\ Call({a})
  /\ frozen_values_' = [frozen_values_ EXCEPT ![a].paused = paused]
  /\ stats_' = [stats_ EXCEPT !.paused =
       Cardinality({b \in Frozen : IF b = a THEN paused ELSE frozen_values_[b].paused})]
  /\ UNCHANGED global_paused_

\* pause_all, resume_all, set_global_pause
set_global_pause(paused) ==
  /\ Call(Addresses)
  /\ global_paused_' = paused
  /\ UNCHANGED <<frozen_values_, stats_>>

reset_stats ==
  /\ Call({})
  /\ stats_' = [stats_ EXCEPT !.total = 0, !.failed = 0]
  /\ UNCHANGED <<frozen_values_, global_paused_>>

User ==
  \/ \E a \in Addresses :
       \/ \E v \in Values, interval \in Intervals : freeze_value(a, v, interval)
       \/ unfreeze(a)
       \/ \E paused \in BOOLEAN : set_paused(a, paused)
  \/ unfreeze_all
  \/ \E paused \in BOOLEAN : set_global_pause(paused)
  \/ reset_stats

-----------------------------------------------------------------------------
(* worker_loop *)

\* The loop condition and the global pause (a paused round changes nothing).
Top ==
  /\ worker.pc = "top"
  /\ \/ /\ ~worker_running_
        /\ worker' = [worker EXCEPT !.pc = "returned"]
     \/ /\ worker_running_
        /\ ~global_paused_
        /\ worker' = [worker EXCEPT !.pc = "copy"]
  /\ UNCHANGED <<frozen_values_, global_paused_, worker_running_, stats_, lifecycle, memory, late>>

\* Mutant of Due: a paused value is written as well.
DueEvenPaused(entry) == entry.age >= entry.interval

\* The entries of the copy that this round writes.
Due(entry) == ~entry.paused /\ entry.age >= entry.interval

\* Copy the map under the lock and read the clock.
Copy ==
  /\ worker.pc = "copy"
  /\ LET todo == {a \in Frozen : Due(frozen_values_[a])} IN
       worker' = [pc |-> IF todo = {} THEN "top" ELSE "write", todo |-> todo,
                  copy |-> [a \in todo |-> frozen_values_[a].value], age |-> 0]
  /\ UNCHANGED <<frozen_values_, global_paused_, worker_running_, stats_, lifecycle, memory, late>>

\* What the state calls for at address a.
Wanted(a, v) ==
  /\ a \in Frozen
  /\ frozen_values_[a].value = v
  /\ ~frozen_values_[a].paused
  /\ ~global_paused_

\* write_frozen_value: the write to the target succeeds or fails.
Write(a, success) ==
  /\ worker.pc = "write"
  /\ a \in worker.todo
  /\ \A b \in worker.todo : a <= b
  /\ memory' = IF success THEN [memory EXCEPT ![a] = worker.copy[a]] ELSE memory
  /\ late' = IF Wanted(a, worker.copy[a]) THEN late ELSE [late EXCEPT ![a] = @ + 1]
  /\ worker' = [worker EXCEPT !.pc = IF success THEN "succeeded" ELSE "failed"]
  /\ UNCHANGED <<frozen_values_, global_paused_, worker_running_, stats_, lifecycle>>

\* Mutant of Remaining: the round starts again from the address just written.
RemainingKept(a) == worker.todo

\* The addresses left in the round after a.
Remaining(a) == worker.todo \ {a}

\* Under the lock: statistics, and last_write of the entry the address has now.
Update(a) ==
  /\ worker.pc \in {"succeeded", "failed"}
  /\ a \in worker.todo
  /\ \A b \in worker.todo : a <= b
  /\ stats_' = [stats_ EXCEPT !.total = Bump(@),
                              !.failed = IF worker.pc = "failed" THEN Bump(@) ELSE @]
  /\ frozen_values_' = [b \in Frozen |->
       IF b = a THEN [frozen_values_[b] EXCEPT !.age = worker.age] ELSE frozen_values_[b]]
  /\ worker' = [worker EXCEPT !.todo = Remaining(a),
                              !.pc = IF Remaining(a) = {} THEN "top" ELSE "write"]
  /\ UNCHANGED <<global_paused_, worker_running_, lifecycle, memory, late>>

Worker ==
  \/ Top \/ Copy
  \/ \E a \in Addresses : Update(a) \/ \E success \in BOOLEAN : Write(a, success)

-----------------------------------------------------------------------------
(* ~ValueFreezer *)

StopWorker ==
  /\ lifecycle = "alive"
  /\ worker_running_' = FALSE
  /\ lifecycle' = "stopping"
  /\ UNCHANGED <<frozen_values_, global_paused_, stats_, worker, memory, late>>

Join ==
  /\ lifecycle = "stopping"
  /\ worker.pc = "returned"
  /\ lifecycle' = "destroyed"
  /\ UNCHANGED <<frozen_values_, global_paused_, worker_running_, stats_, worker, memory, late>>

\* The target process changes its own memory.
TargetWrite(a) ==
  /\ memory' = [memory EXCEPT ![a] = Other]
  /\ UNCHANGED <<frozen_values_, global_paused_, worker_running_, stats_, worker, lifecycle, late>>

Older(age) == IF age < MaxAge THEN age + 1 ELSE age

Tick ==
  /\ frozen_values_' = [a \in Frozen |-> [frozen_values_[a] EXCEPT !.age = Older(@)]]
  /\ worker' = [worker EXCEPT !.age = IF worker.todo = {} THEN @ ELSE Older(@)]
  /\ UNCHANGED <<global_paused_, worker_running_, stats_, lifecycle, memory, late>>

Next == User \/ Worker \/ StopWorker \/ Join \/ Tick \/ \E a \in Addresses : TargetWrite(a)

Spec == Init /\ [][Next]_vars

\* Time passes, the worker keeps running, ~ValueFreezer joins, and the device does
\* not fail for ever: a write that is tried again and again succeeds at some time.
FairSpec ==
  /\ Spec
  /\ WF_vars(Tick)
  /\ WF_vars(Worker)
  /\ WF_vars(Join)
  /\ \A a \in Addresses : SF_vars(Write(a, TRUE))

-----------------------------------------------------------------------------
(* Properties *)

TypeOK ==
  /\ Frozen \subseteq Addresses
  /\ frozen_values_ \in [Frozen -> FrozenValue]
  /\ global_paused_ \in BOOLEAN
  /\ worker_running_ \in BOOLEAN
  /\ stats_ \in [active : Nat, paused : Nat, total : Nat, failed : Nat]
  /\ worker.pc \in {"top", "copy", "write", "succeeded", "failed", "returned"}
  /\ worker.todo \in SUBSET Addresses
  /\ worker.age \in Ages
  /\ lifecycle \in {"alive", "stopping", "destroyed"}
  /\ memory \in [Addresses -> Values \cup {Other}]
  /\ late \in [Addresses -> Nat]

\* However long a round takes and whatever users do meanwhile, a call that takes
\* back a value (unfreeze, pause, freezing another value, pause_all) is followed
\* by at most one more write of what it took back.
LateWriteOnce == \A a \in Addresses : late[a] <= 1

\* The statistics a user reads agree with the map and with each other, however the
\* counts are kept beside it by freezes, unfreezes, resets and the worker.
StatsAgree ==
  /\ stats_.active = Cardinality(Frozen)
  /\ stats_.failed <= stats_.total

\* Under FairSpec a value that stays frozen is maintained: the target's memory holds
\* it again and again, whatever the target writes and however often writes fail,
\* unless a user keeps freezing it anew (each freeze_value restarts the interval, so
\* that one who calls it more often than the interval prevents every write); and
\* ~ValueFreezer returns, paused or not.
Progress ==
  /\ \A a \in Addresses, v \in Values :
       /\ <>[](Wanted(a, v) /\ lifecycle = "alive")
       /\ ~[]<><<\E interval \in Intervals : freeze_value(a, v, interval)>>_vars
       => []<>(memory[a] = v)
  /\ lifecycle = "stopping" ~> lifecycle = "destroyed"

\* value_freezer.hh: pause_all() is to "Temporarily pause all freezing (don't write,
\* keep values)".
PausedMeansNoWrite ==
  [][\A a \in Addresses, success \in BOOLEAN : Write(a, success) => ~global_paused_]_vars

\* value_freezer.hh: paused_values is the number of "Currently paused values".
PausedStat ==
  stats_.paused = Cardinality({a \in Frozen : frozen_values_[a].paused})

\* value_freezer.hh: unfreeze_all() is to "Unfreeze all values and stop worker".
UnfreezeAllStops == [][unfreeze_all => ~worker_running_']_vars
=============================================================================
