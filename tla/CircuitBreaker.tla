--------------------------- MODULE CircuitBreaker ---------------------------
(***************************************************************************)
(* ArgoSentry::CircuitBreaker (src/src/circuit_breaker.cpp, .hh): threads  *)
(* that run operations through execute(), and threads that trip, reset and *)
(* configure the breaker meanwhile.                                        *)
(*                                                                         *)
(* Grain.  A step is one access to the atomic state_, one critical section *)
(* of mutex_, or the operation itself.  record_success and record_failure  *)
(* call transition_state while they hold mutex_, and transition_state      *)
(* locks it again: mutex_ is kept as a variable for their sake.  Locking a *)
(* std::mutex twice is undefined; builds hang, or throw, which in a        *)
(* noexcept function ends the process.  Both are modelled.                 *)
(*                                                                         *)
(* last_state_change is kept as the ticks since then, up to MaxTimeout.    *)
(* operation_timeout and auto_recovery are never read, nor is              *)
(* failure_window, which is here for what the header says of it.           *)
(***************************************************************************)
EXTENDS Naturals, FiniteSets

CONSTANTS
  Threads,
  Nobody,     \* no thread
  Configs,    \* values of config_: thresholds, and times in ticks
  MaxCalls,   \* bound on calls of execute
  MaxChanges  \* bound: state_transitions stops counting here

ASSUME BreakerAssumption ==
  /\ IsFiniteSet(Threads)
  /\ Nobody \notin Threads
  /\ Configs \subseteq [failure_threshold : Nat, success_threshold : Nat,
                         open_timeout : Nat, failure_window : Nat]
  /\ MaxCalls \in Nat
  /\ MaxChanges \in Nat

CircuitState == {"CLOSED", "OPEN", "HALF_OPEN"}

VARIABLES
  config_, state_, mutex_, stats_,
  pc,         \* each thread: its place
  new_state,  \* each thread: the argument of its transition_state
  then,       \* each thread: its place after transition_state
  crashed,    \* the process has been terminated
  calls,      \* history: calls of execute begun
  forgotten,  \* history: calls counted before the last reset_stats
  run,        \* history: failures recorded since the last success was
  own,        \* history: those of them recorded since state_ last changed
  spell,      \* history: ticks since the first of them
  trial,      \* history: successes recorded since state_ became HALF_OPEN
  open_for    \* history: ticks since state_ became OPEN

thread_vars == <<pc, new_state, then>>
failing == <<run, own, spell>>
history == <<calls, forgotten, failing, trial, open_for>>
vars == <<config_, state_, mutex_, stats_, thread_vars, crashed, history>>

\* A clock stops where every configuration in use has run out.
MaxTimeout ==
  LET times == {c.open_timeout : c \in Configs} \cup {c.failure_window + 1 : c \in Configs}
  IN CHOOSE m \in times : \A n \in times : n <= m

\* A default CircuitBreakerStats, at the time it is assigned.
Fresh(state) ==
  [total_calls |-> 0, successful_calls |-> 0, failed_calls |-> 0, rejected_calls |-> 0,
   state_transitions |-> 0, age |-> 0, current_state |-> state,
   consecutive_failures |-> 0, consecutive_successes |-> 0]

Init ==
  /\ config_ \in Configs
  /\ state_ = "CLOSED"
  /\ mutex_ = Nobody
  /\ stats_ = Fresh("CLOSED")
  /\ pc = [t \in Threads |-> "idle"]
  /\ new_state = [t \in Threads |-> "CLOSED"]
  /\ then = [t \in Threads |-> "idle"]
  /\ crashed = FALSE
  /\ calls = 0
  /\ forgotten = 0
  /\ run = 0
  /\ own = 0
  /\ spell = 0
  /\ trial = 0
  /\ open_for = 0

\* Thread t, at place `from`, moves to place `to`.
Move(t, from, to) ==
  /\ ~crashed
  /\ pc[t] = from
  /\ pc' = [pc EXCEPT ![t] = to]

\* A critical section that does not call transition_state.
Locked == mutex_ = Nobody /\ UNCHANGED mutex_

-----------------------------------------------------------------------------
(* transition_state *)

\* The exchange.  Nothing else happens if the state was new_state already;
\* otherwise mutex_ is locked next, by its owner if record_* called.
Exchange(t) ==
  LET changed == state_ # new_state[t] IN
  /\ Move(t, "exchange",
          IF ~changed THEN then[t] ELSE IF mutex_ = t THEN "relock" ELSE "update")
  /\ state_' = new_state[t]
  /\ mutex_' = IF mutex_ = t /\ ~changed THEN Nobody ELSE mutex_
  /\ trial' = IF changed /\ new_state[t] = "HALF_OPEN" THEN 0 ELSE trial
  /\ open_for' = IF changed /\ new_state[t] = "OPEN" THEN 0 ELSE open_for
  /\ own' = IF changed THEN 0 ELSE own
  /\ UNCHANGED <<config_, stats_, new_state, then, crashed, calls, forgotten, run, spell>>

\* Mutant of Recount: a circuit that closes keeps the count of failures.
RecountKeeps(new, stats) ==
  [stats EXCEPT !.consecutive_successes = IF new = "HALF_OPEN" THEN 0 ELSE @]

\* What a change to `new` leaves of the consecutive counts.
Recount(new, stats) ==
  [stats EXCEPT !.consecutive_failures = IF new = "CLOSED" THEN 0 ELSE @,
                !.consecutive_successes = IF new = "HALF_OPEN" THEN 0 ELSE @]

\* The statistics, under mutex_; the callback runs here too.
Update(t) ==
  /\ Move(t, "update", then[t])
  /\ Locked
  /\ stats_' = [Recount(new_state[t], stats_) EXCEPT
                  !.current_state = new_state[t],
                  !.state_transitions = IF @ < MaxChanges THEN @ + 1 ELSE @,
                  !.age = 0]
  /\ UNCHANGED <<config_, state_, new_state, then, crashed, history>>

\* The owner of mutex_ locks it again: it waits for ever, or the process ends.
Terminate(t) ==
  /\ ~crashed
  /\ pc[t] = "relock"
  /\ crashed' = TRUE
  /\ UNCHANGED <<config_, state_, mutex_, stats_, thread_vars, history>>

-----------------------------------------------------------------------------
(* execute, execute_with_result *)

\* allow_request reads the state: unless OPEN, the operation runs.
Execute(t) ==
  /\ calls < MaxCalls
  /\ Move(t, "idle", IF state_ = "OPEN" THEN "check" ELSE "operate")
  /\ calls' = calls + 1
  /\ UNCHANGED <<config_, state_, mutex_, stats_, new_state, then, crashed,
                 forgotten, failing, trial, open_for>>

\* should_attempt_reset
Elapsed == stats_.age >= config_.open_timeout

\* The circuit was OPEN: on to HALF_OPEN and the operation, or a rejection.
CheckTimeout(t) ==
  /\ Move(t, "check", IF Elapsed THEN "exchange" ELSE "reject")
  /\ Locked
  /\ new_state' = [new_state EXCEPT ![t] = IF Elapsed THEN "HALF_OPEN" ELSE @]
  /\ then' = [then EXCEPT ![t] = IF Elapsed THEN "operate" ELSE @]
  /\ UNCHANGED <<config_, state_, stats_, crashed, history>>

\* record_rejected
RecordRejected(t) ==
  /\ Move(t, "reject", "idle")
  /\ Locked
  /\ stats_' = [stats_ EXCEPT !.rejected_calls = @ + 1]
  /\ UNCHANGED <<config_, state_, new_state, then, crashed, history>>

\* The operation returns or throws.
Operate(t) ==
  /\ \E outcome \in {"success", "failure"} : Move(t, "operate", outcome)
  /\ UNCHANGED <<config_, state_, mutex_, stats_, new_state, then, crashed, history>>

\* Mutant of Conclude: mutex_ is not unlocked.
ConcludeLocked(t, from, change, new) ==
  /\ Move(t, from, IF change THEN "exchange" ELSE "idle")
  /\ mutex_ = Nobody
  /\ mutex_' = t
  /\ new_state' = [new_state EXCEPT ![t] = IF change THEN new ELSE @]
  /\ then' = [then EXCEPT ![t] = "idle"]

\* The end of record_*: unlock and return, or change the state with mutex_ held.
Conclude(t, from, change, new) ==
  /\ Move(t, from, IF change THEN "exchange" ELSE "idle")
  /\ mutex_ = Nobody
  /\ mutex_' = IF change THEN t ELSE Nobody
  /\ new_state' = [new_state EXCEPT ![t] = IF change THEN new ELSE @]
  /\ then' = [then EXCEPT ![t] = "idle"]

Succeed(stats) ==
  [stats EXCEPT !.total_calls = @ + 1, !.successful_calls = @ + 1,
                !.consecutive_successes = @ + 1, !.consecutive_failures = 0]

RecordSuccess(t) ==
  /\ stats_' = Succeed(stats_)
  /\ Conclude(t, "success",
              /\ state_ = "HALF_OPEN"
              /\ stats_'.consecutive_successes >= config_.success_threshold, "CLOSED")
  /\ run' = 0 /\ own' = 0 /\ spell' = 0
  /\ trial' = trial + 1
  /\ UNCHANGED <<config_, state_, crashed, calls, forgotten, open_for>>

Fail(stats) ==
  [stats EXCEPT !.total_calls = @ + 1, !.failed_calls = @ + 1,
                !.consecutive_failures = @ + 1, !.consecutive_successes = 0]

RecordFailure(t) ==
  /\ stats_' = Fail(stats_)
  /\ Conclude(t, "failure",
              /\ state_ \in {"CLOSED", "HALF_OPEN"}
              /\ stats_'.consecutive_failures >= config_.failure_threshold, "OPEN")
  /\ run' = run + 1
  /\ own' = own + 1
  /\ UNCHANGED <<config_, state_, crashed, calls, forgotten, spell, trial, open_for>>

-----------------------------------------------------------------------------
(* trip, half_open, reset, reset_stats, update_config *)

\* Each begins with transition_state; reset goes on to reset_stats.
Manual(t, new, next) ==
  /\ Move(t, "idle", "exchange")
  /\ new_state' = [new_state EXCEPT ![t] = new]
  /\ then' = [then EXCEPT ![t] = next]
  /\ UNCHANGED <<config_, state_, mutex_, stats_, crashed, history>>

trip(t) == Manual(t, "OPEN", "idle")
half_open(t) == Manual(t, "HALF_OPEN", "idle")
reset(t) == Manual(t, "CLOSED", "reset_stats")

\* Mutant of ResetStats: the rejected calls are kept.
ResetStatsPartly(t) ==
  /\ \E from \in {"idle", "reset_stats"} : Move(t, from, "idle")
  /\ Locked
  /\ stats_' = [Fresh(state_) EXCEPT !.rejected_calls = stats_.rejected_calls]
  /\ forgotten' = forgotten + stats_.total_calls + stats_.rejected_calls
  /\ UNCHANGED <<config_, state_, new_state, then, crashed, calls, failing, trial, open_for>>

\* reset_stats, called by itself or by reset.
ResetStats(t) ==
  /\ \E from \in {"idle", "reset_stats"} : Move(t, from, "idle")
  /\ Locked
  /\ stats_' = Fresh(state_)
  /\ forgotten' = forgotten + stats_.total_calls + stats_.rejected_calls
  /\ UNCHANGED <<config_, state_, new_state, then, crashed, calls, failing, trial, open_for>>

update_config(t, config) ==
  /\ Move(t, "idle", "idle")
  /\ Locked
  /\ config_' = config
  /\ UNCHANGED <<state_, stats_, new_state, then, crashed, history>>

-----------------------------------------------------------------------------
Older(age) == IF age < MaxTimeout THEN age + 1 ELSE age

Tick ==
  /\ ~crashed
  /\ stats_' = [stats_ EXCEPT !.age = Older(@)]
  /\ open_for' = Older(open_for)
  /\ spell' = IF run = 0 THEN 0 ELSE Older(spell)
  /\ UNCHANGED <<config_, state_, mutex_, thread_vars, crashed, calls, forgotten, run, own,
                 trial>>

\* The steps of a thread inside a call.
Step(t) ==
  \/ Exchange(t) \/ Update(t) \/ CheckTimeout(t) \/ RecordRejected(t)
  \/ Operate(t) \/ RecordSuccess(t) \/ RecordFailure(t)
  \/ pc[t] = "reset_stats" /\ ResetStats(t)

Call(t) ==
  \/ Execute(t) \/ trip(t) \/ half_open(t) \/ reset(t)
  \/ pc[t] = "idle" /\ ResetStats(t)
  \/ \E config \in Configs : update_config(t, config)

Next == Tick \/ \E t \in Threads : Step(t) \/ Call(t) \/ Terminate(t)

Spec == Init /\ [][Next]_vars

\* A thread inside a call runs on, operations end, and mutex_ is not denied for
\* ever to a thread that waits for it while it is free again and again.
FairSpec == Spec /\ \A t \in Threads : SF_vars(Step(t))

-----------------------------------------------------------------------------
(* Properties *)

TypeOK ==
  /\ config_ \in Configs
  /\ state_ \in CircuitState
  /\ mutex_ \in Threads \cup {Nobody}
  /\ stats_ \in [total_calls : Nat, successful_calls : Nat, failed_calls : Nat,
                 rejected_calls : Nat, state_transitions : Nat, age : Nat,
                 current_state : CircuitState,
                 consecutive_failures : Nat, consecutive_successes : Nat]
  /\ pc \in [Threads -> {"idle", "check", "exchange", "update", "relock", "reject",
                         "operate", "success", "failure", "reset_stats"}]
  /\ new_state \in [Threads -> CircuitState]
  /\ then \in [Threads -> {"idle", "operate", "reset_stats"}]
  /\ crashed \in BOOLEAN
  /\ calls \in Nat
  /\ forgotten \in Nat
  /\ run \in Nat
  /\ own \in Nat
  /\ spell \in Nat
  /\ trial \in Nat
  /\ open_for \in Nat

\* Threads inside execute whose call is not counted yet.
InFlight ==
  {t \in Threads : \/ pc[t] \in {"check", "reject", "operate", "success", "failure"}
                   \/ pc[t] \in {"exchange", "update"} /\ then[t] = "operate"}

\* Every call of execute is counted exactly once, as a success, a failure or a
\* rejection, whatever transitions and resets other threads make meanwhile, and
\* the total is that of the successes and failures.
CallAccounting ==
  /\ calls = forgotten + stats_.total_calls + stats_.rejected_calls + Cardinality(InFlight)
  /\ stats_.total_calls = stats_.successful_calls + stats_.failed_calls

\* A change of state_ to CLOSED whose second half, which clears the count, is to come.
Closing == \E u \in Threads : pc[u] \in {"update", "relock"} /\ new_state[u] = "CLOSED"

\* How early the circuit may open.  A thread that opens it has recorded the last of at
\* least failure_threshold failures with no success between them; and a closed circuit
\* opens for failures recorded since it was closed, unless another thread has exchanged
\* state_ and not yet cleared the count of the time before.
NoEarlyOpen ==
  [][\A t \in Threads : RecordFailure(t) /\ mutex_' = t =>
       /\ run' >= config_.failure_threshold
       /\ state_ = "CLOSED" /\ ~Closing => own' >= config_.failure_threshold]_vars

\* Only the thread that is about to lock mutex_ a second time ever keeps it from
\* the others: every other path, early return and transition releases it.
OnlyRelockBlocks ==
  mutex_ # Nobody => pc[mutex_] \in {"exchange", "relock"} /\ then[mutex_] = "idle"

\* circuit_breaker.hh: execute() runs an operation "with circuit breaker protection
\* (returns error code)"; so it returns, as the other calls do, whatever happens in
\* other threads.  They do return when the thresholds are out of reach.
CallsReturn == \A t \in Threads : pc[t] # "idle" ~> pc[t] = "idle"

\* circuit_breaker.hh: open_timeout is "How long circuit stays OPEN before
\* transitioning to HALF_OPEN".
StaysOpen ==
  [][\A t \in Threads :
       Exchange(t) /\ then[t] = "operate" /\ state_ = "OPEN"
         => open_for >= config_.open_timeout]_vars

\* circuit_breaker.hh: success_threshold is the "Number of successful calls required
\* in HALF_OPEN to close circuit".
ClosesAfterTrial ==
  [][\A t \in Threads :
       RecordSuccess(t) /\ mutex_' = t => trial' >= config_.success_threshold]_vars

\* circuit_breaker.cpp: "HALF_OPEN -> OPEN: Test failed".
TestFailureReopens ==
  [][\A t \in Threads : RecordFailure(t) /\ state_ = "HALF_OPEN" => mutex_' = t]_vars

\* circuit_breaker.cpp: "Reset consecutive counters on state change"; so a circuit that
\* has been closed opens for failures recorded since then only.
ResetOnChange ==
  [][\A t \in Threads : RecordFailure(t) /\ mutex_' = t /\ state_ = "CLOSED" =>
       own' >= config_.failure_threshold]_vars

\* circuit_breaker.hh: failure_window is the "Time window for counting failures (rolling
\* window)".  Where exactly as many failures in a row as it takes open the circuit, they
\* were recorded within one window.
WithinWindow ==
  [][\A t \in Threads :
       RecordFailure(t) /\ mutex_' = t /\ run' = config_.failure_threshold
         => spell <= config_.failure_window]_vars

\* circuit_breaker.hh: stats_.current_state is "Current state info"; it is right at
\* least when no call is in progress.
StatsState == (\A t \in Threads : pc[t] = "idle") => stats_.current_state = state_
=============================================================================
