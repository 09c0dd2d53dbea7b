---------------------------- MODULE SelfHealing ----------------------------
(***************************************************************************)
(* SelfHealing (self_healing.cpp): retries, reconnection, health checks    *)
(* and the statistics they share, with the circuit breaker they drive.     *)
(*                                                                         *)
(* The configuration is read without its mutex at every step of a loop,    *)
(* and update_config may replace it between two steps.  Of the breaker     *)
(* there is its state, its runs of failures and successes and `hung`: a    *)
(* record that changes the state locks the breaker's mutex twice, and from *)
(* then on whoever needs that mutex waits for ever (module CircuitBreaker).*)
(***************************************************************************)
EXTENDS Integers, FiniteSets, FiniteSetsExt

CONSTANTS
  Healers,           \* threads
  Configs,           \* configurations, records of the fields used below
  DefaultConfig,     \* the one that DMA creates it with
  FailureThreshold, SuccessThreshold,  \* of the breaker
  MaxHeals           \* bound on the calls

ASSUME HealingAssumption ==
  /\ IsFiniteSet(Healers) /\ MaxHeals \in Nat
  /\ DefaultConfig \in Configs /\ \A c \in Configs : c.max_retry_attempts \in Nat

VARIABLES
  config,    \* config_
  healing,   \* stats_
  breaker,   \* the breaker
  attached,  \* circuit_breaker_ points to it
  stage,     \* where each thread is
  attempt,   \* its loop counter
  outcome,   \* what its operation did last: "ok", "code", "throw", or "none"
  heals,     \* calls begun
  sleeps,    \* history: delays slept and not forgotten by reset_stats
  later      \* history: failed checks recorded since the thread recorded its own

healing_vars == <<config, healing, breaker, attached, stage, attempt, outcome, heals, sleeps, later>>

NoHealing ==
  [successful_retries |-> 0, failed_retries |-> 0, total_retry_attempts |-> 0,
   fallback_invocations |-> 0, reconnection_attempts |-> 0, successful_reconnections |-> 0,
   failed_reconnections |-> 0, failed_health_checks |-> 0, consecutive_health_failures |-> 0]

HealingInit ==
  /\ config = DefaultConfig
  /\ healing = NoHealing
  /\ breaker = [state |-> "CLOSED", failures |-> 0, successes |-> 0, hung |-> FALSE]
  /\ attached = TRUE
  /\ stage = [t \in Healers |-> "idle"]
  /\ attempt = [t \in Healers |-> 0]
  /\ outcome = [t \in Healers |-> "none"]
  /\ heals = 0
  /\ sleeps = 0
  /\ later = [t \in Healers |-> 0]

At(t, s) == stage' = [stage EXCEPT ![t] = s]
AddTo(field, n) == healing' = [healing EXCEPT ![field] = @ + n]

-----------------------------------------------------------------------------
(* Retry policy *)

\* The n-th Fibonacci number, counted from 1, 1.
Fibonacci[n \in Nat] == IF n < 2 THEN 1 ELSE Fibonacci[n - 1] + Fibonacci[n - 2]

calculate_retry_delay(c, n) ==
  IF c.retry_policy = "NONE" THEN 0
  ELSE Min({c.max_retry_delay,
            c.initial_retry_delay *
              CASE c.retry_policy = "FIXED" -> 1
                [] c.retry_policy = "LINEAR" -> n + 1
                [] c.retry_policy = "EXPONENTIAL" -> c.backoff_multiplier ^ n
                [] c.retry_policy = "FIBONACCI" -> Fibonacci[n + 1]})

should_retry(c, n) ==
  /\ c.retry_policy # "NONE"
  /\ n < c.max_retry_attempts
  /\ ~(c.use_circuit_breaker /\ attached /\ breaker.state = "OPEN")

-----------------------------------------------------------------------------
(* The breaker, as SelfHealing uses it *)

\* transition_state outside the mutex, by a thread that goes on to stage s.
Transition(t, state, s) ==
  /\ breaker' = [breaker EXCEPT !.state = state,
                   !.failures = IF state = "CLOSED" /\ @ # state /\ ~breaker.hung THEN 0 ELSE @,
                   !.successes = IF state = "HALF_OPEN" /\ ~breaker.hung THEN 0 ELSE @]
  /\ At(t, IF breaker.hung /\ breaker.state # state THEN "stuck" ELSE s)

\* reset, which locks the mutex once more in reset_stats.
Reset(t, s) ==
  /\ breaker' = [breaker EXCEPT !.state = "CLOSED",
                   !.failures = IF breaker.hung THEN @ ELSE 0,
                   !.successes = IF breaker.hung THEN @ ELSE 0]
  /\ At(t, IF breaker.hung THEN "stuck" ELSE s)

\* record_success: enough of them close a half-open circuit, under the mutex.
RecordSuccess(t, s) ==
  LET closes == breaker.state = "HALF_OPEN" /\ breaker.successes + 1 >= SuccessThreshold IN
  /\ breaker' = IF breaker.hung THEN breaker
                ELSE [breaker EXCEPT !.failures = 0, !.successes = @ + 1,
                        !.state = IF closes THEN "CLOSED" ELSE @, !.hung = closes]
  /\ At(t, IF breaker.hung \/ closes THEN "stuck" ELSE s)

RecordFailure(t, s) ==
  LET opens == breaker.state # "OPEN" /\ breaker.failures + 1 >= FailureThreshold IN
  /\ breaker' = IF breaker.hung THEN breaker
                ELSE [breaker EXCEPT !.failures = @ + 1, !.successes = 0,
                        !.state = IF opens THEN "OPEN" ELSE @, !.hung = opens]
  /\ At(t, IF breaker.hung \/ opens THEN "stuck" ELSE s)

-----------------------------------------------------------------------------
(* execute_with_retry, and execute_with_retry_result, which runs its operation itself *)

execute_with_retry(t, with_result) ==
  /\ stage[t] = "idle" /\ heals < MaxHeals
  /\ heals' = heals + 1
  /\ attempt' = [attempt EXCEPT ![t] = 0]
  /\ outcome' = [outcome EXCEPT ![t] = "none"]
  /\ At(t, IF with_result THEN "plain" ELSE "guarded")
  /\ UNCHANGED <<attached, config, healing, breaker, sleeps, later>>

\* The head of the loop: the attempts are over, the breaker lets the operation through or
\* rejects it, or there is no breaker to ask.  An open circuit lets a call through when
\* its time has elapsed.  The stage remembers which of the two functions it is.
Attempt(t) ==
  /\ stage[t] \in {"plain", "guarded"}
  /\ IF attempt[t] >= config.max_retry_attempts
     THEN At(t, "exhausted") /\ UNCHANGED <<breaker, outcome>>
     ELSE IF stage[t] = "plain" \/ ~(config.use_circuit_breaker /\ attached)
     THEN At(t, IF stage[t] = "plain" THEN "run plain" ELSE "run") /\ UNCHANGED <<breaker, outcome>>
     ELSE \/ breaker.state # "OPEN" /\ At(t, "run guarded") /\ UNCHANGED <<breaker, outcome>>
          \/ /\ breaker.state = "OPEN" /\ ~breaker.hung
             /\ Transition(t, "HALF_OPEN", "run guarded") /\ UNCHANGED outcome
          \/ /\ breaker.state = "OPEN"
             /\ At(t, IF breaker.hung THEN "stuck" ELSE "failed")
             /\ outcome' = [outcome EXCEPT ![t] = "code"]
             /\ UNCHANGED breaker
  /\ UNCHANGED <<attached, config, healing, attempt, heals, sleeps, later>>

\* The operation succeeds, returns an error code or throws.  The breaker counts a code as a
\* success and returns success for it, and turns an exception into a code; an exception
\* that reaches the loop ends it.
Operation(t) ==
  /\ stage[t] \in {"run", "run plain", "run guarded"}
  /\ \E o \in {"ok", "code", "throw"} :
       /\ outcome' = [outcome EXCEPT ![t] = o]
       /\ IF stage[t] = "run guarded"
          THEN IF o = "throw" THEN RecordFailure(t, "failed") ELSE RecordSuccess(t, "succeeded")
          ELSE /\ UNCHANGED breaker
               /\ At(t, CASE o = "ok" -> "succeeded" [] o = "throw" -> "exhausted"
                          [] stage[t] = "run" -> "failed" [] OTHER -> "failed plain")
  /\ UNCHANGED <<attached, config, healing, attempt, heals, sleeps, later>>

\* Mutant of Failed: the attempt that is given up counts as well.
FailedCounting(t) ==
  /\ stage[t] \in {"failed", "failed plain"}
  /\ IF should_retry(config, attempt[t])
     THEN At(t, IF stage[t] = "failed" THEN "sleeping" ELSE "sleeping plain") /\ UNCHANGED attempt
     ELSE At(t, "exhausted") /\ attempt' = [attempt EXCEPT ![t] = @ + 1]
  /\ UNCHANGED <<attached, config, healing, breaker, outcome, heals, sleeps, later>>

Failed(t) ==
  /\ stage[t] \in {"failed", "failed plain"}
  /\ At(t, IF ~should_retry(config, attempt[t]) THEN "exhausted"
           ELSE IF stage[t] = "failed" THEN "sleeping" ELSE "sleeping plain")
  /\ UNCHANGED <<attached, config, healing, breaker, attempt, outcome, heals, sleeps, later>>

\* The delay is over, after the last attempt as after the others.
Sleep(t) ==
  /\ stage[t] \in {"sleeping", "sleeping plain"}
  /\ calculate_retry_delay(config, attempt[t]) >= 0
  /\ attempt' = [attempt EXCEPT ![t] = @ + 1]
  /\ sleeps' = sleeps + 1
  /\ At(t, IF stage[t] = "sleeping" THEN "guarded" ELSE "plain")
  /\ UNCHANGED <<attached, config, healing, breaker, outcome, heals, later>>

\* A success is counted, then the breaker is reset if that is asked.
Succeeded(t) ==
  /\ stage[t] = "succeeded"
  /\ healing' = [healing EXCEPT !.successful_retries = @ + 1,
                                !.total_retry_attempts = @ + attempt[t]]
  /\ attempt' = [attempt EXCEPT ![t] = 0]
  /\ At(t, IF config.auto_reset_on_success THEN "resetting" ELSE "idle")
  /\ UNCHANGED <<attached, config, breaker, outcome, heals, sleeps, later>>

Resetting(t) ==
  /\ stage[t] = "resetting"
  /\ IF attached THEN Reset(t, "idle") ELSE At(t, "idle") /\ UNCHANGED breaker
  /\ UNCHANGED <<attached, config, healing, attempt, outcome, heals, sleeps, later>>

\* The failure is counted, and as exhausted whatever ended the loop; then the fallback
\* runs and may throw.
Exhausted(t) ==
  /\ stage[t] = "exhausted"
  /\ healing' = [healing EXCEPT !.failed_retries = @ + 1,
                                !.total_retry_attempts = @ + attempt[t]]
  /\ attempt' = [attempt EXCEPT ![t] = 0]
  /\ At(t, IF config.enable_fallback THEN "fallback" ELSE "idle")
  /\ UNCHANGED <<attached, config, breaker, outcome, heals, sleeps, later>>

invoke_fallback(t) ==
  /\ stage[t] = "fallback"
  /\ AddTo("fallback_invocations", 1) \/ UNCHANGED healing
  /\ At(t, "idle")
  /\ UNCHANGED <<attached, config, breaker, attempt, outcome, heals, sleeps, later>>

-----------------------------------------------------------------------------
(* attempt_reconnect *)

attempt_reconnect(t) ==
  /\ stage[t] = "idle" /\ heals < MaxHeals /\ config.auto_reconnect
  /\ heals' = heals + 1
  /\ AddTo("reconnection_attempts", 1)
  /\ At(t, "reconnecting")
  /\ UNCHANGED <<attached, config, breaker, attempt, outcome, sleeps, later>>

\* Its loop: reconnect_func succeeds at one of the attempts, or they run out, or it throws.
Reconnect(t) ==
  /\ stage[t] = "reconnecting"
  /\ \/ /\ config.max_reconnect_attempts > 0
        /\ AddTo("successful_reconnections", 1)
        /\ At(t, "resetting")
     \/ /\ AddTo("failed_reconnections", 1)
        /\ At(t, "idle")
  /\ UNCHANGED <<attached, config, breaker, attempt, outcome, heals, sleeps, later>>

-----------------------------------------------------------------------------
(* perform_health_check *)

perform_health_check(t) ==
  /\ stage[t] = "idle" /\ heals < MaxHeals /\ config.enable_health_checks
  /\ heals' = heals + 1
  /\ At(t, "checking")
  /\ UNCHANGED <<attached, config, healing, breaker, attempt, outcome, sleeps, later>>

\* Mutant of RecordCheck: a check that passes leaves the run of failures as it is.
RecordCheckKeeping(t) ==
  /\ stage[t] = "checking"
  /\ \E healthy \in BOOLEAN :
       /\ healing' = IF healthy THEN healing
                     ELSE [healing EXCEPT !.failed_health_checks = @ + 1,
                                          !.consecutive_health_failures = @ + 1]
       /\ outcome' = [outcome EXCEPT ![t] = IF healthy THEN "ok" ELSE "code"]
       /\ later' = [x \in Healers |-> IF x = t THEN 0 ELSE IF healthy THEN later[x] ELSE later[x] + 1]
  /\ At(t, "judging")
  /\ UNCHANGED <<attached, config, breaker, attempt, heals, sleeps>>

\* The function has run, and thrown or told; the result is recorded under the mutex.
RecordCheck(t) ==
  /\ stage[t] = "checking"
  /\ \E healthy \in BOOLEAN :
       /\ healing' = IF healthy THEN [healing EXCEPT !.consecutive_health_failures = 0]
                     ELSE [healing EXCEPT !.failed_health_checks = @ + 1,
                                          !.consecutive_health_failures = @ + 1]
       /\ outcome' = [outcome EXCEPT ![t] = IF healthy THEN "ok" ELSE "code"]
       /\ later' = [x \in Healers |-> IF x = t THEN 0 ELSE IF healthy THEN later[x] ELSE later[x] + 1]
  /\ At(t, "judging")
  /\ UNCHANGED <<attached, config, breaker, attempt, heals, sleeps>>

\* The run of failures, read without the mutex, trips the breaker.
Trips == healing.consecutive_health_failures >= config.health_check_failures_before_reconnect

Judge(t) ==
  /\ stage[t] = "judging"
  /\ IF Trips /\ attached THEN Transition(t, "OPEN", "idle") ELSE At(t, "idle") /\ UNCHANGED breaker
  /\ UNCHANGED <<attached, config, healing, attempt, outcome, heals, sleeps, later>>

-----------------------------------------------------------------------------
reset_stats ==
  /\ healing # NoHealing
  /\ healing' = NoHealing
  /\ sleeps' = MapThenSumSet(LAMBDA t : attempt[t], Healers)
  /\ UNCHANGED <<attached, config, breaker, stage, attempt, outcome, heals, later>>

update_config(new_config) ==
  /\ config' = new_config /\ config # new_config
  /\ UNCHANGED <<attached, healing, breaker, stage, attempt, outcome, heals, sleeps, later>>

\* A thread that is about to call the breaker has read the pointer already.
set_circuit_breaker(cb) ==
  /\ attached' = cb /\ attached # cb
  /\ UNCHANGED <<config, healing, breaker, stage, attempt, outcome, heals, sleeps, later>>

HealingNext ==
  \/ \E t \in Healers :
       \/ \E with_result \in BOOLEAN : execute_with_retry(t, with_result)
       \/ Attempt(t) \/ Operation(t) \/ Failed(t) \/ Sleep(t)
       \/ Succeeded(t) \/ Resetting(t) \/ Exhausted(t) \/ invoke_fallback(t)
       \/ attempt_reconnect(t) \/ Reconnect(t)
       \/ perform_health_check(t) \/ RecordCheck(t) \/ Judge(t)
  \/ reset_stats
  \/ \E c \in Configs : update_config(c)
  \/ \E cb \in BOOLEAN : set_circuit_breaker(cb)

HealingSpec == HealingInit /\ [][HealingNext]_healing_vars

-----------------------------------------------------------------------------
\* total_retry_attempts is the number of delays slept: what the calls that ended have
\* slept is counted once, what those under way have slept is still in their counters.
\* The attempt that succeeds or that ends a call is not in it.
RetriesCounted ==
  sleeps = healing.total_retry_attempts + MapThenSumSet(LAMBDA t : attempt[t], Healers)

\* A check that passed trips the breaker only after other checks have failed, often
\* enough for that by themselves, since it recorded its own result.
HealthyTrips ==
  \A t \in Healers :
    stage[t] = "judging" /\ outcome[t] = "ok" => healing.consecutive_health_failures <= later[t]

\* execute_with_retry returns success only if the operation succeeded.
ErrorsReported ==
  \A t \in Healers : stage[t] = "succeeded" => outcome[t] = "ok"
=============================================================================
