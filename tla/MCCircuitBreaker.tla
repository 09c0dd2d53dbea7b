-------------------------- MODULE MCCircuitBreaker --------------------------
(***************************************************************************)
(* Instances of CircuitBreaker for TLC.                                    *)
(***************************************************************************)
EXTENDS CircuitBreaker, TLC

Config(failures, successes, timeout) ==
  [failure_threshold |-> failures, success_threshold |-> successes, open_timeout |-> timeout,
   failure_window |-> 0]

\* Thresholds that calls reach, and a breaker that is reconfigured.
Reached == {Config(2, 2, 1), Config(1, 1, 0)}

\* One configuration: the breaker is not reconfigured.
Two == {Config(2, 2, 1)}

Symmetry == Permutations(Threads)
=============================================================================
