------------------------------ MODULE MCReads ------------------------------
(***************************************************************************)
(* The read path and what is built on it, on small instances.  The parts   *)
(* share no state, so a behaviour exercises one of them: `part` says       *)
(* which, from the start.                                                  *)
(***************************************************************************)
EXTENDS DMAReads, SelfHealing, PointerChains, Batch, Differ

VARIABLE part

\* A configuration like DMA's own, and one without breaker, reset and delays that grow.
MCDefaultConfig ==
  [retry_policy |-> "EXPONENTIAL", max_retry_attempts |-> 2, initial_retry_delay |-> 1,
   backoff_multiplier |-> 2, max_retry_delay |-> 3, use_circuit_breaker |-> TRUE,
   auto_reset_on_success |-> TRUE, enable_fallback |-> TRUE, auto_reconnect |-> TRUE,
   max_reconnect_attempts |-> 2, enable_health_checks |-> TRUE,
   health_check_failures_before_reconnect |-> 1]
MCConfigs ==
  {MCDefaultConfig, [MCDefaultConfig EXCEPT !.use_circuit_breaker = FALSE,
                       !.retry_policy = "FIBONACCI", !.auto_reset_on_success = FALSE]}

\* Both names are read back as the same one.
MCSavedName == [n \in Names |-> CHOOSE m \in Names : TRUE]

MCRequestLists == {<<>>, <<1>>, <<2, 1>>, <<3, 1, 0>>, <<0, 0>>}
MCRangeEnds == {<<0, 5>>, <<1, 4>>, <<2, 3>>}

DiffConfig(min, max, group, threshold, results) ==
  [min_change_size |-> min, max_change_size |-> max, group_adjacent |-> group,
   adjacency_threshold |-> threshold, max_results |-> results]
MCDefaultDiff == DiffConfig(1, 3, TRUE, 1, 3)
MCDiffConfigs == {MCDefaultDiff, DiffConfig(2, 4, TRUE, 1, 2), DiffConfig(1, 2, FALSE, 1, 4)}
MCContents == [0 .. Region - 1 -> {0, 1}]
MCSearchValues == {<<>>, <<0, 0>>, <<1>>}
MCFilterLists == {<<>>, <<0, 4>>}

MCSymmetry == Permutations(Readers) \cup Permutations(Healers) \cup Permutations(Resolvers)

Init == part \in {"read", "heal", "chain", "batch", "diff"}
        /\ ReadsInit /\ HealingInit /\ ChainInit /\ BatchInit /\ DifferInit

Next ==
  /\ UNCHANGED part
  /\ \/ /\ part = "read" /\ ReadsNext
        /\ UNCHANGED <<healing_vars, chain_vars, batch_vars, diff_vars>>
     \/ /\ part = "heal" /\ HealingNext
        /\ UNCHANGED <<reads_vars, chain_vars, batch_vars, diff_vars>>
     \/ /\ part = "chain" /\ ChainNext
        /\ UNCHANGED <<reads_vars, healing_vars, batch_vars, diff_vars>>
     \/ /\ part = "batch" /\ BatchNext
        /\ UNCHANGED <<reads_vars, healing_vars, chain_vars, diff_vars>>
     \/ /\ part = "diff" /\ DifferNext
        /\ UNCHANGED <<reads_vars, healing_vars, chain_vars, batch_vars>>

Spec == Init /\ [][Next]_<<part, reads_vars, healing_vars, chain_vars, batch_vars, diff_vars>>
=============================================================================
