----------------------------- MODULE MCToolkit -----------------------------
(***************************************************************************)
(* What a DMA object is surrounded with, on small instances.  The parts    *)
(* share no state, so a behaviour exercises one of them: `part` says       *)
(* which, from the start.                                                  *)
(***************************************************************************)
EXTENDS DMAObject, Offsets, FileSink, Metrics, Scatter, MockDMA, TLC

VARIABLE part

MCSymmetry == Permutations(Callers) \cup Permutations(Recorders) \cup Permutations(ScatterHandles)

Init ==
  /\ part \in {"object", "offsets", "sink", "metrics", "scatter", "mock"}
  /\ ObjectInit /\ OffsetsInit /\ SinkInit /\ MetricsInit /\ ScatterInit /\ MockInit
  /\ part # "offsets" => \A n \in OffsetNames : file[n] = NoOffset
  /\ part # "sink" => policy = "SIZE" /\ max_files = 1

Next ==
  /\ UNCHANGED part
  /\ \/ /\ part = "object" /\ ObjectNext
        /\ UNCHANGED <<offsets_vars, sink_vars, metrics_vars, scatter_vars, mock_vars>>
     \/ /\ part = "offsets" /\ OffsetsNext
        /\ UNCHANGED <<object_vars, sink_vars, metrics_vars, scatter_vars, mock_vars>>
     \/ /\ part = "sink" /\ SinkNext
        /\ UNCHANGED <<object_vars, offsets_vars, metrics_vars, scatter_vars, mock_vars>>
     \/ /\ part = "metrics" /\ MetricsNext
        /\ UNCHANGED <<object_vars, offsets_vars, sink_vars, scatter_vars, mock_vars>>
     \/ /\ part = "scatter" /\ ScatterNext
        /\ UNCHANGED <<object_vars, offsets_vars, sink_vars, metrics_vars, mock_vars>>
     \/ /\ part = "mock" /\ MockNext
        /\ UNCHANGED <<object_vars, offsets_vars, sink_vars, metrics_vars, scatter_vars>>

Spec == Init /\ [][Next]_<<part, object_vars, offsets_vars, sink_vars, metrics_vars,
                           scatter_vars, mock_vars>>
=============================================================================
