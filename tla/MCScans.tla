------------------------------ MODULE MCScans ------------------------------
(***************************************************************************)
(* The scanners on small instances.  They share no state, so a behaviour   *)
(* exercises one of them: `part` says which, from the start.               *)
(***************************************************************************)
EXTENDS Signatures, ParallelScanner, AsyncScans, EnhancedScanner, PatternLibrary

VARIABLE part

\* Tokens that the parsers treat differently, alone and in pairs.
MCTexts ==
  LET T == {<<"?", "?">>, <<"0", "1">>, <<"0", "0">>} IN
  {<<>>, <<<<"*">>>>, <<<<"g">>>>, <<<<"1", "0", "1">>>>, <<<<"1">>, <<"?">>>>, <<<<"1", "g">>>>}
    \cup {<<a>> : a \in {<<"0", "1">>, <<"0">>}} \cup {<<a, b>> : a, b \in T}

\* All contents of 0 and 1, and some with unreadable addresses.
MCMemories ==
  [0 .. Top -> {0, 1}]
    \cup {[a \in 0 .. Top |-> IF a \in holes THEN Unreadable ELSE a % 2] :
            holes \in {{1}, {2}, {Top}, {Top - 2, Top - 1, Top}}}

\* None, one and two chunks, with a remainder; one that wraps.
MCRanges == {<<2, 2>>, <<1, 4>>, <<2, 7>>, <<5, 3>>}

MCScanMemory == <<1, 0, 1, 0, 0, 1, 0, 0, Hole, 0, 1>>

MCScanTexts ==
  {<<>>, <<<<"0", "1">>>>, <<<<"0", "0">>, <<"0", "1">>>>,
   <<<<"?", "?">>, <<"0", "0">>, <<"?", "?">>>>, [i \in 1 .. 6 |-> <<"?", "?">>]}

MCLibraryTexts == {<<>>, <<<<"?">>, <<"0", "1">>>>, <<<<"1", "g">>>>, <<<<"1">>>>, <<<<"*">>>>}
MCHeadOf == [n \in {"x|1", "x|g"} |-> "x"]
MCRestOf == [n \in {"x|1", "x|g"} |-> IF n = "x|1" THEN <<<<"0", "1">>>> ELSE <<<<"g">>>>]
MCLine(name, text) == [name |-> name, text |-> text, full |-> TRUE]
MCHandWritten ==
  {<<MCLine("x", <<<<"?">>>>), MCLine("#x", <<>>), MCLine("y", <<<<"0", "1">>>>)>>,
   <<[name |-> "y", text |-> <<>>, full |-> FALSE], MCLine("x", <<>>), MCLine("x|g", <<<<"?">>>>)>>,
   <<MCLine("y", <<>>), MCLine("x", <<<<"1">>>>)>>}

MCSymmetry == Permutations(Scans) \cup Permutations(Searchers)

Init == part \in {"signature", "parallel", "async", "enhanced", "library"}
        /\ SignatureInit /\ ParallelInit /\ AsyncInit /\ EnhancedInit /\ LibraryInit

Next ==
  /\ UNCHANGED part
  /\ \/ /\ part = "signature" /\ SignatureNext
        /\ UNCHANGED <<parallel_vars, async_vars, enhanced_vars, library_vars>>
     \/ /\ part = "parallel" /\ ParallelNext
        /\ UNCHANGED <<signature_vars, async_vars, enhanced_vars, library_vars>>
     \/ /\ part = "async" /\ AsyncNext
        /\ UNCHANGED <<signature_vars, parallel_vars, enhanced_vars, library_vars>>
     \/ /\ part = "enhanced" /\ EnhancedNext
        /\ UNCHANGED <<signature_vars, parallel_vars, async_vars, library_vars>>
     \/ /\ part = "library" /\ LibraryNext
        /\ UNCHANGED <<signature_vars, parallel_vars, async_vars, enhanced_vars>>

Spec == Init /\ [][Next]_<<part, signature_vars, parallel_vars, async_vars, enhanced_vars, library_vars>>
=============================================================================
