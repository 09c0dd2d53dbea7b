------------------------------ MODULE MCLogger ------------------------------
(***************************************************************************)
(* Instances of Logger for TLC.                                            *)
(***************************************************************************)
EXTENDS Logger, TLC

CONSTANTS c1, c2, s1

\* One sink, which takes level 1 and nothing below it.
MCOneSinkLevel == s1 :> 1

Symmetry == Permutations(Clients)
=============================================================================
