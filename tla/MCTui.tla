--------------------------------- MODULE MCTui ---------------------------------
(***************************************************************************)
(* Tui for TLC: two sessions, each with a repository of its own, which is  *)
(* its tab until the operator gives it a name.                             *)
(***************************************************************************)
EXTENDS Tui

CONSTANTS s1, s2, g1, g2

MCHome == [s \in Sessions |-> IF s = s1 THEN g1 ELSE g2]
=============================================================================
