------------------------------- MODULE MCPtyHost -------------------------------
(* The instances of PtyHost that TLC checks: children are alike, and so are *)
(* the sessions that do not exist yet.                                     *)
EXTENDS PtyHost, TLC

MCSymmetry == Permutations(Children) \cup Permutations(Sessions \ Known)
=============================================================================
