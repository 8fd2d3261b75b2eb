----------------------------- MODULE MCApprovals -----------------------------
(* The instance of Approvals that TLC checks. *)
EXTENDS Approvals, TLC

OperatorSymmetry == Permutations(Operators)
=============================================================================
