---------------------------- MODULE MCApprovals ----------------------------
(* Approvals for TLC.                                                      *)
EXTENDS Approvals, TLC

Symmetry == Permutations(Calls)
=============================================================================
