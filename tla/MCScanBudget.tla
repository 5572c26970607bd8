----------------------------- MODULE MCScanBudget -----------------------------
(* Instances of ScanBudget for TLC. *)
EXTENDS ScanBudget, TLC

Symmetry == Permutations(Scan)
=============================================================================
