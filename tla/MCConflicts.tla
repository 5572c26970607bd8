---------------------------- MODULE MCConflicts -------------------------------
(* An instance of Conflicts for TLC: 1 stands for the confidence 1.0.  Of the answers that
   are flagged there is one, which says more than 1.0 and is only true to JavaScript. *)
EXTENDS Conflicts, TLC

Json(contradiction, confidence) ==
  [json |-> TRUE, contradiction |-> contradiction, confidence |-> confidence]
MCAnswer ==
  {[json |-> FALSE, contradiction |-> "falsy", confidence |-> Null],
   Json("false", 1), Json("falsy", 1), Json("true", Null), Json("true", -1),
   Json("truthy", 2)}

Symmetry == Permutations(Slot) \cup Permutations(Object) \cup Permutations(Scan)
=============================================================================
