---------------------------- MODULE MCReviewQueue ----------------------------
(* Instances of ReviewQueue for TLC. *)
EXTENDS ReviewQueue, TLC

\* Scheduled scans of the default policy: record items, never act.
ReviewOnly == {[create |-> TRUE, auto |-> FALSE]}

\* A policy with contradiction.auto_resolve on.
WithAuto == {[create |-> TRUE, auto |-> TRUE]}

\* Sound for safety: no definition names a member of these sets.
Symmetry == Permutations(Request) \cup Permutations(Statement) \cup Permutations(Scan)
=============================================================================
