---------------------------- MODULE MCJobRuns -------------------------------
(* Instances of JobRuns for TLC: the jobs and crashes of the .cfg.  They check liveness,
   so that they declare no symmetry. *)
EXTENDS JobRuns
=============================================================================
