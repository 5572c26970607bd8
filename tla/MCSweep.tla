---------------------------- MODULE MCSweep ---------------------------------
(* Instances of Sweep for TLC: the items and sweeps of the .cfg.  They check liveness,
   so that they declare no symmetry. *)
EXTENDS Sweep
=============================================================================
