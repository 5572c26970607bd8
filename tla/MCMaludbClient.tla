---------------------------- MODULE MCMaludbClient --------------------------
(* Instances of MaludbClient for TLC: the calls and retries of the .cfg.  They check liveness,
   so that they declare no symmetry. *)
EXTENDS MaludbClient
=============================================================================
