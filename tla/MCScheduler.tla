---------------------------- MODULE MCScheduler ----------------------------
(* Instances of Scheduler for TLC.  No symmetry: parcels are ordered, and  *)
(* the runs have a liveness property.                                      *)
EXTENDS Scheduler
=============================================================================
