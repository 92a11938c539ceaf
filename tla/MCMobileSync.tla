--------------------------- MODULE MCMobileSync ---------------------------
(* Instances of MobileSync for TLC.  No symmetry: photos are ordered, and  *)
(* the runs have a liveness property.                                      *)
EXTENDS MobileSync
=============================================================================
