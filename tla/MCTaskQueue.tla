----------------------------- MODULE MCTaskQueue ----------------------------
(* The table of tasks under two processes for TLC.  No symmetry: liveness.  *)
EXTENDS TaskQueue
=============================================================================
