------------------------------ MODULE Failures ------------------------------
(***************************************************************************)
(* What may go wrong in an instance: the two switches that the job         *)
(* handlers, the task queue and the pipeline composed of them share.       *)
(***************************************************************************)
CONSTANTS
  Faults,      \* may a database call, an upload or a task handler fail?
  CanCrash     \* may a server process stop at any point?

ASSUME SwitchAssumption == Faults \in BOOLEAN /\ CanCrash \in BOOLEAN
=============================================================================
