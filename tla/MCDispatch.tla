----------------------------- MODULE MCDispatch -----------------------------
(* One cascade over two agents for TLC.  No symmetry: liveness.             *)
EXTENDS Dispatch
=============================================================================
