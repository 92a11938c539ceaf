----------------------------- MODULE MCDecisions -----------------------------
(* Three agents within 25, 50 and 100 km, with a query and a list that are  *)
(* smaller than the pool or as large; surveys of up to five photos.  Agents *)
(* are interchangeable.                                                     *)
EXTENDS Decisions, TLC

Symmetry == Permutations(Pool)
=============================================================================
