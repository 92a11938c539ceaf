--------------------------- MODULE MCAgentPresence ---------------------------
(* Two interchangeable agents; a unit of time is two and a half minutes.   *)
EXTENDS AgentPresence, TLC

Symmetry == Permutations(Agents)
=============================================================================
