-------------------------- MODULE MCSurveyPipeline --------------------------
(* Instances of SurveyPipeline for TLC: agents, submissions and processes  *)
(* are interchangeable where no liveness is checked.                       *)
EXTENDS SurveyPipeline, TLC

TaskBodies == [kind : Kinds, sub : Submissions]

Symmetry ==
  Permutations(Agents) \cup Permutations(Submissions) \cup Permutations(Workers)
=============================================================================
