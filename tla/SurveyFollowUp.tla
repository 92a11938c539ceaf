--------------------------- MODULE SurveyFollowUp ---------------------------
(***************************************************************************)
(* What the back half of the system promises for a submitted survey,       *)
(* whatever fails on the way: it is received, scored, reported and its     *)
(* owner notified in this order, each at most once.  It may stop at any of *)
(* these stages for ever.                                                  *)
(***************************************************************************)
CONSTANT Submissions      \* surveys that agents submit

VARIABLE stage            \* how far the follow-up of each survey is

Stages == {"none", "received", "scored", "reported", "notified"}

Init == stage = [s \in Submissions |-> "none"]

Advance(s, from, to) == stage[s] = from /\ stage' = [stage EXCEPT ![s] = to]

\* The survey's response is stored.
Receive(s) == Advance(s, "none", "received")

\* A QA verdict is written on its account.
Score(s) == Advance(s, "received", "scored")

\* A report on it is recorded, after a verdict.
Report(s) == Advance(s, "scored", "reported")

\* The owner is told about that report.
Notify(s) == Advance(s, "reported", "notified")

Next == \E s \in Submissions : Receive(s) \/ Score(s) \/ Report(s) \/ Notify(s)

Spec == Init /\ [][Next]_stage
=============================================================================
