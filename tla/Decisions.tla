----------------------------- MODULE Decisions -----------------------------
(***************************************************************************)
(* The two decisions the backend takes by computing: whom to offer a job   *)
(* (Matcher) and whether a survey is good (QAScoring).  A behaviour is one *)
(* call: its input is any of a bounded set, its answer any the code may    *)
(* give, and the properties say what the answers have in common.           *)
(***************************************************************************)
EXTENDS Matcher, QAScoring

CONSTANTS
    Pool,           \* the agents of the pool
    SurveyTypes,    \* of the jobs
    Distances, Merits, Tiers, Loads,    \* of an agent
    MaxMedia,       \* bound: photos of a survey
    Spans, Walks    \* minutes and metres of a survey

ASSUME PoolAssumption ==
    /\ IsFiniteSet(Pool)
    /\ Distances \subseteq Nat /\ Merits \subseteq Nat
ASSUME MediaAssumption ==
    /\ MaxMedia \in Nat
    /\ \A n \in 1..MaxMedia : Whole \div n \in Nat /\ n * (Whole \div n) = Whole

VARIABLES call, answer

decisionVars == <<call, answer>>

None == [kind |-> "none"]
Failed == [kind |-> "error"]
Rows == [distance: Distances, merit: Merits, tier: Tiers, load: Loads]
Queries == {"geo", "response", "count", "walk", "times", "hashes"}

Surveys ==
    {s \in [kind: {"score"}, response: BOOLEAN, media: 0..MaxMedia,
            within: 0..MaxMedia, duplicates: 0..MaxMedia, span: Spans,
            distance: Walks, failing: {{}} \cup {{q} : q \in Queries}] :
        s.within <= s.media /\ s.duplicates <= s.media}

Jobs == [kind: {"match"}, pool: [Pool -> Rows], surveyType: SurveyTypes,
         excluded: {{}} \cup {{a} : a \in Pool}]

DecisionInit == call \in Jobs \cup Surveys /\ answer = None

Match ==
    /\ call.kind = "match" /\ answer = None
    /\ \/ \E list \in FindCandidatesAtLocation(call.pool, call.surveyType, call.excluded) :
            answer' = [list |-> list]
       \/ answer' = Failed         \* a query fails, because of a row or otherwise
    /\ UNCHANGED call

Score ==
    /\ call.kind = "score" /\ answer = None
    /\ \E v \in ScoreSurvey(call) : answer' = [verdict |-> v]
    /\ UNCHANGED call

Decide == Match \/ Score

DecisionSpec == DecisionInit /\ [][Decide]_decisionVars

-----------------------------------------------------------------------------

Matched == call.kind = "match" /\ answer \notin {None, Failed}
Scored == call.kind = "score" /\ answer # None
Listed == {answer.list[i] : i \in DOMAIN answer.list}
Everywhere == 100000
Serviceable(radius) ==
    {a \in Pool \ call.excluded :
        Eligible(call.pool[a], call.surveyType) /\ call.pool[a].distance <= radius}

Better(x, y) ==
    /\ x.distance <= y.distance
    /\ x.merit >= y.merit
    /\ x.distance < y.distance \/ x.merit > y.merit

\* While the pool fits into one query, an agent that is nowhere worse than
\* another and nearer, or of more merit, is listed before it, in whichever
\* round they are found and wherever the list is cut.
BetterAgentFirst ==
    Matched /\ Cardinality(Pool) <= Limit =>
        \A j \in DOMAIN answer.list, a \in Serviceable(Everywhere) :
            Better(call.pool[a], call.pool[answer.list[j]]) =>
                \E i \in 1..(j - 1) : answer.list[i] = a

\* While the pool fits into one query, an answer without a candidate means
\* that nobody within 100 km is eligible: no agent is overlooked because of
\* the others that a round found and could not use.  (A query that fails is an
\* error, and not such an answer.)
NobodyIsOverlooked ==
    Matched /\ Cardinality(Pool) <= Limit /\ Listed = {} =>
        Serviceable(Everywhere) = {}

OneMorePhoto(s) ==
    [kind |-> s.kind, response |-> s.response, media |-> s.media + 1,
     within |-> s.within + 1, duplicates |-> s.duplicates, span |-> s.span,
     distance |-> s.distance, failing |-> s.failing]

\* One more photo that is inside the boundary, new, and within the same span
\* of time never makes the verdict worse.
MoreEvidenceNeverHurts ==
    Scored /\ call.media \in 1..(MaxMedia - 1) =>
        LET more == ScoreSurvey(OneMorePhoto(call))
        IN  /\ answer.verdict = "passed" => "passed" \in more
            /\ "failed" \in more => "failed" \in ScoreSurvey(call)

\* A survey passes only with a response and with photos of which half are
\* inside the boundary, whichever of the queries fails.
PassedHasEvidence ==
    Scored /\ answer.verdict = "passed" =>
        /\ call.response
        /\ call.media > 0 /\ 2 * call.within >= call.media
=============================================================================
