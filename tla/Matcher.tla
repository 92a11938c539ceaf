------------------------------ MODULE Matcher ------------------------------
(***************************************************************************)
(* internal/job/matcher.go as operators: which agents a job is offered to, *)
(* and in which order.  The query, the sort and equal scores leave choices *)
(* open, so an operator that the code could answer in several ways is the  *)
(* set of its answers.                                                     *)
(*                                                                         *)
(* A pool maps each agent that may be matched (see AgentPresence) to its   *)
(* row and its load.  Distances are metres, scores thousandths of the      *)
(* composite score.  Ratings, completion and freshness enter the score     *)
(* only as their sum, the merit.                                           *)
(*                                                                         *)
(* The query computes kilometres as a float8, and the row they are read    *)
(* into is an int32: pgx reads a float8 into an integer only if nothing is *)
(* lost, and any other row makes the whole query an error.  A query that   *)
(* must fail has no answer here, and neither has a search that meets one.  *)
(***************************************************************************)
EXTENDS Integers, FiniteSets, Sequences

CONSTANTS
    Limit,          \* rows per query, 50
    MaxCandidates   \* maxCandidates, 5

ASSUME MatcherAssumptions ==
    /\ Limit \in Nat \ {0}
    /\ MaxCandidates \in Nat \ {0}

maxConcurrentJobs == 3
expansionRadii == <<25000, 50000, 100000>>
Km == 1000

tierMinimum(surveyType) ==
    CASE surveyType = "detailed_survey" -> {"experienced", "senior"}
      [] surveyType = "premium_inspection" -> {"senior"}
      [] OTHER -> {"basic", "experienced", "senior"}

Least(m, n) == IF m < n THEN m ELSE n

\* Is the distance of a row in kilometres an integer?
Scans(agent) == agent.distance % Km = 0

\* SELECT ... ORDER BY distance_km LIMIT: any Limit nearest ones in reach,
\* if all of them can be scanned.
FindMatchableAgents(pool, radius, excluded) ==
    LET reach == {a \in DOMAIN pool \ excluded : pool[a].distance <= radius}
    IN  {rows \in SUBSET reach :
            /\ Cardinality(rows) = Least(Limit, Cardinality(reach))
            /\ \A a \in rows, b \in reach \ rows :
                   pool[a].distance <= pool[b].distance
            /\ \A a \in rows : Scans(pool[a])}

DistanceKm(agent) == agent.distance \div Km

\* Mutant: the farther, the better.
CompositeScore_Farther(agent, maxDistKm) ==
    (400 * DistanceKm(agent)) \div maxDistKm + agent.merit

\* Distance counts for 0.40 of the score, relative to the radius searched.
CompositeScore(agent, maxDistKm) ==
    (400 * (maxDistKm - DistanceKm(agent))) \div maxDistKm + agent.merit

\* An agent whose jobs cannot be counted is skipped, as if it had too many.
Eligible(agent, surveyType) ==
    /\ agent.tier \in tierMinimum(surveyType)
    /\ agent.load < maxConcurrentJobs

\* The eligible rows by descending score, as many as MaxCandidates.
scoreAndFilter(pool, rows, surveyType, maxDistKm) ==
    LET eligible == {a \in rows : Eligible(pool[a], surveyType)}
        size == Least(MaxCandidates, Cardinality(eligible))
        score(a) == CompositeScore(pool[a], maxDistKm)
    IN  {list \in [1..size -> eligible] :
            /\ \A i, j \in 1..size : i < j =>
                   list[i] # list[j] /\ score(list[i]) >= score(list[j])
            /\ \A a \in eligible, i \in 1..size :
                   a \in {list[j] : j \in 1..size} \/ score(list[i]) >= score(a)}

\* What one round of the expansion may find.
Round(i, pool, surveyType, excluded) ==
    UNION {scoreAndFilter(pool, rows, surveyType, expansionRadii[i] \div Km) :
           rows \in FindMatchableAgents(pool, expansionRadii[i], excluded)}

\* Mutant: a round that had rows but no candidate ends the search.
FindCandidatesAtLocation_Stops(pool, surveyType, excluded) ==
    {list \in UNION {Round(i, pool, surveyType, excluded) : i \in 1..3} :
        \E i \in 1..3 :
            /\ list \in Round(i, pool, surveyType, excluded)
            /\ \A j \in 1..(i - 1) :
                   {} \in FindMatchableAgents(pool, expansionRadii[j], excluded)}

\* The first round with a candidate; the empty list when no round has one;
\* nothing when the query of one of these rounds must fail.
FindCandidatesAtLocation(pool, surveyType, excluded) ==
    {list \in UNION {Round(i, pool, surveyType, excluded) : i \in 1..3} :
        \E i \in 1..3 :
            /\ list \in Round(i, pool, surveyType, excluded)
            /\ list # << >> \/ i = 3
            /\ \A j \in 1..(i - 1) : << >> \in Round(j, pool, surveyType, excluded)}
=============================================================================
