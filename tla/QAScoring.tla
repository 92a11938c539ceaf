----------------------------- MODULE QAScoring -----------------------------
(***************************************************************************)
(* internal/qa/service.go as operators: the verdict on a submitted survey. *)
(* Five checks ask the database and turn what they get, a failing query    *)
(* too, into a score; ScoreSurvey weighs the scores.                       *)
(*                                                                         *)
(* A full score is Whole parts, enough for the shares of the photos to be  *)
(* whole numbers, and the overall score is in hundredths of a part.  The   *)
(* code adds floats: a sum that equals a threshold may be rounded to       *)
(* either side of it.                                                      *)
(*                                                                         *)
(* A survey is a record: response (is there a survey_responses row?),      *)
(* media (its photos), within (those inside the boundary), duplicates      *)
(* (those whose hash another job of the parcel has), span (minutes between *)
(* the first and the last photo), distance (Hausdorff metres of the walk), *)
(* failing (the queries that fail).                                        *)
(***************************************************************************)
EXTENDS Naturals

CONSTANT Whole     \* the parts of a full score

ASSUME WholeAssumption ==
    Whole \in Nat \ {0} /\ Whole \div 10 \in Nat /\ 10 * (Whole \div 10) = Whole

Tenths(n) == n * (Whole \div 10)
Share(n, photos) == n * (Whole \div photos)

\* What a check has when its query answers.  The walk's query joins
\* survey_responses: without a row it fails.
PhotosLocated(s) == "geo" \notin s.failing /\ s.media > 0
ResponseFound(s) == "response" \notin s.failing /\ s.response
PhotosCounted(s) == "count" \notin s.failing /\ s.media > 0
WalkMeasured(s) == "walk" \notin s.failing /\ s.response
TimesListed(s) == "times" \notin s.failing /\ s.media > 0
HashesCompared(s) == "hashes" \notin s.failing /\ s.media > 0

checkGeo(s) == IF PhotosLocated(s) THEN Share(s.within, s.media) ELSE 0

\* Mutant: the first case of the switch always matches.
checkCompleteness_SwitchOrder(s) ==
    CASE ~ResponseFound(s) -> 0
      [] ResponseFound(s) /\ ~PhotosCounted(s) -> Tenths(3)
      [] OTHER -> IF s.media >= 5 THEN Tenths(5)
                  ELSE IF s.media >= 3 THEN Tenths(8) ELSE Whole

checkCompleteness(s) ==
    CASE ~ResponseFound(s) -> 0
      [] ResponseFound(s) /\ ~PhotosCounted(s) -> Tenths(3)
      [] OTHER -> IF s.media >= 5 THEN Whole
                  ELSE IF s.media >= 3 THEN Tenths(8) ELSE Tenths(5)

checkBoundaryWalk(s) ==
    IF ~WalkMeasured(s) THEN 0
    ELSE IF s.distance < 50 THEN Whole
    ELSE IF s.distance < 100 THEN Tenths(5)
    ELSE 0

checkTimestamps(s) ==
    IF ~TimesListed(s) THEN Tenths(5)
    ELSE IF s.span > 120 THEN Tenths(3)
    ELSE IF s.span >= 15 THEN Whole
    ELSE IF s.span >= 5 THEN Tenths(7)
    ELSE Tenths(4)

\* Nothing to compare with is a full score.
checkDuplicates(s) ==
    IF HashesCompared(s) THEN Whole - Share(s.duplicates, s.media)
    ELSE Whole

\* The weighted sum.
Overall(s) ==
    25 * checkGeo(s) + 25 * checkCompleteness(s) + 20 * checkBoundaryWalk(s)
        + 15 * checkTimestamps(s) + 15 * checkDuplicates(s)

ThresholdAutoPass == 70 * Whole
ThresholdFlagged == 50 * Whole
ThresholdGeoReject == Tenths(5)

\* Mutant: the geo check does not force a rejection.
ScoreSurvey_NoGeoReject(s) ==
    LET overall == Overall(s)
    IN  {v \in {"passed", "flagged", "failed"} :
            \/ v = "failed" /\ overall <= ThresholdFlagged
            \/ /\ v = "flagged"
               /\ overall >= ThresholdFlagged
            \/ v = "passed" /\ overall >= ThresholdAutoPass}

\* The verdicts the code may give; a survey that passes may be flagged at
\* random.
ScoreSurvey(s) ==
    LET overall == Overall(s)
        rejected == checkGeo(s) < ThresholdGeoReject
    IN  {v \in {"passed", "flagged", "failed"} :
            \/ v = "failed" /\ (rejected \/ overall <= ThresholdFlagged)
            \/ v = "flagged" /\ ~rejected /\ overall >= ThresholdFlagged
            \/ v = "passed" /\ ~rejected /\ overall >= ThresholdAutoPass}
=============================================================================
