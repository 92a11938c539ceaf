-------------------------- MODULE Decisions_proofs --------------------------
(***************************************************************************)
(* Proofs about whom the matcher sees (AgentPresence), and what the two    *)
(* computed decisions answer (Decisions).                                  *)
(*                                                                         *)
(* AgentPresence, for every set of agents and all times that satisfy       *)
(* TimesAssumption: neither property is inductive; a position ages with    *)
(* the row that holds it, and an agent is in the pool because its row is   *)
(* younger than the flusher's timer is old.                                *)
(*                                                                         *)
(* Decisions, for every finite pool, all whole distances and merits, any   *)
(* limit and length of the list, and surveys of any number of photos: a    *)
(* behaviour is one call, so the invariant (AnswerInv) says only that the  *)
(* answer is one of those the operators allow; the rest is arithmetic of   *)
(* the scores and the sizes of finite sets.                                *)
(***************************************************************************)
EXTENDS AgentPresence, Decisions, FiniteSetTheorems, TLAPS

\* A row inside the window was stamped by a flush that copied a live reading,
\* and both have aged together since.
AgeInv == \A a \in Agents : located[a] < Window => taken[a] <= TTL + located[a]

\* An agent that reports in every unit has a live reading.
ReadingInv == \A a \in Agents : steady[a] > 0 => reading[a] <= 1

\* An agent that reported before the ticker last fired, and met no error, was
\* copied by the flush that began then, or is about to be.
FlushInv ==
    \A a \in Agents :
        steady[a] > FlushInterval - timer /\ a \notin failed =>
            \/ located[a] <= FlushInterval - timer
            \/ /\ a \in todo
               /\ timer = FlushInterval
               /\ steady[a] = Proven => located[a] <= FlushInterval

IInv == TypeOK /\ AgeInv /\ ReadingInv /\ FlushInv

-----------------------------------------------------------------------------

\* The constants' derived bounds are natural numbers.
LEMMA Bounds ==
    /\ TTL \in Nat /\ FlushInterval \in Nat /\ Window \in Nat
    /\ TTL > 1 /\ FlushInterval > 0 /\ FlushInterval < Window
    /\ NoReading = TTL + 1 /\ Outdated = TTL + Window
    /\ Proven = FlushInterval + 1
BY TimesAssumption DEF NoReading, Outdated, Proven

\* Every initial state satisfies the invariant.
LEMMA InitIInv == Init => IInv
BY Bounds DEF Init, IInv, TypeOK, AgeInv, ReadingInv, FlushInv

-----------------------------------------------------------------------------
(* One lemma for each action that moves an age.                            *)

\* A new reading is young.
LEMMA UpdateLocationKeeps ==
    ASSUME IInv, NEW a \in Agents, UpdateLocation(a)
    PROVE  IInv'
BY Bounds DEF IInv, TypeOK, AgeInv, ReadingInv, FlushInv, UpdateLocation,
              table, flusher

\* The reading that expires is not a steady reporter's.
LEMMA ExpireKeeps ==
    ASSUME IInv, NEW a \in Agents, Expire(a)
    PROVE  IInv'
BY Bounds DEF IInv, TypeOK, AgeInv, ReadingInv, FlushInv, Expire,
              table, flusher

\* Availability has no age.
LEMMA UpdateAvailabilityKeeps ==
    ASSUME IInv, NEW a \in Agents, UpdateAvailability(a)
    PROVE  IInv'
BY Bounds DEF IInv, TypeOK, AgeInv, ReadingInv, FlushInv, UpdateAvailability,
              redis, flusher

\* The scan finds the readings of all steady reporters, or fails for all.
LEMMA StartFlushKeeps ==
    ASSUME IInv, StartFlush
    PROVE  IInv'
<1> USE Bounds DEF StartFlush, redis, table
<1>1. TypeOK' /\ AgeInv' /\ ReadingInv'
  BY DEF IInv, TypeOK, AgeInv, ReadingInv
<1>2. ASSUME NEW a \in Agents, (steady[a] > FlushInterval - timer)',
             (a \notin failed)'
      PROVE  /\ a \in todo'
             /\ timer' = FlushInterval
             /\ (steady[a] = Proven => located[a] <= FlushInterval)'
  <2>1. steady[a] \in 0..Proven /\ located[a] \in 0..Window /\ reading[a] \in 0..NoReading
    BY DEF IInv, TypeOK
  <2>2. timer = 0 /\ timer' = FlushInterval
    OBVIOUS
  <2>3. steady[a] > 0 /\ reading[a] <= 1
    BY <1>2, <2>1, <2>2 DEF IInv, ReadingInv
  <2>4. a \in todo' /\ a \notin failed
    BY <1>2, <2>1, <2>3
  <2>5. steady[a] = Proven => located[a] <= FlushInterval
    BY <2>1, <2>2, <2>4 DEF IInv, FlushInv
  <2> QED
    BY <2>2, <2>4, <2>5
<1> QED
  BY <1>1, <1>2 DEF IInv, FlushInv

\* A key is copied and stamped, or its agent fails, or it was not steady.
LEMMA FlushKeyKeeps ==
    ASSUME IInv, NEW a \in Agents, FlushKey(a)
    PROVE  IInv'
<1> USE Bounds DEF FlushKey, UpdateAgentLocation, redis, table
<1>1. TypeOK'
  BY DEF IInv, TypeOK
<1>2. AgeInv' /\ ReadingInv'
  BY DEF IInv, TypeOK, AgeInv, ReadingInv
<1>3. FlushInv'
  <2> SUFFICES ASSUME NEW b \in Agents, (steady[b] > FlushInterval - timer)',
                      (b \notin failed)'
               PROVE  (\/ located[b] <= FlushInterval - timer
                       \/ /\ b \in todo
                          /\ timer = FlushInterval
                          /\ steady[b] = Proven => located[b] <= FlushInterval)'
    BY DEF FlushInv
  <2>1. /\ timer \in 0..FlushInterval /\ steady[b] \in 0..Proven
        /\ located \in [Agents -> 0..Window] /\ reading[b] \in 0..NoReading
    BY DEF IInv, TypeOK
  <2>2. CASE b = a
    <3>1. reading[a] <= 1
      BY <2>1, <2>2 DEF IInv, ReadingInv
    <3>2. located' = [located EXCEPT ![a] = 0]
      BY <3>1, <2>2, <2>1
    <3> QED
      BY <3>2, <2>1, <2>2
  <2>3. CASE b # a
    <3>1. located'[b] = located[b] /\ (b \in todo <=> b \in todo') /\ b \notin failed
      BY <2>1, <2>3
    <3> QED
      BY <3>1, <2>1 DEF IInv, FlushInv
  <2> QED
    BY <2>2, <2>3
<1> QED
  BY <1>1, <1>2, <1>3 DEF IInv

\* Ages grow together, and no faster than the timer runs down.
LEMMA PassKeeps ==
    ASSUME IInv, Pass
    PROVE  IInv'
<1> USE Bounds DEF Pass
<1>1. ASSUME NEW a \in Agents
      PROVE  /\ reading[a] \in 0..NoReading /\ located[a] \in 0..Window
             /\ taken[a] \in 0..Outdated /\ steady[a] \in 0..Proven
             /\ timer \in 1..FlushInterval
             /\ reading'[a] = AtMost(NoReading, reading[a] + 1)
             /\ located'[a] = AtMost(Window, located[a] + 1)
             /\ taken'[a] = AtMost(Outdated, taken[a] + 1)
             /\ steady'[a] = IF reading[a] = 0 THEN AtMost(Proven, steady[a] + 1) ELSE 0
  BY DEF IInv, TypeOK
<1>2. ASSUME NEW a \in Agents
      PROVE  /\ reading'[a] \in 0..NoReading /\ located'[a] \in 0..Window
             /\ taken'[a] \in 0..Outdated /\ steady'[a] \in 0..Proven
  BY <1>1 DEF AtMost
<1>3. TypeOK'
  BY <1>2 DEF IInv, TypeOK
<1>4. AgeInv'
  <2> SUFFICES ASSUME NEW a \in Agents, located'[a] < Window
               PROVE  taken'[a] <= TTL + located'[a]
    BY DEF AgeInv
  <2>1. located'[a] = located[a] + 1 /\ located[a] < Window
    BY <1>1 DEF AtMost
  <2>2. taken[a] <= TTL + located[a]
    BY <2>1 DEF IInv, AgeInv
  <2> QED
    BY <1>1, <2>1, <2>2 DEF AtMost
<1>5. ReadingInv'
  BY <1>1 DEF ReadingInv, AtMost
<1>6. FlushInv'
  <2> SUFFICES ASSUME NEW a \in Agents, steady'[a] > FlushInterval - timer',
                      a \notin failed'
               PROVE  located'[a] <= FlushInterval - timer'
    BY DEF FlushInv
  <2>1. timer' = timer - 1 /\ todo = {} /\ a \notin failed
    BY <1>1
  <2>2. steady[a] > FlushInterval - timer
    BY <1>1, <2>1 DEF AtMost
  <2>3. located[a] <= FlushInterval - timer
    BY <2>1, <2>2 DEF IInv, FlushInv
  <2> QED
    BY <1>1, <2>1, <2>3 DEF AtMost
<1> QED
  BY <1>3, <1>4, <1>5, <1>6 DEF IInv

\* A restarted process knows no steady reporter.
LEMMA RestartKeeps ==
    ASSUME IInv, Restart
    PROVE  IInv'
BY Bounds DEF IInv, TypeOK, AgeInv, ReadingInv, FlushInv, Restart, redis, table

-----------------------------------------------------------------------------

\* The invariant holds in every state.
THEOREM Invariance == Spec => []IInv
<1>1. IInv /\ [Next]_vars => IInv'
  <2> SUFFICES ASSUME IInv, [Next]_vars PROVE IInv'
    OBVIOUS
  <2>1. ASSUME NEW a \in Agents, UpdateLocation(a) PROVE IInv'
    BY <2>1, UpdateLocationKeeps
  <2>2. ASSUME NEW a \in Agents, UpdateAvailability(a) PROVE IInv'
    BY <2>2, UpdateAvailabilityKeeps
  <2>3. ASSUME NEW a \in Agents, Expire(a) PROVE IInv'
    BY <2>3, ExpireKeeps
  <2>4. ASSUME NEW a \in Agents, FlushKey(a) PROVE IInv'
    BY <2>4, FlushKeyKeeps
  <2>5. CASE UNCHANGED vars
    BY <2>5 DEF IInv, TypeOK, AgeInv, ReadingInv, FlushInv, vars, redis, table, flusher
  <2> QED
    BY <2>1, <2>2, <2>3, <2>4, <2>5, StartFlushKeeps, PassKeeps, RestartKeeps DEF Next
<1> QED
  BY InitIInv, <1>1, PTL DEF Spec

\* The readings, the rows and the flusher's variables keep their types.
THEOREM PresenceTypeCorrect == Spec => []TypeOK
<1>1. IInv => TypeOK
  BY DEF IInv
<1> QED
  BY Invariance, <1>1, PTL

\* No agent is matched on a position that is TTL + Window old, for all times
\* to live, windows and intervals: internal/agent/location.go and
\* FindMatchableAgents together.
THEOREM MatchedPositionIsRecent == Spec => []PositionIsRecent
<1>1. IInv => PositionIsRecent
  <2> SUFFICES ASSUME IInv, NEW a \in Matchable PROVE taken[a] < Outdated
    BY DEF PositionIsRecent
  <2>1. a \in Agents /\ located[a] < Window
    BY DEF Matchable
  <2>2. taken[a] \in 0..Outdated /\ located[a] \in 0..Window
    BY <2>1 DEF IInv, TypeOK
  <2> QED
    BY <2>1, <2>2, Bounds DEF IInv, AgeInv
<1> QED
  BY Invariance, <1>1, PTL

\* An agent that reports for longer than a flush interval and met no error is
\* in the pool, whenever the interval is shorter than the matcher's window.
THEOREM ReporterInPool == Spec => []ReporterIsMatchable
<1>1. IInv => ReporterIsMatchable
  <2> SUFFICES ASSUME IInv, NEW a \in Agents,
                      online[a], steady[a] = Proven, a \notin failed
               PROVE  a \in Matchable
    BY DEF ReporterIsMatchable
  <2>1. timer \in 0..FlushInterval /\ located[a] \in 0..Window
    BY DEF IInv, TypeOK
  <2>2. located[a] <= FlushInterval
    BY <2>1, Bounds DEF IInv, FlushInv
  <2> QED
    BY <2>1, <2>2, Bounds DEF Matchable
<1> QED
  BY Invariance, <1>1, PTL

-----------------------------------------------------------------------------
(* Decisions: what was called, and an answer the code may give to it.      *)

AnswerInv ==
    /\ call \in Jobs \cup Surveys
    /\ \/ answer = None
       \/ /\ call.kind = "match"
          /\ \/ \E list \in FindCandidatesAtLocation(call.pool, call.surveyType, call.excluded) :
                    answer = [list |-> list]
             \/ answer = Failed
       \/ /\ call.kind = "score"
          /\ \E v \in ScoreSurvey(call) : answer = [verdict |-> v]

\* A call is answered as the operators of Matcher and QAScoring say.
LEMMA AnswersAreTheCodes == DecisionSpec => []AnswerInv
<1>1. DecisionInit => AnswerInv
  BY DEF DecisionInit, AnswerInv
<1>2. AnswerInv /\ [Decide]_decisionVars => AnswerInv'
  <2> SUFFICES ASSUME AnswerInv, [Decide]_decisionVars PROVE AnswerInv'
    OBVIOUS
  <2>1. CASE Match
    BY <2>1 DEF Match, AnswerInv
  <2>2. CASE Score
    BY <2>2 DEF Score, AnswerInv
  <2>3. CASE UNCHANGED decisionVars
    BY <2>3 DEF decisionVars, AnswerInv
  <2> QED
    BY <2>1, <2>2, <2>3 DEF Decide
<1> QED
  BY <1>1, <1>2, PTL DEF DecisionSpec

\* The input of a match, and the list it answered.
LEMMA MatchedCall ==
    ASSUME AnswerInv, Matched
    PROVE  /\ call.pool \in [Pool -> Rows]
           /\ answer.list \in FindCandidatesAtLocation(call.pool, call.surveyType, call.excluded)
<1>1. call \in Jobs
  BY DEF AnswerInv, Matched, Jobs, Surveys
<1>2. PICK list \in FindCandidatesAtLocation(call.pool, call.surveyType, call.excluded) :
          answer = [list |-> list]
  BY DEF AnswerInv, Matched
<1> QED
  BY <1>1, <1>2 DEF Jobs

\* The input of a score, and the verdict it answered.
LEMMA ScoredCall ==
    ASSUME AnswerInv, Scored
    PROVE  call \in Surveys /\ answer.verdict \in ScoreSurvey(call)
<1>1. call \in Surveys
  BY DEF AnswerInv, Scored, Jobs, Surveys
<1>2. PICK v \in ScoreSurvey(call) : answer = [verdict |-> v]
  BY DEF AnswerInv, Scored
<1> QED
  BY <1>1, <1>2

-----------------------------------------------------------------------------
(* QA scoring.                                                             *)

\* A survey's counts.
LEMMA SurveyCounts ==
    ASSUME NEW s \in Surveys
    PROVE  /\ s.media \in 0..MaxMedia /\ s.within \in 0..s.media
           /\ s.duplicates \in 0..s.media /\ s.response \in BOOLEAN
BY MediaAssumption DEF Surveys

\* The parts of a full score, of a tenth of it and of a photo's share.
LEMMA Parts ==
    /\ Whole \in Nat \ {0} /\ Tenths(10) = Whole
    /\ \A n \in 0..10 : Tenths(n) \in 0..Whole
    /\ \A m \in 1..MaxMedia : Whole \div m \in Nat /\ m * (Whole \div m) = Whole
<1> DEFINE tenth == Whole \div 10
<1>1. tenth \in Nat /\ 10 * tenth = Whole /\ Whole \in Nat \ {0}
  BY WholeAssumption
<1>2. \A n : Tenths(n) = n * tenth
  BY DEF Tenths
<1> HIDE DEF tenth
<1>3. \A n \in {0, 1, 2, 3, 4, 5, 6, 7, 8, 9, 10} : n * tenth \in 0..Whole
  BY <1>1
<1>4. \A n \in 0..10 : n \in {0, 1, 2, 3, 4, 5, 6, 7, 8, 9, 10}
  OBVIOUS
<1> QED
  BY <1>1, <1>2, <1>3, <1>4, MediaAssumption

\* A share of k out of m photos is at most the whole,
LEMMA ShareBound ==
    ASSUME NEW m \in Nat, NEW k \in 0..m, NEW u \in Nat
    PROVE  k * u \in Nat /\ k * u <= m * u
<1>1. m = k + (m - k) /\ m - k \in Nat /\ k \in Nat
  OBVIOUS
<1>2. m * u = k * u + (m - k) * u
  BY <1>1
<1>3. k * u \in Nat /\ (m - k) * u \in Nat
  BY <1>1
<1> QED
  BY <1>2, <1>3

\* is half of the whole only for half of the photos,
LEMMA ShareHalf ==
    ASSUME NEW m \in Nat, NEW k \in Nat, NEW u \in Nat \ {0},
           2 * (k * u) >= m * u
    PROVE  2 * k >= m
<1> SUFFICES ASSUME 2 * k < m PROVE FALSE
  OBVIOUS
<1> DEFINE d == m - 2 * k
<1>1. d \in Nat /\ d >= 1 /\ m = 2 * k + d
  OBVIOUS
<1> HIDE DEF d
<1>2. m * u = 2 * (k * u) + d * u
  BY <1>1
<1>3. d * u >= 1
  BY <1>1
<1>4. k * u \in Nat /\ d * u \in Nat
  BY <1>1
<1> QED
  BY <1>2, <1>3, <1>4

\* and grows with one more photo that counts, for a share v of m + 1 photos.
LEMMA ShareGrows ==
    ASSUME NEW m \in Nat, NEW k \in 0..m, NEW u \in Nat, NEW v \in Nat,
           m * u = (m + 1) * v
    PROVE  k * u <= (k + 1) * v /\ k * v <= k * u
<1>1. m * u = m * v + v
  OBVIOUS
<1>2. CASE u < v
  <2> DEFINE d == v - u
  <2>1. d \in Nat /\ d >= 1 /\ v = u + d
    BY <1>2
  <2> HIDE DEF d
  <2>2. m * v = m * u + m * d
    BY <2>1
  <2>3. m * d \in Nat /\ m * u \in Nat
    BY <2>1
  <2>4. m * d + v = 0
    <3> DEFINE md == m * d
               mv == m * v
               mu == m * u
    <3>1. md \in Nat /\ mu \in Nat /\ mv = mu + md /\ mu = mv + v
      BY <1>1, <2>2, <2>3
    <3> HIDE DEF md, mv, mu
    <3>2. md + v = 0
      BY <3>1
    <3> QED
      BY <3>2 DEF md
  <2> QED
    BY <2>1, <2>3, <2>4
<1>3. CASE u >= v
  <2> DEFINE d == u - v
  <2>1. d \in Nat /\ u = v + d
    BY <1>3
  <2> HIDE DEF d
  <2>2. m * u = m * v + m * d /\ k * u = k * v + k * d
    BY <2>1
  <2>3. m * v \in Nat /\ m * d \in Nat /\ k * v \in Nat /\ k * d \in Nat
    BY <2>1
  <2>4. m * d = v
    <3> DEFINE md == m * d
               mv == m * v
               mu == m * u
    <3>1. md \in Nat /\ mv \in Nat /\ mu = mv + md /\ mu = mv + v
      BY <1>1, <2>2, <2>3
    <3> HIDE DEF md, mv, mu
    <3>2. md = v
      BY <3>1
    <3> QED
      BY <3>2 DEF md
  <2>5. k * d <= m * d
    BY <2>1, ShareBound
  <2>6. (k + 1) * v = k * v + v
    OBVIOUS
  <2> QED
    BY <2>2, <2>3, <2>4, <2>5, <2>6
<1> QED
  BY <1>2, <1>3

\* Every check yields a part of the whole.
LEMMA CheckBounds ==
    ASSUME NEW s \in Surveys
    PROVE  /\ checkGeo(s) \in 0..Whole /\ checkCompleteness(s) \in 0..Whole
           /\ checkBoundaryWalk(s) \in 0..Whole /\ checkTimestamps(s) \in 0..Whole
           /\ checkDuplicates(s) \in 0..Whole
<1>1. /\ s.media \in 0..MaxMedia /\ s.within \in 0..s.media
      /\ s.duplicates \in 0..s.media
  BY SurveyCounts
<1>2. /\ Tenths(3) \in 0..Whole /\ Tenths(4) \in 0..Whole /\ Tenths(5) \in 0..Whole
      /\ Tenths(7) \in 0..Whole /\ Tenths(8) \in 0..Whole
      /\ 0 \in 0..Whole /\ Whole \in 0..Whole /\ Whole \in Nat
  BY Parts
<1>3. ASSUME s.media > 0, NEW k \in 0..s.media
      PROVE  Share(k, s.media) \in 0..Whole
  <2>1. s.media \in 1..MaxMedia /\ s.media \in Nat
    BY <1>1, <1>3, MediaAssumption
  <2>2. Whole \div s.media \in Nat /\ s.media * (Whole \div s.media) = Whole
    BY <2>1, Parts
  <2> DEFINE u == Whole \div s.media
  <2>3. u \in Nat /\ s.media * u = Whole /\ Share(k, s.media) = k * u
    BY <2>2 DEF Share
  <2> HIDE DEF u
  <2>4. k * u \in Nat /\ k * u <= s.media * u
    BY <2>1, <2>3, ShareBound
  <2>5. k * u \in Nat /\ k * u <= Whole
    BY <2>3, <2>4
  <2> QED
    BY <1>2, <2>3, <2>5
<1>4. checkGeo(s) \in 0..Whole
  BY <1>1, <1>2, <1>3 DEF checkGeo, PhotosLocated
<1>5. checkDuplicates(s) \in 0..Whole
  <2>1. CASE ~HashesCompared(s)
    BY <1>2, <2>1 DEF checkDuplicates
  <2>2. CASE HashesCompared(s)
    <3>1. Share(s.duplicates, s.media) \in 0..Whole
      BY <1>1, <1>3, <2>2 DEF HashesCompared
    <3> QED
      BY <1>2, <2>2, <3>1 DEF checkDuplicates
  <2> QED
    BY <2>1, <2>2
<1>6. checkCompleteness(s) \in 0..Whole
  BY <1>2 DEF checkCompleteness
<1>7. checkBoundaryWalk(s) \in 0..Whole /\ checkTimestamps(s) \in 0..Whole
  BY <1>2 DEF checkBoundaryWalk, checkTimestamps
<1> QED
  BY <1>4, <1>5, <1>6, <1>7

\* The weighted sum is a number, whatever the checks yield,
LEMMA Weights ==
    ASSUME NEW g \in 0..Whole, NEW c \in 0..Whole, NEW w \in 0..Whole,
           NEW t \in 0..Whole, NEW d \in 0..Whole
    PROVE  25 * g + 25 * c + 20 * w + 15 * t + 15 * d \in Nat
BY WholeAssumption

\* and misses a pass without the two checks that need a response.
LEMMA WeightsMissed ==
    ASSUME NEW g \in 0..Whole, NEW t \in 0..Whole, NEW d \in 0..Whole
    PROVE  25 * g + 25 * 0 + 20 * 0 + 15 * t + 15 * d < 70 * Whole
BY WholeAssumption

\* The overall score is a number.
LEMMA OverallIsNat ==
    ASSUME NEW s \in Surveys
    PROVE  Overall(s) \in Nat
<1>1. /\ checkGeo(s) \in 0..Whole /\ checkCompleteness(s) \in 0..Whole
      /\ checkBoundaryWalk(s) \in 0..Whole /\ checkTimestamps(s) \in 0..Whole
      /\ checkDuplicates(s) \in 0..Whole
  BY CheckBounds
<1> QED
  BY <1>1, Weights DEF Overall

\* Half a score for the geography takes half of the photos.
LEMMA HalfInside ==
    ASSUME NEW s \in Surveys, ~(checkGeo(s) < ThresholdGeoReject)
    PROVE  s.media > 0 /\ 2 * s.within >= s.media
<1>1. s.media \in 0..MaxMedia /\ s.within \in 0..s.media
  BY SurveyCounts
<1>2. 2 * checkGeo(s) >= Whole /\ Whole \in Nat \ {0}
  <2> DEFINE tenth == Whole \div 10
  <2>1. tenth \in Nat /\ 10 * tenth = Whole /\ Whole \in Nat \ {0}
    BY WholeAssumption
  <2>2. ThresholdGeoReject = 5 * tenth
    BY DEF ThresholdGeoReject, Tenths
  <2>3. checkGeo(s) \in 0..Whole
    BY CheckBounds
  <2> HIDE DEF tenth
  <2> QED
    BY <2>1, <2>2, <2>3
<1>3. s.media \in 1..MaxMedia /\ checkGeo(s) = Share(s.within, s.media)
  BY <1>1, <1>2, MediaAssumption DEF checkGeo, PhotosLocated
<1> DEFINE u == Whole \div s.media
<1>4. u \in Nat /\ s.media * u = Whole /\ Share(s.within, s.media) = s.within * u
  BY <1>3, Parts DEF Share
<1> HIDE DEF u
<1>5. u # 0 /\ s.media \in Nat /\ s.within \in Nat
  BY <1>1, <1>2, <1>4, MediaAssumption
<1> QED
  BY <1>2, <1>3, <1>4, <1>5, ShareHalf

\* Whatever the five checks yield, there is a verdict.
THEOREM EverySurveyGetsAVerdict ==
    \A s \in Surveys : ScoreSurvey(s) # {}
<1> SUFFICES ASSUME NEW s \in Surveys PROVE ScoreSurvey(s) # {}
  OBVIOUS
<1>1. Overall(s) \in Nat /\ checkGeo(s) \in 0..Whole
  BY CheckBounds, OverallIsNat
<1>2. CASE checkGeo(s) < ThresholdGeoReject \/ Overall(s) <= ThresholdFlagged
  BY <1>2 DEF ScoreSurvey
<1>3. CASE /\ ~(checkGeo(s) < ThresholdGeoReject)
           /\ ~(Overall(s) <= ThresholdFlagged)
  <2>1. Overall(s) >= ThresholdFlagged
    BY <1>1, <1>3, WholeAssumption DEF ThresholdFlagged
  <2>2. "flagged" \in ScoreSurvey(s)
    BY <1>3, <2>1 DEF ScoreSurvey
  <2> QED
    BY <2>2
<1> QED
  BY <1>2, <1>3

\* A survey that passes has a response and half of its photos inside the
\* boundary, whichever query failed: without a response the walk and the
\* completeness are worth nothing, and the rest is not enough.
THEOREM PassingTakesEvidence == DecisionSpec => []PassedHasEvidence
<1>1. ASSUME AnswerInv PROVE PassedHasEvidence
  <2> SUFFICES ASSUME Scored, answer.verdict = "passed"
               PROVE  /\ call.response
                      /\ call.media > 0 /\ 2 * call.within >= call.media
    BY DEF PassedHasEvidence
  <2>1. call \in Surveys /\ "passed" \in ScoreSurvey(call)
    BY <1>1, ScoredCall
  <2>2. /\ ~(checkGeo(call) < ThresholdGeoReject)
        /\ Overall(call) >= ThresholdAutoPass
    BY <2>1 DEF ScoreSurvey
  <2>3. /\ checkGeo(call) \in 0..Whole /\ checkCompleteness(call) \in 0..Whole
        /\ checkBoundaryWalk(call) \in 0..Whole /\ checkTimestamps(call) \in 0..Whole
        /\ checkDuplicates(call) \in 0..Whole
    BY <2>1, CheckBounds
  <2>4. call.response
    <3> SUFFICES ASSUME ~call.response PROVE FALSE
      OBVIOUS
    <3>1. checkCompleteness(call) = 0 /\ checkBoundaryWalk(call) = 0
      BY DEF checkCompleteness, ResponseFound, checkBoundaryWalk, WalkMeasured
    <3>2. Overall(call) < 70 * Whole
      <4>1. 25 * checkGeo(call) + 25 * 0 + 20 * 0 + 15 * checkTimestamps(call)
              + 15 * checkDuplicates(call) < 70 * Whole
        BY <2>3, WeightsMissed
      <4> QED
        BY <3>1, <4>1 DEF Overall
    <3> QED
      BY <2>1, <2>2, <3>2, OverallIsNat, WholeAssumption DEF ThresholdAutoPass
  <2> QED
    BY <2>1, <2>2, <2>4, HalfInside
<1> QED
  BY <1>1, AnswersAreTheCodes, PTL

\* One more photo inside the boundary lowers no check.
LEMMA MorePhotosScoreMore ==
    ASSUME NEW s \in Surveys, s.media \in 1..(MaxMedia - 1)
    PROVE  /\ OneMorePhoto(s) \in Surveys
           /\ checkGeo(s) <= checkGeo(OneMorePhoto(s))
           /\ Overall(s) <= Overall(OneMorePhoto(s))
<1> DEFINE t == OneMorePhoto(s)
<1>1. /\ s.media \in 1..MaxMedia /\ s.within \in 0..s.media
      /\ s.duplicates \in 0..s.media /\ s.media + 1 \in 1..MaxMedia
  BY SurveyCounts, MediaAssumption
<1>2. /\ t.media = s.media + 1 /\ t.within = s.within + 1
      /\ t.duplicates = s.duplicates /\ t.response = s.response
      /\ t.span = s.span /\ t.distance = s.distance /\ t.failing = s.failing
  BY DEF OneMorePhoto
<1>3. t \in Surveys
  BY <1>1, MediaAssumption DEF OneMorePhoto, Surveys
<1> HIDE DEF t
<1>4. /\ s.media \in Nat /\ s.media > 0 /\ t.media > 0 /\ t.media \in Nat
  BY <1>1, <1>2, MediaAssumption
<1>5. ASSUME NEW k \in 0..s.media
      PROVE  /\ Share(k, s.media) <= Share(k + 1, t.media)
             /\ Share(k, t.media) <= Share(k, s.media)
  <2> DEFINE u == Whole \div s.media
             v == Whole \div t.media
  <2>1. /\ u \in Nat /\ s.media * u = Whole
        /\ v \in Nat /\ (s.media + 1) * v = Whole
    BY <1>1, <1>2, Parts
  <2>2. /\ Share(k, s.media) = k * u /\ Share(k, t.media) = k * v
        /\ Share(k + 1, t.media) = (k + 1) * v
    BY DEF Share
  <2> HIDE DEF u, v
  <2>3. s.media * u = (s.media + 1) * v
    BY <2>1
  <2>4. k * u <= (k + 1) * v /\ k * v <= k * u
    BY <1>4, <2>1, <2>3, ShareGrows
  <2> QED
    BY <2>2, <2>4
<1>6. checkGeo(s) <= checkGeo(t)
  <2>1. /\ PhotosLocated(s) <=> PhotosLocated(t)
        /\ Share(s.within, s.media) <= Share(t.within, t.media)
    BY <1>1, <1>2, <1>4, <1>5 DEF PhotosLocated
  <2> QED
    BY <2>1 DEF checkGeo
<1>7. checkDuplicates(s) <= checkDuplicates(t)
  <2>1. /\ HashesCompared(s) <=> HashesCompared(t)
        /\ Share(t.duplicates, t.media) <= Share(s.duplicates, s.media)
    BY <1>1, <1>2, <1>4, <1>5 DEF HashesCompared
  <2>2. Whole \in Nat
    BY Parts
  <2>3. Share(s.duplicates, s.media) \in Int /\ Share(t.duplicates, t.media) \in Int
    BY <1>1, <1>2, <1>4, Parts, MediaAssumption DEF Share
  <2> QED
    BY <2>1, <2>2, <2>3 DEF checkDuplicates
<1>8. checkCompleteness(s) <= checkCompleteness(t)
  <2>1. /\ ResponseFound(s) <=> ResponseFound(t)
        /\ PhotosCounted(s) <=> PhotosCounted(t)
    BY <1>2, <1>4 DEF ResponseFound, PhotosCounted
  <2>2. /\ Tenths(5) <= Tenths(8) /\ Tenths(8) <= Whole /\ Tenths(5) <= Whole
        /\ Tenths(3) <= Tenths(3) /\ Tenths(8) <= Tenths(8) /\ Tenths(5) <= Tenths(5)
        /\ Whole <= Whole
    BY WholeAssumption DEF Tenths
  <2> QED
    BY <1>2, <1>4, <2>1, <2>2 DEF checkCompleteness
<1>9. /\ checkBoundaryWalk(t) = checkBoundaryWalk(s)
      /\ checkTimestamps(t) = checkTimestamps(s)
  BY <1>2, <1>4 DEF checkBoundaryWalk, WalkMeasured, checkTimestamps, TimesListed
<1>10. Overall(s) <= Overall(t)
  <2>1. /\ checkGeo(s) \in 0..Whole /\ checkCompleteness(s) \in 0..Whole
        /\ checkBoundaryWalk(s) \in 0..Whole /\ checkTimestamps(s) \in 0..Whole
        /\ checkDuplicates(s) \in 0..Whole
    BY CheckBounds
  <2>2. /\ checkGeo(t) \in 0..Whole /\ checkCompleteness(t) \in 0..Whole
        /\ checkDuplicates(t) \in 0..Whole
    BY <1>3, CheckBounds
  <2> DEFINE g == checkGeo(s)
             c == checkCompleteness(s)
             w == checkBoundaryWalk(s)
             m == checkTimestamps(s)
             d == checkDuplicates(s)
             gg == checkGeo(t)
             cc == checkCompleteness(t)
             dd == checkDuplicates(t)
  <2>3. /\ g \in Int /\ c \in Int /\ w \in Int /\ m \in Int /\ d \in Int
        /\ gg \in Int /\ cc \in Int /\ dd \in Int
        /\ g <= gg /\ c <= cc /\ d <= dd
    BY <1>6, <1>7, <1>8, <2>1, <2>2
  <2>4. /\ Overall(s) = 25 * g + 25 * c + 20 * w + 15 * m + 15 * d
        /\ Overall(t) = 25 * gg + 25 * cc + 20 * w + 15 * m + 15 * dd
    BY <1>9 DEF Overall
  <2> HIDE DEF g, c, w, m, d, gg, cc, dd
  <2> QED
    BY <2>3, <2>4
<1> QED
  BY <1>3, <1>6, <1>10 DEF t

\* Taking one more good photo never costs an agent the verdict.
THEOREM EvidenceHelps == DecisionSpec => []MoreEvidenceNeverHurts
<1>1. ASSUME AnswerInv PROVE MoreEvidenceNeverHurts
  <2> DEFINE t == OneMorePhoto(call)
  <2> SUFFICES ASSUME Scored, call.media \in 1..(MaxMedia - 1)
               PROVE  /\ answer.verdict = "passed" => "passed" \in ScoreSurvey(t)
                      /\ "failed" \in ScoreSurvey(t) => "failed" \in ScoreSurvey(call)
    BY DEF MoreEvidenceNeverHurts
  <2>1. call \in Surveys /\ answer.verdict \in ScoreSurvey(call)
    BY <1>1, ScoredCall
  <2>2. /\ t \in Surveys /\ checkGeo(call) <= checkGeo(t)
        /\ Overall(call) <= Overall(t)
    BY <2>1, MorePhotosScoreMore
  <2> HIDE DEF t
  <2>3. /\ checkGeo(call) \in Nat /\ checkGeo(t) \in Nat
        /\ Overall(call) \in Nat /\ Overall(t) \in Nat
        /\ ThresholdGeoReject \in Nat /\ ThresholdFlagged \in Nat
        /\ ThresholdAutoPass \in Nat
    BY <2>1, <2>2, CheckBounds, OverallIsNat, WholeAssumption
       DEF ThresholdGeoReject, ThresholdFlagged, ThresholdAutoPass, Tenths
  <2>4. ASSUME "passed" \in ScoreSurvey(call) PROVE "passed" \in ScoreSurvey(t)
    <3>1. /\ ~(checkGeo(call) < ThresholdGeoReject)
          /\ Overall(call) >= ThresholdAutoPass
      BY <2>4 DEF ScoreSurvey
    <3>2. ~(checkGeo(t) < ThresholdGeoReject) /\ Overall(t) >= ThresholdAutoPass
      BY <2>2, <2>3, <3>1
    <3> QED
      BY <3>2 DEF ScoreSurvey
  <2>5. ASSUME "failed" \in ScoreSurvey(t) PROVE "failed" \in ScoreSurvey(call)
    <3>1. checkGeo(t) < ThresholdGeoReject \/ Overall(t) <= ThresholdFlagged
      BY <2>5 DEF ScoreSurvey
    <3>2. checkGeo(call) < ThresholdGeoReject \/ Overall(call) <= ThresholdFlagged
      BY <2>2, <2>3, <3>1
    <3> QED
      BY <3>2 DEF ScoreSurvey
  <2> QED
    BY <2>1, <2>4, <2>5
<1> QED
  BY <1>1, AnswersAreTheCodes, PTL

-----------------------------------------------------------------------------
(* Matching.                                                               *)

\* The three radii.
LEMMA Radii ==
    \A k \in 1..3 : /\ expansionRadii[k] \in {25000, 50000, 100000}
                    /\ expansionRadii[k] \div Km \in {25, 50, 100}
                    /\ expansionRadii[k] = Km * (expansionRadii[k] \div Km)
                    /\ \A i \in 1..3 : i <= k => expansionRadii[i] <= expansionRadii[k]
                    /\ expansionRadii[k] <= Everywhere
                    /\ k = 3 => expansionRadii[k] = Everywhere
BY DEF expansionRadii, Km, Everywhere

\* A row is nearer or better by whole numbers.
LEMMA RowNumbers ==
    ASSUME NEW pool \in [Pool -> Rows], NEW a \in Pool
    PROVE  pool[a].distance \in Nat /\ pool[a].merit \in Nat
BY PoolAssumption DEF Rows

\* The kilometres of a row that can be scanned are its distance.
LEMMA ScannedKm ==
    ASSUME NEW x, x.distance \in Nat, Scans(x)
    PROVE  DistanceKm(x) \in Nat /\ x.distance = Km * DistanceKm(x)
<1> DEFINE d == x.distance
<1>1. d \in Nat /\ d % 1000 = 0
  BY DEF Scans, Km
<1> HIDE DEF d
<1>2. d \div 1000 \in Nat /\ d = 1000 * (d \div 1000)
  BY <1>1
<1> QED
  BY <1>2 DEF DistanceKm, Km, d

\* The better row has the higher score: the integer division of the distance's
\* share loses nothing, since each radius divides 400.
LEMMA BetterScoresMore ==
    ASSUME NEW x, NEW y, x.distance \in Nat, y.distance \in Nat,
           x.merit \in Nat, y.merit \in Nat, Scans(x), Scans(y),
           NEW r \in {25, 50, 100},
           y.distance <= Km * r, Better(x, y)
    PROVE  ~(CompositeScore(y, r) >= CompositeScore(x, r))
<1> DEFINE dx == DistanceKm(x)
           dy == DistanceKm(y)
           mx == x.merit
           my == y.merit
<1>1. /\ dx \in Nat /\ dy \in Nat /\ mx \in Nat /\ my \in Nat
      /\ dx <= dy /\ dy <= r /\ mx >= my
      /\ dx < dy \/ mx > my
  <2>1. /\ dx \in Nat /\ x.distance = 1000 * dx
        /\ dy \in Nat /\ y.distance = 1000 * dy
    BY ScannedKm DEF Km
  <2> HIDE DEF dx, dy
  <2>2. /\ 1000 * dx <= 1000 * dy /\ 1000 * dy <= 1000 * r
        /\ mx >= my
        /\ 1000 * dx < 1000 * dy \/ mx > my
    BY <2>1 DEF Better, Km
  <2> QED
    BY <2>1, <2>2
<1>2. /\ CompositeScore(x, r) = (400 * (r - dx)) \div r + mx
      /\ CompositeScore(y, r) = (400 * (r - dy)) \div r + my
  BY DEF CompositeScore
<1> HIDE DEF dx, dy, mx, my
<1>3. CASE r = 25
  <2>1. /\ (400 * (r - dx)) \div r = 16 * (25 - dx)
        /\ (400 * (r - dy)) \div r = 16 * (25 - dy)
    BY <1>1, <1>3
  <2> QED
    BY <1>1, <1>2, <2>1
<1>4. CASE r = 50
  <2>1. /\ (400 * (r - dx)) \div r = 8 * (50 - dx)
        /\ (400 * (r - dy)) \div r = 8 * (50 - dy)
    BY <1>1, <1>4
  <2> QED
    BY <1>1, <1>2, <2>1
<1>5. CASE r = 100
  <2>1. /\ (400 * (r - dx)) \div r = 4 * (100 - dx)
        /\ (400 * (r - dy)) \div r = 4 * (100 - dy)
    BY <1>1, <1>5
  <2> QED
    BY <1>1, <1>2, <2>1
<1> QED
  BY <1>3, <1>4, <1>5

\* A query whose limit the pool fits in returns every agent in reach, if it
\* returns anything, and all their distances could be scanned.
LEMMA QueryReturnsAll ==
    ASSUME NEW pool \in [Pool -> Rows], Cardinality(Pool) <= Limit,
           NEW r, NEW excluded, NEW rows \in FindMatchableAgents(pool, r, excluded)
    PROVE  /\ rows = {a \in Pool \ excluded : pool[a].distance <= r}
           /\ \A a \in rows : Scans(pool[a])
<1> DEFINE reach == {a \in Pool \ excluded : pool[a].distance <= r}
<1>1. rows \in SUBSET reach
  BY DEF FindMatchableAgents
<1>2. Cardinality(rows) = Least(Limit, Cardinality(reach))
  BY DEF FindMatchableAgents
<1> HIDE DEF reach
<1>3. IsFiniteSet(reach) /\ Cardinality(reach) <= Cardinality(Pool)
  BY FS_Subset, PoolAssumption DEF reach
<1>4. /\ Cardinality(reach) \in Nat /\ Cardinality(Pool) \in Nat /\ Limit \in Nat
  BY <1>3, FS_CardinalityType, PoolAssumption, MatcherAssumptions
<1>5. Cardinality(reach) = Cardinality(rows)
  BY <1>2, <1>3, <1>4 DEF Least
<1>6. rows = reach
  BY <1>1, <1>3, <1>5, FS_Subset
<1> QED
  BY <1>6 DEF reach, FindMatchableAgents

\* A list of a round: of agents that can serve at its radius, in the order of
\* their scores, without gaps, and not empty when there is one.
Ordered(list, size, k) ==
    LET r == expansionRadii[k]
        score(a) == CompositeScore(call.pool[a], r \div Km)
    IN  /\ \A a \in Serviceable(r) : Scans(call.pool[a])
        /\ list \in [1..size -> Serviceable(r)]
        /\ Serviceable(r) # {} => size > 0
        /\ \A i, j \in 1..size : i < j => score(list[i]) >= score(list[j])
        /\ \A a \in Serviceable(r), i \in 1..size :
               a \in {list[j] : j \in 1..size} \/ score(list[i]) >= score(a)

\* What one round may find has this form.
LEMMA RoundFinds ==
    ASSUME AnswerInv, Matched, Cardinality(Pool) <= Limit, NEW k \in 1..3,
           NEW list \in Round(k, call.pool, call.surveyType, call.excluded)
    PROVE  \E size \in Nat : Ordered(list, size, k)
<1> DEFINE r == expansionRadii[k]
           score(a) == CompositeScore(call.pool[a], r \div Km)
<1>1. call.pool \in [Pool -> Rows]
  BY MatchedCall
<1>2. PICK rows \in FindMatchableAgents(call.pool, r, call.excluded) :
          list \in scoreAndFilter(call.pool, rows, call.surveyType, r \div Km)
  BY DEF Round
<1>3. /\ rows = {a \in Pool \ call.excluded : call.pool[a].distance <= r}
      /\ \A a \in rows : Scans(call.pool[a])
  BY <1>1, <1>2, QueryReturnsAll
<1> DEFINE eligible == {a \in rows : Eligible(call.pool[a], call.surveyType)}
           size == Least(MaxCandidates, Cardinality(eligible))
<1>4. eligible = Serviceable(r) /\ \A a \in Serviceable(r) : Scans(call.pool[a])
  BY <1>3 DEF Serviceable
<1>5. /\ list \in [1..size -> eligible]
      /\ \A i, j \in 1..size : i < j => score(list[i]) >= score(list[j])
      /\ \A a \in eligible, i \in 1..size :
             a \in {list[j] : j \in 1..size} \/ score(list[i]) >= score(a)
  BY <1>2 DEF scoreAndFilter
<1> HIDE DEF r, score
<1>6. IsFiniteSet(eligible)
  BY <1>3, FS_Subset, PoolAssumption
<1>7. Cardinality(eligible) \in Nat /\ (eligible # {} => Cardinality(eligible) # 0)
  BY <1>6, FS_CardinalityType, FS_EmptySet
<1>8. size \in Nat /\ (eligible # {} => size > 0)
  BY <1>7, MatcherAssumptions DEF Least
<1> HIDE DEF eligible, size
<1>9. Ordered(list, size, k)
  BY <1>4, <1>5, <1>8 DEF Ordered, r, score
<1> QED
  BY <1>8, <1>9

\* The list is of one round, which has a candidate or is the last; no round
\* before it had an agent that could serve.
LEMMA FoundInRound ==
    ASSUME AnswerInv, Matched, Cardinality(Pool) <= Limit
    PROVE  \E k \in 1..3, size \in Nat :
               /\ Ordered(answer.list, size, k)
               /\ size > 0 \/ k = 3
               /\ \A j \in 1..(k - 1) : Serviceable(expansionRadii[j]) = {}
<1>1. PICK k \in 1..3 :
          /\ answer.list \in Round(k, call.pool, call.surveyType, call.excluded)
          /\ answer.list # << >> \/ k = 3
          /\ \A j \in 1..(k - 1) :
                 << >> \in Round(j, call.pool, call.surveyType, call.excluded)
  BY MatchedCall DEF FindCandidatesAtLocation
<1>2. PICK size \in Nat : Ordered(answer.list, size, k)
  BY <1>1, RoundFinds
<1>3. size > 0 \/ k = 3
  <2> SUFFICES ASSUME size = 0 PROVE answer.list = << >>
    BY <1>1
  <2>1. answer.list \in [1..0 -> Serviceable(expansionRadii[k])]
    BY <1>2 DEF Ordered
  <2> QED
    BY <2>1
<1>4. ASSUME NEW j \in 1..(k - 1) PROVE Serviceable(expansionRadii[j]) = {}
  <2>1. j \in 1..3 /\ << >> \in Round(j, call.pool, call.surveyType, call.excluded)
    BY <1>1
  <2>2. PICK n \in Nat : Ordered(<< >>, n, j)
    BY <2>1, RoundFinds
  <2>3. << >> \in [1..n -> Serviceable(expansionRadii[j])]
        /\ (Serviceable(expansionRadii[j]) # {} => n > 0)
    BY <2>2 DEF Ordered
  <2>4. n = 0
    BY <2>3
  <2> QED
    BY <2>3, <2>4
<1> QED
  BY <1>2, <1>3, <1>4

\* While the pool fits into one query, a nearer agent of no less merit, or one
\* of more merit that is no farther, comes first, for every pool and every
\* length of the list.
THEOREM BetterAgentsFirst == DecisionSpec => []BetterAgentFirst
<1>1. ASSUME AnswerInv PROVE BetterAgentFirst
  <2> DEFINE list == answer.list
             x(b) == call.pool[b]
  <2> SUFFICES ASSUME Matched, Cardinality(Pool) <= Limit,
                      NEW j \in DOMAIN list, NEW a \in Serviceable(Everywhere),
                      Better(x(a), x(list[j]))
               PROVE  \E i \in 1..(j - 1) : list[i] = a
    BY DEF BetterAgentFirst
  <2>1. PICK k \in 1..3, size \in Nat : Ordered(list, size, k)
    BY <1>1, FoundInRound
  <2> DEFINE r == expansionRadii[k]
             score(b) == CompositeScore(x(b), r \div Km)
  <2>2. /\ \A b \in Serviceable(r) : Scans(x(b))
        /\ list \in [1..size -> Serviceable(r)]
        /\ \A i, n \in 1..size : i < n => score(list[i]) >= score(list[n])
        /\ \A b \in Serviceable(r), i \in 1..size :
               b \in {list[n] : n \in 1..size} \/ score(list[i]) >= score(b)
    BY <2>1 DEF Ordered
  <2>3. j \in 1..size /\ list[j] \in Serviceable(r)
    BY <2>2
  <2>4. a \in Pool /\ list[j] \in Pool /\ x(list[j]).distance <= r
    BY <2>3 DEF Serviceable
  <2>5. /\ x(a).distance \in Nat /\ x(a).merit \in Nat
        /\ x(list[j]).distance \in Nat /\ x(list[j]).merit \in Nat
    BY <1>1, <2>4, MatchedCall, RowNumbers
  <2>6. /\ r \in {25000, 50000, 100000} /\ r \div Km \in {25, 50, 100}
        /\ r = Km * (r \div Km)
    BY Radii
  <2>7. a \in Serviceable(r)
    <3>1. x(a).distance <= x(list[j]).distance
      BY DEF Better
    <3>2. x(a).distance <= r
      BY <2>4, <2>5, <2>6, <3>1
    <3> QED
      BY <3>2 DEF Serviceable
  <2>8. ~(score(list[j]) >= score(a))
    <3>1. Scans(x(a)) /\ Scans(x(list[j]))
      BY <2>2, <2>3, <2>7
    <3>2. x(list[j]).distance <= Km * (r \div Km)
      BY <2>4, <2>6
    <3> HIDE DEF r
    <3> QED
      BY <2>5, <2>6, <3>1, <3>2, BetterScoresMore
  <2> HIDE DEF score
  <2>9. PICK i \in 1..size : list[i] = a
    BY <2>2, <2>3, <2>7, <2>8
  <2>10. ~(j < i)
    BY <2>2, <2>3, <2>8, <2>9
  <2>11. i # j
    BY <2>5, <2>9 DEF Better
  <2> QED
    BY <2>3, <2>9, <2>10, <2>11
<1> QED
  BY <1>1, AnswersAreTheCodes, PTL

\* While the pool fits into one query, an answer without candidates means
\* that there is nobody to ask within the last radius, for every pool.
THEOREM NobodyOverlooked == DecisionSpec => []NobodyIsOverlooked
<1>1. ASSUME AnswerInv PROVE NobodyIsOverlooked
  <2> SUFFICES ASSUME Matched, Cardinality(Pool) <= Limit, Listed = {}
               PROVE  Serviceable(Everywhere) = {}
    BY DEF NobodyIsOverlooked
  <2>1. PICK k \in 1..3, size \in Nat :
            Ordered(answer.list, size, k) /\ (size > 0 \/ k = 3)
    BY <1>1, FoundInRound
  <2>2. /\ answer.list \in [1..size -> Serviceable(expansionRadii[k])]
        /\ Serviceable(expansionRadii[k]) # {} => size > 0
    BY <2>1 DEF Ordered
  <2>3. ~(size > 0)
    <3> SUFFICES ASSUME size > 0 PROVE FALSE
      OBVIOUS
    <3>1. 1 \in DOMAIN answer.list
      BY <2>2
    <3> QED
      BY <3>1 DEF Listed
  <2> QED
    BY <2>1, <2>2, <2>3, Radii
<1> QED
  BY <1>1, AnswersAreTheCodes, PTL
=============================================================================
