-------------------------- MODULE Dispatch_proofs --------------------------
(***************************************************************************)
(* Theorems about the cascade dispatcher, for every set of jobs and        *)
(* agents, every bound on rounds and candidates, with or without failing   *)
(* calls and crashes.                                                      *)
(***************************************************************************)
EXTENDS Dispatch, FiniteSetTheorems, TLAPS

(***************************************************************************)
(* The inductive invariant, in three parts.                                *)
(***************************************************************************)

\* Between CreateOffer and the end of the wait the cascade has a candidate.
Holding(j) == pc[j] \in {"announce", "subscribe", "wait", "assign"}

TypeInv ==
  /\ TypeOK
  /\ \A j \in Jobs : Holding(j) => current[j] \in Agents

\* An acceptance on its way to the dispatcher, and one the dispatcher acts
\* upon, come from an agent who accepted.
AgreeInv ==
  /\ \A r \in requests : r.step = "publish" /\ r.answer = "accepted"
                           => r.offer.agent \in agreed[r.offer.job]
  /\ \A j \in Jobs : pc[j] = "wait" /\ heard[j] = "accepted" => current[j] \in agreed[j]
  /\ \A j \in Jobs : pc[j] = "assign" => current[j] \in agreed[j]
  /\ AssignedAgreed

\* A candidate still to be tried is not excluded, is not the one being tried,
\* and has no row in this round.
QueueFresh ==
  \A j \in Jobs :
    /\ queue[j] \cap excluded[j] = {}
    /\ Holding(j) => current[j] \notin queue[j]
    /\ \A a \in queue[j] : offers[[job |-> j, agent |-> a, round |-> round[j]]] = "none"

\* Rounds to come have no rows, and neither has the round about to be matched.
NoFutureRows ==
  \A o \in Offers :
    \/ o.round > round[o.job]
    \/ o.round = round[o.job] /\ pc[o.job] \in {"queued", "match"}
    => offers[o] = "none"

\* A request is about an existing row; a row whose answer is being published
\* is no longer 'sent'; neither is the current row once its answer was heard.
AnswersWritten ==
  /\ \A r \in requests : /\ offers[r.offer] # "none"
                         /\ r.step = "publish" => offers[r.offer] # "sent"
  /\ \A j \in Jobs : pc[j] = "assign" \/ (pc[j] = "wait" /\ heard[j] # "none")
                      => offers[Cur(j)] # "sent"

\* The point: a row that is still 'sent' is the one the cascade has just
\* created and waits for, or belongs to an agent who is excluded for good.
SentRows ==
  \A o \in Offers : offers[o] = "sent" =>
    \/ o.agent \in excluded[o.job]
    \/ pc[o.job] \in {"announce", "subscribe", "wait", "lost"} /\ o = Cur(o.job)

RowInv == QueueFresh /\ NoFutureRows /\ AnswersWritten /\ SentRows /\ AtMostOnePendingOffer

\* The job's row is open until the cascade is over, and names an agent exactly
\* when its status says so; only then Arrive requests get through.
StatusInv ==
  \A j \in Jobs :
    /\ pc[j] # "done" => assignee[j] = NoAgent
    /\ assignee[j] # NoAgent => jobStatus[j] \in HandedOver
    /\ j \in arriving => assignee[j] # NoAgent
    /\ pc[j] # "done" => jobStatus[j] \in {"pending_assignment", "offered"}

(***************************************************************************)
(* Type correctness                                                        *)
(***************************************************************************)

LEMMA InitTypeInv == Init => TypeInv
<1>. SUFFICES ASSUME Init PROVE TypeInv
  OBVIOUS
<1>1. 1 \in Rounds
  BY BoundsAssumption DEF Rounds
<1>. QED
  BY <1>1 DEF Init, TypeInv, TypeOK, PCs, OfferStatuses, JobStatuses, HandedOver, Answers,
     Holding

LEMMA EndRoundType ==
  ASSUME TypeInv, NEW j \in Jobs, EndRound(j)
  PROVE  /\ pc' \in [Jobs -> PCs] /\ round' \in [Jobs -> Rounds]
         /\ pc' = [pc EXCEPT ![j] = pc'[j]] /\ pc'[j] \in {"match", "exhausted"}
<1>1. CASE round[j] < MaxRounds
  <2>1. round[j] + 1 \in Rounds
    BY <1>1, BoundsAssumption DEF TypeInv, TypeOK, Rounds
  <2>. QED
    BY <1>1, <2>1 DEF EndRound, TypeInv, TypeOK, PCs
<1>2. CASE ~(round[j] < MaxRounds)
  BY <1>2 DEF EndRound, TypeInv, TypeOK, PCs
<1>. QED
  BY <1>1, <1>2

LEMMA DispatcherTypeInv ==
  ASSUME TypeInv, NEW j \in Jobs, Dispatcher(j)
  PROVE  TypeInv'
<1>. USE DEF TypeInv, TypeOK, PCs, jobVars, Goto, Holding
<1>1. CASE Start(j)
  BY <1>1 DEF Start
<1>2. CASE StartFails(j)
  BY <1>2 DEF StartFails
<1>3. ASSUME NEW S \in SUBSET Agents, Match(j, S)
      PROVE  TypeInv'
  BY <1>3 DEF Match
<1>4. CASE NoCandidates(j)
  BY <1>4, EndRoundType DEF NoCandidates
<1>5. CASE RoundOver(j)
  BY <1>5, EndRoundType DEF RoundOver
<1>6. ASSUME NEW a \in Agents, CreateOffer(j, a)
      PROVE  TypeInv'
  <2>1. offers' \in [Offers -> OfferStatuses]
    BY <1>6 DEF CreateOffer, OfferStatuses
  <2>. QED
    BY <1>6, <2>1 DEF CreateOffer
<1>7. ASSUME NEW a \in Agents, CreateOfferFails(j, a)
      PROVE  TypeInv'
  BY <1>7 DEF CreateOfferFails
<1>8. CASE Announce(j)
  BY <1>8 DEF Announce, JobStatuses
<1>9. CASE Subscribe(j)
  BY <1>9 DEF Subscribe
<1>10. CASE HearAccept(j)
  BY <1>10 DEF HearAccept
<1>11. ASSUME Refused(j), UNCHANGED offers
       PROVE  TypeInv'
  BY <1>11 DEF Refused
<1>12. CASE AssignAgent(j)
  BY <1>12 DEF AssignAgent, JobStatuses, HandedOver
<1>13. CASE AssignAgentFails(j)
  BY <1>13 DEF AssignAgentFails
<1>14. CASE MarkUnassigned(j)
  BY <1>14 DEF MarkUnassigned, JobStatuses
<1>. QED
  BY <1>1, <1>2, <1>3, <1>4, <1>5, <1>6, <1>7, <1>8, <1>9, <1>10, <1>11,
     <1>12, <1>13, <1>14 DEF Dispatcher, HearDecline, Timeout

LEMMA RequestsTypeInv ==
  ASSUME TypeInv, AgentRequests
  PROVE  TypeInv'
<1>. USE DEF TypeInv, TypeOK, dispatcherVars, jobVars, Holding
<1>1. ASSUME NEW o \in Offers, NEW ans \in Answers, LoadOffer(o, ans)
      PROVE  TypeInv'
  <2>1. requests' \subseteq Requests
    BY <1>1 DEF LoadOffer, Requests
  <2>. QED
    BY <1>1, <2>1 DEF LoadOffer
<1>2. ASSUME NEW r \in requests, WriteAnswer(r)
      PROVE  TypeInv'
  <2>1. /\ r \in Requests /\ r.offer \in Offers /\ r.answer \in Answers
        /\ r.offer.job \in Jobs /\ r.offer.agent \in Agents
    BY DEF Requests, Offers
  <2>2. [offer |-> r.offer, answer |-> r.answer, step |-> "publish"] \in Requests
    BY <2>1 DEF Requests
  <2>3. requests' \subseteq Requests
    BY <1>2, <2>2 DEF WriteAnswer
  <2>4. offers' \in [Offers -> OfferStatuses]
    BY <1>2, <2>1 DEF WriteAnswer, OfferStatuses
  <2>5. agreed' \in [Jobs -> SUBSET Agents]
    BY <1>2, <2>1 DEF WriteAnswer
  <2>. QED
    BY <1>2, <2>3, <2>4, <2>5 DEF WriteAnswer
<1>3. ASSUME NEW r \in requests, WriteAnswerFails(r)
      PROVE  TypeInv'
  BY <1>3 DEF WriteAnswerFails
<1>4. ASSUME NEW r \in requests, PublishAnswer(r)
      PROVE  TypeInv'
  <2>1. r.answer \in Answers /\ r.offer.job \in Jobs
    BY DEF Requests, Offers
  <2>2. heard' \in [Jobs -> Answers \cup {"none"}]
    BY <1>4, <2>1 DEF PublishAnswer
  <2>. QED
    BY <1>4, <2>2 DEF PublishAnswer
<1>5. ASSUME NEW r \in requests, PublishAnswerFails(r)
      PROVE  TypeInv'
  BY <1>5 DEF PublishAnswerFails
<1>6. ASSUME NEW j \in Jobs, FieldWork(j)
      PROVE  TypeInv'
  BY <1>6 DEF FieldWork, LoadArrive, RecordArrival,
       RecordArrivalFails, SubmitSurvey, JobStatuses, HandedOver
<1>. QED
  BY <1>1, <1>2, <1>3, <1>4, <1>5, <1>6 DEF AgentRequests

LEMMA CrashTypeInv ==
  ASSUME TypeInv, Crash
  PROVE  TypeInv'
BY DEF Crash, TypeInv, TypeOK, PCs, jobVars, Holding

\* Every reachable state is well typed: the goroutine, the rows and the
\* requests of every cascade stay in their domains.
THEOREM TypeCorrect == Spec => []TypeOK
<1>1. TypeInv /\ [Next]_vars => TypeInv'
  <2>. SUFFICES ASSUME TypeInv, [Next]_vars PROVE TypeInv'
    OBVIOUS
  <2>1. CASE UNCHANGED vars
    BY <2>1 DEF vars, TypeInv, TypeOK, Holding
  <2>. QED
    BY <2>1, DispatcherTypeInv, RequestsTypeInv, CrashTypeInv DEF Next
<1>2. TypeInv => TypeOK
  BY DEF TypeInv
<1>. QED
  BY <1>1, <1>2, InitTypeInv, PTL DEF Spec

(***************************************************************************)
(* Nobody is assigned a job without having accepted it                     *)
(***************************************************************************)

LEMMA InitAgreeInv == Init => AgreeInv
BY DEF Init, AgreeInv, AssignedAgreed

LEMMA DispatcherAgreeInv ==
  ASSUME TypeInv, AgreeInv, NEW j \in Jobs, Dispatcher(j)
  PROVE  AgreeInv'
<1>. USE DEF AgreeInv, AssignedAgreed, TypeInv, TypeOK, jobVars, Goto
<1>1. CASE Start(j)
  BY <1>1 DEF Start
<1>2. CASE StartFails(j)
  BY <1>2 DEF StartFails
<1>3. ASSUME NEW S \in SUBSET Agents, Match(j, S)
      PROVE  AgreeInv'
  BY <1>3 DEF Match
<1>4. CASE NoCandidates(j)
  BY <1>4, EndRoundType DEF NoCandidates
<1>5. CASE RoundOver(j)
  BY <1>5, EndRoundType DEF RoundOver
<1>6. ASSUME NEW a \in Agents, CreateOffer(j, a)
      PROVE  AgreeInv'
  BY <1>6 DEF CreateOffer
<1>7. ASSUME NEW a \in Agents, CreateOfferFails(j, a)
      PROVE  AgreeInv'
  BY <1>7 DEF CreateOfferFails
<1>8. CASE Announce(j)
  BY <1>8 DEF Announce
<1>9. CASE Subscribe(j)
  BY <1>9 DEF Subscribe
<1>10. CASE HearAccept(j)
  BY <1>10 DEF HearAccept
<1>11. ASSUME Refused(j), UNCHANGED offers
       PROVE  AgreeInv'
  BY <1>11 DEF Refused
<1>12. CASE AssignAgent(j)
  BY <1>12 DEF AssignAgent
<1>13. CASE AssignAgentFails(j)
  BY <1>13 DEF AssignAgentFails
<1>14. CASE MarkUnassigned(j)
  BY <1>14 DEF MarkUnassigned
<1>. QED
  BY <1>1, <1>2, <1>3, <1>4, <1>5, <1>6, <1>7, <1>8, <1>9, <1>10, <1>11,
     <1>12, <1>13, <1>14 DEF Dispatcher, HearDecline, Timeout

LEMMA RequestsAgreeInv ==
  ASSUME TypeInv, AgreeInv, AgentRequests
  PROVE  AgreeInv'
<1>. USE DEF AgreeInv, AssignedAgreed, TypeInv, TypeOK, dispatcherVars, jobVars
<1>1. ASSUME NEW o \in Offers, NEW ans \in Answers, LoadOffer(o, ans)
      PROVE  AgreeInv'
  BY <1>1 DEF LoadOffer
<1>2. ASSUME NEW r \in requests, WriteAnswer(r)
      PROVE  AgreeInv'
  <2>1. r.offer.job \in Jobs /\ r.offer.agent \in Agents
    BY DEF Requests, Offers
  <2>2. \A j \in Jobs : agreed[j] \subseteq agreed'[j]
    BY <1>2, <2>1 DEF WriteAnswer
  <2>3. ASSUME NEW q \in requests', q.step = "publish", q.answer = "accepted"
        PROVE  q.offer.agent \in agreed'[q.offer.job]
    <3>1. CASE q \in requests
      <4>1. q.offer.job \in Jobs
        BY <3>1 DEF Requests, Offers
      <4>. QED
        BY <3>1, <4>1, <2>2, <2>3
    <3>2. CASE q = [offer |-> r.offer, answer |-> r.answer, step |-> "publish"]
      BY <1>2, <2>1, <2>3, <3>2 DEF WriteAnswer
    <3>. QED
      BY <1>2, <3>1, <3>2 DEF WriteAnswer
  <2>. QED
    BY <1>2, <2>2, <2>3 DEF WriteAnswer
<1>3. ASSUME NEW r \in requests, WriteAnswerFails(r)
      PROVE  AgreeInv'
  BY <1>3 DEF WriteAnswerFails
<1>4. ASSUME NEW r \in requests, PublishAnswer(r)
      PROVE  AgreeInv'
  <2>1. r.answer \in Answers /\ r.offer.job \in Jobs
    BY DEF Requests, Offers
  <2>2. ASSUME NEW j \in Jobs, pc[j] = "wait", heard'[j] = "accepted"
        PROVE  current[j] \in agreed[j]
    <3>1. CASE heard[j] = "accepted"
      BY <2>2, <3>1
    <3>2. CASE heard[j] # "accepted"
      <4>1. /\ j = r.offer.job /\ r.offer = Cur(j)
            /\ r.answer = "accepted" /\ r.step = "publish"
        BY <1>4, <2>1, <2>2, <3>2 DEF PublishAnswer
      <4>2. r.offer.agent = current[j]
        BY <4>1 DEF Cur
      <4>. QED
        BY <4>1, <4>2
    <3>. QED
      BY <3>1, <3>2
  <2>. QED
    BY <1>4, <2>2 DEF PublishAnswer
<1>5. ASSUME NEW r \in requests, PublishAnswerFails(r)
      PROVE  AgreeInv'
  BY <1>5 DEF PublishAnswerFails
<1>6. ASSUME NEW j \in Jobs, FieldWork(j)
      PROVE  AgreeInv'
  BY <1>6 DEF FieldWork, LoadArrive, RecordArrival, RecordArrivalFails, SubmitSurvey
<1>. QED
  BY <1>1, <1>2, <1>3, <1>4, <1>5, <1>6 DEF AgentRequests

LEMMA CrashAgreeInv ==
  ASSUME TypeInv, AgreeInv, Crash
  PROVE  AgreeInv'
BY DEF Crash, AgreeInv, AssignedAgreed, TypeInv, TypeOK, jobVars

LEMMA TypeAgreeInv == Spec => [](TypeInv /\ AgreeInv)
<1>1. TypeInv /\ AgreeInv /\ [Next]_vars => (TypeInv /\ AgreeInv)'
  <2>. SUFFICES ASSUME TypeInv, AgreeInv, [Next]_vars PROVE (TypeInv /\ AgreeInv)'
    OBVIOUS
  <2>1. CASE UNCHANGED vars
    BY <2>1 DEF vars, TypeInv, TypeOK, Holding, AgreeInv, AssignedAgreed
  <2>2. CASE Next
    BY <2>2, DispatcherTypeInv, RequestsTypeInv, CrashTypeInv,
       DispatcherAgreeInv, RequestsAgreeInv, CrashAgreeInv DEF Next
  <2>. QED
    BY <2>1, <2>2
<1>. QED
  BY <1>1, InitTypeInv, InitAgreeInv, PTL DEF Spec

\* A job is only ever assigned to an agent whose own acceptance reached the
\* offer row, however late, doubled or misdirected the answers are.
THEOREM OnlyWillingAgents == Spec => []AssignedAgreed
<1>1. TypeInv /\ AgreeInv => AssignedAgreed
  BY DEF AgreeInv
<1>. QED
  BY <1>1, TypeAgreeInv, PTL

(***************************************************************************)
(* A job and an agent have at most one offer that is still 'sent'          *)
(***************************************************************************)

LEMMA OfferFields ==
  ASSUME NEW o \in Offers
  PROVE  o.job \in Jobs /\ o.agent \in Agents /\ o.round \in Rounds /\ o.round \in Nat
BY BoundsAssumption DEF Offers, Rounds

LEMMA InitRowInv == Init => RowInv
BY BoundsAssumption DEF Init, RowInv, QueueFresh, NoFutureRows, AnswersWritten, SentRows,
   AtMostOnePendingOffer, Holding, Offers, Rounds

LEMMA EndRoundRowInv ==
  ASSUME TypeInv, RowInv, NEW j \in Jobs, EndRound(j), pc[j] \in {"match", "pick"},
         UNCHANGED <<queue, excluded, current, heard, offers, requests>>
  PROVE  RowInv'
<1>1. /\ pc' = [pc EXCEPT ![j] = pc'[j]] /\ pc'[j] \in {"match", "exhausted"}
      /\ round' \in [Jobs -> Rounds]
  BY EndRoundType
<1>2. \/ round' = round /\ pc'[j] = "exhausted"
      \/ round' = [round EXCEPT ![j] = @ + 1] /\ pc'[j] = "match"
  BY DEF EndRound, TypeInv, TypeOK, PCs
<1>3. \A k \in Jobs : round[k] \in Nat /\ (k # j => round'[k] = round[k])
                     /\ round'[k] >= round[k] /\ (pc'[j] = "match" => round'[j] > round[j])
  BY <1>2, BoundsAssumption DEF TypeInv, TypeOK, Rounds
<1>4. \A k \in Jobs : k # j => Cur(k)' = Cur(k)
  BY <1>3 DEF Cur
<1>5. QueueFresh'
  <2>1. ASSUME NEW a \in queue[j]
        PROVE  offers[[job |-> j, agent |-> a, round |-> round'[j]]] = "none"
    <3>1. CASE round'[j] = round[j]
      BY <3>1 DEF RowInv, QueueFresh
    <3>2. CASE round'[j] > round[j]
      <4> DEFINE o == [job |-> j, agent |-> a, round |-> round'[j]]
      <4>1. o \in Offers
        BY <1>1 DEF Offers, TypeInv, TypeOK
      <4>. QED
        BY <4>1, <3>2 DEF RowInv, NoFutureRows
    <3>. QED
      BY <1>2, <1>3, <3>1, <3>2
  <2>. QED
    BY <1>1, <1>3, <2>1 DEF RowInv, QueueFresh, Holding, TypeInv, TypeOK
<1>6. NoFutureRows'
  <2>1. ASSUME NEW o \in Offers,
               \/ o.round > round'[o.job]
               \/ o.round = round'[o.job] /\ pc'[o.job] \in {"queued", "match"}
        PROVE  offers[o] = "none"
    <3>1. o.job \in Jobs /\ o.round \in Nat /\ round[o.job] \in Nat /\ round'[o.job] \in Nat
      BY <1>1, <1>3, OfferFields, BoundsAssumption DEF Rounds
    <3>2. CASE o.job = j
      BY <1>1, <1>3, <2>1, <3>1, <3>2 DEF RowInv, NoFutureRows
    <3>3. CASE o.job # j
      BY <1>1, <1>3, <2>1, <3>1, <3>3 DEF RowInv, NoFutureRows, TypeInv, TypeOK
    <3>. QED
      BY <3>2, <3>3
  <2>. QED
    BY <2>1 DEF NoFutureRows
<1>7. AnswersWritten'
  BY <1>1, <1>4 DEF RowInv, AnswersWritten, TypeInv, TypeOK
<1>8. SentRows'
  BY <1>1, <1>4, OfferFields DEF RowInv, SentRows, TypeInv, TypeOK
<1>9. AtMostOnePendingOffer'
  BY DEF RowInv, AtMostOnePendingOffer
<1>. QED
  BY <1>5, <1>6, <1>7, <1>8, <1>9 DEF RowInv

LEMMA CreateOfferRowInv ==
  ASSUME TypeInv, RowInv, NEW j \in Jobs, NEW a \in Agents, CreateOffer(j, a)
  PROVE  RowInv'
<1> DEFINE new == [job |-> j, agent |-> a, round |-> round[j]]
<1>1. /\ new \in Offers /\ offers' = [offers EXCEPT ![new] = "sent"]
      /\ offers[new] = "none" /\ a \in queue[j] /\ a \notin excluded[j]
  BY DEF CreateOffer, RowInv, QueueFresh, TypeInv, TypeOK, Offers
<1>2. /\ pc[j] = "pick" /\ pc' = [pc EXCEPT ![j] = "announce"]
      /\ queue' = [queue EXCEPT ![j] = @ \ {a}] /\ current' = [current EXCEPT ![j] = a]
      /\ UNCHANGED <<round, excluded, heard, requests>>
  BY DEF CreateOffer, Goto
<1>3. Cur(j)' = new /\ \A k \in Jobs : k # j => Cur(k)' = Cur(k)
  BY <1>2 DEF Cur, TypeInv, TypeOK
<1>4. offers'[new] = "sent" /\ \A o \in Offers : o # new => offers'[o] = offers[o]
  BY <1>1 DEF TypeInv, TypeOK
<1>5. QueueFresh'
  <2>1. ASSUME NEW k \in Jobs, NEW b \in queue'[k]
        PROVE  offers'[[job |-> k, agent |-> b, round |-> round[k]]] = "none"
    <3>1. /\ b \in queue[k] /\ b \in Agents
          /\ [job |-> k, agent |-> b, round |-> round[k]] \in Offers
          /\ [job |-> k, agent |-> b, round |-> round[k]] # new
      BY <1>2, <2>1 DEF TypeInv, TypeOK, Offers
    <3>. QED
      BY <1>4, <3>1 DEF RowInv, QueueFresh
  <2>. QED
    BY <1>2, <2>1 DEF RowInv, QueueFresh, Holding, TypeInv, TypeOK
<1>6. NoFutureRows'
  <2>1. ~(new.round > round[j]) /\ pc'[j] = "announce"
    BY <1>1, <1>2, OfferFields DEF TypeInv, TypeOK
  <2>. QED
    BY <1>2, <1>4, <2>1 DEF RowInv, NoFutureRows, TypeInv, TypeOK
<1>7. AnswersWritten'
  <2>1. \A r \in requests : r.offer \in Offers /\ r.offer # new
    BY <1>1 DEF RowInv, AnswersWritten, TypeInv, TypeOK, Requests
  <2>2. ASSUME NEW k \in Jobs,
               pc'[k] = "assign" \/ (pc'[k] = "wait" /\ heard[k] # "none")
        PROVE  offers'[Cur(k)'] # "sent"
    <3>1. k # j /\ pc'[k] = pc[k]
      BY <1>2, <2>2 DEF TypeInv, TypeOK
    <3>2. Cur(k) \in Offers /\ Cur(k) # new
      BY <2>2, <3>1 DEF Cur, Offers, TypeInv, TypeOK, Holding
    <3>3. offers[Cur(k)] # "sent"
      BY <2>2, <3>1 DEF RowInv, AnswersWritten
    <3>. QED
      BY <1>3, <1>4, <3>1, <3>2, <3>3
  <2>. QED
    BY <1>2, <1>4, <2>1, <2>2 DEF RowInv, AnswersWritten
<1>8. SentRows'
  BY <1>2, <1>3, <1>4, OfferFields DEF RowInv, SentRows, TypeInv, TypeOK
<1>9. AtMostOnePendingOffer'
  <2>1. ASSUME NEW o \in Offers, offers[o] = "sent", o.job = j, o.agent = a
        PROVE  FALSE
    BY <1>1, <1>2, <2>1 DEF RowInv, SentRows
  <2>. QED
    BY <1>4, <2>1 DEF RowInv, AtMostOnePendingOffer
<1>. QED
  BY <1>5, <1>6, <1>7, <1>8, <1>9 DEF RowInv

LEMMA DispatcherRowInv ==
  ASSUME TypeInv, RowInv, NEW j \in Jobs, Dispatcher(j)
  PROVE  RowInv'
<1>. USE DEF RowInv, QueueFresh, NoFutureRows, AnswersWritten, SentRows,
             AtMostOnePendingOffer, TypeInv, TypeOK, jobVars, Goto, Holding, Cur
<1>1. CASE Start(j)
  BY <1>1 DEF Start
<1>2. CASE StartFails(j)
  BY <1>2 DEF StartFails
<1>3. ASSUME NEW S \in SUBSET Agents, Match(j, S)
      PROVE  RowInv'
  BY <1>3 DEF Match, Matchable, Offers
<1>4. CASE NoCandidates(j)
  BY <1>4, EndRoundRowInv DEF NoCandidates
<1>5. CASE RoundOver(j)
  BY <1>5, EndRoundRowInv DEF RoundOver
<1>6. ASSUME NEW a \in Agents, CreateOffer(j, a)
      PROVE  RowInv'
  BY <1>6, CreateOfferRowInv
<1>7. ASSUME NEW a \in Agents, CreateOfferFails(j, a)
      PROVE  RowInv'
  BY <1>7 DEF CreateOfferFails
<1>8. CASE Announce(j)
  BY <1>8 DEF Announce
<1>9. CASE Subscribe(j)
  BY <1>9 DEF Subscribe
<1>10. CASE HearAccept(j)
  BY <1>10 DEF HearAccept
<1>11. ASSUME Refused(j), UNCHANGED offers
       PROVE  RowInv'
  BY <1>11 DEF Refused
<1>12. CASE AssignAgent(j)
  BY <1>12 DEF AssignAgent
<1>13. CASE AssignAgentFails(j)
  BY <1>13 DEF AssignAgentFails
<1>14. CASE MarkUnassigned(j)
  BY <1>14 DEF MarkUnassigned
<1>. QED
  BY <1>1, <1>2, <1>3, <1>4, <1>5, <1>6, <1>7, <1>8, <1>9, <1>10, <1>11,
     <1>12, <1>13, <1>14 DEF Dispatcher, HearDecline, Timeout

LEMMA WriteAnswerRowInv ==
  ASSUME TypeInv, RowInv, NEW r \in requests, WriteAnswer(r)
  PROVE  RowInv'
<1>1. /\ r.offer \in Offers /\ r.answer \in Answers /\ offers[r.offer] # "none"
      /\ offers' = [offers EXCEPT ![r.offer] = r.answer]
      /\ UNCHANGED <<pc, round, queue, excluded, current, heard>>
  BY DEF WriteAnswer, RowInv, AnswersWritten, TypeInv, TypeOK, Requests, dispatcherVars
<1>2. /\ offers'[r.offer] \in {"accepted", "declined"}
      /\ \A o \in Offers : o # r.offer => offers'[o] = offers[o]
  BY <1>1 DEF TypeInv, TypeOK, Answers
<1>3. QueueFresh'
  <2>1. ASSUME NEW k \in Jobs, NEW b \in queue[k]
        PROVE  offers'[[job |-> k, agent |-> b, round |-> round[k]]] = "none"
    <3>1. [job |-> k, agent |-> b, round |-> round[k]] \in Offers
      BY DEF TypeInv, TypeOK, Offers
    <3>. QED
      BY <1>1, <1>2, <3>1 DEF RowInv, QueueFresh
  <2>. QED
    BY <1>1, <2>1 DEF RowInv, QueueFresh, Holding
<1>4. NoFutureRows'
  BY <1>1, <1>2 DEF RowInv, NoFutureRows
<1>5. AnswersWritten'
  <2>1. ASSUME NEW q \in requests'
        PROVE  /\ offers'[q.offer] # "none"
               /\ q.step = "publish" => offers'[q.offer] # "sent"
    <3>1. CASE q \in requests
      <4>1. q.offer \in Offers
        BY <3>1 DEF TypeInv, TypeOK, Requests
      <4>. QED
        BY <1>2, <3>1, <4>1 DEF RowInv, AnswersWritten
    <3>2. CASE q = [offer |-> r.offer, answer |-> r.answer, step |-> "publish"]
      BY <1>2, <3>2
    <3>. QED
      BY <3>1, <3>2 DEF WriteAnswer
  <2>2. ASSUME NEW k \in Jobs,
               pc[k] = "assign" \/ (pc[k] = "wait" /\ heard[k] # "none")
        PROVE  offers'[Cur(k)] # "sent"
    <3>1. Cur(k) \in Offers
      BY <2>2 DEF Cur, Offers, TypeInv, TypeOK, Holding
    <3>2. offers[Cur(k)] # "sent"
      BY <2>2 DEF RowInv, AnswersWritten
    <3>. QED
      BY <1>2, <3>1, <3>2
  <2>3. \A k \in Jobs : Cur(k)' = Cur(k)
    BY <1>1 DEF Cur
  <2>. QED
    BY <1>1, <2>1, <2>2, <2>3 DEF AnswersWritten
<1>6. SentRows'
  BY <1>1, <1>2 DEF RowInv, SentRows, Cur
<1>7. AtMostOnePendingOffer'
  BY <1>1, <1>2 DEF RowInv, AtMostOnePendingOffer
<1>. QED
  BY <1>3, <1>4, <1>5, <1>6, <1>7 DEF RowInv

LEMMA RequestsRowInv ==
  ASSUME TypeInv, RowInv, AgentRequests
  PROVE  RowInv'
<1>. USE DEF RowInv, QueueFresh, NoFutureRows, AnswersWritten, SentRows,
             AtMostOnePendingOffer, TypeInv, TypeOK, dispatcherVars, jobVars, Holding, Cur
<1>1. ASSUME NEW o \in Offers, NEW ans \in Answers, LoadOffer(o, ans)
      PROVE  RowInv'
  BY <1>1 DEF LoadOffer
<1>2. ASSUME NEW r \in requests, WriteAnswer(r)
      PROVE  RowInv'
  BY <1>2, WriteAnswerRowInv
<1>3. ASSUME NEW r \in requests, WriteAnswerFails(r)
      PROVE  RowInv'
  BY <1>3 DEF WriteAnswerFails
<1>4. ASSUME NEW r \in requests, PublishAnswer(r)
      PROVE  RowInv'
  BY <1>4 DEF PublishAnswer, Requests, Offers
<1>5. ASSUME NEW r \in requests, PublishAnswerFails(r)
      PROVE  RowInv'
  BY <1>5 DEF PublishAnswerFails
<1>6. ASSUME NEW j \in Jobs, FieldWork(j)
      PROVE  RowInv'
  BY <1>6 DEF FieldWork, LoadArrive, RecordArrival, RecordArrivalFails, SubmitSurvey
<1>. QED
  BY <1>1, <1>2, <1>3, <1>4, <1>5, <1>6 DEF AgentRequests

LEMMA CrashRowInv ==
  ASSUME TypeInv, RowInv, Crash
  PROVE  RowInv'
BY DEF Crash, RowInv, QueueFresh, NoFutureRows, AnswersWritten, SentRows,
   AtMostOnePendingOffer, TypeInv, TypeOK, jobVars, Holding, Cur, Offers

LEMMA TypeRowInv == Spec => [](TypeInv /\ RowInv)
<1>1. TypeInv /\ RowInv /\ [Next]_vars => (TypeInv /\ RowInv)'
  <2>. SUFFICES ASSUME TypeInv, RowInv, [Next]_vars PROVE (TypeInv /\ RowInv)'
    OBVIOUS
  <2>1. CASE UNCHANGED vars
    BY <2>1 DEF vars, TypeInv, TypeOK, Holding, RowInv, QueueFresh, NoFutureRows,
       AnswersWritten, SentRows, AtMostOnePendingOffer, Cur
  <2>2. CASE Next
    BY <2>2, DispatcherTypeInv, RequestsTypeInv, CrashTypeInv,
       DispatcherRowInv, RequestsRowInv, CrashRowInv DEF Next
  <2>. QED
    BY <2>1, <2>2
<1>. QED
  BY <1>1, InitTypeInv, InitRowInv, PTL DEF Spec

\* GetOfferByJobAndAgent never has two rows to choose from: of the rows a job
\* and an agent collect over the rounds, at most one is 'sent', although rows
\* that time out stay 'sent' for ever.
THEOREM PendingOfferUnique == Spec => []AtMostOnePendingOffer
<1>1. TypeInv /\ RowInv => AtMostOnePendingOffer
  BY DEF RowInv
<1>. QED
  BY <1>1, TypeRowInv, PTL

\* An agent in excludeIDs gets no further offer of the job.
THEOREM RefusalIsFinal == Spec => RefusedNotReoffered
<1>1. TypeInv /\ RowInv /\ [Next]_vars =>
        [\A o \in Offers :
           offers[o] = "none" /\ offers'[o] # "none" => o.agent \notin excluded[o.job]]_vars
  <2>. SUFFICES ASSUME TypeInv, RowInv, [Next]_vars, NEW o \in Offers,
                       offers[o] = "none", offers'[o] # "none"
                PROVE  o.agent \notin excluded[o.job]
    OBVIOUS
  <2>1. PICK j \in Jobs, a \in Agents : CreateOffer(j, a)
    <3>1. ASSUME NEW r \in requests, WriteAnswer(r)
          PROVE  FALSE
      BY <3>1 DEF WriteAnswer, RowInv, AnswersWritten, TypeInv, TypeOK, Requests
    <3>2. UNCHANGED offers \/ \E j \in Jobs, a \in Agents : CreateOffer(j, a)
      BY <3>1 DEF Next, vars, Dispatcher, AgentRequests, Crash, LoadOffer, WriteAnswerFails,
         PublishAnswer, PublishAnswerFails, FieldWork, LoadArrive, RecordArrival,
       RecordArrivalFails, SubmitSurvey, Start, StartFails, Match,
         NoCandidates, RoundOver, CreateOfferFails, Announce, Subscribe, HearAccept,
         HearDecline, Timeout, AssignAgent, AssignAgentFails, MarkUnassigned
    <3>. QED
      BY <3>2
  <2>2. o = [job |-> j, agent |-> a, round |-> round[j]] /\ a \in queue[j]
    BY <2>1 DEF CreateOffer, TypeInv, TypeOK
  <2>. QED
    BY <2>2 DEF RowInv, QueueFresh
<1>. QED
  BY <1>1, TypeRowInv, PTL DEF Spec, RefusedNotReoffered

(***************************************************************************)
(* An assignment is final, and Dispatch implements JobAllocation           *)
(***************************************************************************)

LEMMA DispatcherStatusInv ==
  ASSUME TypeInv, StatusInv, NEW j \in Jobs, Dispatcher(j)
  PROVE  StatusInv'
<1>. USE DEF StatusInv, TypeInv, TypeOK, jobVars, Goto
<1>1. CASE NoCandidates(j) \/ RoundOver(j)
  BY <1>1, EndRoundType DEF NoCandidates, RoundOver
<1>2. ASSUME NEW S \in SUBSET Agents, Match(j, S)
      PROVE  StatusInv'
  BY <1>2 DEF Match
<1>3. ASSUME NEW a \in Agents, CreateOffer(j, a) \/ CreateOfferFails(j, a)
      PROVE  StatusInv'
  BY <1>3 DEF CreateOffer, CreateOfferFails
<1>4. CASE Announce(j)
  BY <1>4 DEF Announce
<1>5. CASE AssignAgent(j)
  BY <1>5 DEF AssignAgent, HandedOver
<1>6. CASE MarkUnassigned(j)
  BY <1>6 DEF MarkUnassigned
<1>7. CASE \/ Start(j) \/ StartFails(j) \/ Subscribe(j) \/ HearAccept(j)
           \/ Refused(j) \/ AssignAgentFails(j)
  BY <1>7 DEF Start, StartFails, Subscribe, HearAccept, Refused, AssignAgentFails
<1>. QED
  BY <1>1, <1>2, <1>3, <1>4, <1>5, <1>6, <1>7 DEF Dispatcher, HearDecline, Timeout

LEMMA NextStatusInv ==
  ASSUME TypeInv, StatusInv, [Next]_vars
  PROVE  StatusInv'
<1>. USE DEF StatusInv, TypeInv, TypeOK, dispatcherVars, jobVars
<1>1. CASE UNCHANGED vars
  BY <1>1 DEF vars
<1>2. CASE Crash
  BY <1>2 DEF Crash
<1>3. ASSUME NEW j \in Jobs, FieldWork(j)
      PROVE  StatusInv'
  BY <1>3 DEF FieldWork, LoadArrive, RecordArrival, RecordArrivalFails, SubmitSurvey,
     HandedOver
<1>4. CASE AgentRequests
  BY <1>3, <1>4 DEF AgentRequests, LoadOffer, WriteAnswer, WriteAnswerFails,
     PublishAnswer, PublishAnswerFails
<1>. QED
  BY <1>1, <1>2, <1>4, DispatcherStatusInv DEF Next

\* The whole inductive invariant.
IInv == TypeInv /\ AgreeInv /\ RowInv /\ StatusInv

LEMMA Inductive == Spec => []IInv
<1>1. Init => StatusInv
  BY DEF Init, StatusInv
<1>2. TypeInv /\ StatusInv /\ [Next]_vars => StatusInv'
  BY NextStatusInv
<1>3. IInv <=> TypeInv /\ AgreeInv /\ RowInv /\ StatusInv
  BY DEF IInv
<1>. QED
  BY <1>1, <1>2, <1>3, TypeAgreeInv, TypeRowInv, PTL DEF Spec

\* After AssignAgent the cascade inserts no offer, and nothing takes the job
\* from its agent or reopens it.
THEOREM AssignmentFinal == Spec => AssignmentIsFinal
<1>1. IInv /\ [Next]_vars =>
        [\A j \in Jobs : assignee[j] # NoAgent =>
           /\ assignee'[j] = assignee[j]
           /\ jobStatus'[j] \in HandedOver
           /\ \A o \in Offers : o.job = j /\ offers[o] = "none" => offers'[o] = "none"]_vars
  <2>. SUFFICES ASSUME IInv, [Next]_vars, NEW j \in Jobs, assignee[j] # NoAgent
                PROVE  /\ assignee'[j] = assignee[j]
                       /\ jobStatus'[j] \in HandedOver
                       /\ \A o \in Offers : o.job = j /\ offers[o] = "none" => offers'[o] = "none"
    OBVIOUS
  <2>1. pc[j] = "done" /\ jobStatus[j] \in HandedOver
    BY DEF IInv, StatusInv
  <2>2. CASE UNCHANGED vars \/ Crash
    BY <2>1, <2>2 DEF vars, Crash, jobVars
  <2>3. ASSUME NEW k \in Jobs, Dispatcher(k)
        PROVE  /\ assignee'[j] = assignee[j]
               /\ jobStatus'[j] = jobStatus[j]
               /\ \A o \in Offers : o.job = j /\ offers[o] = "none" => offers'[o] = "none"
    <3>. USE DEF IInv, TypeInv, TypeOK, Goto, jobVars
    <3>1. ASSUME NEW a \in Agents, CreateOffer(k, a)
          PROVE  \A o \in Offers : o.job = j /\ offers[o] = "none" => offers'[o] = "none"
      BY <2>1, <3>1 DEF CreateOffer
    <3>2. CASE Announce(k) \/ AssignAgent(k) \/ MarkUnassigned(k)
      BY <2>1, <3>2 DEF Announce, AssignAgent, MarkUnassigned
    <3>. QED
      BY <2>3, <3>1, <3>2 DEF Dispatcher, Start, StartFails, Match, NoCandidates, RoundOver,
         CreateOffer, CreateOfferFails, Subscribe, HearAccept, HearDecline, Timeout, Refused,
         AssignAgentFails
  <2>4. ASSUME NEW r \in requests, WriteAnswer(r)
        PROVE  /\ UNCHANGED jobVars
               /\ \A o \in Offers : offers[o] = "none" => offers'[o] = "none"
    BY <2>4 DEF WriteAnswer, IInv, RowInv, AnswersWritten, TypeInv, TypeOK, Requests
  <2>5. ASSUME NEW k \in Jobs, FieldWork(k)
        PROVE  /\ assignee'[j] = assignee[j]
               /\ jobStatus'[j] \in HandedOver
               /\ offers' = offers
    BY <2>1, <2>5 DEF FieldWork, LoadArrive, RecordArrival, RecordArrivalFails, SubmitSurvey,
       HandedOver, jobVars, IInv, TypeInv, TypeOK
  <2>6. CASE AgentRequests
    BY <2>1, <2>4, <2>5, <2>6 DEF AgentRequests, LoadOffer, WriteAnswerFails, PublishAnswer,
       PublishAnswerFails, jobVars
  <2>. QED
    BY <2>1, <2>2, <2>3, <2>6 DEF Next
<1>. QED
  BY <1>1, Inductive, PTL DEF Spec, AssignmentIsFinal

LEMMA StepImplementsAllocation ==
  ASSUME IInv, [Next]_vars
  PROVE  [Alloc!Next]_(Alloc!vars)
<1> DEFINE phase == [j \in Jobs |-> CASE jobStatus[j] \in HandedOver -> "assigned"
                                      [] jobStatus[j] = "unassigned" -> "unassigned"
                                      [] OTHER -> "open"]
<1>. USE DEF IInv, TypeInv, TypeOK
<1>1. ASSUME UNCHANGED <<phase, assignee, agreed>>
      PROVE  UNCHANGED Alloc!vars
  BY <1>1 DEF Alloc!vars
<1>2. CASE UNCHANGED vars
  BY <1>2 DEF vars, Alloc!vars
<1>3. CASE Crash
  BY <1>3 DEF Crash, jobVars, Alloc!vars
<1>4. ASSUME NEW j \in Jobs, Dispatcher(j)
      PROVE  [Alloc!Next]_(Alloc!vars)
  <2>. USE DEF Goto, jobVars
  <2>1. CASE AssignAgent(j)
    <3>1. /\ phase[j] = "open" /\ phase' = [phase EXCEPT ![j] = "assigned"]
          /\ current[j] \in agreed[j] /\ current[j] \in Agents
          /\ assignee' = [assignee EXCEPT ![j] = current[j]] /\ UNCHANGED agreed
      BY <2>1 DEF AssignAgent, AgreeInv, StatusInv, Holding, HandedOver
    <3>2. PICK a \in Agents : a = current[j]
      BY <3>1
    <3>3. Alloc!Assign(j, a)
      BY <3>1, <3>2 DEF Alloc!Assign
    <3>. QED
      BY <3>3 DEF Alloc!Next
  <2>2. CASE MarkUnassigned(j)
    <3>1. phase[j] = "open" /\ UNCHANGED <<assignee, agreed>>
      BY <2>2 DEF MarkUnassigned, StatusInv, HandedOver
    <3>2. CASE jobStatus' = [jobStatus EXCEPT ![j] = "unassigned"]
      <4>1. phase' = [phase EXCEPT ![j] = "unassigned"]
        BY <3>2 DEF HandedOver
      <4>2. Alloc!GiveUp(j)
        BY <3>1, <4>1 DEF Alloc!GiveUp
      <4>. QED
        BY <4>2 DEF Alloc!Next
    <3>3. CASE UNCHANGED jobStatus
      BY <3>1, <3>3, <1>1
    <3>. QED
      BY <2>2, <3>2, <3>3 DEF MarkUnassigned
  <2>3. CASE Announce(j)
    <3>1. UNCHANGED <<assignee, agreed>> /\ phase' = phase
      BY <2>3 DEF Announce, StatusInv, HandedOver
    <3>. QED
      BY <3>1, <1>1
  <2>4. CASE UNCHANGED <<jobStatus, assignee, agreed>>
    BY <1>1, <2>4
  <2>. HIDE DEF phase
  <2>. QED
    BY <1>4, <2>1, <2>2, <2>3, <2>4 DEF Dispatcher, Start, StartFails, Match, NoCandidates,
       RoundOver, CreateOffer, CreateOfferFails, Subscribe, HearAccept, HearDecline, Timeout,
       Refused, AssignAgentFails
<1>5. ASSUME NEW r \in requests, WriteAnswer(r)
      PROVE  [Alloc!Next]_(Alloc!vars)
  <2>1. r.offer.job \in Jobs /\ r.offer.agent \in Agents
    BY DEF Requests, Offers
  <2>2. UNCHANGED <<phase, assignee>>
    BY <1>5 DEF WriteAnswer, jobVars
  <2>3. CASE r.answer = "accepted"
    <3>1. Alloc!Agree(r.offer.job, r.offer.agent)
      BY <1>5, <2>2, <2>3 DEF WriteAnswer, Alloc!Agree
    <3>. QED
      BY <2>1, <3>1 DEF Alloc!Next
  <2>4. CASE r.answer # "accepted"
    BY <1>1, <1>5, <2>2, <2>4 DEF WriteAnswer
  <2>. QED
    BY <2>3, <2>4
<1>6. ASSUME NEW j \in Jobs, FieldWork(j)
      PROVE  [Alloc!Next]_(Alloc!vars)
  <2>1. UNCHANGED <<phase, assignee, agreed>>
    BY <1>6 DEF FieldWork, LoadArrive, RecordArrival, RecordArrivalFails, SubmitSurvey,
       HandedOver, StatusInv, jobVars
  <2>. QED
    BY <1>1, <2>1
<1>7. CASE AgentRequests
  BY <1>1, <1>5, <1>6, <1>7 DEF AgentRequests, LoadOffer, WriteAnswerFails, PublishAnswer,
     PublishAnswerFails, jobVars
<1>. QED
  BY <1>2, <1>3, <1>4, <1>7 DEF Next

\* The cascade, with every race, loss, failure and crash it may meet, keeps the
\* promise of JobAllocation: open until handed once to a willing agent or
\* given up, whatever Arrive and SubmitSurvey make of its status then.
THEOREM DispatchImplementsAllocation == Spec => ImplementsJobAllocation
<1>1. Init => Alloc!Init
  BY DEF Init, Alloc!Init, HandedOver
<1>2. IInv /\ [Next]_vars => [Alloc!Next]_(Alloc!vars)
  BY StepImplementsAllocation
<1>. QED
  BY <1>1, <1>2, Inductive, PTL DEF Spec, ImplementsJobAllocation, Alloc!Spec

-----------------------------------------------------------------------------
(* What a cascade sends is counted and bounded.                            *)

\* The job_offers rows of a job.
OfferRows(j) == {o \in Offers : o.job = j /\ offers[o] # "none"}

\* The counter of the goroutine is the number of the job's rows, and so is the
\* total_offers_sent of a job that was assigned.
OffersCounted ==
  \A j \in Jobs :
    /\ IsFiniteSet(OfferRows(j)) /\ Cardinality(OfferRows(j)) = sent[j]
    /\ assignee[j] # NoAgent => offersSent[j] = sent[j]

\* The rounds whose candidates may have been tried.
RoundsBegun(j) == IF pc[j] \in {"queued", "match"} THEN round[j] - 1 ELSE round[j]

\* The offers sent and the candidates waiting for theirs are within the lists
\* of the rounds begun; nobody waits before the first list.
BudgetInv ==
  \A j \in Jobs :
    /\ sent[j] + Cardinality(queue[j]) <= MaxCandidates * RoundsBegun(j)
    /\ pc[j] \in {"queued", "match"} => queue[j] = {}

\* A cascade sends at most maxRounds times maxCandidates offers.
OffersBounded == \A j \in Jobs : sent[j] <= MaxCandidates * MaxRounds

\* How far a goroutine is within its round, and with its candidate.
Stage(p) ==
  CASE p = "queued" -> 0 [] p = "match" -> 1 [] p = "exhausted" -> 3
    [] p \in {"done", "lost"} -> 4 [] OTHER -> 2
Turn(p) ==
  CASE p = "announce" -> 1 [] p = "subscribe" -> 2 [] p = "wait" -> 3
    [] p = "assign" -> 4 [] OTHER -> 5

\* The cascade is in a later round, at a later stage of the round, has fewer
\* candidates to try, or is further with the one it tries.
Further(j) ==
  \/ round'[j] > round[j]
  \/ /\ round'[j] = round[j]
     /\ \/ Stage(pc'[j]) > Stage(pc[j])
        \/ /\ Stage(pc'[j]) = Stage(pc[j])
           /\ queue'[j] \subseteq queue[j]
           /\ queue'[j] # queue[j] \/ Turn(pc'[j]) > Turn(pc[j])

\* Every step of a cascade takes it further, and no other step takes it back:
\* with finite lists of candidates it has no way to go on for ever.
OnlyFurther ==
  [][\A j \in Jobs :
       /\ Dispatcher(j) => Further(j)
       /\ Further(j) \/ UNCHANGED <<pc[j], round[j], queue[j]>>]_vars

\* Rows are inserted by CreateOffer, one at a time; AssignAgent writes the
\* counter, and nobody counts on after it.
LEMMA StepCounts ==
  ASSUME IInv, OffersCounted, [Next]_vars
  PROVE  OffersCounted'
<1>. USE DEF IInv, TypeInv, TypeOK
<1>1. ASSUME \A o \in Offers : offers'[o] = "none" <=> offers[o] = "none",
             UNCHANGED <<sent, assignee, offersSent>>
      PROVE  OffersCounted'
  <2>1. \A j \in Jobs : OfferRows(j)' = OfferRows(j)
    BY <1>1 DEF OfferRows
  <2>. QED
    BY <1>1, <2>1 DEF OffersCounted
<1>2. ASSUME NEW j \in Jobs, NEW a \in Agents, CreateOffer(j, a)
      PROVE  OffersCounted'
  <2> DEFINE o == [job |-> j, agent |-> a, round |-> round[j]]
  <2>1. /\ o \in Offers /\ o.job = j /\ offers[o] = "none"
        /\ offers' = [offers EXCEPT ![o] = "sent"]
        /\ sent' = [sent EXCEPT ![j] = @ + 1]
        /\ UNCHANGED <<assignee, offersSent>> /\ assignee[j] = NoAgent
    BY <1>2 DEF CreateOffer, Goto, jobVars, Offers, RowInv, QueueFresh, StatusInv
  <2>2. ASSUME NEW k \in Jobs, k # j
        PROVE  OfferRows(k)' = OfferRows(k) /\ sent'[k] = sent[k]
    BY <2>1, <2>2 DEF OfferRows
  <2>3. OfferRows(j)' = OfferRows(j) \cup {o} /\ o \notin OfferRows(j)
    BY <2>1 DEF OfferRows
  <2>4. /\ IsFiniteSet(OfferRows(j)')
        /\ Cardinality(OfferRows(j)') = Cardinality(OfferRows(j)) + 1
    <3> HIDE DEF o
    <3>. QED
      BY <2>3, FS_AddElement DEF OffersCounted
  <2>. QED
    BY <2>1, <2>2, <2>4 DEF OffersCounted
<1>3. ASSUME NEW j \in Jobs, AssignAgent(j)
      PROVE  OffersCounted'
  <2>1. \A k \in Jobs : OfferRows(k)' = OfferRows(k)
    BY <1>3 DEF AssignAgent, OfferRows
  <2>. QED
    BY <1>3, <2>1 DEF AssignAgent, OffersCounted
<1>4. ASSUME NEW r \in requests, WriteAnswer(r)
      PROVE  OffersCounted'
  <2>1. r.offer \in Offers /\ r.answer # "none" /\ offers[r.offer] # "none"
    BY DEF Requests, Answers, RowInv, AnswersWritten
  <2>2. /\ \A o \in Offers : offers'[o] = "none" <=> offers[o] = "none"
        /\ UNCHANGED <<sent, assignee, offersSent>>
    BY <1>4, <2>1 DEF WriteAnswer, dispatcherVars, jobVars
  <2>. QED
    BY <1>1, <2>2
<1>5. ASSUME NEW j \in Jobs, Dispatcher(j)
      PROVE  OffersCounted'
  BY <1>1, <1>2, <1>3, <1>5 DEF Dispatcher, Start, StartFails, Match, NoCandidates,
     RoundOver, CreateOfferFails, Announce, Subscribe, HearAccept, HearDecline, Timeout,
     Refused, AssignAgentFails, MarkUnassigned, jobVars
<1>6. CASE AgentRequests
  BY <1>1, <1>4, <1>6 DEF AgentRequests, LoadOffer, WriteAnswerFails, PublishAnswer,
     PublishAnswerFails, FieldWork, LoadArrive, RecordArrival,
       RecordArrivalFails, SubmitSurvey, dispatcherVars, jobVars
<1>7. CASE Crash \/ UNCHANGED vars
  BY <1>1, <1>7 DEF Crash, vars, jobVars
<1>. QED
  BY <1>5, <1>6, <1>7 DEF Next

\* The counter that AssignAgent stores as total_offers_sent is the number of
\* rows the job has in job_offers, over all rounds and failed calls.
THEOREM OffersAreCounted == Spec => []OffersCounted
<1>1. Init => OffersCounted
  <2>. SUFFICES ASSUME Init PROVE OffersCounted
    OBVIOUS
  <2>1. \A j \in Jobs : OfferRows(j) = {}
    BY DEF Init, OfferRows
  <2>. QED
    BY <2>1, FS_EmptySet DEF Init, OffersCounted
<1>. QED
  BY <1>1, StepCounts, Inductive, PTL DEF Spec

\* The agents are rows of a table.
FiniteAgents == IsFiniteSet(Agents)

LEMMA QueuesAreFinite ==
  ASSUME FiniteAgents, NEW S \in SUBSET Agents
  PROVE  IsFiniteSet(S) /\ Cardinality(S) \in Nat
BY FS_Subset, FS_CardinalityType DEF FiniteAgents

\* A list that a candidate leaves is one shorter.
LEMMA QueueShrinks ==
  ASSUME FiniteAgents, NEW S \in SUBSET Agents, NEW a \in S
  PROVE  Cardinality(S \ {a}) = Cardinality(S) - 1
BY QueuesAreFinite, FS_RemoveElement

\* A further round has room for a further list.
LEMMA OneMoreList ==
  ASSUME NEW r \in Nat
  PROVE  /\ MaxCandidates * (r + 1) = MaxCandidates * r + MaxCandidates
         /\ r >= 1 => MaxCandidates * r = MaxCandidates * (r - 1) + MaxCandidates
         /\ MaxCandidates * r \in Nat
         /\ \A q \in Nat : q <= r => MaxCandidates * q <= MaxCandidates * r
BY BoundsAssumption

LEMMA DispatcherBudget ==
  ASSUME FiniteAgents, TypeInv, BudgetInv, NEW j \in Jobs, Dispatcher(j)
  PROVE  BudgetInv'
<1>. USE DEF TypeInv, TypeOK
<1>0. /\ round[j] \in Nat /\ round[j] >= 1
      /\ Cardinality(queue[j]) \in Nat /\ sent[j] \in Nat
      /\ MaxCandidates \in Nat
      /\ MaxCandidates * round[j] = MaxCandidates * (round[j] - 1) + MaxCandidates
      /\ MaxCandidates * (round[j] - 1) \in Nat
  <2>1. round[j] \in Nat /\ round[j] >= 1 /\ round[j] - 1 \in Nat
    BY BoundsAssumption DEF Rounds
  <2>. QED
    BY <2>1, QueuesAreFinite, OneMoreList, BoundsAssumption
\* Only what concerns job j can change.
<1>1. ASSUME \A k \in Jobs : k # j => /\ pc'[k] = pc[k] /\ round'[k] = round[k]
                                      /\ queue'[k] = queue[k] /\ sent'[k] = sent[k],
             sent'[j] + Cardinality(queue'[j]) <= MaxCandidates * RoundsBegun(j)',
             pc'[j] \in {"queued", "match"} => queue'[j] = {}
      PROVE  BudgetInv'
  <2>1. ASSUME NEW k \in Jobs
        PROVE  /\ sent'[k] + Cardinality(queue'[k]) <= MaxCandidates * RoundsBegun(k)'
               /\ pc'[k] \in {"queued", "match"} => queue'[k] = {}
    <3>1. CASE k = j
      BY <1>1, <3>1
    <3>2. CASE k # j
      <4>1. RoundsBegun(k)' = RoundsBegun(k)
        BY <1>1, <3>2 DEF RoundsBegun
      <4>. QED
        BY <1>1, <3>2, <4>1 DEF BudgetInv
    <3>. QED
      BY <3>1, <3>2
  <2>. QED
    BY <2>1 DEF BudgetInv
<1>2. /\ sent[j] + Cardinality(queue[j]) <= MaxCandidates * RoundsBegun(j)
      /\ pc[j] \in {"queued", "match"} => queue[j] = {}
  BY DEF BudgetInv
<1>3. MaxCandidates * RoundsBegun(j) <= MaxCandidates * round[j]
  BY <1>0 DEF RoundsBegun
\* Steps that leave the round and the list alone.
<1>4. ASSUME UNCHANGED <<round, queue, sent>>, pc' = [pc EXCEPT ![j] = pc'[j]],
             pc'[j] \notin {"queued"}, pc'[j] = "match" => pc[j] = "queued"
      PROVE  BudgetInv'
  <2>1. RoundsBegun(j)' = round[j] \/ RoundsBegun(j)' = RoundsBegun(j)
    BY <1>4 DEF RoundsBegun
  <2>2. sent'[j] + Cardinality(queue'[j]) <= MaxCandidates * RoundsBegun(j)'
    <3>1. CASE RoundsBegun(j)' = round[j]
      BY <1>0, <1>2, <1>3, <1>4, <3>1 DEF RoundsBegun
    <3>2. CASE RoundsBegun(j)' = RoundsBegun(j)
      BY <1>2, <1>4, <3>2
    <3>. QED
      BY <2>1, <3>1, <3>2
  <2>. QED
    BY <1>1, <1>2, <1>4, <2>2
<1>5. ASSUME NEW S \in SUBSET Agents, Match(j, S)
      PROVE  BudgetInv'
  <2>1. /\ pc[j] = "match" /\ pc' = [pc EXCEPT ![j] = "pick"]
        /\ Cardinality(S) <= MaxCandidates /\ queue' = [queue EXCEPT ![j] = S]
        /\ UNCHANGED <<round, sent>>
    BY <1>5 DEF Match, Goto
  <2>2. Cardinality(queue[j]) = 0 /\ Cardinality(S) \in Nat
    BY <1>2, <2>1, FS_EmptySet, QueuesAreFinite
  <2>3. RoundsBegun(j) = round[j] - 1 /\ RoundsBegun(j)' = round[j]
    BY <2>1 DEF RoundsBegun
  <2>. QED
    BY <1>0, <1>1, <1>2, <2>1, <2>2, <2>3
<1>6. ASSUME EndRound(j), pc[j] \in {"match", "pick"}, queue[j] = {},
             UNCHANGED <<queue, sent>>
      PROVE  BudgetInv'
  <2>1. pc' = [pc EXCEPT ![j] = pc'[j]]
    BY <1>6, EndRoundType
  <2>2. CASE round' = [round EXCEPT ![j] = @ + 1] /\ pc'[j] = "match"
    <3>1. RoundsBegun(j)' = round[j]
      BY <1>0, <2>2 DEF RoundsBegun
    <3>2. sent'[j] + Cardinality(queue'[j]) <= MaxCandidates * RoundsBegun(j)'
      <4>1. MaxCandidates * RoundsBegun(j)' = MaxCandidates * round[j]
        BY <3>1
      <4>2. MaxCandidates * RoundsBegun(j) = MaxCandidates * round[j]
            \/ MaxCandidates * RoundsBegun(j) = MaxCandidates * (round[j] - 1)
        BY DEF RoundsBegun
      <4>3. sent[j] + Cardinality(queue[j]) <= MaxCandidates * round[j]
        BY <1>0, <1>2, <4>2
      <4>. QED
        BY <1>6, <4>1, <4>3
    <3>. QED
      BY <1>1, <1>6, <2>1, <2>2, <3>2
  <2>3. CASE UNCHANGED round /\ pc'[j] = "exhausted"
    BY <1>4, <1>6, <2>1, <2>3
  <2>. QED
    BY <1>6, <2>2, <2>3 DEF EndRound
<1>7. ASSUME NEW a \in Agents, CreateOffer(j, a) \/ CreateOfferFails(j, a)
      PROVE  BudgetInv'
  <2>1. /\ a \in queue[j] /\ pc[j] = "pick"
        /\ queue' = [queue EXCEPT ![j] = @ \ {a}] /\ UNCHANGED round
        /\ pc' = [pc EXCEPT ![j] = pc'[j]] /\ pc'[j] \notin {"queued", "match"}
        /\ sent' = [sent EXCEPT ![j] = @ + 1] \/ UNCHANGED sent
    BY <1>7 DEF CreateOffer, CreateOfferFails, Goto
  <2>2. Cardinality(queue'[j]) = Cardinality(queue[j]) - 1
    BY <2>1, QueueShrinks
  <2>3. RoundsBegun(j) = round[j] /\ RoundsBegun(j)' = round[j]
    BY <2>1 DEF RoundsBegun
  <2>4. sent'[j] <= sent[j] + 1 /\ sent'[j] \in Nat
    BY <2>1, <1>0
  <2>5. sent'[j] + Cardinality(queue'[j]) <= MaxCandidates * RoundsBegun(j)'
    BY <1>0, <1>2, <2>2, <2>3, <2>4
  <2>. QED
    BY <1>1, <2>1, <2>5
<1>. QED
  <2>1. CASE Match(j, {}) \/ NoCandidates(j) \/ RoundOver(j)
    BY <1>2, <1>5, <1>6, <2>1 DEF NoCandidates, RoundOver
  <2>. QED
    BY <1>4, <1>5, <1>7, <2>1 DEF Dispatcher, Start, StartFails, Announce, Subscribe,
       HearAccept, HearDecline, Timeout, Refused, AssignAgent, AssignAgentFails,
       MarkUnassigned, Goto, jobVars

\* The load an unanswered job may put on the agents: at most maxCandidates
\* offers in each of the maxRounds rounds, whatever fails.
THEOREM OffersAreBounded == FiniteAgents => (Spec => []OffersBounded)
<1>. SUFFICES ASSUME FiniteAgents PROVE Spec => []OffersBounded
  OBVIOUS
<1>1. Init => BudgetInv
  <2>. SUFFICES ASSUME Init, NEW j \in Jobs
                PROVE  0 + Cardinality({}) <= MaxCandidates * (1 - 1)
    BY DEF Init, BudgetInv, RoundsBegun
  <2>. QED
    BY FS_EmptySet, BoundsAssumption
<1>2. TypeInv /\ BudgetInv /\ [Next]_vars => BudgetInv'
  <2>. SUFFICES ASSUME TypeInv, BudgetInv, [Next]_vars PROVE BudgetInv'
    OBVIOUS
  <2>1. CASE UNCHANGED <<pc, round, queue, sent>>
    BY <2>1 DEF BudgetInv, RoundsBegun
  <2>2. CASE AgentRequests
    BY <2>1, <2>2 DEF AgentRequests, LoadOffer, WriteAnswer, WriteAnswerFails,
       PublishAnswer, PublishAnswerFails, FieldWork, LoadArrive, RecordArrival,
       RecordArrivalFails, SubmitSurvey, dispatcherVars
  <2>3. CASE Crash
    <3>1. ASSUME NEW j \in Jobs
          PROVE  /\ sent[j] + Cardinality(queue[j]) <= MaxCandidates * RoundsBegun(j)'
                 /\ pc'[j] \notin {"queued", "match"}
      <4>1. RoundsBegun(j)' = round[j] /\ pc'[j] \notin {"queued", "match"}
        BY <2>3 DEF Crash, RoundsBegun
      <4>2. round[j] \in Nat /\ round[j] - 1 \in Nat
        BY BoundsAssumption DEF TypeInv, TypeOK, Rounds
      <4>3. RoundsBegun(j) \in Nat /\ RoundsBegun(j) <= round[j]
        BY <4>2 DEF RoundsBegun
      <4>4. /\ MaxCandidates * RoundsBegun(j) <= MaxCandidates * round[j]
            /\ MaxCandidates * RoundsBegun(j) \in Nat /\ MaxCandidates * round[j] \in Nat
        BY <4>2, <4>3, OneMoreList
      <4>5. sent[j] + Cardinality(queue[j]) \in Nat
        BY QueuesAreFinite DEF TypeInv, TypeOK
      <4>. QED
        BY <4>1, <4>4, <4>5 DEF BudgetInv
    <3>. QED
      BY <2>3, <3>1 DEF Crash, BudgetInv
  <2>. QED
    BY <2>1, <2>2, <2>3, DispatcherBudget DEF Next, vars
<1>3. TypeInv /\ BudgetInv => OffersBounded
  <2>. SUFFICES ASSUME TypeInv, BudgetInv, NEW j \in Jobs
                PROVE  sent[j] <= MaxCandidates * MaxRounds
    BY DEF OffersBounded
  <2>1. /\ round[j] \in Nat /\ round[j] - 1 \in Nat /\ round[j] <= MaxRounds
        /\ MaxRounds \in Nat
    BY BoundsAssumption DEF TypeInv, TypeOK, Rounds
  <2>2. RoundsBegun(j) \in Nat /\ RoundsBegun(j) <= MaxRounds
    BY <2>1 DEF RoundsBegun
  <2>3. /\ MaxCandidates * RoundsBegun(j) <= MaxCandidates * MaxRounds
        /\ MaxCandidates * RoundsBegun(j) \in Nat /\ MaxCandidates * MaxRounds \in Nat
    BY <2>1, <2>2, OneMoreList
  <2>4. sent[j] \in Nat /\ Cardinality(queue[j]) \in Nat
    BY QueuesAreFinite DEF TypeInv, TypeOK
  <2>. QED
    BY <2>3, <2>4 DEF BudgetInv
<1>. QED
  BY <1>1, <1>2, <1>3, TypeAgreeInv, PTL DEF Spec

\* A step of a cascade takes it further.
LEMMA DispatcherFurther ==
  ASSUME TypeInv, NEW j \in Jobs, Dispatcher(j)
  PROVE  /\ Further(j)
         /\ \A k \in Jobs : k # j => UNCHANGED <<pc[k], round[k], queue[k]>>
<1>. USE DEF TypeInv, TypeOK, Goto, Further, Stage, Turn
<1>1. round[j] \in Nat
  BY BoundsAssumption DEF Rounds
<1>2. CASE EndRound(j) /\ pc[j] \in {"match", "pick"} /\ UNCHANGED queue
  BY <1>1, <1>2 DEF EndRound
<1>3. ASSUME NEW S \in SUBSET Agents, Match(j, S)
      PROVE  /\ Further(j)
             /\ \A k \in Jobs : k # j => UNCHANGED <<pc[k], round[k], queue[k]>>
  BY <1>3 DEF Match
<1>4. ASSUME NEW a \in Agents, CreateOffer(j, a) \/ CreateOfferFails(j, a)
      PROVE  /\ Further(j)
             /\ \A k \in Jobs : k # j => UNCHANGED <<pc[k], round[k], queue[k]>>
  BY <1>4 DEF CreateOffer, CreateOfferFails
<1>5. CASE Start(j) \/ StartFails(j) \/ Announce(j) \/ Subscribe(j) \/ HearAccept(j)
  BY <1>5 DEF Start, StartFails, Announce, Subscribe, HearAccept
<1>6. CASE Refused(j) \/ AssignAgent(j) \/ AssignAgentFails(j) \/ MarkUnassigned(j)
  BY <1>6 DEF Refused, AssignAgent, AssignAgentFails, MarkUnassigned
<1>. QED
  BY <1>2, <1>3, <1>4, <1>5, <1>6 DEF Dispatcher, NoCandidates, RoundOver, HearDecline,
     Timeout

\* Every step of a cascade takes it further towards its end, with or without
\* failing calls, and no request, other cascade or crash takes it back: what
\* CascadeEnds adds to this is that its steps are taken.
THEOREM CascadeOnlyFurther == Spec => OnlyFurther
<1>1. TypeInv /\ [Next]_vars =>
        [\A j \in Jobs :
           /\ Dispatcher(j) => Further(j)
           /\ Further(j) \/ UNCHANGED <<pc[j], round[j], queue[j]>>]_vars
  <2>. SUFFICES ASSUME TypeInv, Next, NEW j \in Jobs
                PROVE  /\ Dispatcher(j) => Further(j)
                       /\ Further(j) \/ UNCHANGED <<pc[j], round[j], queue[j]>>
    OBVIOUS
  <2>1. Dispatcher(j) => Further(j)
    BY DispatcherFurther
  <2>2. ASSUME NEW k \in Jobs, Dispatcher(k)
        PROVE  Further(j) \/ UNCHANGED <<pc[j], round[j], queue[j]>>
    BY <2>2, DispatcherFurther
  <2>3. AgentRequests => UNCHANGED <<pc, round, queue>>
    BY DEF AgentRequests, LoadOffer, WriteAnswer, WriteAnswerFails, PublishAnswer,
       PublishAnswerFails, FieldWork, LoadArrive, RecordArrival,
       RecordArrivalFails, SubmitSurvey, dispatcherVars
  <2>4. CASE Crash
    <3>1. round'[j] = round[j] /\ queue'[j] = queue[j]
      BY <2>4 DEF Crash
    <3>2. CASE pc[j] \in {"done", "lost"}
      <4>1. pc'[j] = pc[j]
        BY <2>4, <3>2 DEF Crash
      <4>. QED
        BY <2>1, <3>1, <4>1
    <3>3. CASE pc[j] \notin {"done", "lost"}
      <4>1. pc'[j] = "lost"
        BY <2>4, <3>3 DEF Crash
      <4>. QED
        BY <3>1, <3>3, <4>1 DEF Further, Stage
    <3>. QED
      BY <3>2, <3>3
  <2>. QED
    BY <2>1, <2>2, <2>3, <2>4 DEF Next
<1>. QED
  BY <1>1, TypeAgreeInv, PTL DEF Spec, OnlyFurther
=============================================================================
