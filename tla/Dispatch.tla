------------------------------ MODULE Dispatch ------------------------------
(***************************************************************************)
(* The cascade dispatcher of internal/job: one goroutine per job           *)
(* (dispatcher.go, dispatchJob) offers the job to one ranked agent after   *)
(* another, waits for the answer on a Redis pub/sub channel, and either    *)
(* assigns the job or gives it up.  Against it run the HTTP handlers       *)
(* AcceptOffer and DeclineOffer (handler.go), each a read of the offer     *)
(* row, a write of it and a publish, with nothing that makes the three     *)
(* atomic, the handlers of the assigned agent that write the job's status  *)
(* (Arrive, SubmitSurvey), and the crash or shutdown of the server, which  *)
(* ends every goroutine while the database rows stay.                      *)
(*                                                                         *)
(* Abstractions.  The ranking of the candidates, their distance, tier and  *)
(* online state are data: a round may propose ANY set of agents the        *)
(* matcher does not filter out, in any order.  Time is not a number: the   *)
(* 30 minute timer may fire at any point of the wait.  A database          *)
(* statement that fails leaves the row as it was.  Of SubmitSurvey only    *)
(* the write of the status is here; JobLifecycle has its response row.     *)
(***************************************************************************)
EXTENDS Naturals, FiniteSets

CONSTANTS
  Jobs,              \* survey jobs whose job.created event was published
  Agents,            \* field agents
  NoAgent,           \* NULL in survey_jobs.assigned_agent_id
  MaxRounds,         \* maxRounds (3)
  MaxCandidates,     \* maxCandidates (5)
  MaxConcurrentJobs, \* maxConcurrentJobs (3)
  MaxRequests,       \* bound on the accept and decline requests in flight
  Faults,            \* may a database or Redis call fail?
  CanCrash           \* may the server crash or be restarted?

ASSUME NoAgentAssumption == NoAgent \notin Agents
ASSUME BoundsAssumption ==
  /\ MaxRounds \in Nat \ {0}
  /\ MaxCandidates \in Nat \ {0}
  /\ MaxConcurrentJobs \in Nat \ {0}
  /\ MaxRequests \in Nat
ASSUME SwitchAssumption == Faults \in BOOLEAN /\ CanCrash \in BOOLEAN

Rounds == 1 .. MaxRounds

\* A job_offers row: the dispatcher inserts at most one per job, agent and round.
Offers == [job : Jobs, agent : Agents, round : Rounds]

Answers == {"accepted", "declined"}

VARIABLES
  (* the dispatcher goroutine of each job *)
  pc,          \* where it is
  round,       \* the cascade round
  queue,       \* candidates of the round not yet tried
  excluded,    \* excludeIDs
  current,     \* the candidate holding the latest offer
  sent,        \* totalOffersSent
  heard,       \* first message in the subscription's channel
  (* the database *)
  offers,      \* job_offers.status, "none" before the INSERT
  jobStatus,   \* survey_jobs.status
  assignee,    \* survey_jobs.assigned_agent_id
  offersSent,  \* survey_jobs.total_offers_sent
  (* the HTTP handlers *)
  requests,    \* accept and decline requests in flight
  arriving,    \* jobs with an Arrive request that has passed its checks
  (* history *)
  agreed       \* agents whose acceptance reached the offer row

dispatcherVars == <<pc, round, queue, excluded, current, sent, heard>>
jobVars == <<jobStatus, assignee, offersSent>>
vars == <<pc, round, queue, excluded, current, sent, heard, offers,
          jobStatus, assignee, offersSent, requests, arriving, agreed>>

PCs == {"queued", "match", "pick", "announce", "subscribe", "wait", "assign",
        "exhausted", "done", "lost"}
OfferStatuses == {"none", "sent", "expired"} \cup Answers

\* What the assigned agent's handlers find and write; nothing writes
\* 'survey_in_progress', which some queries name.
HandedOver == {"assigned", "agent_on_site", "survey_submitted"}
JobStatuses == {"pending_assignment", "offered", "unassigned"} \cup HandedOver
Requests == [offer : Offers, answer : Answers, step : {"write", "publish"}]

\* The offer the dispatcher of job j created last.
Cur(j) == [job |-> j, agent |-> current[j], round |-> round[j]]

\* CountActiveJobsByAgent.
Load(a) ==
  Cardinality({j \in Jobs : assignee[j] = a /\ jobStatus[j] \in {"assigned", "agent_on_site"}})

\* Mutant: the exclusion list is not passed to the query.
Matchable_ForgetsExcluded(j) == {a \in Agents : Load(a) < MaxConcurrentJobs}

\* The agents FindCandidatesAtLocation may return for job j.
Matchable(j) == {a \in Agents \ excluded[j] : Load(a) < MaxConcurrentJobs}

Init ==
  /\ pc = [j \in Jobs |-> "queued"]
  /\ round = [j \in Jobs |-> 1]
  /\ queue = [j \in Jobs |-> {}]
  /\ excluded = [j \in Jobs |-> {}]
  /\ current = [j \in Jobs |-> NoAgent]
  /\ sent = [j \in Jobs |-> 0]
  /\ heard = [j \in Jobs |-> "none"]
  /\ offers = [o \in Offers |-> "none"]
  /\ jobStatus = [j \in Jobs |-> "pending_assignment"]
  /\ assignee = [j \in Jobs |-> NoAgent]
  /\ offersSent = [j \in Jobs |-> 0]
  /\ requests = {}
  /\ arriving = {}
  /\ agreed = [j \in Jobs |-> {}]

Goto(j, from, to) == pc[j] = from /\ pc' = [pc EXCEPT ![j] = to]

-----------------------------------------------------------------------------
(* The dispatcher goroutine *)

\* HandleJobCreated starts the goroutine; the parcel's centroid is read.
Start(j) ==
  /\ Goto(j, "queued", "match")
  /\ UNCHANGED <<round, queue, excluded, current, sent, heard, offers,
                 jobVars, requests, arriving, agreed>>

\* The centroid query fails: the job is given up without a round.
StartFails(j) ==
  /\ Faults
  /\ Goto(j, "queued", "exhausted")
  /\ UNCHANGED <<round, queue, excluded, current, sent, heard, offers,
                 jobVars, requests, arriving, agreed>>

\* FindCandidatesAtLocation returns the candidates S of this round.
Match(j, S) ==
  /\ Goto(j, "match", "pick")
  /\ S # {} /\ S \subseteq Matchable(j) /\ Cardinality(S) <= MaxCandidates
  /\ queue' = [queue EXCEPT ![j] = S]
  /\ UNCHANGED <<round, excluded, current, sent, heard, offers, jobVars,
                 requests, arriving, agreed>>

\* The end of a round: the next one, or none is left.
EndRound(j) ==
  IF round[j] < MaxRounds
  THEN /\ round' = [round EXCEPT ![j] = @ + 1]
       /\ pc' = [pc EXCEPT ![j] = "match"]
  ELSE /\ pc' = [pc EXCEPT ![j] = "exhausted"]
       /\ UNCHANGED round

\* Nobody matches, or matching fails: continue with the next round.
NoCandidates(j) ==
  /\ pc[j] = "match"
  /\ EndRound(j)
  /\ UNCHANGED <<queue, excluded, current, sent, heard, offers, jobVars,
                 requests, arriving, agreed>>

\* Every candidate of the round was tried.
RoundOver(j) ==
  /\ pc[j] = "pick" /\ queue[j] = {}
  /\ EndRound(j)
  /\ UNCHANGED <<queue, excluded, current, sent, heard, offers, jobVars,
                 requests, arriving, agreed>>

\* CreateOffer for the next candidate; from here agents polling
\* ListAgentOffers see the row.
CreateOffer(j, a) ==
  /\ Goto(j, "pick", "announce")
  /\ a \in queue[j]
  /\ queue' = [queue EXCEPT ![j] = @ \ {a}]
  /\ current' = [current EXCEPT ![j] = a]
  /\ offers' = [offers EXCEPT ![[job |-> j, agent |-> a, round |-> round[j]]] = "sent"]
  /\ sent' = [sent EXCEPT ![j] = @ + 1]
  /\ UNCHANGED <<round, excluded, heard, jobVars, requests, arriving, agreed>>

\* CreateOffer fails: the candidate is skipped, and not excluded.
CreateOfferFails(j, a) ==
  /\ Faults
  /\ pc[j] = "pick" /\ a \in queue[j]
  /\ queue' = [queue EXCEPT ![j] = @ \ {a}]
  /\ UNCHANGED <<pc, round, excluded, current, sent, heard, offers, jobVars,
                 requests, arriving, agreed>>

\* UpdateJobStatus "offered", whose error is ignored, and the publish of the
\* offer to the agent's channel.
Announce(j) ==
  /\ Goto(j, "announce", "subscribe")
  /\ \/ jobStatus' = [jobStatus EXCEPT ![j] = "offered"]
     \/ Faults /\ UNCHANGED jobStatus
  /\ UNCHANGED <<round, queue, excluded, current, sent, heard, offers,
                 assignee, offersSent, requests, arriving, agreed>>

\* waitForResponse subscribes: only answers published from now on arrive.
Subscribe(j) ==
  /\ Goto(j, "subscribe", "wait")
  /\ heard' = [heard EXCEPT ![j] = "none"]
  /\ UNCHANGED <<round, queue, excluded, current, sent, offers, jobVars,
                 requests, arriving, agreed>>

\* Mutant: any message is taken for an acceptance.
HearAccept_AnyPayload(j) ==
  /\ heard[j] # "none"
  /\ Goto(j, "wait", "assign")
  /\ UNCHANGED <<round, queue, excluded, current, sent, heard, offers,
                 jobVars, requests, arriving, agreed>>

\* The select takes the message branch: "accepted".
HearAccept(j) ==
  /\ heard[j] = "accepted"
  /\ Goto(j, "wait", "assign")
  /\ UNCHANGED <<round, queue, excluded, current, sent, heard, offers,
                 jobVars, requests, arriving, agreed>>

\* The candidate did not take the job: excludeIDs grows, the next is tried.
Refused(j) ==
  /\ Goto(j, "wait", "pick")
  /\ excluded' = [excluded EXCEPT ![j] = @ \cup {current[j]}]
  /\ UNCHANGED <<round, queue, current, sent, heard, jobVars, requests, arriving, agreed>>

\* The select takes the message branch: any other payload.
HearDecline(j) ==
  /\ heard[j] = "declined"
  /\ Refused(j)
  /\ UNCHANGED offers

\* Mutant: an agent who let the offer time out is not added to excludeIDs.
Timeout_NotExcluded(j) ==
  /\ Goto(j, "wait", "pick")
  /\ UNCHANGED <<round, queue, excluded, current, sent, heard, offers,
                 jobVars, requests, arriving, agreed>>

\* Mutant: the wait has no deadline.
Timeout_NoTimer(j) ==
  /\ heard[j] # "none"
  /\ Refused(j)
  /\ UNCHANGED offers

\* The select takes the timeout branch, which it may do even when a message
\* is there.  UpdateOfferStatus "expired" runs on the context whose deadline
\* has just passed, so it fails and the row stays as it is.
Timeout(j) ==
  /\ Refused(j)
  /\ UNCHANGED offers

\* Mutant: the goroutine does not return after the assignment.
AssignAgent_NoReturn(j) ==
  /\ Goto(j, "assign", "pick")
  /\ jobStatus' = [jobStatus EXCEPT ![j] = "assigned"]
  /\ assignee' = [assignee EXCEPT ![j] = current[j]]
  /\ offersSent' = [offersSent EXCEPT ![j] = sent[j]]
  /\ UNCHANGED <<round, queue, excluded, current, sent, heard, offers,
                 requests, arriving, agreed>>

\* AssignAgent: one UPDATE of the job's row; the goroutine returns.
AssignAgent(j) ==
  /\ Goto(j, "assign", "done")
  /\ jobStatus' = [jobStatus EXCEPT ![j] = "assigned"]
  /\ assignee' = [assignee EXCEPT ![j] = current[j]]
  /\ offersSent' = [offersSent EXCEPT ![j] = sent[j]]
  /\ UNCHANGED <<round, queue, excluded, current, sent, heard, offers,
                 requests, arriving, agreed>>

\* AssignAgent fails: continue with the next candidate; the one who accepted
\* is not excluded.
AssignAgentFails(j) ==
  /\ Faults
  /\ Goto(j, "assign", "pick")
  /\ UNCHANGED <<round, queue, excluded, current, sent, heard, offers,
                 jobVars, requests, arriving, agreed>>

\* markUnassigned, whose error is only logged.
MarkUnassigned(j) ==
  /\ Goto(j, "exhausted", "done")
  /\ \/ jobStatus' = [jobStatus EXCEPT ![j] = "unassigned"]
     \/ Faults /\ UNCHANGED jobStatus
  /\ UNCHANGED <<round, queue, excluded, current, sent, heard, offers,
                 assignee, offersSent, requests, arriving, agreed>>

Dispatcher(j) ==
  \/ Start(j) \/ StartFails(j)
  \/ \E S \in SUBSET Agents : Match(j, S)
  \/ NoCandidates(j) \/ RoundOver(j)
  \/ \E a \in Agents : CreateOffer(j, a) \/ CreateOfferFails(j, a)
  \/ Announce(j) \/ Subscribe(j)
  \/ HearAccept(j) \/ HearDecline(j) \/ Timeout(j)
  \/ AssignAgent(j) \/ AssignAgentFails(j)
  \/ MarkUnassigned(j)

-----------------------------------------------------------------------------
(* The agents' requests *)

\* AcceptOffer or DeclineOffer up to GetOfferByJobAndAgent: the row must be
\* 'sent' (404 otherwise).  Bounds: MaxRequests in flight, and of those one
\* accept and one decline per offer and step.
LoadOffer(o, ans) ==
  /\ offers[o] = "sent"
  /\ Cardinality(requests) < MaxRequests
  /\ requests' = requests \cup {[offer |-> o, answer |-> ans, step |-> "write"]}
  /\ UNCHANGED <<dispatcherVars, offers, jobVars, arriving, agreed>>

\* UpdateOfferStatus by id, whatever the row says by now.
WriteAnswer(r) ==
  /\ r.step = "write"
  /\ offers' = [offers EXCEPT ![r.offer] = r.answer]
  /\ requests' = (requests \ {r})
                 \cup {[offer |-> r.offer, answer |-> r.answer, step |-> "publish"]}
  /\ agreed' = IF r.answer = "accepted"
               THEN [agreed EXCEPT ![r.offer.job] = @ \cup {r.offer.agent}]
               ELSE agreed
  /\ UNCHANGED <<dispatcherVars, jobVars, arriving>>

\* UpdateOfferStatus fails: the request ends with an error.
WriteAnswerFails(r) ==
  /\ Faults
  /\ r.step = "write"
  /\ requests' = requests \ {r}
  /\ UNCHANGED <<dispatcherVars, offers, jobVars, arriving, agreed>>

\* Mutant: the channel is named after the job, not after the offer.
PublishAnswer_JobChannel(r) ==
  LET j == r.offer.job
      listening == pc[j] = "wait" /\ heard[j] = "none"
  IN  /\ r.step = "publish"
      /\ requests' = requests \ {r}
      /\ heard' = IF listening THEN [heard EXCEPT ![j] = r.answer] ELSE heard
      /\ UNCHANGED <<pc, round, queue, excluded, current, sent, offers,
                     jobVars, arriving, agreed>>

\* rdb.Publish on the offer's channel, then 200.  Redis keeps nothing: only
\* the dispatcher subscribed to that very offer hears it, and of several
\* messages it reads the first.
PublishAnswer(r) ==
  LET j == r.offer.job
      listening == pc[j] = "wait" /\ r.offer = Cur(j) /\ heard[j] = "none"
  IN  /\ r.step = "publish"
      /\ requests' = requests \ {r}
      /\ heard' = IF listening THEN [heard EXCEPT ![j] = r.answer] ELSE heard
      /\ UNCHANGED <<pc, round, queue, excluded, current, sent, offers,
                     jobVars, arriving, agreed>>

\* The publish fails (its error is ignored), for instance because the client
\* has hung up and the request's context is cancelled.
PublishAnswerFails(r) ==
  /\ Faults
  /\ r.step = "publish"
  /\ requests' = requests \ {r}
  /\ UNCHANGED <<dispatcherVars, offers, jobVars, arriving, agreed>>

\* Arrive up to the distance query: the job is the caller's and is 'assigned'.
\* Bound: overlapping requests for one job count as one.
LoadArrive(j) ==
  /\ assignee[j] # NoAgent
  /\ jobStatus[j] = "assigned"
  /\ arriving' = arriving \cup {j}
  /\ UNCHANGED <<dispatcherVars, offers, jobVars, requests, agreed>>

\* RecordAgentArrival: an UPDATE by id, whatever the status is by now, so a
\* slow Arrive overwrites 'survey_submitted'.
RecordArrival(j) ==
  /\ j \in arriving
  /\ arriving' = arriving \ {j}
  /\ jobStatus' = [jobStatus EXCEPT ![j] = "agent_on_site"]
  /\ UNCHANGED <<dispatcherVars, offers, assignee, offersSent, requests, agreed>>

\* The distance query or the UPDATE fails: 500 and no change.
RecordArrivalFails(j) ==
  /\ Faults
  /\ j \in arriving
  /\ arriving' = arriving \ {j}
  /\ UNCHANGED <<dispatcherVars, offers, jobVars, requests, agreed>>

\* SubmitSurvey by the assigned agent, in whatever status the job is.  The
\* assignee it read is still the assignee when it writes.
SubmitSurvey(j) ==
  /\ assignee[j] # NoAgent
  /\ jobStatus' = [jobStatus EXCEPT ![j] = "survey_submitted"]
  /\ UNCHANGED <<dispatcherVars, offers, assignee, offersSent, requests, arriving, agreed>>

\* The assigned agent's requests about the job.
FieldWork(j) ==
  LoadArrive(j) \/ RecordArrival(j) \/ RecordArrivalFails(j) \/ SubmitSurvey(j)

AgentRequests ==
  \/ \E o \in Offers, ans \in Answers : LoadOffer(o, ans)
  \/ \E r \in requests : \/ WriteAnswer(r) \/ WriteAnswerFails(r)
                         \/ PublishAnswer(r) \/ PublishAnswerFails(r)
  \/ \E j \in Jobs : FieldWork(j)

-----------------------------------------------------------------------------
\* The server stops: events still in the bus, goroutines, subscriptions and
\* requests are gone.  Nothing at start-up resumes a job; the rows remain.
Crash ==
  /\ CanCrash
  /\ \/ \E j \in Jobs : pc[j] \notin {"done", "lost"}
     \/ requests # {} \/ arriving # {}
  /\ pc' = [j \in Jobs |-> IF pc[j] = "done" THEN "done" ELSE "lost"]
  /\ heard' = [j \in Jobs |-> "none"]
  /\ requests' = {}
  /\ arriving' = {}
  /\ UNCHANGED <<round, queue, excluded, current, sent, offers, jobVars, agreed>>

Next ==
  \/ \E j \in Jobs : Dispatcher(j)
  \/ AgentRequests
  \/ Crash

Spec == Init /\ [][Next]_vars

\* The Go scheduler runs every goroutine and the 30 minute timer fires; no
\* agent ever has to answer, and the server need not crash.
FairSpec == Spec /\ \A j \in Jobs : WF_vars(Dispatcher(j))

-----------------------------------------------------------------------------
(* Properties *)

\* The variables keep their types.
TypeOK ==
  /\ pc \in [Jobs -> PCs]
  /\ round \in [Jobs -> Rounds]
  /\ queue \in [Jobs -> SUBSET Agents]
  /\ excluded \in [Jobs -> SUBSET Agents]
  /\ current \in [Jobs -> Agents \cup {NoAgent}]
  /\ sent \in [Jobs -> Nat]
  /\ heard \in [Jobs -> Answers \cup {"none"}]
  /\ offers \in [Offers -> OfferStatuses]
  /\ jobStatus \in [Jobs -> JobStatuses]
  /\ assignee \in [Jobs -> Agents \cup {NoAgent}]
  /\ offersSent \in [Jobs -> Nat]
  /\ requests \subseteq Requests
  /\ arriving \subseteq Jobs
  /\ agreed \in [Jobs -> SUBSET Agents]

\* GetOfferByJobAndAgent is a :one query over the rows 'sent' of a job and an
\* agent: it must never have two to choose from, or the answer would be
\* published on the channel of an offer nobody waits for.  Timed-out rows stay
\* 'sent', later rounds insert new rows, so this rests on excludeIDs.
AtMostOnePendingOffer ==
  \A o1, o2 \in Offers :
    /\ offers[o1] = "sent" /\ offers[o2] = "sent"
    /\ o1.job = o2.job /\ o1.agent = o2.agent
    => o1 = o2

\* AssignAgent hands a job only to an agent whose own acceptance reached the
\* offer row, although answers arrive on a lossy channel, late, twice, or
\* while the dispatcher has moved on to another candidate.
AssignedAgreed ==
  \A j \in Jobs : assignee[j] # NoAgent => assignee[j] \in agreed[j]

\* An agent who declined or let an offer of the job time out gets no other
\* offer of it, in this round or a later one (excludeIDs).
RefusedNotReoffered ==
  [][\A o \in Offers :
       offers[o] = "none" /\ offers'[o] # "none" => o.agent \notin excluded[o.job]]_vars

\* Once AssignAgent succeeded the cascade is over: no offer row of the job is
\* inserted, it keeps its agent, and its status never goes back to an open or
\* unassigned one, whatever answers and Arrive requests are still on their way.
AssignmentIsFinal ==
  [][\A j \in Jobs : assignee[j] # NoAgent =>
       /\ assignee'[j] = assignee[j]
       /\ jobStatus'[j] \in HandedOver
       /\ \A o \in Offers : o.job = j /\ offers[o] = "none" => offers'[o] = "none"]_vars

\* Every cascade ends, whatever the agents do or leave undone and whichever
\* calls fail: the wait for an answer is bounded by the timer, the rounds by
\* maxRounds.
CascadeEnds == \A j \in Jobs : <>(pc[j] \in {"done", "lost"})

\* The cascade implements the allocation promise: what the agent's handlers
\* make of the status of a job that was handed over is not its subject.
Alloc == INSTANCE JobAllocation WITH
  phase <- [j \in Jobs |-> CASE jobStatus[j] \in HandedOver -> "assigned"
                             [] jobStatus[j] = "unassigned" -> "unassigned"
                             [] OTHER -> "open"],
  holder <- assignee,
  willing <- agreed

ImplementsJobAllocation == Alloc!Spec

=============================================================================
