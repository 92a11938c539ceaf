---------------------------- MODULE JobLifecycle ----------------------------
(***************************************************************************)
(* The field half of a survey job: the handlers Arrive and SubmitSurvey of *)
(* internal/job/handler.go, which agents call once the dispatcher has      *)
(* assigned the job.  Each handler reads the job's row, checks it, and     *)
(* later writes to it by id; nothing ties the write to what was read, and  *)
(* requests of one agent overlap (double taps, client retries, the offline *)
(* sync beside the survey screen).                                         *)
(*                                                                         *)
(* Abstractions.  A request that a check rejects changes nothing and is    *)
(* left out, so an Arrive here is one within 500 m of the centroid with    *)
(* valid coordinates.  The payload of a survey is data.  Media rows, which *)
(* RecordMedia inserts without looking at the job, are counted by the QA   *)
(* checks only.                                                            *)
(***************************************************************************)
EXTENDS Naturals, Sequences, Failures

CONSTANTS
  Jobs,         \* survey jobs
  Agents,       \* field agents
  NoAgent,      \* NULL in survey_jobs.assigned_agent_id
  NoJob,        \* a request that was not made yet
  Submissions,  \* POSTs of a survey, bounded
  OtherEvent,   \* an event of another publisher on the same bus
  BusCapacity   \* the event bus's buffer

ASSUME NobodyAssumption == NoAgent \notin Agents /\ NoJob \notin Jobs
ASSUME EventAssumption == OtherEvent \notin Submissions
ASSUME BusAssumption == BusCapacity \in Nat \ {0}

VARIABLES
  jobStatus,   \* survey_jobs.status
  assignee,    \* survey_jobs.assigned_agent_id
  arrived,     \* jobs whose agent_arrived_at is set
  arriving,    \* Arrive requests that have passed their checks
  step,        \* where each SubmitSurvey request is
  jobOf,       \* the job of the request, NoJob before it is made
  agentOf,     \* the agent who made it
  responses,   \* requests whose survey_responses row was inserted
  answered,    \* requests answered with 200
  bus          \* the event bus

rowVars == <<jobStatus, assignee, arrived>>
requestVars == <<step, jobOf, agentOf, responses, answered>>
fieldVars == <<jobStatus, assignee, arrived, arriving, step, jobOf, agentOf,
          responses, answered, bus>>

EB == INSTANCE EventBus

JobStatuses == {"offered", "assigned", "agent_on_site", "survey_submitted"}
Steps == {"new", "insert", "status", "publish", "done", "lost"}

FieldInit ==
  /\ jobStatus = [j \in Jobs |-> "offered"]
  /\ assignee = [j \in Jobs |-> NoAgent]
  /\ arrived = {}
  /\ arriving = {}
  /\ step = [s \in Submissions |-> "new"]
  /\ jobOf = [s \in Submissions |-> NoJob]
  /\ agentOf = [s \in Submissions |-> NoAgent]
  /\ responses = {}
  /\ answered = {}
  /\ EB!BusInit

-----------------------------------------------------------------------------
(* The statements, each of which commits by itself. *)

\* The row that GetSurveyJobByID reads names the caller.
AssignedTo(j, a) == assignee[j] = a

\* UPDATE survey_jobs ... WHERE id: no statement looks at the old status.
UpdateJobStatus(j, st) == jobStatus' = [jobStatus EXCEPT ![j] = st]

\* RecordAgentArrival sets agent_arrived_at and the status.
RecordAgentArrival(j) ==
  /\ arrived' = arrived \cup {j}
  /\ jobStatus' = [jobStatus EXCEPT ![j] = "agent_on_site"]

\* INSERT INTO survey_responses: nothing makes the row unique for the job.
CreateSurveyResponse(s) == responses' = responses \cup {s}

-----------------------------------------------------------------------------
\* The dispatcher's AssignAgent, the last write of its cascade (Dispatch).
AssignAgent(j, a) ==
  /\ jobStatus[j] = "offered"
  /\ jobStatus' = [jobStatus EXCEPT ![j] = "assigned"]
  /\ assignee' = [assignee EXCEPT ![j] = a]
  /\ UNCHANGED <<arrived, arriving, requestVars, bus>>

\* Arrive up to DistanceToParcelCentroid: the job is the caller's and is
\* 'assigned'.  Bound: overlapping requests for one job count as one.
LoadArrive(j, a) ==
  /\ AssignedTo(j, a)
  /\ jobStatus[j] = "assigned"
  /\ arriving' = arriving \cup {j}
  /\ UNCHANGED <<rowVars, requestVars, bus>>

\* RecordAgentArrival: an UPDATE by id, whatever the status is by now.
RecordArrival(j) ==
  /\ j \in arriving
  /\ arriving' = arriving \ {j}
  /\ RecordAgentArrival(j)
  /\ UNCHANGED <<assignee, requestVars, bus>>

\* RecordAgentArrival or the distance query fails: 500 and no change.
RecordArrivalFails(j) ==
  /\ Faults
  /\ j \in arriving
  /\ arriving' = arriving \ {j}
  /\ UNCHANGED <<rowVars, requestVars, bus>>

-----------------------------------------------------------------------------
\* SubmitSurvey up to CreateSurveyResponse: the job is the caller's.  Its
\* status is not looked at.
LoadSubmit(s, j, a) ==
  /\ step[s] = "new"
  /\ AssignedTo(j, a)
  /\ step' = [step EXCEPT ![s] = "insert"]
  /\ jobOf' = [jobOf EXCEPT ![s] = j]
  /\ agentOf' = [agentOf EXCEPT ![s] = a]
  /\ UNCHANGED <<rowVars, arriving, responses, answered, bus>>

\* The INSERT of the response.
InsertResponse(s) ==
  /\ step[s] = "insert"
  /\ CreateSurveyResponse(s)
  /\ step' = [step EXCEPT ![s] = "status"]
  /\ UNCHANGED <<rowVars, arriving, jobOf, agentOf, answered, bus>>

\* Mutant: the handler goes on after a failed INSERT.
InsertResponseFails_GoesOn(s) ==
  /\ Faults
  /\ step[s] = "insert"
  /\ step' = [step EXCEPT ![s] = "status"]
  /\ UNCHANGED <<rowVars, arriving, jobOf, agentOf, responses, answered, bus>>

\* CreateSurveyResponse fails: 500.
InsertResponseFails(s) ==
  /\ Faults
  /\ step[s] = "insert"
  /\ step' = [step EXCEPT ![s] = "done"]
  /\ UNCHANGED <<rowVars, arriving, jobOf, agentOf, responses, answered, bus>>

\* Mutant: the status is written as the first thing after the checks.
WriteSubmitted_Early(s) ==
  /\ step[s] \in {"insert", "status"}
  /\ jobStatus' = [jobStatus EXCEPT ![jobOf[s]] = "survey_submitted"]
  /\ step' = [step EXCEPT ![s] = IF @ = "status" THEN "publish" ELSE @]
  /\ UNCHANGED <<assignee, arrived, arriving, jobOf, agentOf, responses,
                 answered, bus>>

\* UpdateJobStatus "survey_submitted", whose error is only logged.
WriteSubmitted(s) ==
  /\ step[s] = "status"
  /\ \/ UpdateJobStatus(jobOf[s], "survey_submitted")
     \/ Faults /\ UNCHANGED jobStatus
  /\ step' = [step EXCEPT ![s] = "publish"]
  /\ UNCHANGED <<assignee, arrived, arriving, jobOf, agentOf, responses,
                 answered, bus>>

\* Publish survey.submitted and answer 200; the publisher does not learn
\* whether the bus took the event.
PublishSubmitted(s) ==
  /\ step[s] = "publish"
  /\ EB!Publish(s)
  /\ step' = [step EXCEPT ![s] = "done"]
  /\ answered' = answered \cup {s}
  /\ UNCHANGED <<rowVars, arriving, jobOf, agentOf, responses>>

\* Another publisher (the scheduler, CreateParcel) uses the same channel.
PublishOther ==
  /\ EB!Publish(OtherEvent)
  /\ UNCHANGED <<rowVars, arriving, requestVars>>

\* The bus loop takes an event; SurveyPipeline has what its handler does.
TakeEvent(e) ==
  /\ EB!Take(e)
  /\ UNCHANGED <<rowVars, arriving, requestVars>>

\* The server stops: requests and events are gone, rows remain.
FieldCrash ==
  /\ CanCrash
  /\ \/ arriving # {} \/ bus # <<>>
     \/ \E s \in Submissions : step[s] \in {"insert", "status", "publish"}
  /\ arriving' = {}
  /\ step' = [s \in Submissions |->
                IF step[s] \in {"new", "done"} THEN step[s] ELSE "lost"]
  /\ EB!BusLost
  /\ UNCHANGED <<rowVars, jobOf, agentOf, responses, answered>>

Submit(s) ==
  \/ InsertResponse(s) \/ InsertResponseFails(s)
  \/ WriteSubmitted(s) \/ PublishSubmitted(s)

Events == Submissions \cup {OtherEvent}

FieldNext ==
  \/ \E j \in Jobs, a \in Agents : AssignAgent(j, a) \/ LoadArrive(j, a)
  \/ \E j \in Jobs : RecordArrival(j) \/ RecordArrivalFails(j)
  \/ \E s \in Submissions, j \in Jobs, a \in Agents : LoadSubmit(s, j, a)
  \/ \E s \in Submissions : Submit(s)
  \/ PublishOther
  \/ \E e \in Events : TakeEvent(e)
  \/ FieldCrash

FieldSpec == FieldInit /\ [][FieldNext]_fieldVars

-----------------------------------------------------------------------------
(* Properties *)

\* The variables keep their types.
FieldTypeOK ==
  /\ jobStatus \in [Jobs -> JobStatuses]
  /\ assignee \in [Jobs -> Agents \cup {NoAgent}]
  /\ arrived \subseteq Jobs /\ arriving \subseteq Jobs
  /\ step \in [Submissions -> Steps]
  /\ jobOf \in [Submissions -> Jobs \cup {NoJob}]
  /\ agentOf \in [Submissions -> Agents \cup {NoAgent}]
  /\ responses \subseteq Submissions /\ answered \subseteq Submissions
  /\ bus \in Seq(Events) /\ Len(bus) <= BusCapacity

\* The status column never claims more than the other rows show, although it
\* is written by id and without a transaction: a job is 'survey_submitted'
\* only with a response of the assigned agent in the table, 'agent_on_site'
\* only with an arrival, and no job is both unassigned and worked on.
StatusHasItsCause ==
  \A j \in Jobs :
    /\ jobStatus[j] = "survey_submitted" =>
         \E s \in responses : jobOf[s] = j /\ agentOf[s] = assignee[j]
    /\ jobStatus[j] = "agent_on_site" => j \in arrived
    /\ jobStatus[j] # "offered" => assignee[j] # NoAgent

\* QA reads the response when the event arrives: an event on the bus, and a
\* 200 to the agent, imply the row, through failures and restarts.
EventHasResponse ==
  \A s \in Submissions :
    s \in answered \/ (\E i \in 1 .. Len(bus) : bus[i] = s) => s \in responses

\* Only the agent the cascade chose ever adds a response to the job.
OnlyAssigneeResponds ==
  \A s \in responses : agentOf[s] = assignee[jobOf[s]]
=============================================================================
