----------------------- MODULE SurveyPipeline_proofs -----------------------
(***************************************************************************)
(* Proofs about the pipeline and the two parts it composes.                *)
(*                                                                         *)
(* JobLifecycle: any number of jobs, agents and overlapping requests, any  *)
(* bus, with and without faults and crashes.  What a handler read stays    *)
(* true although nothing locks it, for two reasons FieldIInv names: the    *)
(* assignee of a job is written once, before any request of an agent is    *)
(* let through, and a request never forgets the row it inserted.           *)
(*                                                                         *)
(* TaskQueue: any number of workers and tasks and any pattern of failures  *)
(* and stops.  Its properties hold because of two facts that QueueIInv     *)
(* adds to them: a worker that is not idle holds a row of its own, which   *)
(* is 'processing' unless the worker still locks it (WorkerInv), and a row *)
(* that is 'pending' was never handled (RowInv).                           *)
(*                                                                         *)
(* SurveyPipeline: any number of surveys, jobs and processes.  No handler  *)
(* checks whether its work was done before; what keeps a result from being *)
(* written twice is that the handler of a task is started once and that    *)
(* its task was inserted once.  IInv says so for each link of the chain: a *)
(* survey is in one place only between its request and its QA task         *)
(* (EventInv), a later task exists only when the handler that inserts it   *)
(* is past doing so (TaskInv), a result only when its handler is past the  *)
(* statement (WrittenOnce), and what the next link relies on is there      *)
(* (CauseInv).                                                             *)
(*                                                                         *)
(* SurveyGoesOn is the other side of it: while nothing fails or stops, and *)
(* the bus has room for every survey, none is lost on the way to its alert.*)
(***************************************************************************)
EXTENDS SurveyPipeline, FiniteSetTheorems, TLAPS

\* A job is open exactly until it has its assignee, and only then Arrive
\* requests get through.
JobInv ==
  \A j \in Jobs :
    /\ jobStatus[j] = "offered" => assignee[j] = NoAgent
    /\ j \in arriving => assignee[j] # NoAgent

\* A request that was let through is the assignee's, and what it inserted is
\* there when it goes on.
RequestInv ==
  \A s \in Submissions :
    /\ step[s] # "new" =>
         /\ jobOf[s] \in Jobs
         /\ assignee[jobOf[s]] # NoAgent
         /\ agentOf[s] = assignee[jobOf[s]]
    /\ step[s] \in {"status", "publish"} => s \in responses
    /\ s \in responses => step[s] # "new"
    /\ s \in answered => s \in responses

\* The events on the bus are of inserted responses.
BusInv == \A i \in 1 .. Len(bus) : bus[i] \in Submissions => bus[i] \in responses

FieldIInv ==
  /\ FieldTypeOK
  /\ JobInv
  /\ RequestInv
  /\ BusInv
  /\ StatusHasItsCause

-----------------------------------------------------------------------------
(* The bus.                                                                *)

\* Publish adds the event at the end or drops it.
LEMMA PublishFacts ==
  ASSUME bus \in Seq(Events), Len(bus) <= BusCapacity, NEW e \in Events,
         EB!Publish(e)
  PROVE  /\ bus' \in Seq(Events) /\ Len(bus') <= BusCapacity
         /\ \A i \in 1 .. Len(bus') :
              bus'[i] = e \/ (i \in 1 .. Len(bus) /\ bus'[i] = bus[i])
<1>1. CASE EB!BusFull
  BY <1>1 DEF EB!Publish
<1>2. CASE ~EB!BusFull
  <2>1. bus' = Append(bus, e) /\ Len(bus) < BusCapacity
    BY <1>2, BusAssumption DEF EB!Publish, EB!BusFull
  <2> QED
    BY <2>1, BusAssumption
<1> QED
  BY <1>1, <1>2

\* Take removes the first event.
LEMMA TakeFacts ==
  ASSUME bus \in Seq(Events), Len(bus) <= BusCapacity, NEW e, EB!Take(e)
  PROVE  /\ bus' \in Seq(Events) /\ Len(bus') <= BusCapacity
         /\ \A i \in 1 .. Len(bus') :
              i + 1 \in 1 .. Len(bus) /\ bus'[i] = bus[i + 1]
BY BusAssumption DEF EB!Take

-----------------------------------------------------------------------------

\* Every initial state satisfies the invariant.
LEMMA FieldInitIInv == FieldInit => FieldIInv
<1> SUFFICES ASSUME FieldInit PROVE FieldIInv
  OBVIOUS
<1> USE DEF FieldInit, EB!BusInit
<1>1. FieldTypeOK
  BY BusAssumption DEF FieldTypeOK, JobStatuses, Steps
<1>2. JobInv /\ RequestInv /\ BusInv /\ StatusHasItsCause
  BY DEF JobInv, RequestInv, BusInv, StatusHasItsCause
<1> QED
  BY <1>1, <1>2 DEF FieldIInv

-----------------------------------------------------------------------------
(* The dispatcher and Arrive.                                              *)

\* The assignee of an open job is written: no request is about it yet.
LEMMA AssignAgentKeeps ==
  ASSUME FieldIInv, NEW j \in Jobs, NEW a \in Agents, AssignAgent(j, a)
  PROVE  FieldIInv'
<1> USE DEF AssignAgent, requestVars
<1>1. FieldTypeOK'
  BY DEF FieldIInv, FieldTypeOK, JobStatuses
<1>2. assignee[j] = NoAgent /\ a # NoAgent
  BY NobodyAssumption DEF FieldIInv, JobInv
<1>3. JobInv'
  BY <1>2 DEF FieldIInv, FieldTypeOK, JobInv
<1>4. \A s \in Submissions : step[s] # "new" => jobOf[s] # j
  BY <1>2 DEF FieldIInv, RequestInv
<1>5. RequestInv'
  BY <1>4 DEF FieldIInv, FieldTypeOK, RequestInv
<1>6. BusInv'
  BY DEF FieldIInv, BusInv
<1>7. StatusHasItsCause'
  BY <1>2 DEF FieldIInv, FieldTypeOK, StatusHasItsCause
<1> QED
  BY <1>1, <1>3, <1>5, <1>6, <1>7 DEF FieldIInv

\* An Arrive is let through for the assignee only.
LEMMA LoadArriveKeeps ==
  ASSUME FieldIInv, NEW j \in Jobs, NEW a \in Agents, LoadArrive(j, a)
  PROVE  FieldIInv'
BY NobodyAssumption DEF LoadArrive, AssignedTo, rowVars, requestVars, FieldIInv, FieldTypeOK, JobInv,
   RequestInv, BusInv, StatusHasItsCause

\* The arrival is written over whatever the status is by now.
LEMMA RecordArrivalKeeps ==
  ASSUME FieldIInv, NEW j \in Jobs, RecordArrival(j) \/ RecordArrivalFails(j)
  PROVE  FieldIInv'
<1> USE DEF rowVars, requestVars
<1>1. CASE RecordArrival(j)
  <2> USE <1>1 DEF RecordArrival, RecordAgentArrival
  <2>1. FieldTypeOK'
    BY DEF FieldIInv, FieldTypeOK, JobStatuses
  <2>2. JobInv' /\ RequestInv' /\ BusInv'
    BY DEF FieldIInv, FieldTypeOK, JobInv, RequestInv, BusInv
  <2>3. StatusHasItsCause'
    BY DEF FieldIInv, FieldTypeOK, JobInv, StatusHasItsCause
  <2> QED
    BY <2>1, <2>2, <2>3 DEF FieldIInv
<1>2. CASE RecordArrivalFails(j)
  BY <1>2 DEF RecordArrivalFails, FieldIInv, FieldTypeOK, JobInv, RequestInv, BusInv, StatusHasItsCause
<1> QED
  BY <1>1, <1>2

-----------------------------------------------------------------------------
(* SubmitSurvey.                                                           *)

\* A submission is let through for the assignee only, once.
LEMMA LoadSubmitKeeps ==
  ASSUME FieldIInv, NEW s \in Submissions, NEW j \in Jobs, NEW a \in Agents,
         LoadSubmit(s, j, a)
  PROVE  FieldIInv'
<1> USE DEF LoadSubmit, AssignedTo, rowVars
<1>1. FieldTypeOK'
  BY DEF FieldIInv, FieldTypeOK, Steps
<1>2. JobInv' /\ BusInv'
  BY DEF FieldIInv, JobInv, BusInv
<1>3. RequestInv'
  BY NobodyAssumption DEF FieldIInv, FieldTypeOK, RequestInv
<1>4. s \notin responses
  BY DEF FieldIInv, RequestInv
<1>5. StatusHasItsCause'
  BY <1>4 DEF FieldIInv, FieldTypeOK, StatusHasItsCause
<1> QED
  BY <1>1, <1>2, <1>3, <1>5 DEF FieldIInv

\* The response is inserted, or the request ends.
LEMMA InsertResponseKeeps ==
  ASSUME FieldIInv, NEW s \in Submissions, InsertResponse(s) \/ InsertResponseFails(s)
  PROVE  FieldIInv'
<1> USE DEF rowVars
<1>1. CASE InsertResponse(s)
  <2> USE <1>1 DEF InsertResponse, CreateSurveyResponse
  <2>1. FieldTypeOK'
    BY DEF FieldIInv, FieldTypeOK, Steps
  <2>2. JobInv' /\ BusInv'
    BY DEF FieldIInv, JobInv, BusInv
  <2>3. RequestInv'
    BY DEF FieldIInv, FieldTypeOK, RequestInv
  <2>4. StatusHasItsCause'
    BY DEF FieldIInv, FieldTypeOK, StatusHasItsCause
  <2> QED
    BY <2>1, <2>2, <2>3, <2>4 DEF FieldIInv
<1>2. CASE InsertResponseFails(s)
  <2> USE <1>2 DEF InsertResponseFails
  <2>1. FieldTypeOK'
    BY DEF FieldIInv, FieldTypeOK, Steps
  <2>2. JobInv' /\ BusInv' /\ StatusHasItsCause'
    BY DEF FieldIInv, JobInv, BusInv, StatusHasItsCause
  <2>3. RequestInv'
    BY DEF FieldIInv, FieldTypeOK, RequestInv
  <2> QED
    BY <2>1, <2>2, <2>3 DEF FieldIInv
<1> QED
  BY <1>1, <1>2

\* The status is written by the request whose response is its cause.
LEMMA WriteSubmittedKeeps ==
  ASSUME FieldIInv, NEW s \in Submissions, WriteSubmitted(s)
  PROVE  FieldIInv'
<1> USE DEF WriteSubmitted, UpdateJobStatus
<1>1. /\ jobOf[s] \in Jobs /\ assignee[jobOf[s]] # NoAgent
      /\ agentOf[s] = assignee[jobOf[s]] /\ s \in responses
  BY DEF FieldIInv, RequestInv
<1>2. FieldTypeOK'
  BY <1>1 DEF FieldIInv, FieldTypeOK, Steps, JobStatuses
<1>3. JobInv' /\ BusInv'
  BY <1>1 DEF FieldIInv, FieldTypeOK, JobInv, BusInv
<1>4. RequestInv'
  BY <1>1 DEF FieldIInv, FieldTypeOK, RequestInv
<1>5. StatusHasItsCause'
  BY <1>1 DEF FieldIInv, FieldTypeOK, StatusHasItsCause
<1> QED
  BY <1>2, <1>3, <1>4, <1>5 DEF FieldIInv

\* The event and the answer come after the response.
LEMMA PublishSubmittedKeeps ==
  ASSUME FieldIInv, NEW s \in Submissions, PublishSubmitted(s)
  PROVE  FieldIInv'
<1> USE DEF PublishSubmitted, rowVars
<1>1. s \in responses /\ s \in Events
  BY DEF FieldIInv, RequestInv, Events
<1>2. /\ bus' \in Seq(Events) /\ Len(bus') <= BusCapacity
      /\ \A i \in 1 .. Len(bus') :
           bus'[i] = s \/ (i \in 1 .. Len(bus) /\ bus'[i] = bus[i])
  BY <1>1, PublishFacts DEF FieldIInv, FieldTypeOK
<1>3. FieldTypeOK'
  BY <1>2 DEF FieldIInv, FieldTypeOK, Steps
<1>4. JobInv' /\ StatusHasItsCause'
  BY DEF FieldIInv, JobInv, StatusHasItsCause
<1>5. RequestInv'
  BY <1>1 DEF FieldIInv, FieldTypeOK, RequestInv
<1>6. BusInv'
  BY <1>1, <1>2 DEF FieldIInv, BusInv
<1> QED
  BY <1>3, <1>4, <1>5, <1>6 DEF FieldIInv

-----------------------------------------------------------------------------
(* The bus and the process.                                                *)

\* Other publishers' events name no survey.
LEMMA PublishOtherKeeps ==
  ASSUME FieldIInv, PublishOther
  PROVE  FieldIInv'
<1> USE DEF PublishOther, rowVars, requestVars
<1>1. OtherEvent \in Events /\ OtherEvent \notin Submissions
  BY EventAssumption DEF Events
<1>2. /\ bus' \in Seq(Events) /\ Len(bus') <= BusCapacity
      /\ \A i \in 1 .. Len(bus') :
           bus'[i] = OtherEvent \/ (i \in 1 .. Len(bus) /\ bus'[i] = bus[i])
  BY <1>1, PublishFacts DEF FieldIInv, FieldTypeOK
<1>3. FieldTypeOK'
  BY <1>2 DEF FieldIInv, FieldTypeOK
<1>4. JobInv' /\ RequestInv' /\ StatusHasItsCause'
  BY DEF FieldIInv, JobInv, RequestInv, StatusHasItsCause
<1>5. BusInv'
  BY <1>1, <1>2 DEF FieldIInv, BusInv
<1> QED
  BY <1>3, <1>4, <1>5 DEF FieldIInv

\* What stays on the bus was there before.
LEMMA TakeEventKeeps ==
  ASSUME FieldIInv, NEW e, TakeEvent(e)
  PROVE  FieldIInv'
<1> USE DEF TakeEvent, rowVars, requestVars
<1>1. /\ bus' \in Seq(Events) /\ Len(bus') <= BusCapacity
      /\ \A i \in 1 .. Len(bus') :
           i + 1 \in 1 .. Len(bus) /\ bus'[i] = bus[i + 1]
  BY TakeFacts DEF FieldIInv, FieldTypeOK
<1>2. FieldTypeOK'
  BY <1>1 DEF FieldIInv, FieldTypeOK
<1>3. JobInv' /\ RequestInv' /\ StatusHasItsCause'
  BY DEF FieldIInv, JobInv, RequestInv, StatusHasItsCause
<1>4. BusInv'
  BY <1>1 DEF FieldIInv, BusInv
<1> QED
  BY <1>2, <1>3, <1>4 DEF FieldIInv

\* Rows outlive the process.
LEMMA FieldCrashKeeps ==
  ASSUME FieldIInv, FieldCrash
  PROVE  FieldIInv'
<1> USE DEF FieldCrash, rowVars, EB!BusLost
<1>1. FieldTypeOK'
  BY BusAssumption DEF FieldIInv, FieldTypeOK, Steps
<1>2. JobInv' /\ BusInv' /\ StatusHasItsCause'
  BY DEF FieldIInv, JobInv, BusInv, StatusHasItsCause
<1>3. RequestInv'
  BY DEF FieldIInv, FieldTypeOK, RequestInv, Steps
<1> QED
  BY <1>1, <1>2, <1>3 DEF FieldIInv

-----------------------------------------------------------------------------

\* Every step keeps the invariant.
LEMMA FieldNextIInv == FieldIInv /\ [FieldNext]_fieldVars => FieldIInv'
<1> SUFFICES ASSUME FieldIInv, [FieldNext]_fieldVars PROVE FieldIInv'
  OBVIOUS
<1>1. ASSUME NEW j \in Jobs, NEW a \in Agents, AssignAgent(j, a) \/ LoadArrive(j, a)
      PROVE  FieldIInv'
  BY <1>1, AssignAgentKeeps, LoadArriveKeeps
<1>2. ASSUME NEW j \in Jobs, RecordArrival(j) \/ RecordArrivalFails(j)
      PROVE  FieldIInv'
  BY <1>2, RecordArrivalKeeps
<1>3. ASSUME NEW s \in Submissions, NEW j \in Jobs, NEW a \in Agents, LoadSubmit(s, j, a)
      PROVE  FieldIInv'
  BY <1>3, LoadSubmitKeeps
<1>4. ASSUME NEW s \in Submissions, Submit(s) PROVE FieldIInv'
  BY <1>4, InsertResponseKeeps, WriteSubmittedKeeps, PublishSubmittedKeeps DEF Submit
<1>5. ASSUME NEW e \in Events, TakeEvent(e) PROVE FieldIInv'
  BY <1>5, TakeEventKeeps
<1>6. CASE UNCHANGED fieldVars
  BY <1>6 DEF fieldVars, FieldIInv, FieldTypeOK, JobInv, RequestInv, BusInv, StatusHasItsCause
<1> QED
  BY <1>1, <1>2, <1>3, <1>4, <1>5, <1>6, PublishOtherKeeps, FieldCrashKeeps DEF FieldNext

\* The invariant holds in every state.
THEOREM FieldInvariance == FieldSpec => []FieldIInv
  BY FieldInitIInv, FieldNextIInv, PTL DEF FieldSpec

\* The rows, the requests and the bus keep their types.
THEOREM LifecycleTypeCorrect == FieldSpec => []FieldTypeOK
<1>1. FieldIInv => FieldTypeOK
  BY DEF FieldIInv
<1> QED
  BY FieldInvariance, <1>1, PTL

\* The status of a job never claims more than the other rows show: Arrive and
\* SubmitSurvey of internal/job/handler.go under any overlap and failure.
THEOREM StatusIsBacked == FieldSpec => []StatusHasItsCause
<1>1. FieldIInv => StatusHasItsCause
  BY DEF FieldIInv
<1> QED
  BY FieldInvariance, <1>1, PTL

\* An event on the bus and a 200 to the agent imply the response's row.
THEOREM EventIsBacked == FieldSpec => []EventHasResponse
<1>1. FieldIInv => EventHasResponse
  BY DEF FieldIInv, RequestInv, BusInv, EventHasResponse
<1> QED
  BY FieldInvariance, <1>1, PTL

\* Every response of a job is its assignee's.
THEOREM ResponsesAreTheAssignees == FieldSpec => []OnlyAssigneeResponds
<1>1. FieldIInv => OnlyAssigneeResponds
  BY DEF FieldIInv, FieldTypeOK, RequestInv, OnlyAssigneeResponds
<1> QED
  BY FieldInvariance, <1>1, PTL

-----------------------------------------------------------------------------
(* The task queue.                                                         *)

Polling(w) == phase[w] # "idle"

\* What a worker in the middle of a poll holds.
WorkerInv ==
  /\ \A w \in Workers : Polling(w) => claimed[w] \in Tasks
  /\ \A w \in Workers : ~Polling(w) => claimed[w] = 0
  /\ \A w \in Workers : Polling(w) =>
       status[claimed[w]] = IF phase[w] = "locking" THEN "pending" ELSE "processing"
  /\ \A w, v \in Workers :
       Polling(w) /\ Polling(v) /\ claimed[w] = claimed[v] => w = v
  /\ \A w \in Workers : phase[w] = "claimed" => started[claimed[w]] = 0
  /\ \A w \in Workers : phase[w] \in Outcomes => returned[claimed[w]] = phase[w]

\* What the rows say.
RowInv ==
  /\ \A t \in Tasks : status[t] = "none" <=> t > last
  /\ \A t \in Tasks : status[t] \in {"none", "pending"} => started[t] = 0

QueueIInv == QueueTypeOK /\ WorkerInv /\ RowInv /\ StartedAtMostOnce /\ StatusIsTruthful

\* Tasks are positive numbers up to the bound.
LEMMA TasksAreNumbers == Tasks \subseteq Nat /\ \A t \in Tasks : t # 0 /\ t <= MaxTasks
  BY MaxTasksAssumption DEF Tasks

\* The invariant holds at the start.
LEMMA QueueInitIInv == QueueInit => QueueIInv
<1>. SUFFICES ASSUME QueueInit PROVE QueueIInv
  OBVIOUS
<1>1. QueueTypeOK
  BY MaxTasksAssumption DEF QueueInit, QueueTypeOK, Tasks, TaskStatuses, Phases, Outcomes
<1>2. WorkerInv
  BY DEF QueueInit, WorkerInv, Polling, Outcomes
<1>3. RowInv
  BY TasksAreNumbers DEF QueueInit, RowInv, Tasks
<1>4. StartedAtMostOnce /\ StatusIsTruthful
  BY DEF QueueInit, StartedAtMostOnce, StatusIsTruthful
<1>. QED
  BY <1>1, <1>2, <1>3, <1>4 DEF QueueIInv

\* Enqueue adds the newest row.
LEMMA EnqueueIInv == ASSUME QueueIInv, NEW b \in Bodies, Enqueue(b) PROVE QueueIInv'
<1>. USE DEF QueueIInv, Enqueue
<1>1. last + 1 \in Tasks /\ last \in Nat
  BY MaxTasksAssumption DEF QueueTypeOK, Tasks
<1>2. status[last + 1] = "none" /\ started[last + 1] = 0
  BY <1>1, TasksAreNumbers DEF RowInv
<1>3. QueueTypeOK'
  BY <1>1, MaxTasksAssumption DEF QueueTypeOK, TaskStatuses
<1>4. \A t \in Tasks : status'[t] = IF t = last + 1 THEN "pending" ELSE status[t]
  BY <1>1 DEF QueueTypeOK
<1>5. WorkerInv'
  BY <1>2, <1>4 DEF WorkerInv, Polling
<1>6. RowInv'
  <2>1. \A t \in Tasks : status'[t] = "none" <=> t > last'
    BY <1>1, <1>4, TasksAreNumbers DEF RowInv
  <2>2. \A t \in Tasks : status'[t] \in {"none", "pending"} => started'[t] = 0
    BY <1>2, <1>4 DEF RowInv
  <2>. QED
    BY <2>1, <2>2 DEF RowInv
<1>7. StartedAtMostOnce' /\ StatusIsTruthful'
  BY <1>2, <1>4 DEF StartedAtMostOnce, StatusIsTruthful
<1>. QED
  BY <1>3, <1>5, <1>6, <1>7

\* The row that a worker locks is pending and not another's.
LEMMA LockOldestIInv == ASSUME QueueIInv, NEW w \in Workers, LockOldest(w) PROVE QueueIInv'
<1>. USE DEF QueueIInv
<1>1. PICK t \in Pending \ Locked :
        /\ phase[w] = "idle"
        /\ claimed' = [claimed EXCEPT ![w] = t]
        /\ phase' = [phase EXCEPT ![w] = "locking"]
        /\ UNCHANGED <<last, body, status, started, returned>>
  BY DEF LockOldest
<1>2. t \in Tasks /\ status[t] = "pending"
  BY DEF Pending
<1>3. QueueTypeOK'
  BY <1>1, <1>2 DEF QueueTypeOK, Phases
<1>4. \A v \in Workers :
        /\ phase'[v] = IF v = w THEN "locking" ELSE phase[v]
        /\ claimed'[v] = IF v = w THEN t ELSE claimed[v]
  BY <1>1 DEF QueueTypeOK
<1>5. WorkerInv'
  <2>1. ASSUME NEW v \in Workers, v # w, Polling(v) PROVE claimed[v] # t
    <3>1. CASE phase[v] = "locking"
      BY <1>1, <1>2, <3>1 DEF Locked
    <3>2. CASE phase[v] # "locking"
      BY <1>2, <2>1, <3>2 DEF WorkerInv
    <3>. QED
      BY <3>1, <3>2
  <2>. QED
    BY <1>1, <1>2, <1>4, <2>1 DEF WorkerInv, Polling, Outcomes
<1>6. RowInv' /\ StartedAtMostOnce' /\ StatusIsTruthful'
  BY <1>1 DEF RowInv, StartedAtMostOnce, StatusIsTruthful
<1>. QED
  BY <1>3, <1>5, <1>6

\* The claim commits: the worker's row, pending until now, has seen no handler.
LEMMA ClaimIInv == ASSUME QueueIInv, NEW w \in Workers, Claim(w) PROVE QueueIInv'
<1>. USE DEF QueueIInv, Claim
<1>1. claimed[w] \in Tasks /\ status[claimed[w]] = "pending" /\ started[claimed[w]] = 0
  BY DEF WorkerInv, RowInv, Polling
<1>2. QueueTypeOK'
  BY <1>1 DEF QueueTypeOK, TaskStatuses, Phases
<1>3. /\ \A t \in Tasks : status'[t] = IF t = claimed[w] THEN "processing" ELSE status[t]
      /\ \A v \in Workers : phase'[v] = IF v = w THEN "claimed" ELSE phase[v]
  BY <1>1 DEF QueueTypeOK
<1>4. WorkerInv'
  <2>1. \A v \in Workers : v # w /\ Polling(v) => claimed[v] # claimed[w]
    BY DEF WorkerInv, Polling
  <2>. QED
    BY <1>1, <1>3, <2>1 DEF WorkerInv, Polling, Outcomes
<1>5. RowInv'
  BY <1>1, <1>3 DEF RowInv
<1>6. StartedAtMostOnce' /\ StatusIsTruthful'
  BY <1>3 DEF StartedAtMostOnce, StatusIsTruthful
<1>. QED
  BY <1>2, <1>4, <1>5, <1>6

\* A worker goes idle and leaves its row, records the outcome in it, or leaves
\* the claim's UPDATE to the database.
LEMMA ReleaseIInv ==
  ASSUME QueueIInv, NEW w \in Workers, Polling(w),
         phase' = [phase EXCEPT ![w] = "idle"],
         claimed' = [claimed EXCEPT ![w] = 0],
         UNCHANGED <<last, body, started, returned>>,
         \/ status' = status
         \/ /\ phase[w] = "locking"
            /\ status' = [status EXCEPT ![claimed[w]] = "processing"]
         \/ /\ phase[w] \in Outcomes
            /\ status' = [status EXCEPT ![claimed[w]] =
                            IF phase[w] = "ok" THEN "completed" ELSE "failed"]
  PROVE  QueueIInv'
<1>. USE DEF QueueIInv
<1>1. claimed[w] \in Tasks /\ status[claimed[w]] \in {"pending", "processing"}
  BY DEF WorkerInv
<1>2. \A v \in Workers :
        /\ phase'[v] = IF v = w THEN "idle" ELSE phase[v]
        /\ claimed'[v] = IF v = w THEN 0 ELSE claimed[v]
  BY DEF QueueTypeOK
<1>3. \A t \in Tasks :
        \/ status'[t] = status[t]
        \/ t = claimed[w] /\ status'[t] = "processing"
        \/ /\ t = claimed[w] /\ phase[w] \in Outcomes
           /\ status'[t] = IF phase[w] = "ok" THEN "completed" ELSE "failed"
  BY <1>1 DEF QueueTypeOK
<1>4. QueueTypeOK'
  BY <1>1 DEF QueueTypeOK, TaskStatuses, Phases
<1>5. WorkerInv'
  <2>1. \A v \in Workers : v # w /\ Polling(v) => claimed[v] # claimed[w]
    BY DEF WorkerInv
  <2>. QED
    BY <1>2, <1>3, <2>1 DEF WorkerInv, Polling, Outcomes
<1>6. RowInv'
  BY <1>1, <1>3 DEF RowInv, Outcomes
<1>7. StartedAtMostOnce' /\ StatusIsTruthful'
  <2>1. phase[w] \in Outcomes => returned[claimed[w]] = phase[w]
    BY DEF WorkerInv
  <2>. QED
    BY <1>1, <1>3, <2>1 DEF StartedAtMostOnce, StatusIsTruthful, Outcomes
<1>. QED
  BY <1>4, <1>5, <1>6, <1>7

\* An UPDATE that nobody awaits: it had committed, or it is rolled back.
LEMMA SettledRow ==
  ASSUME QueueIInv, NEW t, NEW C \in SUBSET {t}, Settle(C)
  PROVE  status' = status \/ status' = [status EXCEPT ![t] = "processing"]
<1>1. CASE C = {}
  BY <1>1 DEF Settle, QueueIInv, QueueTypeOK
<1>2. CASE C = {t}
  BY <1>2 DEF Settle, QueueIInv, QueueTypeOK
<1>. QED
  BY <1>1, <1>2

\* The worker whose claim fails, or who stops, lets go of its row.
LEMMA ClaimLostIInv ==
  ASSUME QueueIInv, NEW w \in Workers, ClaimFails(w) \/ WorkerCrash(w)
  PROVE  QueueIInv'
<1>1. CASE ClaimFails(w)
  BY <1>1, SettledRow, ReleaseIInv DEF ClaimFails, Polling
<1>2. CASE WorkerCrash(w)
  <2>1. PICK C \in SUBSET (Locked \cap {claimed[w]}) : Settle(C)
    BY <1>2 DEF WorkerCrash
  <2>2. CASE phase[w] = "locking"
    BY <1>2, <2>1, <2>2, SettledRow, ReleaseIInv DEF WorkerCrash, Polling
  <2>3. CASE phase[w] # "locking"
    <3>1. C = {}
      <4>1. \A v \in Workers : phase[v] = "locking" => claimed[v] # claimed[w]
        BY <1>2, <2>3 DEF WorkerCrash, QueueIInv, WorkerInv, Polling
      <4>. QED
        BY <2>1, <4>1 DEF Locked
    <3>2. status' = status
      BY <2>1, <3>1 DEF Settle, QueueIInv, QueueTypeOK
    <3>. QED
      BY <1>2, <3>2, ReleaseIInv DEF WorkerCrash, Polling
  <2>. QED
    BY <2>2, <2>3
<1>. QED
  BY <1>1, <1>2

\* The handler is called for a row that has seen none.
LEMMA CallHandlerIInv == ASSUME QueueIInv, NEW w \in Workers, CallHandler(w) PROVE QueueIInv'
<1>. USE DEF QueueIInv, CallHandler
<1>1. /\ claimed[w] \in Tasks /\ status[claimed[w]] = "processing"
      /\ started[claimed[w]] = 0
  BY DEF WorkerInv, Polling
<1>2. \A v \in Workers : phase'[v] = IF v = w THEN "handling" ELSE phase[v]
  BY DEF QueueTypeOK
<1>3. \A t \in Tasks : started'[t] = IF t = claimed[w] THEN 1 ELSE started[t]
  BY <1>1 DEF QueueTypeOK
<1>4. QueueTypeOK'
  BY <1>1 DEF QueueTypeOK, Phases
<1>5. WorkerInv'
  <2>1. \A v \in Workers : v # w /\ Polling(v) => claimed[v] # claimed[w]
    BY DEF WorkerInv, Polling
  <2>. QED
    BY <1>2, <1>3, <2>1 DEF WorkerInv, Polling, Outcomes
<1>6. RowInv'
  BY <1>1, <1>3 DEF RowInv
<1>7. StartedAtMostOnce' /\ StatusIsTruthful'
  BY <1>1, <1>3 DEF StartedAtMostOnce, StatusIsTruthful
<1>. QED
  BY <1>4, <1>5, <1>6, <1>7

\* The handler's return is remembered by its worker.
LEMMA HandlerReturnsIInv ==
  ASSUME QueueIInv, NEW w \in Workers, NEW o \in Outcomes, HandlerReturns(w, o) PROVE QueueIInv'
<1>. USE DEF QueueIInv, HandlerReturns
<1>1. claimed[w] \in Tasks /\ status[claimed[w]] = "processing"
  BY DEF WorkerInv, Polling
<1>2. \A v \in Workers : phase'[v] = IF v = w THEN o ELSE phase[v]
  BY DEF QueueTypeOK
<1>3. \A t \in Tasks : returned'[t] = IF t = claimed[w] THEN o ELSE returned[t]
  BY <1>1 DEF QueueTypeOK
<1>4. QueueTypeOK'
  BY <1>1 DEF QueueTypeOK, Phases
<1>5. WorkerInv'
  <2>1. \A v \in Workers : v # w /\ Polling(v) => claimed[v] # claimed[w]
    BY DEF WorkerInv, Polling
  <2>. QED
    BY <1>2, <1>3, <2>1 DEF WorkerInv, Polling, Outcomes
<1>6. RowInv'
  BY DEF RowInv
<1>7. StartedAtMostOnce' /\ StatusIsTruthful'
  BY <1>1, <1>3 DEF StartedAtMostOnce, StatusIsTruthful
<1>. QED
  BY <1>4, <1>5, <1>6, <1>7

\* Every step keeps the invariant.
LEMMA QueueNextIInv == QueueIInv /\ [QueueNext]_queueVars => QueueIInv'
<1>. SUFFICES ASSUME QueueIInv, [QueueNext]_queueVars PROVE QueueIInv'
  OBVIOUS
<1>1. ASSUME NEW b \in Bodies, Enqueue(b) PROVE QueueIInv'
  BY <1>1, EnqueueIInv
<1>2. ASSUME NEW w \in Workers,
             LockOldest(w) \/ Claim(w) \/ ClaimFails(w) \/ WorkerCrash(w)
      PROVE QueueIInv'
  BY <1>2, LockOldestIInv, ClaimIInv, ClaimLostIInv
<1>3. ASSUME NEW w \in Workers, NoHandler(w) \/ RecordOutcomeFails(w)
      PROVE QueueIInv'
  BY <1>3, ReleaseIInv DEF NoHandler, RecordOutcomeFails, Polling, Outcomes
<1>4. ASSUME NEW w \in Workers, RecordOutcome(w) PROVE QueueIInv'
  BY <1>4, ReleaseIInv DEF RecordOutcome, Polling, Outcomes
<1>5. ASSUME NEW w \in Workers, CallHandler(w) PROVE QueueIInv'
  BY <1>5, CallHandlerIInv
<1>6. ASSUME NEW w \in Workers, HandlerReturns(w, "ok") \/ HandlerReturns(w, "error")
      PROVE QueueIInv'
  BY <1>6, HandlerReturnsIInv DEF Outcomes
<1>7. CASE UNCHANGED queueVars
  BY <1>7 DEF QueueIInv, QueueTypeOK, WorkerInv, Polling, RowInv, StartedAtMostOnce,
              StatusIsTruthful, queueVars
<1>. QED
  BY <1>1, <1>2, <1>3, <1>4, <1>5, <1>6, <1>7 DEF QueueNext, Poll

\* The invariant is one of the specification.
LEMMA QueueIInvHolds == QueueSpec => []QueueIInv
  BY QueueInitIInv, QueueNextIInv, PTL DEF QueueSpec

\* The rows and the workers keep their types.
THEOREM QueueTypeCorrect == QueueSpec => []QueueTypeOK
<1>1. QueueIInv => QueueTypeOK
  BY DEF QueueIInv
<1>. QED
  BY <1>1, QueueIInvHolds, PTL

\* The handler of a task is started at most once, however many processes poll
\* the table, and wherever they fail or stop: what the code gives in place of
\* the at-least-once delivery that its architecture document promises.
THEOREM HandledAtMostOnce == QueueSpec => []StartedAtMostOnce
<1>1. QueueIInv => StartedAtMostOnce
  BY DEF QueueIInv
<1>. QED
  BY <1>1, QueueIInvHolds, PTL

\* A row says 'completed' or 'failed' only if its handler returned so.
THEOREM RowsTellTheTruth == QueueSpec => []StatusIsTruthful
<1>1. QueueIInv => StatusIsTruthful
  BY DEF QueueIInv
<1>. QED
  BY <1>1, QueueIInvHolds, PTL

\* No two processes ever hold the same row, through skipped locks, rollbacks
\* and lost answers.
THEOREM RowsAreNotShared == QueueSpec => []RowHasOneWorker
<1>1. QueueIInv => RowHasOneWorker
  BY DEF QueueIInv, WorkerInv, Polling, RowHasOneWorker
<1>. QED
  BY <1>1, QueueIInvHolds, PTL

-----------------------------------------------------------------------------
(* The pipeline.                                                           *)

\* t is the task of that kind which the survey s caused.
Is(t, kind, s) == body[t] = [kind |-> kind, sub |-> s]

\* The handler of t was started and is in none of the places P, whether it is
\* further on, has returned, or was stopped.
Past(t, P) ==
  /\ started[t] # 0
  /\ \A w \in Workers :
       phase[w] = "handling" /\ claimed[w] = t => at[w] \notin P

\* The places of a handler up to the enqueue of the next task.
ToDo == {"work", "create", "enqueue"}

OnBus(s) == \E i \in 1 .. Len(bus) : bus[i] = s

HasTask(s) == \E t \in Tasks, k \in Kinds : Is(t, k, s)

\* A survey is in one place only between its request and its QA task, and by
\* then its response is stored and its request is over.
EventInv ==
  \A s \in Submissions :
    /\ OnBus(s) \/ s \in enqueuing \/ HasTask(s) =>
         s \in responses /\ step[s] \in {"done", "lost"}
    /\ \A i, j \in 1 .. Len(bus) : bus[i] = s /\ bus[j] = s => i = j
    /\ OnBus(s) => s \notin enqueuing
    /\ OnBus(s) \/ s \in enqueuing =>
         \A t \in Tasks : ~Is(t, "qa.score_survey", s)

\* What a running handler is about, and the places its kind passes.
HandlerInv ==
  /\ \A t \in Tasks : t <= last => body[t] \in Bodies
  /\ \A w \in Workers :
       /\ at[w] = "none" <=> phase[w] # "handling"
       /\ phase[w] = "handling" => started[claimed[w]] # 0
       /\ at[w] = "create" => body[claimed[w]].kind = "report.generate"
       /\ at[w] = "enqueue" => body[claimed[w]].kind # "notification.send"

\* A task of the chain exists only when the handler before it is past its
\* enqueue, so that it cannot be enqueued again.
TaskInv ==
  /\ \A t \in Tasks : t > last => body[t] = NoBody
  /\ OneTaskOfEachKind
  /\ \A s \in Submissions, u \in Tasks :
       /\ Is(u, "report.generate", s) =>
            \E t \in Tasks : Is(t, "qa.score_survey", s) /\ Past(t, ToDo)
       /\ Is(u, "notification.send", s) =>
            \E t \in Tasks : Is(t, "report.generate", s) /\ Past(t, ToDo)

\* What was written is written once, by a handler that is past the statement.
WrittenOnce ==
  \A s \in Submissions :
    /\ scored[s] \in {0, 1} /\ reports[s] \in {0, 1} /\ alerts[s] \in {0, 1}
    /\ scored[s] # 0 =>
         \E t \in Tasks : Is(t, "qa.score_survey", s) /\ Past(t, {"work"})
    /\ reports[s] # 0 =>
         \E t \in Tasks :
           Is(t, "report.generate", s) /\ Past(t, {"work", "create"})
    /\ alerts[s] # 0 =>
         \E t \in Tasks : Is(t, "notification.send", s) /\ Past(t, {"work"})

\* What a task or a handler relies on is there.
CauseInv ==
  /\ \A s \in Submissions, u \in Tasks :
       /\ Is(u, "report.generate", s) => scored[s] = 1
       /\ Is(u, "notification.send", s) => reports[s] = 1
  /\ \A w \in Workers, s \in Submissions :
       /\ at[w] = "enqueue" /\ Is(claimed[w], "qa.score_survey", s) =>
            scored[s] = 1
       /\ at[w] = "enqueue" /\ Is(claimed[w], "report.generate", s) =>
            reports[s] = 1
       /\ at[w] = "create" /\ Is(claimed[w], "report.generate", s) =>
            jobOf[s] \in objects
  /\ \A s \in Submissions :
       /\ scored[s] # 0 => verdict[jobOf[s]] # "pending"
       /\ reports[s] # 0 => jobOf[s] \in objects

IInv ==
  /\ TypeOK /\ FieldIInv /\ QueueIInv /\ EventInv /\ HandlerInv /\ TaskInv
  /\ WrittenOnce /\ CauseInv

-----------------------------------------------------------------------------
(* Tasks and handlers.                                                     *)

\* A task is of one kind and of one survey.
LEMMA IsOne ==
  ASSUME NEW t, NEW k, NEW l, NEW s, NEW r, Is(t, k, s), Is(t, l, r)
  PROVE  k = l /\ s = r
<1>1. [kind |-> k, sub |-> s] = [kind |-> l, sub |-> r]
  BY DEF Is
<1> QED
  BY <1>1

\* Every body says what its task is.
LEMMA IsOfBody ==
  ASSUME NEW t, body[t] \in Bodies
  PROVE  /\ Is(t, body[t].kind, body[t].sub)
         /\ body[t].kind \in Kinds /\ body[t].sub \in Submissions
<1>1. body[t] \in [kind : Kinds, sub : Submissions]
  BY ChainAssumption
<1>2. PICK k \in Kinds, s \in Submissions : body[t] = [kind |-> k, sub |-> s]
  BY <1>1
<1> QED
  BY <1>2 DEF Is

\* And only a body does.
LEMMA BodyOfIs ==
  ASSUME NEW t, NEW k \in Kinds, NEW s \in Submissions, Is(t, k, s)
  PROVE  /\ body[t] \in Bodies /\ body[t] # NoBody
         /\ body[t].kind = k /\ body[t].sub = s
BY ChainAssumption, BodiesAssumption DEF Is

\* Two tasks of one kind and one survey are one task.
LEMMA OneTask ==
  ASSUME IInv, NEW t \in Tasks, NEW u \in Tasks, NEW k \in Kinds,
         NEW s \in Submissions, Is(t, k, s), Is(u, k, s)
  PROVE  t = u
<1>1. body[t] = body[u] /\ body[t] # NoBody
  BY BodyOfIs DEF Is
<1> QED
  BY <1>1 DEF IInv, TaskInv, OneTaskOfEachKind

\* The three kinds of task.
LEMMA KindsAre ==
  /\ "qa.score_survey" \in Kinds /\ "report.generate" \in Kinds
  /\ "notification.send" \in Kinds
BY DEF Kinds

\* A handler that runs handles a task of its own, which was started.
LEMMA RunningHandler ==
  ASSUME IInv, NEW w \in Workers, phase[w] = "handling"
  PROVE  /\ claimed[w] \in Tasks /\ body[claimed[w]] \in Bodies
         /\ Is(claimed[w], body[claimed[w]].kind, Sub(w))
         /\ body[claimed[w]].kind \in Kinds
         /\ Sub(w) \in Submissions
         /\ started[claimed[w]] # 0
         /\ \A v \in Workers :
              phase[v] = "handling" /\ claimed[v] = claimed[w] => v = w
<1>1. claimed[w] \in Tasks /\ status[claimed[w]] = "processing"
  BY DEF IInv, QueueIInv, WorkerInv, Polling
<1>2. ~(claimed[w] > last)
  BY <1>1 DEF IInv, QueueIInv, RowInv
<1>3. claimed[w] <= last
  BY <1>1, <1>2, MaxTasksAssumption DEF IInv, QueueIInv, QueueTypeOK, Tasks
<1>4. body[claimed[w]] \in Bodies
  BY <1>1, <1>3 DEF IInv, HandlerInv
<1>5. \A v \in Workers :
        phase[v] = "handling" /\ claimed[v] = claimed[w] => v = w
  BY DEF IInv, QueueIInv, WorkerInv, Polling
<1> QED
  BY <1>1, <1>4, <1>5, IsOfBody DEF IInv, HandlerInv, Sub

\* The survey of a running handler has its response, and its request is over.
LEMMA HandledSurvey ==
  ASSUME IInv, NEW w \in Workers, phase[w] = "handling"
  PROVE  /\ Sub(w) \in responses /\ step[Sub(w)] \in {"done", "lost"}
         /\ jobOf[Sub(w)] \in Jobs
<1>1. HasTask(Sub(w)) /\ Sub(w) \in Submissions
  BY RunningHandler DEF HasTask
<1>2. Sub(w) \in responses /\ step[Sub(w)] \in {"done", "lost"}
  BY <1>1 DEF IInv, EventInv
<1> QED
  BY <1>1, <1>2 DEF IInv, FieldIInv, RequestInv

\* The bodies that the pipeline enqueues.
LEMMA NewBody ==
  ASSUME NEW k \in Kinds, NEW s \in Submissions
  PROVE  [kind |-> k, sub |-> s] \in Bodies
BY ChainAssumption

\* The task after the last one is a new one.
LEMMA NewTask ==
  ASSUME IInv, NEW b, Enqueue(b)
  PROVE  /\ last + 1 \in Tasks /\ started[last + 1] = 0
         /\ \A t \in Tasks : body'[t] = IF t = last + 1 THEN b ELSE body[t]
         /\ \A t \in Tasks : t <= last' => t <= last \/ t = last + 1
         /\ \A w \in Workers : phase[w] # "idle" => claimed[w] # last + 1
<1>1. last + 1 \in Tasks /\ last \in Nat
  BY MaxTasksAssumption DEF IInv, QueueIInv, QueueTypeOK, Enqueue, Tasks
<1>2. status[last + 1] = "none"
  BY <1>1, TasksAreNumbers DEF IInv, QueueIInv, RowInv
<1>3. started[last + 1] = 0
  BY <1>1, <1>2 DEF IInv, QueueIInv, RowInv
<1>4. \A t \in Tasks : body'[t] = IF t = last + 1 THEN b ELSE body[t]
  BY <1>1 DEF IInv, QueueIInv, QueueTypeOK, Enqueue
<1>5. \A t \in Tasks : t <= last' => t <= last \/ t = last + 1
  BY <1>1, TasksAreNumbers DEF Enqueue
<1>6. \A w \in Workers : phase[w] # "idle" => claimed[w] # last + 1
  BY <1>2 DEF IInv, QueueIInv, WorkerInv, Polling
<1> QED
  BY <1>1, <1>3, <1>4, <1>5, <1>6

-----------------------------------------------------------------------------
(* The parts' invariants in the whole.                                     *)

\* The steps that the agents, the bus and the subscriber's failure take.
FieldPart ==
  \/ Field \/ Deliver
  \/ \E s \in Submissions : RequestGoesOn(s) \/ SubscriberFails(s)

\* They leave the queue, the handlers and the results alone.
LEMMA FieldPartLeaves ==
  ASSUME FieldPart
  PROVE  UNCHANGED <<last, body, status, phase, claimed, started, returned,
                     at, verdict, scored, objects, reports, alerts>>
BY DEF FieldPart, Field, Deliver, RequestGoesOn, SubscriberFails, queueVars,
       resultVars

\* All other steps but a crash leave the agents' side alone.
LEMMA WorkerLeaves ==
  ASSUME NEW w \in Workers, Worker(w)
  PROVE  UNCHANGED <<jobStatus, assignee, arrived, arriving, step, jobOf,
                     agentOf, responses, answered, bus, enqueuing>>
BY DEF Worker, PollTable, Call, Return, ReturnError, ScoreSurvey, EnqueueReport,
       UploadReport, CreateReport, EnqueueNotification, EnqueueFails, Notify,
       fieldVars

\* Each step of the pipeline is one of the agents' side or leaves it alone.
LEMMA FieldKept == ASSUME IInv, [Next]_vars PROVE FieldIInv'
<1>1. ASSUME [FieldNext]_fieldVars PROVE FieldIInv'
  BY <1>1, FieldNextIInv DEF IInv
<1>2. CASE Field
  BY <1>1, <1>2 DEF Field, FieldNext
<1>3. ASSUME NEW s \in Submissions, RequestGoesOn(s) PROVE FieldIInv'
  BY <1>1, <1>3 DEF RequestGoesOn, FieldNext
<1>4. CASE Deliver
  BY <1>1, <1>4 DEF Deliver, FieldNext
<1>5. ASSUME NEW s \in Submissions, Subscriber(s) \/ SubscriberFails(s)
      PROVE FieldIInv'
  BY <1>1, <1>5 DEF Subscriber, SubscriberFails
<1>6. ASSUME NEW w \in Workers, Worker(w) PROVE FieldIInv'
  BY <1>1, <1>6, WorkerLeaves DEF fieldVars
<1>7. CASE Crash
  <2>1. CASE \/ arriving # {} \/ bus # <<>>
             \/ \E s \in Submissions : step[s] \in {"insert", "status", "publish"}
    BY <1>1, <1>7, <2>1 DEF Crash, FieldNext, FieldCrash, rowVars, EB!BusLost
  <2>2. CASE /\ arriving = {} /\ bus = <<>>
             /\ \A s \in Submissions :
                  step[s] \notin {"insert", "status", "publish"}
    <3>1. step \in [Submissions -> Steps]
      BY DEF IInv, FieldIInv, FieldTypeOK
    <3>2. step' = step
      BY <1>7, <2>2, <3>1 DEF Crash, Steps
    <3> QED
      BY <1>1, <1>7, <2>2, <3>2 DEF Crash, fieldVars
  <2> QED
    BY <2>1, <2>2
<1>8. CASE UNCHANGED vars
  BY <1>1, <1>8 DEF vars, fieldVars
<1> QED
  BY <1>2, <1>3, <1>4, <1>5, <1>6, <1>7, <1>8 DEF Next

\* When every process stops, all rows stay as they are but for the claims
\* under way.
LEMMA QueueSurvivesCrash == ASSUME IInv, Crash PROVE QueueIInv'
<1> USE DEF Crash
<1>1. QueueIInv
  BY DEF IInv
<1>2. PICK C \in SUBSET Locked : Settle(C)
  OBVIOUS
<1>3. \A t \in C : t \in Tasks /\ status[t] = "pending"
  BY <1>1 DEF Locked, QueueIInv, WorkerInv, Polling
<1>4. \A t \in Tasks : status'[t] = status[t] \/ (status[t] = "pending" /\ status'[t] = "processing")
  BY <1>2, <1>3 DEF Settle
<1>5. QueueTypeOK'
  BY <1>1, <1>2 DEF QueueIInv, QueueTypeOK, Settle, Phases, TaskStatuses
<1>6. \A w \in Workers : phase'[w] = "idle" /\ claimed'[w] = 0
  OBVIOUS
<1>7. WorkerInv'
  BY <1>6 DEF WorkerInv, Polling, Outcomes
<1>8. RowInv' /\ StartedAtMostOnce' /\ StatusIsTruthful'
  BY <1>1, <1>4 DEF QueueIInv, RowInv, StartedAtMostOnce, StatusIsTruthful
<1> QED
  BY <1>5, <1>7, <1>8 DEF QueueIInv

\* Each step of the pipeline but a crash is one of the queue, or leaves it
\* alone, or returns an error that the queue alone would call a fault.
LEMMA QueueKept == ASSUME IInv, [Next]_vars PROVE QueueIInv'
<1>1. ASSUME [QueueNext]_queueVars PROVE QueueIInv'
  BY <1>1, QueueNextIInv DEF IInv
<1>2. CASE FieldPart
  BY <1>1, <1>2, FieldPartLeaves DEF queueVars
<1>3. ASSUME NEW s \in Submissions, Subscriber(s) PROVE QueueIInv'
  BY <1>1, <1>3, NewBody, KindsAre DEF Subscriber, QueueNext
<1>4. ASSUME NEW w \in Workers, EnqueueReport(w) \/ EnqueueNotification(w)
      PROVE QueueIInv'
  <2>1. Sub(w) \in Submissions
    BY <1>4, RunningHandler DEF EnqueueReport, EnqueueNotification, Handling
  <2> QED
    BY <1>1, <1>4, <2>1, NewBody, KindsAre
       DEF EnqueueReport, EnqueueNotification, QueueNext
<1>5. ASSUME NEW w \in Workers, PollTable(w) \/ Call(w) \/ Return(w)
      PROVE QueueIInv'
  BY <1>1, <1>5 DEF PollTable, Call, Return, QueueNext, Poll
<1>6. ASSUME NEW w \in Workers, ReturnError(w) PROVE QueueIInv'
  BY <1>6, HandlerReturnsIInv DEF ReturnError, Outcomes, IInv
<1>7. ASSUME NEW w \in Workers,
             \/ \E v \in Verdicts : ScoreSurvey(w, v)
             \/ UploadReport(w) \/ CreateReport(w) \/ EnqueueFails(w)
             \/ Notify(w)
      PROVE QueueIInv'
  BY <1>1, <1>7 DEF ScoreSurvey, UploadReport, CreateReport, EnqueueFails, Notify
<1>8. CASE UNCHANGED vars
  BY <1>1, <1>8 DEF vars, queueVars
<1> QED
  BY <1>2, <1>3, <1>4, <1>5, <1>6, <1>7, <1>8, QueueSurvivesCrash
     DEF Next, FieldPart, Worker

-----------------------------------------------------------------------------
(* The types.                                                              *)

\* The variables keep their types.
LEMMA TypeKept == ASSUME IInv, [Next]_vars PROVE TypeOK'
<1>1. FieldTypeOK' /\ QueueTypeOK'
  BY FieldKept, QueueKept DEF FieldIInv, QueueIInv
<1> DEFINE Own ==
      /\ enqueuing \subseteq Submissions
      /\ at \in [Workers -> {"none", "work", "create", "enqueue", "return"}]
      /\ verdict \in [Jobs -> Verdicts \cup {"pending"}]
      /\ scored \in [Submissions -> Nat]
      /\ objects \subseteq Jobs
      /\ reports \in [Submissions -> Nat]
      /\ alerts \in [Submissions -> Nat]
<1>2. Own
  BY DEF IInv, TypeOK
<1>3. ASSUME FieldPart PROVE Own'
  <2>1. enqueuing' \subseteq Submissions
    BY <1>2, <1>3 DEF FieldPart, Field, Deliver, RequestGoesOn, SubscriberFails,
                      Events
  <2> QED
    BY <1>2, <1>3, <2>1, FieldPartLeaves DEF Verdicts
<1>4. ASSUME NEW s \in Submissions, Subscriber(s) PROVE Own'
  BY <1>2, <1>4 DEF Subscriber, resultVars
<1>5. ASSUME NEW w \in Workers, Worker(w) PROVE Own'
  <2>1. enqueuing' \subseteq Submissions
    BY <1>2, <1>5, WorkerLeaves
  <2>2. at' \in [Workers -> {"none", "work", "create", "enqueue", "return"}]
    BY <1>2, <1>5 DEF Worker, PollTable, Call, Return, ReturnError, ScoreSurvey,
       EnqueueReport, UploadReport, CreateReport, EnqueueNotification,
       EnqueueFails, Notify, Continue
  <2>3. CASE PollTable(w) \/ Call(w) \/ Return(w) \/ ReturnError(w)
    BY <1>2, <2>1, <2>2, <2>3 DEF PollTable, Call, Return, ReturnError, resultVars
  <2>4. CASE EnqueueReport(w) \/ EnqueueNotification(w) \/ EnqueueFails(w)
    BY <1>2, <2>1, <2>2, <2>4
       DEF EnqueueReport, EnqueueNotification, EnqueueFails, resultVars
  <2>5. CASE \E v \in Verdicts : ScoreSurvey(w, v)
    <3>1. jobOf[Sub(w)] \in Jobs /\ Sub(w) \in Submissions
      BY <2>5, HandledSurvey, RunningHandler DEF ScoreSurvey, Handling
    <3> QED
      BY <1>2, <2>1, <2>2, <2>5, <3>1 DEF ScoreSurvey, UpdateJobQA
  <2>6. CASE UploadReport(w)
    <3>1. jobOf[Sub(w)] \in Jobs
      BY <2>6, HandledSurvey DEF UploadReport, Handling
    <3> QED
      BY <1>2, <2>1, <2>2, <2>6, <3>1 DEF UploadReport
  <2>7. CASE CreateReport(w) \/ Notify(w)
    <3>1. Sub(w) \in Submissions
      BY <2>7, RunningHandler DEF CreateReport, Notify, Handling
    <3> QED
      BY <1>2, <2>1, <2>2, <2>7, <3>1
         DEF CreateReport, InsertReport, Notify, CreateAlert
  <2> QED
    BY <1>5, <2>3, <2>4, <2>5, <2>6, <2>7 DEF Worker
<1>6. ASSUME Crash PROVE Own'
  BY <1>2, <1>6 DEF Crash, resultVars, Verdicts
<1>7. ASSUME UNCHANGED vars PROVE Own'
  BY <1>2, <1>7 DEF vars, Verdicts
<1> HIDE DEF Own
<1>8. Own'
  BY <1>3, <1>4, <1>5, <1>6, <1>7 DEF Next, FieldPart
<1> QED
  BY <1>1, <1>8 DEF TypeOK, Own

-----------------------------------------------------------------------------
(* The event of a survey.                                                  *)

\* What the bus holds after Publish and after Take.
LEMMA PublishPlaces ==
  ASSUME bus \in Seq(Events), NEW e, EB!Publish(e)
  PROVE  \/ bus' = bus
         \/ /\ Len(bus') = Len(bus) + 1
            /\ bus'[Len(bus) + 1] = e
            /\ \A i \in 1 .. Len(bus) : bus'[i] = bus[i]
<1>1. CASE EB!BusFull
  BY <1>1 DEF EB!Publish
<1>2. CASE ~EB!BusFull
  <2>1. bus' = Append(bus, e)
    BY <1>2 DEF EB!Publish
  <2> QED
    BY <2>1
<1> QED
  BY <1>1, <1>2

\* Take removes the first event.
LEMMA TakePlaces ==
  ASSUME bus \in Seq(Events), NEW e, EB!Take(e)
  PROVE  /\ 1 \in 1 .. Len(bus) /\ bus[1] = e
         /\ Len(bus') = Len(bus) - 1
         /\ \A i \in 1 .. Len(bus') :
              i + 1 \in 1 .. Len(bus) /\ bus'[i] = bus[i + 1]
BY DEF EB!Take

\* A survey whose request is not over has no event and no task.
LEMMA RequestAlone ==
  ASSUME IInv, NEW s \in Submissions, step[s] \notin {"done", "lost"}
  PROVE  ~OnBus(s) /\ s \notin enqueuing /\ ~HasTask(s)
BY DEF IInv, EventInv

\* The event of a survey is in one place.
LEMMA EventKept == ASSUME IInv, [Next]_vars PROVE EventInv'
<1>0. EventInv /\ bus \in Seq(Events) /\ step \in [Submissions -> Steps]
  BY DEF IInv, FieldIInv, FieldTypeOK
<1>1. ASSUME UNCHANGED <<step, responses, bus, enqueuing, body>> PROVE EventInv'
  BY <1>0, <1>1 DEF EventInv, OnBus, HasTask, Is
<1>2. CASE Field
  <2>1. ASSUME NEW j \in Jobs, NEW a \in Agents, AssignAgent(j, a)
        PROVE EventInv'
    BY <1>1, <1>2, <2>1 DEF Field, AssignAgent, requestVars, queueVars
  <2>4. ASSUME NEW j \in Jobs,
               \/ \E a \in Agents : LoadArrive(j, a)
               \/ RecordArrival(j) \/ RecordArrivalFails(j)
        PROVE  EventInv'
    BY <1>1, <1>2, <2>4 DEF Field, LoadArrive, RecordArrival,
       RecordArrivalFails, requestVars, queueVars
  <2>2. ASSUME NEW s \in Submissions, NEW j \in Jobs, NEW a \in Agents,
               LoadSubmit(s, j, a)
        PROVE EventInv'
    <3>1. ~OnBus(s) /\ s \notin enqueuing /\ ~HasTask(s)
      BY <2>2, RequestAlone DEF LoadSubmit
    <3>2. UNCHANGED <<responses, bus, enqueuing, body>>
      BY <1>2, <2>2 DEF Field, LoadSubmit, queueVars
    <3>3. \A r \in Submissions : r # s => step'[r] = step[r]
      BY <1>0, <2>2 DEF LoadSubmit
    <3>4. \A r \in Submissions : OnBus(r)' <=> OnBus(r)
      BY <3>2 DEF OnBus
    <3>5. \A r \in Submissions :
            /\ HasTask(r)' <=> HasTask(r)
            /\ \A t \in Tasks : Is(t, "qa.score_survey", r)'
                               <=> Is(t, "qa.score_survey", r)
      BY <3>2 DEF HasTask, Is
    <3>6. ASSUME NEW r \in Submissions,
                 OnBus(r)' \/ r \in enqueuing' \/ HasTask(r)'
          PROVE  r \in responses' /\ step'[r] \in {"done", "lost"}
      <4>1. OnBus(r) \/ r \in enqueuing \/ HasTask(r)
        BY <3>2, <3>4, <3>5, <3>6
      <4>2. r # s
        BY <3>1, <4>1
      <4> QED
        BY <1>0, <3>2, <3>3, <4>1, <4>2 DEF EventInv
    <3>7. \A r \in Submissions, i, k \in 1 .. Len(bus') :
            bus'[i] = r /\ bus'[k] = r => i = k
      BY <1>0, <3>2 DEF EventInv
    <3>8. \A r \in Submissions :
            /\ OnBus(r)' => r \notin enqueuing'
            /\ OnBus(r)' \/ r \in enqueuing' =>
                 \A t \in Tasks : ~Is(t, "qa.score_survey", r)'
      BY <1>0, <3>2, <3>4, <3>5 DEF EventInv
    <3> QED
      BY <3>6, <3>7, <3>8 DEF EventInv
  <2>3. CASE PublishOther
    <3>1. UNCHANGED <<step, responses, enqueuing, body>>
      BY <1>2, <2>3 DEF Field, PublishOther, requestVars, queueVars
    <3>2. \/ bus' = bus
          \/ /\ Len(bus') = Len(bus) + 1
             /\ bus'[Len(bus) + 1] = OtherEvent
             /\ \A i \in 1 .. Len(bus) : bus'[i] = bus[i]
      BY <1>0, <2>3, PublishPlaces DEF PublishOther
    <3>3. \A s \in Submissions, i \in 1 .. Len(bus') :
            bus'[i] = s => i \in 1 .. Len(bus) /\ bus[i] = s
      BY <1>0, <3>2, EventAssumption
    <3>4. \A s \in Submissions : OnBus(s)' => OnBus(s)
      BY <3>3 DEF OnBus
    <3>5. ASSUME NEW s \in Submissions, NEW i \in 1 .. Len(bus'),
                 NEW j \in 1 .. Len(bus'), bus'[i] = s, bus'[j] = s
          PROVE i = j
      BY <1>0, <3>3, <3>5 DEF EventInv
    <3>6. \A s \in Submissions : HasTask(s)' => HasTask(s)
      BY <3>1 DEF HasTask, Is
    <3>7. \A s \in Submissions, t \in Tasks :
            Is(t, "qa.score_survey", s)' => Is(t, "qa.score_survey", s)
      BY <3>1 DEF Is
    <3> QED
      BY <1>0, <3>1, <3>4, <3>5, <3>6, <3>7 DEF EventInv
  <2> QED
    BY <1>2, <2>1, <2>2, <2>3, <2>4 DEF Field
<1>3. ASSUME NEW s \in Submissions, RequestGoesOn(s) PROVE EventInv'
  <2>1. UNCHANGED <<enqueuing, body>>
    BY <1>3 DEF RequestGoesOn, queueVars
  <2>2. ~OnBus(s) /\ s \notin enqueuing /\ ~HasTask(s)
    BY <1>3, RequestAlone DEF RequestGoesOn, Submit, InsertResponse,
       InsertResponseFails, WriteSubmitted, PublishSubmitted
  <2>3. \A r \in Submissions : r # s => step'[r] = step[r]
    BY <1>0, <1>3 DEF RequestGoesOn, Submit, InsertResponse,
       InsertResponseFails, WriteSubmitted, PublishSubmitted
  <2>4. responses \subseteq responses'
    BY <1>3 DEF RequestGoesOn, Submit, InsertResponse, CreateSurveyResponse,
       InsertResponseFails, WriteSubmitted, PublishSubmitted
  <2>5. CASE PublishSubmitted(s)
    <3>1. s \in responses /\ step'[s] = "done"
      BY <1>0, <2>5 DEF PublishSubmitted, IInv, FieldIInv, RequestInv
    <3>2. \/ bus' = bus
          \/ /\ Len(bus') = Len(bus) + 1
             /\ bus'[Len(bus) + 1] = s
             /\ \A i \in 1 .. Len(bus) : bus'[i] = bus[i]
      BY <1>0, <2>5, PublishPlaces DEF PublishSubmitted
    <3>3. ASSUME NEW r \in Submissions, r # s, NEW i \in 1 .. Len(bus'),
                 bus'[i] = r
          PROVE i \in 1 .. Len(bus) /\ bus[i] = r
      BY <1>0, <3>2, <3>3
    <3>4. ASSUME NEW i \in 1 .. Len(bus'), NEW j \in 1 .. Len(bus'),
                 bus'[i] = s, bus'[j] = s
          PROVE i = j
      BY <1>0, <2>2, <3>2, <3>4 DEF OnBus
    <3>5. \A r \in Submissions : r # s /\ OnBus(r)' => OnBus(r)
      BY <3>3 DEF OnBus
    <3>6. ASSUME NEW r \in Submissions, NEW i \in 1 .. Len(bus'),
                 NEW j \in 1 .. Len(bus'), bus'[i] = r, bus'[j] = r
          PROVE i = j
      BY <1>0, <3>3, <3>4, <3>6 DEF EventInv
    <3>7. \A r \in Submissions : HasTask(r)' => HasTask(r)
      BY <2>1 DEF HasTask, Is
    <3>8. \A r \in Submissions, t \in Tasks :
            Is(t, "qa.score_survey", r)' => Is(t, "qa.score_survey", r)
      BY <2>1 DEF Is
    <3>9. \A t \in Tasks : ~Is(t, "qa.score_survey", s)
      BY <2>2, KindsAre DEF HasTask
    <3> QED
      BY <1>0, <2>1, <2>2, <2>3, <2>4, <3>1, <3>5, <3>6, <3>7, <3>8, <3>9
         DEF EventInv
  <2>6. CASE InsertResponse(s) \/ InsertResponseFails(s) \/ WriteSubmitted(s)
    <3>1. bus' = bus
      BY <2>6 DEF InsertResponse, InsertResponseFails, WriteSubmitted
    <3> QED
      BY <1>0, <2>1, <2>2, <2>3, <2>4, <3>1 DEF EventInv, OnBus, HasTask, Is
  <2> QED
    BY <1>3, <2>5, <2>6 DEF RequestGoesOn, Submit
<1>4. CASE Deliver
  <2>1. PICK e \in Events :
          /\ TakeEvent(e)
          /\ enqueuing' = IF e = OtherEvent THEN enqueuing ELSE enqueuing \cup {e}
    BY <1>4 DEF Deliver
  <2>2. UNCHANGED <<step, responses, body>>
    BY <1>4, <2>1 DEF Deliver, TakeEvent, requestVars, queueVars
  <2>3. /\ 1 \in 1 .. Len(bus) /\ bus[1] = e
        /\ Len(bus') = Len(bus) - 1
        /\ \A i \in 1 .. Len(bus') :
             i + 1 \in 1 .. Len(bus) /\ bus'[i] = bus[i + 1]
    BY <1>0, <2>1, TakePlaces DEF TakeEvent
  <2>4. \A s \in Submissions : OnBus(s)' => OnBus(s)
    BY <2>3 DEF OnBus
  <2>5. \A s \in Submissions : s \in enqueuing' => s \in enqueuing \/ s = e
    BY <2>1
  <2>6. e \in Submissions => OnBus(e) /\ ~OnBus(e)'
    <3> SUFFICES ASSUME e \in Submissions PROVE OnBus(e) /\ ~OnBus(e)'
      OBVIOUS
    <3>1. OnBus(e)
      BY <2>3 DEF OnBus
    <3>2. ASSUME NEW i \in 1 .. Len(bus'), bus'[i] = e PROVE FALSE
      <4>1. i + 1 \in 1 .. Len(bus) /\ bus[i + 1] = e /\ i # 0
        BY <2>3, <3>2
      <4>2. i + 1 = 1
        BY <1>0, <2>3, <4>1 DEF EventInv
      <4> QED
        BY <1>0, <2>3, <4>1, <4>2
    <3> QED
      BY <3>1, <3>2 DEF OnBus
  <2>7. ASSUME NEW s \in Submissions, NEW i \in 1 .. Len(bus'),
               NEW j \in 1 .. Len(bus'), bus'[i] = s, bus'[j] = s
        PROVE i = j
    <3>1. /\ i + 1 \in 1 .. Len(bus) /\ bus[i + 1] = s
          /\ j + 1 \in 1 .. Len(bus) /\ bus[j + 1] = s
      BY <2>3, <2>7
    <3>2. i + 1 = j + 1
      BY <1>0, <3>1 DEF EventInv
    <3> QED
      BY <1>0, <2>3, <3>2
  <2> QED
    BY <1>0, <2>2, <2>4, <2>5, <2>6, <2>7 DEF EventInv, HasTask, Is
<1>5. ASSUME NEW s \in Submissions, Subscriber(s) PROVE EventInv'
  <2>1. /\ s \in enqueuing /\ enqueuing' = enqueuing \ {s}
        /\ Enqueue([kind |-> "qa.score_survey", sub |-> s])
        /\ UNCHANGED <<step, responses, bus>>
    BY <1>5 DEF Subscriber, fieldVars
  <2>2. \A t \in Tasks, k \in Kinds, r \in Submissions :
          Is(t, k, r)' => Is(t, k, r) \/ (k = "qa.score_survey" /\ r = s)
    <3> SUFFICES ASSUME NEW t \in Tasks, NEW k \in Kinds, NEW r \in Submissions,
                        Is(t, k, r)', ~Is(t, k, r)
                 PROVE  k = "qa.score_survey" /\ r = s
      OBVIOUS
    <3>1. [kind |-> k, sub |-> r] = [kind |-> "qa.score_survey", sub |-> s]
      BY <2>1, NewTask DEF Is
    <3> QED
      BY <3>1
  <2>3. ~OnBus(s) /\ s \in responses /\ step[s] \in {"done", "lost"}
    BY <1>0, <2>1 DEF EventInv
  <2>4. \A r \in Submissions : HasTask(r)' => HasTask(r) \/ r = s
    BY <2>2 DEF HasTask
  <2>5. \A r \in Submissions : OnBus(r)' <=> OnBus(r)
    BY <2>1 DEF OnBus
  <2>6. \A r \in Submissions : r # s =>
          \A t \in Tasks : Is(t, "qa.score_survey", r)'
                           => Is(t, "qa.score_survey", r)
    BY <2>2, KindsAre
  <2>7. ASSUME NEW r \in Submissions,
               OnBus(r)' \/ r \in enqueuing' \/ HasTask(r)'
        PROVE  r \in responses' /\ step'[r] \in {"done", "lost"}
    <3>1. r = s \/ OnBus(r) \/ r \in enqueuing \/ HasTask(r)
      BY <2>1, <2>4, <2>5, <2>7
    <3> QED
      BY <1>0, <2>1, <2>3, <3>1 DEF EventInv
  <2>8. \A r \in Submissions, i, k \in 1 .. Len(bus') :
          bus'[i] = r /\ bus'[k] = r => i = k
    BY <1>0, <2>1 DEF EventInv
  <2>9. ASSUME NEW r \in Submissions, OnBus(r)' \/ r \in enqueuing'
        PROVE  /\ OnBus(r)' => r \notin enqueuing'
               /\ \A t \in Tasks : ~Is(t, "qa.score_survey", r)'
    <3>1. r # s /\ (OnBus(r) \/ r \in enqueuing)
      BY <2>1, <2>3, <2>5, <2>9
    <3> QED
      BY <1>0, <2>1, <2>5, <2>6, <3>1 DEF EventInv
  <2> QED
    BY <2>7, <2>8, <2>9 DEF EventInv
<1>6. ASSUME NEW s \in Submissions, SubscriberFails(s) PROVE EventInv'
  <2>1. enqueuing' \subseteq enqueuing /\ UNCHANGED <<step, responses, bus, body>>
    BY <1>6 DEF SubscriberFails, fieldVars, queueVars
  <2> QED
    BY <1>0, <2>1 DEF EventInv, OnBus, HasTask, Is
<1>7. ASSUME NEW w \in Workers, EnqueueReport(w) \/ EnqueueNotification(w)
      PROVE EventInv'
  <2>1. PICK k \in Kinds : /\ k # "qa.score_survey"
                           /\ Enqueue([kind |-> k, sub |-> Sub(w)])
    BY <1>7, KindsAre DEF EnqueueReport, EnqueueNotification
  <2>2. HasTask(Sub(w)) /\ Sub(w) \in Submissions
    BY <1>7, RunningHandler
       DEF EnqueueReport, EnqueueNotification, Handling, HasTask
  <2>3. UNCHANGED <<step, responses, bus, enqueuing>>
    BY <1>7 DEF EnqueueReport, EnqueueNotification, fieldVars
  <2>4. \A t \in Tasks, l \in Kinds, r \in Submissions :
          Is(t, l, r)' => Is(t, l, r) \/ (l = k /\ r = Sub(w))
    <3> SUFFICES ASSUME NEW t \in Tasks, NEW l \in Kinds, NEW r \in Submissions,
                        Is(t, l, r)', ~Is(t, l, r)
                 PROVE  l = k /\ r = Sub(w)
      OBVIOUS
    <3>1. [kind |-> l, sub |-> r] = [kind |-> k, sub |-> Sub(w)]
      BY <2>1, NewTask DEF Is
    <3> QED
      BY <3>1
  <2>5. \A r \in Submissions : HasTask(r)' => HasTask(r)
    BY <2>2, <2>4 DEF HasTask
  <2> QED
    BY <1>0, <2>1, <2>3, <2>4, <2>5, KindsAre DEF EventInv, OnBus
<1>8. ASSUME NEW w \in Workers, Worker(w), body' = body PROVE EventInv'
  BY <1>1, <1>8, WorkerLeaves
<1>9. CASE Crash
  <2>1. /\ bus' = <<>> /\ enqueuing' = {} /\ UNCHANGED <<responses, body>>
        /\ \A s \in Submissions :
             step[s] \in {"done", "lost"} => step'[s] \in {"done", "lost"}
    BY <1>9 DEF Crash
  <2>2. \A i : i \notin 1 .. Len(bus')
    BY <2>1
  <2>3. \A s \in Submissions : HasTask(s)' => HasTask(s)
    BY <2>1 DEF HasTask, Is
  <2>4. \A s \in Submissions : ~OnBus(s)'
    BY <2>2 DEF OnBus
  <2> QED
    BY <1>0, <2>1, <2>2, <2>3, <2>4 DEF EventInv
<1>10. CASE UNCHANGED vars
  BY <1>1, <1>10 DEF vars
<1>11. ASSUME NEW w \in Workers, Worker(w) PROVE EventInv'
  <2>1. \/ body' = body \/ EnqueueReport(w) \/ EnqueueNotification(w)
    BY <1>11 DEF Worker, PollTable, LockOldest, Claim, ClaimFails, RecordOutcome, RecordOutcomeFails,
       Call, CallHandler, Return, ReturnError, HandlerReturns, ScoreSurvey,
       UploadReport, CreateReport, EnqueueFails, Notify, queueVars
  <2> QED
    BY <1>7, <1>8, <1>11, <2>1
<1> QED
  BY <1>2, <1>3, <1>4, <1>5, <1>6, <1>9, <1>10, <1>11 DEF Next

-----------------------------------------------------------------------------
(* The handlers.                                                           *)

\* One place of the handlers' chain is left for another.
Moves(w, here, there) ==
  /\ phase[w] = "handling" /\ at[w] \in here
  /\ at' = [at EXCEPT ![w] = there]
  /\ UNCHANGED <<phase, claimed, started>>

\* The moves of the handlers.
LEMMA WorkerMoves ==
  ASSUME IInv, NEW w \in Workers,
         \/ \E v \in Verdicts : ScoreSurvey(w, v)
         \/ UploadReport(w) \/ CreateReport(w) \/ Notify(w)
         \/ EnqueueReport(w) \/ EnqueueNotification(w) \/ EnqueueFails(w)
  PROVE  \/ Moves(w, {"work"}, "enqueue") \/ Moves(w, {"work"}, "create")
         \/ Moves(w, {"create"}, "enqueue")
         \/ Moves(w, {"work", "enqueue"}, "return")
<1>1. ASSUME NEW v \in Verdicts, ScoreSurvey(w, v)
      PROVE Moves(w, {"work"}, "enqueue")
  BY <1>1 DEF ScoreSurvey, Handling, Continue, Moves, queueVars
<1>2. CASE UploadReport(w)
  BY <1>2 DEF UploadReport, Handling, Continue, Moves, queueVars
<1>3. CASE CreateReport(w)
  BY <1>3 DEF CreateReport, Handling, Continue, Moves, queueVars
<1>4. CASE Notify(w)
  BY <1>4 DEF Notify, Handling, Continue, Moves, queueVars
<1>5. CASE EnqueueReport(w) \/ EnqueueNotification(w)
  BY <1>5 DEF EnqueueReport, EnqueueNotification, Handling, Continue, Moves,
              Enqueue
<1>6. CASE EnqueueFails(w)
  BY <1>6 DEF EnqueueFails, Continue, Moves, queueVars
<1> QED
  BY <1>1, <1>2, <1>3, <1>4, <1>5, <1>6

\* The places that a handler never comes back to.
Places == {{"work"}, {"work", "create"}, ToDo}

\* A handler that is past some places stays past them, wherever the process
\* stops: no second handler of its task is ever started.
LEMMA PastKept ==
  ASSUME IInv, [Next]_vars, NEW t \in Tasks, NEW P \in Places, Past(t, P)
  PROVE  Past(t, P)'
<1> USE DEF Past
<1>0. /\ at \in [Workers -> {"none", "work", "create", "enqueue", "return"}]
      /\ phase \in [Workers -> Phases] /\ started \in [Tasks -> Nat]
      /\ claimed \in [Workers -> Tasks \cup {0}]
  BY DEF IInv, TypeOK, QueueTypeOK
<1>1. ASSUME UNCHANGED <<started, phase, claimed, at>> PROVE Past(t, P)'
  BY <1>1
<1>2. CASE FieldPart
  BY <1>1, <1>2, FieldPartLeaves
<1>3. ASSUME NEW s \in Submissions, Subscriber(s) PROVE Past(t, P)'
  BY <1>1, <1>3 DEF Subscriber, Enqueue
<1>4. ASSUME NEW w \in Workers, PollTable(w) PROVE Past(t, P)'
  <2>1. UNCHANGED <<started, at>>
    BY <1>4 DEF PollTable, LockOldest, Claim, ClaimFails, RecordOutcome, RecordOutcomeFails
  <2>2. \A v \in Workers : phase'[v] = "handling" =>
          v # w /\ phase[v] = "handling" /\ claimed'[v] = claimed[v]
    BY <1>0, <1>4 DEF PollTable, LockOldest, Claim, ClaimFails, RecordOutcome, RecordOutcomeFails
  <2> QED
    BY <2>1, <2>2
<1>5. ASSUME NEW w \in Workers, Call(w) PROVE Past(t, P)'
  <2>1. /\ claimed[w] \in Tasks /\ started[claimed[w]] = 0
    BY <1>5 DEF Call, CallHandler, IInv, QueueIInv, WorkerInv, Polling
  <2>2. claimed[w] # t
    BY <2>1
  <2>3. /\ started'[t] = started[t] /\ claimed' = claimed
        /\ \A v \in Workers : v # w => phase'[v] = phase[v] /\ at'[v] = at[v]
    BY <1>0, <1>5, <2>1, <2>2 DEF Call, CallHandler, Continue
  <2> QED
    BY <2>2, <2>3
<1>6. ASSUME NEW w \in Workers, Return(w) \/ ReturnError(w) PROVE Past(t, P)'
  <2>1. PICK o \in Outcomes : HandlerReturns(w, o)
    BY <1>6 DEF Return, ReturnError, Outcomes
  <2>2. UNCHANGED <<started, claimed>> /\ phase' = [phase EXCEPT ![w] = o]
    BY <2>1 DEF HandlerReturns
  <2>3. at' = [at EXCEPT ![w] = "none"]
    BY <1>6 DEF Return, ReturnError, Continue
  <2>4. \A v \in Workers : phase'[v] = "handling" =>
          phase[v] = "handling" /\ at'[v] = at[v]
    BY <1>0, <2>2, <2>3 DEF Outcomes
  <2> QED
    BY <2>2, <2>4
<1>7. ASSUME NEW w \in Workers,
             \/ \E v \in Verdicts : ScoreSurvey(w, v)
             \/ UploadReport(w) \/ CreateReport(w) \/ Notify(w)
             \/ EnqueueReport(w) \/ EnqueueNotification(w) \/ EnqueueFails(w)
      PROVE Past(t, P)'
  <2>1. \/ Moves(w, {"work"}, "enqueue") \/ Moves(w, {"work"}, "create")
        \/ Moves(w, {"create"}, "enqueue")
        \/ Moves(w, {"work", "enqueue"}, "return")
    BY <1>7, WorkerMoves
  <2>2. UNCHANGED <<phase, claimed, started>>
    BY <2>1 DEF Moves
  <2>3. \A v \in Workers : phase[v] = "handling" /\ at[v] \notin P => at'[v] \notin P
    BY <1>0, <2>1 DEF Moves, Places, ToDo
  <2> QED
    BY <2>2, <2>3
<1>8. CASE Crash
  BY <1>8 DEF Crash
<1>9. CASE UNCHANGED vars
  BY <1>1, <1>9 DEF vars
<1> QED
  BY <1>2, <1>3, <1>4, <1>5, <1>6, <1>7, <1>8, <1>9 DEF Next, FieldPart, Worker

\* The handlers are about tasks of their kinds.
LEMMA HandlerKept == ASSUME IInv, [Next]_vars PROVE HandlerInv'
<1>0. /\ HandlerInv
      /\ at \in [Workers -> {"none", "work", "create", "enqueue", "return"}]
      /\ phase \in [Workers -> Phases] /\ started \in [Tasks -> Nat]
      /\ claimed \in [Workers -> Tasks \cup {0}]
  BY DEF IInv, TypeOK, QueueTypeOK
<1>1. ASSUME UNCHANGED <<last, body, started, phase, claimed, at>>
      PROVE HandlerInv'
  BY <1>0, <1>1 DEF HandlerInv
<1>2. CASE FieldPart
  BY <1>1, <1>2, FieldPartLeaves
<1>3. ASSUME NEW b \in Bodies, Enqueue(b)
      PROVE  /\ \A t \in Tasks : t <= last' => body'[t] \in Bodies
             /\ \A w \in Workers : phase[w] = "handling" =>
                  body'[claimed[w]] = body[claimed[w]]
  <2>1. \A t \in Tasks : body'[t] = IF t = last + 1 THEN b ELSE body[t]
    BY <1>3, NewTask
  <2>2. \A w \in Workers : phase[w] = "handling" =>
          claimed[w] \in Tasks /\ claimed[w] # last + 1
    BY <1>3, NewTask, RunningHandler
  <2>3. \A t \in Tasks : t <= last' => t <= last \/ t = last + 1
    BY <1>3, NewTask
  <2> QED
    BY <1>0, <2>1, <2>2, <2>3 DEF HandlerInv
<1>4. ASSUME NEW s \in Submissions, Subscriber(s) PROVE HandlerInv'
  <2>1. PICK b \in Bodies : Enqueue(b) /\ at' = at
    BY <1>4, NewBody, KindsAre DEF Subscriber
  <2>2. UNCHANGED <<phase, claimed, started>>
    BY <2>1 DEF Enqueue
  <2> QED
    BY <1>0, <1>3, <2>1, <2>2 DEF HandlerInv
<1>5. ASSUME NEW w \in Workers, PollTable(w) PROVE HandlerInv'
  <2>1. UNCHANGED <<last, body, started, at>>
    BY <1>5 DEF PollTable, LockOldest, Claim, ClaimFails, RecordOutcome, RecordOutcomeFails
  <2>2. phase[w] # "handling" /\ phase'[w] # "handling"
    BY <1>0, <1>5 DEF PollTable, LockOldest, Claim, ClaimFails, RecordOutcome, RecordOutcomeFails,
                      Outcomes
  <2>3. \A v \in Workers : v # w => phase'[v] = phase[v] /\ claimed'[v] = claimed[v]
    BY <1>0, <1>5 DEF PollTable, LockOldest, Claim, ClaimFails, RecordOutcome, RecordOutcomeFails
  <2> QED
    BY <1>0, <2>1, <2>2, <2>3 DEF HandlerInv
<1>6. ASSUME NEW w \in Workers, Call(w) PROVE HandlerInv'
  <2>1. claimed[w] \in Tasks
    BY <1>6 DEF Call, CallHandler, IInv, QueueIInv, WorkerInv, Polling
  <2>2. /\ UNCHANGED <<last, body, claimed>>
        /\ \A t \in Tasks : started'[t] =
             IF t = claimed[w] THEN started[t] + 1 ELSE started[t]
        /\ \A v \in Workers :
             /\ phase'[v] = IF v = w THEN "handling" ELSE phase[v]
             /\ at'[v] = IF v = w THEN "work" ELSE at[v]
    BY <1>0, <1>6, <2>1 DEF Call, CallHandler, Continue
  <2>3. \A v \in Workers : phase[v] = "handling" => claimed[v] \in Tasks
    BY RunningHandler
  <2>4. \A t \in Tasks : started[t] \in Nat
    BY <1>0
  <2>5. \A v \in Workers : phase'[v] = "handling" => started'[claimed[v]] # 0
    BY <1>0, <2>1, <2>2, <2>3, <2>4 DEF HandlerInv
  <2> QED
    BY <1>0, <2>2, <2>5 DEF HandlerInv
<1>7. ASSUME NEW w \in Workers, Return(w) \/ ReturnError(w) PROVE HandlerInv'
  <2>1. PICK o \in Outcomes : HandlerReturns(w, o)
    BY <1>7 DEF Return, ReturnError, Outcomes
  <2>2. /\ UNCHANGED <<last, body, started, claimed>>
        /\ phase' = [phase EXCEPT ![w] = o] /\ o # "handling"
    BY <2>1 DEF HandlerReturns, Outcomes
  <2>3. at' = [at EXCEPT ![w] = "none"]
    BY <1>7 DEF Return, ReturnError, Continue
  <2>4. \A v \in Workers :
          /\ phase'[v] = IF v = w THEN o ELSE phase[v]
          /\ at'[v] = IF v = w THEN "none" ELSE at[v]
    BY <1>0, <2>2, <2>3
  <2> QED
    BY <1>0, <2>2, <2>4 DEF HandlerInv
<1>8. ASSUME NEW w \in Workers, NEW here, NEW there, Moves(w, here, there),
             there \in {"create", "enqueue", "return"},
             there = "create" => body[claimed[w]].kind = "report.generate",
             there = "enqueue" => body[claimed[w]].kind # "notification.send",
             \A t \in Tasks : t <= last' => body'[t] \in Bodies,
             \A v \in Workers : phase[v] = "handling" =>
               body'[claimed[v]] = body[claimed[v]]
      PROVE HandlerInv'
  <2>1. \A v \in Workers : at'[v] = IF v = w THEN there ELSE at[v]
    BY <1>0, <1>8 DEF Moves
  <2>2. UNCHANGED <<phase, claimed, started>> /\ phase[w] = "handling"
    BY <1>8 DEF Moves
  <2>3. at' \in [Workers -> {"none", "work", "create", "enqueue", "return"}]
    BY <1>0, <1>8 DEF Moves
  <2>4. \A v \in Workers : (at[v] = "none") <=> (phase[v] # "handling")
    BY <1>0 DEF HandlerInv
  <2>5. \A v \in Workers : (at'[v] = "none") <=> (phase[v] # "handling")
    BY <1>8, <2>1, <2>2, <2>4
  <2>6. \A v \in Workers : phase[v] = "handling" => started[claimed[v]] # 0
    BY <1>0 DEF HandlerInv
  <2>7. \A v \in Workers :
          /\ at'[v] = "create" => body'[claimed[v]].kind = "report.generate"
          /\ at'[v] = "enqueue" => body'[claimed[v]].kind # "notification.send"
    <3> SUFFICES ASSUME NEW v \in Workers
                 PROVE  /\ at'[v] = "create" =>
                             body'[claimed[v]].kind = "report.generate"
                        /\ at'[v] = "enqueue" =>
                             body'[claimed[v]].kind # "notification.send"
      OBVIOUS
    <3>1. at'[v] \in {"create", "enqueue"} =>
            body'[claimed[v]] = body[claimed[v]]
      BY <1>8, <2>5
    <3> QED
      BY <1>0, <1>8, <2>1, <3>1 DEF HandlerInv
  <2> QED
    BY <1>8, <2>2, <2>5, <2>6, <2>7 DEF HandlerInv
<1>9. ASSUME UNCHANGED <<last, body>>
      PROVE  /\ \A t \in Tasks : t <= last' => body'[t] \in Bodies
             /\ \A v \in Workers : phase[v] = "handling" =>
                  body'[claimed[v]] = body[claimed[v]]
  BY <1>0, <1>9 DEF HandlerInv
<1>10. ASSUME NEW w \in Workers,
              \/ \E v \in Verdicts : ScoreSurvey(w, v)
              \/ UploadReport(w) \/ CreateReport(w)
       PROVE HandlerInv'
  <2>1. UNCHANGED <<last, body>>
    BY <1>10 DEF ScoreSurvey, UploadReport, CreateReport, queueVars
  <2>2. CASE \E v \in Verdicts : ScoreSurvey(w, v)
    <3>1. Moves(w, {"work"}, "enqueue") /\ body[claimed[w]].kind = "qa.score_survey"
      BY <2>2 DEF ScoreSurvey, Handling, Continue, Moves, queueVars
    <3> QED
      BY <1>8, <1>9, <2>1, <3>1
  <2>3. CASE UploadReport(w)
    <3>1. Moves(w, {"work"}, "create") /\ body[claimed[w]].kind = "report.generate"
      BY <2>3 DEF UploadReport, Handling, Continue, Moves, queueVars
    <3> QED
      BY <1>8, <1>9, <2>1, <3>1
  <2>4. CASE CreateReport(w)
    <3>1. Moves(w, {"create"}, "enqueue") /\ body[claimed[w]].kind = "report.generate"
      BY <2>4 DEF CreateReport, Handling, Continue, Moves, queueVars
    <3> QED
      BY <1>8, <1>9, <2>1, <3>1
  <2> QED
    BY <1>10, <2>2, <2>3, <2>4
<1>11. ASSUME NEW w \in Workers, Notify(w) \/ EnqueueFails(w) PROVE HandlerInv'
  <2>1. UNCHANGED <<last, body>>
    BY <1>11 DEF Notify, EnqueueFails, queueVars
  <2>2. Moves(w, {"work", "enqueue"}, "return")
    BY <1>11 DEF Notify, EnqueueFails, Handling, Continue, Moves, queueVars
  <2> QED
    BY <1>8, <1>9, <2>1, <2>2
<1>12. ASSUME NEW w \in Workers, EnqueueReport(w) \/ EnqueueNotification(w)
       PROVE HandlerInv'
  <2>1. Sub(w) \in Submissions
    BY <1>12, RunningHandler DEF EnqueueReport, EnqueueNotification, Handling
  <2>2. PICK b \in Bodies : Enqueue(b)
    BY <1>12, <2>1, NewBody, KindsAre DEF EnqueueReport, EnqueueNotification
  <2>3. Moves(w, {"work", "enqueue"}, "return")
    BY <1>12 DEF EnqueueReport, EnqueueNotification, Handling, Continue, Moves,
                 Enqueue
  <2> QED
    BY <1>3, <1>8, <2>2, <2>3
<1>13. CASE Crash
  BY <1>0, <1>13 DEF Crash, HandlerInv
<1>14. CASE UNCHANGED vars
  BY <1>1, <1>14 DEF vars
<1> QED
  BY <1>2, <1>4, <1>5, <1>6, <1>7, <1>10, <1>11, <1>12, <1>13, <1>14
     DEF Next, FieldPart, Worker

-----------------------------------------------------------------------------
(* The tasks.                                                              *)

\* Only three actions insert tasks.
LEMMA BodyStep ==
  ASSUME [Next]_vars
  PROVE  \/ UNCHANGED <<last, body>>
         \/ \E s \in Submissions : Subscriber(s)
         \/ \E w \in Workers : EnqueueReport(w) \/ EnqueueNotification(w)
<1>1. CASE FieldPart
  BY <1>1, FieldPartLeaves
<1>2. ASSUME NEW w \in Workers, Worker(w)
      PROVE UNCHANGED <<last, body>> \/ EnqueueReport(w) \/ EnqueueNotification(w)
  BY <1>2 DEF Worker, PollTable, LockOldest, Claim, ClaimFails, RecordOutcome, RecordOutcomeFails, Call,
     CallHandler, Return, ReturnError, HandlerReturns, ScoreSurvey,
     UploadReport, CreateReport, EnqueueFails, Notify, queueVars
<1>3. CASE Crash
  BY <1>3 DEF Crash
<1>4. CASE UNCHANGED vars
  BY <1>4 DEF vars
<1> QED
  BY <1>1, <1>2, <1>3, <1>4 DEF Next, FieldPart

\* And what they insert.
LEMMA Inserted ==
  ASSUME IInv,
         \/ \E s \in Submissions : Subscriber(s)
         \/ \E w \in Workers : EnqueueReport(w) \/ EnqueueNotification(w)
  PROVE  \E k \in Kinds, s \in Submissions : Enqueue([kind |-> k, sub |-> s])
<1>1. ASSUME NEW s \in Submissions, Subscriber(s)
      PROVE  Enqueue([kind |-> "qa.score_survey", sub |-> s])
  BY <1>1 DEF Subscriber
<1>2. ASSUME NEW w \in Workers, EnqueueReport(w)
      PROVE  /\ Sub(w) \in Submissions
             /\ Enqueue([kind |-> "report.generate", sub |-> Sub(w)])
  BY <1>2, RunningHandler DEF EnqueueReport, Handling
<1>3. ASSUME NEW w \in Workers, EnqueueNotification(w)
      PROVE  /\ Sub(w) \in Submissions
             /\ Enqueue([kind |-> "notification.send", sub |-> Sub(w)])
  BY <1>3, RunningHandler DEF EnqueueNotification, Handling
<1> QED
  BY <1>1, <1>2, <1>3, KindsAre

\* No row's body is ever written again.
LEMMA TasksStay ==
  ASSUME IInv, [Next]_vars, NEW t \in Tasks, NEW k \in Kinds,
         NEW s \in Submissions, Is(t, k, s)
  PROVE  Is(t, k, s)'
<1>1. ASSUME NEW b, Enqueue(b) PROVE Is(t, k, s)'
  <2>1. body[t] # NoBody
    BY BodyOfIs
  <2>2. last + 1 \in Tasks /\ last \in Nat
    BY <1>1, NewTask DEF IInv, QueueIInv, QueueTypeOK
  <2>3. body[last + 1] = NoBody
    BY <2>2, TasksAreNumbers DEF IInv, TaskInv
  <2> QED
    BY <1>1, <2>1, <2>3, NewTask DEF Is
<1> QED
  BY <1>1, BodyStep, Inserted DEF Is

\* A new row is of a kind that its survey had no task of.
LEMMA InsertKeeps ==
  ASSUME IInv, [Next]_vars, NEW k \in Kinds, NEW s \in Submissions,
         Enqueue([kind |-> k, sub |-> s]),
         \A t \in Tasks : ~Is(t, k, s),
         k = "report.generate" =>
           \E t \in Tasks : Is(t, "qa.score_survey", s) /\ Past(t, ToDo)',
         k = "notification.send" =>
           \E t \in Tasks : Is(t, "report.generate", s) /\ Past(t, ToDo)'
  PROVE  TaskInv'
<1>1. /\ last + 1 \in Tasks /\ last \in Nat /\ last' = last + 1
      /\ \A t \in Tasks :
           body'[t] = IF t = last + 1 THEN [kind |-> k, sub |-> s] ELSE body[t]
  <2>1. last \in Nat /\ last' = last + 1
    BY MaxTasksAssumption DEF IInv, QueueIInv, QueueTypeOK, Enqueue
  <2>2. /\ last + 1 \in Tasks
        /\ \A t \in Tasks :
             body'[t] = IF t = last + 1 THEN [kind |-> k, sub |-> s] ELSE body[t]
    BY NewTask
  <2> QED
    BY <2>1, <2>2
<1>2. \A t \in Tasks : t > last' => body'[t] = NoBody
  BY <1>1, TasksAreNumbers DEF IInv, TaskInv
<1>3. \A t \in Tasks : body[t] # [kind |-> k, sub |-> s]
  BY DEF Is
<1>4. OneTaskOfEachKind'
  BY <1>1, <1>3 DEF IInv, TaskInv, OneTaskOfEachKind
<1>5. \A u \in Tasks, l \in Kinds, r \in Submissions :
        Is(u, l, r)' => Is(u, l, r) \/ (l = k /\ r = s)
  <2> SUFFICES ASSUME NEW u \in Tasks, NEW l \in Kinds, NEW r \in Submissions,
                      Is(u, l, r)', ~Is(u, l, r)
               PROVE  l = k /\ r = s
    OBVIOUS
  <2>1. [kind |-> l, sub |-> r] = [kind |-> k, sub |-> s]
    BY <1>1 DEF Is
  <2> QED
    BY <2>1
<1>6. ToDo \in Places
  BY DEF Places
<1>7. ASSUME NEW r \in Submissions, NEW u \in Tasks, Is(u, "report.generate", r)'
      PROVE  \E t \in Tasks : Is(t, "qa.score_survey", r)' /\ Past(t, ToDo)'
  <2>1. CASE Is(u, "report.generate", r)
    <3>1. PICK t \in Tasks : Is(t, "qa.score_survey", r) /\ Past(t, ToDo)
      BY <2>1 DEF IInv, TaskInv
    <3> QED
      BY <3>1, <1>6, PastKept, TasksStay, KindsAre
  <2>2. CASE k = "report.generate" /\ r = s
    BY <2>2, TasksStay, KindsAre
  <2> QED
    BY <1>5, <1>7, <2>1, <2>2, KindsAre
<1>8. ASSUME NEW r \in Submissions, NEW u \in Tasks, Is(u, "notification.send", r)'
      PROVE  \E t \in Tasks : Is(t, "report.generate", r)' /\ Past(t, ToDo)'
  <2>1. CASE Is(u, "notification.send", r)
    <3>1. PICK t \in Tasks : Is(t, "report.generate", r) /\ Past(t, ToDo)
      BY <2>1 DEF IInv, TaskInv
    <3> QED
      BY <3>1, <1>6, PastKept, TasksStay, KindsAre
  <2>2. CASE k = "notification.send" /\ r = s
    BY <2>2, TasksStay, KindsAre
  <2> QED
    BY <1>5, <1>8, <2>1, <2>2, KindsAre
<1> QED
  BY <1>2, <1>4, <1>7, <1>8 DEF TaskInv

\* The handler of a task that moves on leaves the places behind it.
LEMMA MovedPast ==
  ASSUME IInv, NEW w \in Workers, NEW here, NEW there, NEW P,
         Moves(w, here, there), there \notin P
  PROVE  Past(claimed[w], P)'
<1>1. /\ phase[w] = "handling" /\ UNCHANGED <<phase, claimed, started>>
      /\ at' = [at EXCEPT ![w] = there]
  BY DEF Moves
<1>2. at'[w] = there
  BY <1>1 DEF IInv, TypeOK
<1> QED
  BY <1>1, <1>2, RunningHandler DEF Past

\* A handler that is in one of the places has not left them.
LEMMA NotYetPast ==
  ASSUME IInv, NEW w \in Workers, NEW P, phase[w] = "handling", at[w] \in P,
         NEW t \in Tasks, NEW k \in Kinds, Handling(w, k, at[w]),
         Is(t, k, Sub(w)), Past(t, P)
  PROVE  FALSE
<1>1. claimed[w] \in Tasks /\ Is(claimed[w], k, Sub(w)) /\ Sub(w) \in Submissions
  BY RunningHandler DEF Handling
<1>2. t = claimed[w]
  BY <1>1, OneTask
<1> QED
  BY <1>2 DEF Past

\* One task of each kind for each survey, each after the one before it.
LEMMA TaskKept == ASSUME IInv, [Next]_vars PROVE TaskInv'
<1>0. TaskInv /\ ToDo \in Places
  BY DEF IInv, Places
<1>1. CASE UNCHANGED <<last, body>>
  <2>1. \A t, k, s : Is(t, k, s)' <=> Is(t, k, s)
    BY <1>1 DEF Is
  <2>2. \A t \in Tasks : Past(t, ToDo) => Past(t, ToDo)'
    BY <1>0, PastKept
  <2>3. OneTaskOfEachKind'
    BY <1>0, <1>1 DEF TaskInv, OneTaskOfEachKind
  <2> QED
    BY <1>0, <1>1, <2>1, <2>2, <2>3 DEF TaskInv
<1>2. ASSUME NEW s \in Submissions, Subscriber(s) PROVE TaskInv'
  <2>1. Enqueue([kind |-> "qa.score_survey", sub |-> s]) /\ s \in enqueuing
    BY <1>2 DEF Subscriber
  <2>2. \A t \in Tasks : ~Is(t, "qa.score_survey", s)
    BY <2>1 DEF IInv, EventInv
  <2> QED
    BY <2>1, <2>2, InsertKeeps, KindsAre
<1>3. ASSUME NEW w \in Workers, EnqueueReport(w) PROVE TaskInv'
  <2>1. /\ Enqueue([kind |-> "report.generate", sub |-> Sub(w)])
        /\ Handling(w, "qa.score_survey", "enqueue")
        /\ phase[w] = "handling" /\ at[w] = "enqueue"
        /\ Moves(w, {"enqueue"}, "return")
    BY <1>3 DEF EnqueueReport, Handling, Continue, Moves, Enqueue
  <2>2. /\ claimed[w] \in Tasks /\ Is(claimed[w], "qa.score_survey", Sub(w))
        /\ Sub(w) \in Submissions
    BY <2>1, RunningHandler DEF Handling
  <2>3. ASSUME NEW u \in Tasks, Is(u, "report.generate", Sub(w)) PROVE FALSE
    <3>1. PICK t \in Tasks : Is(t, "qa.score_survey", Sub(w)) /\ Past(t, ToDo)
      BY <1>0, <2>2, <2>3 DEF TaskInv
    <3> QED
      BY <2>1, <3>1, NotYetPast, KindsAre DEF ToDo
  <2>4. "return" \notin ToDo
    BY DEF ToDo
  <2>5. Past(claimed[w], ToDo)' /\ claimed'[w] = claimed[w]
    BY <2>1, <2>4, MovedPast DEF Moves
  <2>6. \E t \in Tasks : Is(t, "qa.score_survey", Sub(w)) /\ Past(t, ToDo)'
    BY <2>2, <2>5
  <2>7. \A t \in Tasks : ~Is(t, "report.generate", Sub(w))
    BY <2>3
  <2> DEFINE s == Sub(w)
  <2>8. /\ Enqueue([kind |-> "report.generate", sub |-> s]) /\ s \in Submissions
        /\ \E t \in Tasks : Is(t, "qa.score_survey", s) /\ Past(t, ToDo)'
        /\ \A t \in Tasks : ~Is(t, "report.generate", s)
    BY <2>1, <2>2, <2>6, <2>7
  <2> HIDE DEF s
  <2>9. "report.generate" # "notification.send"
    OBVIOUS
  <2> QED
    BY <2>8, <2>9, InsertKeeps, KindsAre
<1>4. ASSUME NEW w \in Workers, EnqueueNotification(w) PROVE TaskInv'
  <2>1. /\ Enqueue([kind |-> "notification.send", sub |-> Sub(w)])
        /\ Handling(w, "report.generate", "enqueue")
        /\ phase[w] = "handling" /\ at[w] = "enqueue"
        /\ Moves(w, {"enqueue"}, "return")
    BY <1>4 DEF EnqueueNotification, Handling, Continue, Moves, Enqueue
  <2>2. /\ claimed[w] \in Tasks /\ Is(claimed[w], "report.generate", Sub(w))
        /\ Sub(w) \in Submissions
    BY <2>1, RunningHandler DEF Handling
  <2>3. ASSUME NEW u \in Tasks, Is(u, "notification.send", Sub(w)) PROVE FALSE
    <3>1. PICK t \in Tasks : Is(t, "report.generate", Sub(w)) /\ Past(t, ToDo)
      BY <1>0, <2>2, <2>3 DEF TaskInv
    <3> QED
      BY <2>1, <3>1, NotYetPast, KindsAre DEF ToDo
  <2>4. "return" \notin ToDo
    BY DEF ToDo
  <2>5. Past(claimed[w], ToDo)' /\ claimed'[w] = claimed[w]
    BY <2>1, <2>4, MovedPast DEF Moves
  <2>6. \E t \in Tasks : Is(t, "report.generate", Sub(w)) /\ Past(t, ToDo)'
    BY <2>2, <2>5
  <2>7. \A t \in Tasks : ~Is(t, "notification.send", Sub(w))
    BY <2>3
  <2> DEFINE s == Sub(w)
  <2>8. /\ Enqueue([kind |-> "notification.send", sub |-> s]) /\ s \in Submissions
        /\ \E t \in Tasks : Is(t, "report.generate", s) /\ Past(t, ToDo)'
        /\ \A t \in Tasks : ~Is(t, "notification.send", s)
    BY <2>1, <2>2, <2>6, <2>7
  <2> HIDE DEF s
  <2>9. "notification.send" # "report.generate"
    OBVIOUS
  <2> QED
    BY <2>8, <2>9, InsertKeeps, KindsAre
<1> QED
  BY <1>1, <1>2, <1>3, <1>4, BodyStep

-----------------------------------------------------------------------------
(* What the handlers write.                                                *)

\* Each result is written by one action.
LEMMA ResultStep ==
  ASSUME [Next]_vars
  PROVE  /\ \/ UNCHANGED <<scored, verdict>>
            \/ \E w \in Workers, v \in Verdicts : ScoreSurvey(w, v)
         /\ \/ objects' = objects
            \/ \E w \in Workers : UploadReport(w)
         /\ \/ reports' = reports
            \/ \E w \in Workers : CreateReport(w)
         /\ \/ alerts' = alerts
            \/ \E w \in Workers : Notify(w) /\ CreateAlert(Sub(w))
         /\ objects \subseteq objects'
<1>1. CASE FieldPart
  BY <1>1, FieldPartLeaves
<1>2. ASSUME NEW s \in Submissions, Subscriber(s)
      PROVE UNCHANGED <<verdict, scored, objects, reports, alerts>>
  BY <1>2 DEF Subscriber, resultVars
<1>3. ASSUME NEW w \in Workers,
             \/ PollTable(w) \/ Call(w) \/ Return(w) \/ ReturnError(w)
             \/ EnqueueReport(w) \/ EnqueueNotification(w) \/ EnqueueFails(w)
      PROVE UNCHANGED <<verdict, scored, objects, reports, alerts>>
  BY <1>3 DEF PollTable, Call, Return, ReturnError, EnqueueReport,
     EnqueueNotification, EnqueueFails, resultVars
<1>4. ASSUME NEW w \in Workers, NEW v \in Verdicts, ScoreSurvey(w, v)
      PROVE UNCHANGED <<objects, reports, alerts>>
  BY <1>4 DEF ScoreSurvey
<1>5. ASSUME NEW w \in Workers, UploadReport(w)
      PROVE /\ UNCHANGED <<verdict, scored, reports, alerts>>
            /\ objects \subseteq objects'
  BY <1>5 DEF UploadReport
<1>6. ASSUME NEW w \in Workers, CreateReport(w)
      PROVE UNCHANGED <<verdict, scored, objects, alerts>>
  BY <1>6 DEF CreateReport
<1>7. ASSUME NEW w \in Workers, Notify(w)
      PROVE /\ UNCHANGED <<verdict, scored, objects, reports>>
            /\ alerts' = alerts \/ CreateAlert(Sub(w))
  BY <1>7 DEF Notify
<1>8. CASE Crash
  BY <1>8 DEF Crash, resultVars
<1>9. CASE UNCHANGED vars
  BY <1>9 DEF vars
<1> QED
  BY <1>1, <1>2, <1>3, <1>4, <1>5, <1>6, <1>7, <1>8, <1>9
     DEF Next, FieldPart, Worker

\* Some task of the kind and the survey has left the places.
Left(k, s, P) == \E t \in Tasks : Is(t, k, s) /\ Past(t, P)

\* That stays so.
LEMMA LeftKept ==
  ASSUME IInv, [Next]_vars, NEW k \in Kinds, NEW s \in Submissions,
         NEW P \in Places, Left(k, s, P)
  PROVE  Left(k, s, P)'
<1>1. PICK t \in Tasks : Is(t, k, s) /\ Past(t, P)
  BY DEF Left
<1>2. Is(t, k, s)' /\ Past(t, P)'
  BY <1>1, TasksStay, PastKept
<1> QED
  BY <1>2 DEF Left

\* A handler at a statement is the first to get there, and the only one.
LEMMA FirstThere ==
  ASSUME IInv, [Next]_vars, NEW w \in Workers, NEW k \in Kinds,
         NEW here, NEW there, NEW P \in Places, NEW s, s = Sub(w),
         Handling(w, k, here), Moves(w, {here}, there),
         here \in P, there \notin P
  PROVE  s \in Submissions /\ ~Left(k, s, P) /\ Left(k, s, P)'
<1>1. /\ phase[w] = "handling" /\ at[w] = here
      /\ claimed[w] \in Tasks /\ Is(claimed[w], k, s)
      /\ s \in Submissions
  BY RunningHandler DEF Handling
<1>2. ~Left(k, s, P)
  BY <1>1, NotYetPast DEF Left
<1>3. Past(claimed[w], P)' /\ claimed' = claimed
  BY MovedPast DEF Moves
<1>4. Is(claimed[w], k, s)'
  BY <1>1, <1>3, TasksStay DEF Is
<1> QED
  BY <1>1, <1>2, <1>3, <1>4 DEF Left

\* The verdict, the report and the alert are written once for each survey.
LEMMA ScoredKept ==
  ASSUME IInv, [Next]_vars
  PROVE  \A s \in Submissions :
           /\ scored'[s] \in {0, 1}
           /\ scored[s] = 1 => scored'[s] = 1
           /\ scored'[s] # 0 => Left("qa.score_survey", s, {"work"})'
<1>1. \A s \in Submissions :
        /\ scored[s] \in {0, 1}
        /\ scored[s] # 0 => Left("qa.score_survey", s, {"work"})
  BY DEF IInv, WrittenOnce, Left
<1>2. \A s \in Submissions : Left("qa.score_survey", s, {"work"}) =>
        Left("qa.score_survey", s, {"work"})'
  BY LeftKept, KindsAre DEF Places
<1>3. CASE scored' = scored
  BY <1>1, <1>2, <1>3
<1>4. ASSUME NEW w \in Workers, NEW v \in Verdicts, ScoreSurvey(w, v),
             NEW s, s = Sub(w)
      PROVE  \A r \in Submissions :
               /\ scored'[r] \in {0, 1}
               /\ scored[r] = 1 => scored'[r] = 1
               /\ scored'[r] # 0 => Left("qa.score_survey", r, {"work"})'
  <2>1. /\ Handling(w, "qa.score_survey", "work")
        /\ Moves(w, {"work"}, "enqueue")
        /\ scored' = [scored EXCEPT ![s] = @ + 1]
    BY <1>4 DEF ScoreSurvey, Handling, Continue, Moves, queueVars
  <2>2. /\ s \in Submissions /\ ~Left("qa.score_survey", s, {"work"})
        /\ Left("qa.score_survey", s, {"work"})'
    BY <1>4, <2>1, FirstThere, KindsAre DEF Places
  <2>3. scored \in [Submissions -> Nat]
    BY DEF IInv, TypeOK
  <2> QED
    BY <1>1, <1>2, <2>1, <2>2, <2>3
<1> QED
  BY <1>3, <1>4, ResultStep

\* The same for the report.
LEMMA ReportsKept ==
  ASSUME IInv, [Next]_vars
  PROVE  \A s \in Submissions :
           /\ reports'[s] \in {0, 1}
           /\ reports[s] = 1 => reports'[s] = 1
           /\ reports'[s] # 0 => Left("report.generate", s, {"work", "create"})'
<1>1. \A s \in Submissions :
        /\ reports[s] \in {0, 1}
        /\ reports[s] # 0 => Left("report.generate", s, {"work", "create"})
  BY DEF IInv, WrittenOnce, Left
<1>2. \A s \in Submissions : Left("report.generate", s, {"work", "create"}) =>
        Left("report.generate", s, {"work", "create"})'
  BY LeftKept, KindsAre DEF Places
<1>3. CASE reports' = reports
  BY <1>1, <1>2, <1>3
<1>4. ASSUME NEW w \in Workers, CreateReport(w), NEW s, s = Sub(w)
      PROVE  \A r \in Submissions :
               /\ reports'[r] \in {0, 1}
               /\ reports[r] = 1 => reports'[r] = 1
               /\ reports'[r] # 0 => Left("report.generate", r, {"work", "create"})'
  <2>1. /\ Handling(w, "report.generate", "create")
        /\ Moves(w, {"create"}, "enqueue")
        /\ reports' = [reports EXCEPT ![s] = @ + 1]
    BY <1>4 DEF CreateReport, Handling, Continue, Moves, InsertReport, queueVars
  <2>2. /\ s \in Submissions /\ ~Left("report.generate", s, {"work", "create"})
        /\ Left("report.generate", s, {"work", "create"})'
    <3>1. /\ {"work", "create"} \in Places /\ "create" \in {"work", "create"}
          /\ "enqueue" \notin {"work", "create"}
      BY DEF Places
    <3> QED
      BY <1>4, <2>1, <3>1, FirstThere, KindsAre
  <2>3. reports \in [Submissions -> Nat]
    BY DEF IInv, TypeOK
  <2> QED
    BY <1>1, <1>2, <2>1, <2>2, <2>3
<1> QED
  BY <1>3, <1>4, ResultStep

\* And for the alert.
LEMMA AlertsKept ==
  ASSUME IInv, [Next]_vars
  PROVE  \A s \in Submissions :
           /\ alerts'[s] \in {0, 1}
           /\ alerts[s] = 1 => alerts'[s] = 1
           /\ alerts'[s] # 0 => Left("notification.send", s, {"work"})'
<1>1. \A s \in Submissions :
        /\ alerts[s] \in {0, 1}
        /\ alerts[s] # 0 => Left("notification.send", s, {"work"})
  BY DEF IInv, WrittenOnce, Left
<1>2. \A s \in Submissions : Left("notification.send", s, {"work"}) =>
        Left("notification.send", s, {"work"})'
  BY LeftKept, KindsAre DEF Places
<1>3. CASE alerts' = alerts
  BY <1>1, <1>2, <1>3
<1>4. ASSUME NEW w \in Workers, Notify(w), CreateAlert(Sub(w)),
             NEW s, s = Sub(w)
      PROVE  \A r \in Submissions :
               /\ alerts'[r] \in {0, 1}
               /\ alerts[r] = 1 => alerts'[r] = 1
               /\ alerts'[r] # 0 => Left("notification.send", r, {"work"})'
  <2>1. /\ Handling(w, "notification.send", "work")
        /\ Moves(w, {"work"}, "return")
        /\ alerts' = [alerts EXCEPT ![s] = @ + 1]
    BY <1>4 DEF Notify, Handling, Continue, Moves, CreateAlert, queueVars
  <2>2. /\ s \in Submissions /\ ~Left("notification.send", s, {"work"})
        /\ Left("notification.send", s, {"work"})'
    BY <1>4, <2>1, FirstThere, KindsAre DEF Places
  <2>3. alerts \in [Submissions -> Nat]
    BY DEF IInv, TypeOK
  <2> QED
    BY <1>1, <1>2, <2>1, <2>2, <2>3
<1> QED
  BY <1>3, <1>4, ResultStep

\* What is written is written once.
LEMMA WrittenKept == ASSUME IInv, [Next]_vars PROVE WrittenOnce'
BY ScoredKept, ReportsKept, AlertsKept DEF WrittenOnce, Left
-----------------------------------------------------------------------------
(* What the tasks and the handlers rely on.                                *)

\* The job of a request is settled when its survey has a task.
LEMMA JobOfStays ==
  ASSUME IInv, [Next]_vars, NEW s \in Submissions, HasTask(s)
  PROVE  jobOf'[s] = jobOf[s]
<1>1. step[s] # "new" /\ jobOf \in [Submissions -> Jobs \cup {NoJob}]
  BY DEF IInv, EventInv, FieldIInv, FieldTypeOK
<1>2. CASE Field
  <2>1. ASSUME NEW r \in Submissions, NEW j \in Jobs, NEW a \in Agents,
               LoadSubmit(r, j, a)
        PROVE  jobOf'[s] = jobOf[s]
    BY <1>1, <2>1 DEF LoadSubmit
  <2> QED
    BY <1>2, <2>1 DEF Field, AssignAgent, LoadArrive, RecordArrival,
                      RecordArrivalFails, PublishOther, requestVars
<1>3. ASSUME NEW r \in Submissions,
             RequestGoesOn(r) \/ Subscriber(r) \/ SubscriberFails(r)
      PROVE jobOf' = jobOf
  BY <1>3 DEF RequestGoesOn, Submit, InsertResponse, InsertResponseFails,
     WriteSubmitted, PublishSubmitted, Subscriber, SubscriberFails, fieldVars
<1>4. CASE Deliver
  BY <1>4 DEF Deliver, TakeEvent, requestVars
<1>5. ASSUME NEW w \in Workers, Worker(w) PROVE jobOf' = jobOf
  BY <1>5, WorkerLeaves
<1>6. CASE Crash
  BY <1>6 DEF Crash
<1>7. CASE UNCHANGED vars
  BY <1>7 DEF vars
<1> QED
  BY <1>2, <1>3, <1>4, <1>5, <1>6, <1>7 DEF Next

\* How a handler gets to the place where it is.
LEMMA AtStep ==
  ASSUME IInv, [Next]_vars, NEW w \in Workers, at'[w] \in {"create", "enqueue"}
  PROVE  /\ phase[w] = "handling" /\ claimed'[w] = claimed[w]
         /\ \/ at'[w] = at[w]
            \/ at'[w] = "enqueue" /\ \E v \in Verdicts : ScoreSurvey(w, v)
            \/ at'[w] = "create" /\ UploadReport(w)
            \/ at'[w] = "enqueue" /\ CreateReport(w)
<1>0. /\ at \in [Workers -> {"none", "work", "create", "enqueue", "return"}]
      /\ phase \in [Workers -> Phases]
      /\ claimed \in [Workers -> Tasks \cup {0}]
      /\ \A v \in Workers : at[v] # "none" => phase[v] = "handling"
  BY DEF IInv, TypeOK, QueueTypeOK, HandlerInv
<1>1. ASSUME UNCHANGED <<at, claimed>>
      PROVE  /\ phase[w] = "handling" /\ claimed'[w] = claimed[w]
             /\ at'[w] = at[w]
  BY <1>0, <1>1
<1>2. CASE FieldPart
  BY <1>1, <1>2, FieldPartLeaves
<1>3. ASSUME NEW s \in Submissions, Subscriber(s)
      PROVE  UNCHANGED <<at, claimed>>
  BY <1>3 DEF Subscriber, Enqueue
<1>4. ASSUME NEW u \in Workers, PollTable(u)
      PROVE  /\ phase[w] = "handling" /\ claimed'[w] = claimed[w]
             /\ at'[w] = at[w]
  <2>1. at' = at /\ phase[u] # "handling"
    BY <1>4 DEF PollTable, LockOldest, Claim, ClaimFails, RecordOutcome, RecordOutcomeFails, Outcomes
  <2>2. phase[w] = "handling" /\ w # u
    BY <1>0, <2>1
  <2>3. claimed'[w] = claimed[w]
    BY <1>0, <1>4, <2>2 DEF PollTable, LockOldest, Claim, ClaimFails, RecordOutcome, RecordOutcomeFails
  <2> QED
    BY <2>1, <2>2, <2>3
<1>5. ASSUME NEW u \in Workers, Call(u) \/ Return(u) \/ ReturnError(u)
      PROVE  /\ phase[w] = "handling" /\ claimed'[w] = claimed[w]
             /\ at'[w] = at[w]
  <2>1. claimed' = claimed
    BY <1>5 DEF Call, CallHandler, Return, ReturnError, HandlerReturns
  <2>2. at' = [at EXCEPT ![u] = "work"] \/ at' = [at EXCEPT ![u] = "none"]
    BY <1>5 DEF Call, Return, ReturnError, Continue
  <2>3. w # u /\ at'[w] = at[w]
    BY <1>0, <2>2
  <2> QED
    BY <1>0, <2>1, <2>3
<1>6. ASSUME NEW u \in Workers,
             \/ \E v \in Verdicts : ScoreSurvey(u, v)
             \/ UploadReport(u) \/ CreateReport(u) \/ Notify(u)
             \/ EnqueueReport(u) \/ EnqueueNotification(u) \/ EnqueueFails(u)
      PROVE  /\ phase[w] = "handling" /\ claimed'[w] = claimed[w]
             /\ at'[w] = at[w] \/ u = w
  <2>1. \/ Moves(u, {"work"}, "enqueue") \/ Moves(u, {"work"}, "create")
        \/ Moves(u, {"create"}, "enqueue")
        \/ Moves(u, {"work", "enqueue"}, "return")
    BY <1>6, WorkerMoves
  <2> QED
    BY <1>0, <2>1 DEF Moves
<1>7. ASSUME Notify(w) \/ EnqueueReport(w) \/ EnqueueNotification(w)
             \/ EnqueueFails(w)
      PROVE  FALSE
  BY <1>0, <1>7 DEF Notify, EnqueueReport, EnqueueNotification, EnqueueFails,
                    Continue
<1>8. /\ \A v \in Verdicts : ScoreSurvey(w, v) => at'[w] = "enqueue"
      /\ UploadReport(w) => at'[w] = "create"
      /\ CreateReport(w) => at'[w] = "enqueue"
  BY <1>0 DEF ScoreSurvey, UploadReport, CreateReport, Continue
<1>9. CASE Crash
  BY <1>0, <1>9 DEF Crash
<1>10. CASE UNCHANGED vars
  BY <1>1, <1>10 DEF vars
<1>11. ASSUME NEW u \in Workers, Worker(u)
       PROVE  /\ phase[w] = "handling" /\ claimed'[w] = claimed[w]
              /\ \/ at'[w] = at[w]
                 \/ at'[w] = "enqueue" /\ \E v \in Verdicts : ScoreSurvey(w, v)
                 \/ at'[w] = "create" /\ UploadReport(w)
                 \/ at'[w] = "enqueue" /\ CreateReport(w)
  BY <1>4, <1>5, <1>6, <1>7, <1>8, <1>11 DEF Worker
<1> QED
  BY <1>1, <1>2, <1>3, <1>9, <1>10, <1>11 DEF Next, FieldPart

\* The body of the task that a handler runs is the one it started with.
LEMMA SameBody ==
  ASSUME IInv, [Next]_vars, NEW w \in Workers, phase[w] = "handling",
         claimed'[w] = claimed[w], NEW k \in Kinds, NEW s \in Submissions,
         Is(claimed[w], k, s)'
  PROVE  Is(claimed[w], k, s) /\ HasTask(s) /\ s = Sub(w)
         /\ body[claimed[w]].kind = k
<1>1. /\ claimed[w] \in Tasks /\ body[claimed[w]].kind \in Kinds
      /\ Sub(w) \in Submissions
      /\ Is(claimed[w], body[claimed[w]].kind, Sub(w))
  BY RunningHandler
<1> DEFINE t == claimed[w]
           l == body[claimed[w]].kind
           r == Sub(w)
<1>2. /\ t \in Tasks /\ l \in Kinds /\ r \in Submissions /\ Is(t, l, r)
      /\ body'[t] = [kind |-> k, sub |-> s]
  BY <1>1 DEF Is
<1>3. body'[t] = [kind |-> l, sub |-> r]
  <2> HIDE DEF t, l, r
  <2> QED
    BY <1>2, TasksStay DEF Is
<1>4. [kind |-> l, sub |-> r] = [kind |-> k, sub |-> s]
  BY <1>2, <1>3
<1>5. k = l /\ s = r
  BY <1>4
<1> QED
  BY <1>1, <1>5 DEF HasTask

\* A verdict stays a verdict.
LEMMA VerdictStays ==
  ASSUME IInv, [Next]_vars, NEW j \in Jobs, verdict[j] # "pending"
  PROVE  verdict'[j] # "pending"
<1>1. ASSUME NEW w \in Workers, NEW v \in Verdicts, ScoreSurvey(w, v)
      PROVE  verdict'[j] # "pending"
  BY <1>1 DEF ScoreSurvey, UpdateJobQA, Verdicts, IInv, TypeOK
<1> QED
  BY <1>1, ResultStep

\* What tasks and handlers rely on is still there after a step.
LEMMA CauseKept == ASSUME IInv, [Next]_vars PROVE CauseInv'
<1>0. /\ CauseInv /\ objects \subseteq objects'
      /\ \A s \in Submissions : scored[s] = 1 => scored'[s] = 1
      /\ \A s \in Submissions : reports[s] = 1 => reports'[s] = 1
      /\ scored' \in [Submissions -> Nat] /\ reports' \in [Submissions -> Nat]
      /\ scored \in [Submissions -> Nat] /\ reports \in [Submissions -> Nat]
      /\ verdict \in [Jobs -> Verdicts \cup {"pending"}]
  BY ScoredKept, ReportsKept, ResultStep, TypeKept DEF IInv, TypeOK
<1>1. ASSUME NEW s \in Submissions, NEW u \in Tasks, NEW k \in Kinds,
             Is(u, k, s)'
      PROVE  \/ Is(u, k, s)
             \/ k = "qa.score_survey"
             \/ \E w \in Workers :
                  \/ k = "report.generate" /\ EnqueueReport(w) /\ Sub(w) = s
                  \/ k = "notification.send" /\ EnqueueNotification(w) /\ Sub(w) = s
  <2>1. CASE UNCHANGED <<last, body>>
    BY <1>1, <2>1 DEF Is
  <2>2. ASSUME NEW l \in Kinds, NEW r \in Submissions,
               Enqueue([kind |-> l, sub |-> r])
        PROVE  Is(u, k, s) \/ (k = l /\ s = r)
    <3>1. body'[u] = [kind |-> l, sub |-> r] \/ body'[u] = body[u]
      BY <2>2, NewTask
    <3>2. CASE body'[u] = [kind |-> l, sub |-> r]
      <4>1. [kind |-> l, sub |-> r] = [kind |-> k, sub |-> s]
        BY <1>1, <3>2 DEF Is
      <4> QED
        BY <4>1
    <3> QED
      BY <1>1, <3>1, <3>2 DEF Is
  <2>3. ASSUME NEW r \in Submissions, Subscriber(r)
        PROVE  Is(u, k, s) \/ k = "qa.score_survey"
    BY <2>2, <2>3, KindsAre DEF Subscriber
  <2>4. ASSUME NEW w \in Workers, EnqueueReport(w)
        PROVE  Is(u, k, s) \/ (k = "report.generate" /\ Sub(w) = s)
    <3>1. /\ Sub(w) \in Submissions
          /\ Enqueue([kind |-> "report.generate", sub |-> Sub(w)])
      BY <2>4, RunningHandler DEF EnqueueReport, Handling
    <3> QED
      BY <2>2, <3>1, KindsAre
  <2>5. ASSUME NEW w \in Workers, EnqueueNotification(w)
        PROVE  Is(u, k, s) \/ (k = "notification.send" /\ Sub(w) = s)
    <3>1. /\ Sub(w) \in Submissions
          /\ Enqueue([kind |-> "notification.send", sub |-> Sub(w)])
      BY <2>5, RunningHandler DEF EnqueueNotification, Handling
    <3> QED
      BY <2>2, <3>1, KindsAre
  <2> QED
    BY <2>1, <2>3, <2>4, <2>5, BodyStep
<1>2. ASSUME NEW w \in Workers, NEW k \in Kinds, NEW here,
             Handling(w, k, here)
      PROVE  /\ Is(claimed[w], k, Sub(w)) /\ Sub(w) \in Submissions
             /\ at[w] = here
  BY <1>2, RunningHandler DEF Handling
<1>3. \A s \in Submissions, u \in Tasks :
        Is(u, "report.generate", s)' => scored'[s] = 1
  <2> SUFFICES ASSUME NEW s \in Submissions, NEW u \in Tasks,
                      Is(u, "report.generate", s)'
               PROVE  scored'[s] = 1
    OBVIOUS
  <2>1. CASE Is(u, "report.generate", s)
    BY <1>0, <2>1 DEF CauseInv
  <2>2. ASSUME NEW w \in Workers, EnqueueReport(w), Sub(w) = s
        PROVE  scored'[s] = 1
    BY <1>0, <1>2, <2>2, KindsAre DEF EnqueueReport, CauseInv
  <2> QED
    BY <1>1, <2>1, <2>2, KindsAre
<1>4. \A s \in Submissions, u \in Tasks :
        Is(u, "notification.send", s)' => reports'[s] = 1
  <2> SUFFICES ASSUME NEW s \in Submissions, NEW u \in Tasks,
                      Is(u, "notification.send", s)'
               PROVE  reports'[s] = 1
    OBVIOUS
  <2>1. CASE Is(u, "notification.send", s)
    BY <1>0, <2>1 DEF CauseInv
  <2>2. ASSUME NEW w \in Workers, EnqueueNotification(w), Sub(w) = s
        PROVE  reports'[s] = 1
    BY <1>0, <1>2, <2>2, KindsAre DEF EnqueueNotification, CauseInv
  <2> QED
    BY <1>1, <2>1, <2>2, KindsAre
<1>5. ASSUME NEW w \in Workers, NEW s \in Submissions, at'[w] = "enqueue",
             Is(claimed[w], "qa.score_survey", s)'
      PROVE  scored'[s] = 1
  <2>1. /\ phase[w] = "handling" /\ claimed'[w] = claimed[w]
        /\ at[w] = "enqueue" \/ CreateReport(w)
           \/ \E v \in Verdicts : ScoreSurvey(w, v)
    BY <1>5, AtStep
  <2>2. /\ Is(claimed[w], "qa.score_survey", s) /\ s = Sub(w)
        /\ body[claimed[w]].kind = "qa.score_survey"
    BY <1>5, <2>1, SameBody, KindsAre
  <2>3. CASE at[w] = "enqueue"
    BY <1>0, <2>2, <2>3 DEF CauseInv
  <2>4. CASE \E v \in Verdicts : ScoreSurvey(w, v)
    BY <1>0, <2>2, <2>4, ScoredKept DEF ScoreSurvey
  <2>5. CASE CreateReport(w)
    BY <2>2, <2>5 DEF CreateReport, Handling
  <2> QED
    BY <2>1, <2>3, <2>4, <2>5
<1>6. ASSUME NEW w \in Workers, NEW s \in Submissions, at'[w] = "enqueue",
             Is(claimed[w], "report.generate", s)'
      PROVE  reports'[s] = 1
  <2>1. /\ phase[w] = "handling" /\ claimed'[w] = claimed[w]
        /\ at[w] = "enqueue" \/ CreateReport(w)
           \/ \E v \in Verdicts : ScoreSurvey(w, v)
    BY <1>6, AtStep
  <2>2. /\ Is(claimed[w], "report.generate", s) /\ s = Sub(w)
        /\ body[claimed[w]].kind = "report.generate"
    BY <1>6, <2>1, SameBody, KindsAre
  <2>3. CASE at[w] = "enqueue"
    BY <1>0, <2>2, <2>3 DEF CauseInv
  <2>4. CASE \E v \in Verdicts : ScoreSurvey(w, v)
    BY <2>2, <2>4 DEF ScoreSurvey, Handling
  <2>5. CASE CreateReport(w)
    BY <1>0, <2>2, <2>5, ReportsKept DEF CreateReport, InsertReport
  <2> QED
    BY <2>1, <2>3, <2>4, <2>5
<1>7. ASSUME NEW w \in Workers, NEW s \in Submissions, at'[w] = "create",
             Is(claimed[w], "report.generate", s)'
      PROVE  jobOf'[s] \in objects'
  <2>1. /\ phase[w] = "handling" /\ claimed'[w] = claimed[w]
        /\ at[w] = "create" \/ UploadReport(w)
    BY <1>7, AtStep
  <2>2. /\ Is(claimed[w], "report.generate", s) /\ s = Sub(w) /\ HasTask(s)
    BY <1>7, <2>1, SameBody, KindsAre
  <2>3. jobOf'[s] = jobOf[s]
    BY <2>2, JobOfStays
  <2>4. CASE at[w] = "create"
    BY <1>0, <2>2, <2>3, <2>4 DEF CauseInv
  <2>5. CASE UploadReport(w)
    BY <2>2, <2>3, <2>5 DEF UploadReport
  <2> QED
    BY <2>1, <2>4, <2>5
<1>8. ASSUME NEW s \in Submissions, scored'[s] # 0
      PROVE  verdict'[jobOf'[s]] # "pending"
  <2>1. CASE scored[s] # 0
    <3>1. HasTask(s)
      BY <2>1, KindsAre DEF IInv, WrittenOnce, HasTask
    <3>2. jobOf[s] \in Jobs /\ jobOf'[s] = jobOf[s]
      BY <3>1, JobOfStays DEF IInv, EventInv, FieldIInv, RequestInv
    <3> QED
      BY <1>0, <2>1, <3>2, VerdictStays DEF CauseInv
  <2>2. CASE scored[s] = 0
    <3>1. PICK w \in Workers, v \in Verdicts : ScoreSurvey(w, v)
      BY <1>8, <2>2, ResultStep
    <3>2. s = Sub(w) /\ phase[w] = "handling"
      BY <1>0, <1>8, <2>2, <3>1 DEF ScoreSurvey, Handling
    <3>3. jobOf[s] \in Jobs
      BY <3>2, HandledSurvey
    <3>4. jobOf' = jobOf
      BY <3>1 DEF ScoreSurvey, fieldVars
    <3> QED
      BY <1>0, <3>1, <3>2, <3>3, <3>4 DEF ScoreSurvey, UpdateJobQA, Verdicts
  <2> QED
    BY <2>1, <2>2
<1>9. ASSUME NEW s \in Submissions, reports'[s] # 0
      PROVE  jobOf'[s] \in objects'
  <2>1. CASE reports[s] # 0
    <3>1. HasTask(s)
      BY <2>1, KindsAre DEF IInv, WrittenOnce, HasTask
    <3>2. jobOf'[s] = jobOf[s]
      BY <3>1, JobOfStays
    <3> QED
      BY <1>0, <2>1, <3>2 DEF CauseInv
  <2>2. CASE reports[s] = 0
    <3>1. PICK w \in Workers : CreateReport(w)
      BY <1>9, <2>2, ResultStep
    <3>2. s = Sub(w) /\ Handling(w, "report.generate", "create")
      BY <1>0, <1>9, <2>2, <3>1 DEF CreateReport, InsertReport
    <3>3. Is(claimed[w], "report.generate", s) /\ at[w] = "create"
      BY <1>2, <3>2, KindsAre
    <3>4. jobOf' = jobOf
      BY <3>1 DEF CreateReport, fieldVars
    <3> QED
      BY <1>0, <3>3, <3>4 DEF CauseInv
  <2> QED
    BY <2>1, <2>2
<1> QED
  BY <1>3, <1>4, <1>5, <1>6, <1>7, <1>8, <1>9 DEF CauseInv

-----------------------------------------------------------------------------
(* The pipeline's invariant and what follows from it.                      *)

\* Every initial state satisfies the invariant.
LEMMA InitIInv == Init => IInv
<1> SUFFICES ASSUME Init PROVE IInv
  OBVIOUS
<1>1. FieldIInv /\ QueueIInv
  BY FieldInitIInv, QueueInitIInv DEF Init
<1>2. TypeOK
  BY <1>1 DEF Init, TypeOK, FieldIInv, QueueIInv
<1>3. \A t \in Tasks : body[t] = NoBody /\ t > last
  BY TasksAreNumbers DEF Init, QueueInit, Tasks
<1>4. \A t \in Tasks, k \in Kinds, s \in Submissions : ~Is(t, k, s)
  BY <1>3, BodyOfIs
<1>5. \A i : i \notin 1 .. Len(bus)
  BY DEF Init, FieldInit, EB!BusInit
<1>6. EventInv
  BY <1>4, <1>5 DEF Init, EventInv, OnBus, HasTask
<1>7. HandlerInv
  BY <1>3, TasksAreNumbers, MaxTasksAssumption DEF Init, QueueInit, HandlerInv, Tasks
<1>8. TaskInv
  BY <1>3, <1>4, KindsAre DEF TaskInv, OneTaskOfEachKind
<1>9. WrittenOnce /\ CauseInv
  BY <1>4, KindsAre DEF Init, WrittenOnce, CauseInv
<1> QED
  BY <1>1, <1>2, <1>6, <1>7, <1>8, <1>9 DEF IInv

\* Every step keeps it.
LEMMA NextIInv == IInv /\ [Next]_vars => IInv'
BY TypeKept, FieldKept, QueueKept, EventKept, HandlerKept, TaskKept,
   WrittenKept, CauseKept DEF IInv

\* The invariant that the theorems about the pipeline rest on.
THEOREM Invariance == Spec => []IInv
BY InitIInv, NextIInv, PTL DEF Spec

\* The variables keep their types.
THEOREM TypeCorrect == Spec => []TypeOK
<1>1. IInv => TypeOK
  BY DEF IInv
<1> QED
  BY <1>1, Invariance, PTL

\* One survey causes at most one task of each kind, through restarts and
\* whatever the bus, the subscriber and the handlers fail to do.
THEOREM TasksAreNotDoubled == Spec => []OneTaskOfEachKind
<1>1. IInv => OneTaskOfEachKind
  BY DEF IInv, TaskInv
<1> QED
  BY <1>1, Invariance, PTL

\* A report that can be downloaded has its object and the verdict it shows.
THEOREM ReportsAreComplete == Spec => []ReportIsComplete
<1>1. ASSUME IInv PROVE ReportIsComplete
  <2> SUFFICES ASSUME NEW s \in Submissions, reports[s] > 0
               PROVE  jobOf[s] \in objects /\ verdict[jobOf[s]] # "pending"
    BY DEF ReportIsComplete
  <2>1. reports[s] # 0
    BY <1>1 DEF IInv, TypeOK
  <2>2. scored[s] = 1
    BY <1>1, <2>1, KindsAre DEF IInv, WrittenOnce, CauseInv
  <2> QED
    BY <1>1, <2>1, <2>2 DEF IInv, CauseInv
<1> QED
  BY <1>1, Invariance, PTL

-----------------------------------------------------------------------------
(* The pipeline implements SurveyFollowUp.                                 *)

\* The results of a survey come in their order.
ResultsOrdered ==
  \A s \in Submissions :
    /\ scored[s] \in {0, 1} /\ reports[s] \in {0, 1} /\ alerts[s] \in {0, 1}
    /\ scored[s] = 1 => s \in responses
    /\ reports[s] = 1 => scored[s] = 1
    /\ alerts[s] = 1 => reports[s] = 1

\* They do so in every state the invariant allows.
LEMMA ResultsInOrder == IInv => ResultsOrdered
<1> SUFFICES ASSUME IInv, NEW s \in Submissions
             PROVE  /\ scored[s] \in {0, 1} /\ reports[s] \in {0, 1}
                    /\ alerts[s] \in {0, 1}
                    /\ scored[s] = 1 => s \in responses
                    /\ reports[s] = 1 => scored[s] = 1
                    /\ alerts[s] = 1 => reports[s] = 1
  BY DEF ResultsOrdered
<1>1. scored[s] \in {0, 1} /\ reports[s] \in {0, 1} /\ alerts[s] \in {0, 1}
  BY DEF IInv, WrittenOnce
<1>2. scored[s] = 1 => s \in responses
  <2> SUFFICES ASSUME scored[s] = 1 PROVE s \in responses
    OBVIOUS
  <2>1. HasTask(s)
    BY KindsAre DEF IInv, WrittenOnce, HasTask
  <2> QED
    BY <2>1 DEF IInv, EventInv
<1>3. reports[s] = 1 => scored[s] = 1
  BY DEF IInv, WrittenOnce, CauseInv
<1>4. alerts[s] = 1 => reports[s] = 1
  BY DEF IInv, WrittenOnce, CauseInv
<1> QED
  BY <1>1, <1>2, <1>3, <1>4

\* The response of a survey is inserted by its request only.
LEMMA ResponseStep ==
  ASSUME [Next]_vars
  PROVE  \/ responses' = responses
         \/ \E s \in Submissions : RequestGoesOn(s) /\ InsertResponse(s)
<1>1. CASE Field
  BY <1>1 DEF Field, AssignAgent, LoadArrive, RecordArrival, RecordArrivalFails,
              LoadSubmit, PublishOther, requestVars
<1>2. ASSUME NEW s \in Submissions, RequestGoesOn(s)
      PROVE  responses' = responses \/ InsertResponse(s)
  BY <1>2 DEF RequestGoesOn, Submit, InsertResponseFails, WriteSubmitted,
              PublishSubmitted
<1>3. ASSUME NEW s \in Submissions, Subscriber(s) \/ SubscriberFails(s)
      PROVE  responses' = responses
  BY <1>3 DEF Subscriber, SubscriberFails, fieldVars
<1>4. CASE Deliver
  BY <1>4 DEF Deliver, TakeEvent, requestVars
<1>5. ASSUME NEW w \in Workers, Worker(w) PROVE responses' = responses
  BY <1>5, WorkerLeaves
<1>6. CASE Crash
  BY <1>6 DEF Crash
<1>7. CASE UNCHANGED vars
  BY <1>7 DEF vars
<1> QED
  BY <1>1, <1>2, <1>3, <1>4, <1>5, <1>6, <1>7 DEF Next

\* A step moves one survey one stage on, or none.
LEMMA StepIsFollowUp ==
  ASSUME IInv, [Next]_vars
  PROVE  [FollowUp!Next]_([s \in Submissions |-> Stage(s)])
<1> DEFINE stages == [s \in Submissions |-> Stage(s)]
<1>0. /\ scored \in [Submissions -> Nat] /\ reports \in [Submissions -> Nat]
      /\ alerts \in [Submissions -> Nat]
  BY DEF IInv, TypeOK
<1>1. ResultsOrdered /\ ResultsOrdered'
  <2>1. IInv /\ IInv'
    BY NextIInv
  <2> QED
    BY <2>1, ResultsInOrder, PTL
<1>2. ASSUME NEW s \in Submissions, NEW from, NEW to,
             Stage(s) = from, Stage(s)' = to,
             \A r \in Submissions : r # s => Stage(r)' = Stage(r),
             \/ from = "none" /\ to = "received"
             \/ from = "received" /\ to = "scored"
             \/ from = "scored" /\ to = "reported"
             \/ from = "reported" /\ to = "notified"
      PROVE  FollowUp!Next
  <2>1. stages[s] = from /\ stages' = [stages EXCEPT ![s] = to]
    BY <1>2
  <2> QED
    BY <1>2, <2>1 DEF FollowUp!Next, FollowUp!Receive, FollowUp!Score,
       FollowUp!Report, FollowUp!Notify, FollowUp!Advance
<1>3. ASSUME UNCHANGED <<scored, reports, alerts, responses>>
      PROVE  stages' = stages
  BY <1>3 DEF Stage
<1>4. ASSUME NEW s \in Submissions, RequestGoesOn(s), InsertResponse(s)
      PROVE  FollowUp!Next \/ stages' = stages
  <2>1. /\ UNCHANGED <<scored, reports, alerts>>
        /\ responses' = responses \cup {s}
    BY <1>4 DEF RequestGoesOn, InsertResponse, CreateSurveyResponse, resultVars
  <2>2. CASE s \in responses
    BY <1>3, <2>1, <2>2
  <2>3. CASE s \notin responses
    <3>1. Stage(s) = "none" /\ Stage(s)' = "received"
      BY <1>1, <2>1, <2>3 DEF ResultsOrdered, Stage
    <3>2. \A r \in Submissions : r # s => Stage(r)' = Stage(r)
      BY <2>1 DEF Stage
    <3> QED
      BY <1>2, <3>1, <3>2
  <2> QED
    BY <2>2, <2>3
<1>5. ASSUME NEW w \in Workers, NEW v \in Verdicts, ScoreSurvey(w, v),
             NEW s, s = Sub(w)
      PROVE  FollowUp!Next
  <2>1. /\ scored' = [scored EXCEPT ![s] = @ + 1]
        /\ UNCHANGED <<reports, alerts, responses>> /\ phase[w] = "handling"
    BY <1>5 DEF ScoreSurvey, Handling, fieldVars
  <2>2. s \in Submissions /\ s \in responses
    BY <1>5, <2>1, RunningHandler, HandledSurvey
  <2>3. Stage(s) = "received" /\ Stage(s)' = "scored"
    BY <1>0, <1>1, <2>1, <2>2 DEF ResultsOrdered, Stage
  <2>4. \A r \in Submissions : r # s => Stage(r)' = Stage(r)
    BY <1>0, <2>1 DEF Stage
  <2> QED
    BY <1>2, <2>2, <2>3, <2>4
<1>6. ASSUME NEW w \in Workers, CreateReport(w), NEW s, s = Sub(w)
      PROVE  FollowUp!Next
  <2>1. /\ reports' = [reports EXCEPT ![s] = @ + 1]
        /\ UNCHANGED <<scored, alerts, responses>> /\ phase[w] = "handling"
    BY <1>6 DEF CreateReport, InsertReport, Handling, fieldVars
  <2>2. s \in Submissions
    BY <1>6, <2>1, RunningHandler
  <2>3. Stage(s) = "scored" /\ Stage(s)' = "reported"
    BY <1>0, <1>1, <2>1, <2>2 DEF ResultsOrdered, Stage
  <2>4. \A r \in Submissions : r # s => Stage(r)' = Stage(r)
    BY <1>0, <2>1 DEF Stage
  <2> QED
    BY <1>2, <2>2, <2>3, <2>4
<1>7. ASSUME NEW w \in Workers, Notify(w), CreateAlert(Sub(w)),
             NEW s, s = Sub(w)
      PROVE  FollowUp!Next
  <2>1. /\ alerts' = [alerts EXCEPT ![s] = @ + 1]
        /\ UNCHANGED <<scored, reports, responses>> /\ phase[w] = "handling"
    BY <1>7 DEF Notify, CreateAlert, Handling, fieldVars
  <2>2. s \in Submissions
    BY <1>7, <2>1, RunningHandler
  <2>3. Stage(s) = "reported" /\ Stage(s)' = "notified"
    BY <1>0, <1>1, <2>1, <2>2 DEF ResultsOrdered, Stage
  <2>4. \A r \in Submissions : r # s => Stage(r)' = Stage(r)
    BY <1>0, <2>1 DEF Stage
  <2> QED
    BY <1>2, <2>2, <2>3, <2>4
<1> QED
  BY <1>3, <1>4, <1>5, <1>6, <1>7, ResultStep, ResponseStep

\* Whatever fails, and wherever processes stop, a survey is received, scored,
\* reported and its owner notified in this order and each at most once.
THEOREM PipelineImplementsFollowUp == Spec => ImplementsSurveyFollowUp
<1>1. Init => FollowUp!Init
  BY DEF Init, FieldInit, FollowUp!Init, Stage
<1>2. IInv /\ [Next]_vars => [FollowUp!Next]_([s \in Submissions |-> Stage(s)])
  BY StepIsFollowUp
<1> QED
  BY <1>1, <1>2, Invariance, PTL DEF Spec, ImplementsSurveyFollowUp, FollowUp!Spec

-----------------------------------------------------------------------------
(* Without faults and with room on the bus, no survey is lost on its way.  *)

\* Nothing fails or stops, and the bus has room for the events of all surveys.
LossFree ==
  /\ ~Faults /\ ~CanCrash /\ ~OtherTraffic
  /\ IsFiniteSet(Submissions) /\ Cardinality(Submissions) <= BusCapacity

\* A worker will handle the task, or its handler is not at its return yet.
Alive(t) ==
  \/ status[t] = "pending"
  \/ \E w \in Workers : claimed[w] = t /\ phase[w] = "claimed"
  \/ \E w \in Workers : claimed[w] = t /\ phase[w] = "handling" /\ at[w] # "return"

InRequest(s) == step[s] \in {"status", "publish"}

Tasked(s) == \E t \in Tasks, k \in Kinds : Is(t, k, s) /\ Alive(t)

OnItsWay(s) == InRequest(s) \/ OnBus(s) \/ s \in enqueuing \/ Tasked(s)

\* Every stored survey has its alert, or somebody who will carry it on.
SurveyGoesOn == \A s \in responses : alerts[s] = 1 \/ OnItsWay(s)

BusIsOurs == \A i \in 1 .. Len(bus) : bus[i] \in Submissions

\* A bus with room for all surveys, each of them on it once, is not full while
\* one of them is not on it.
LEMMA RoomOnBus ==
  ASSUME LossFree, IInv, BusIsOurs, NEW s \in Submissions, ~OnBus(s)
  PROVE  ~EB!BusFull
<1> SUFFICES ASSUME EB!BusFull PROVE FALSE
  OBVIOUS
<1> DEFINE S == 1 .. Len(bus)
           T == Submissions \ {s}
           f == [i \in S |-> bus[i]]
<1>1. bus \in Seq(Events) /\ Len(bus) \in Nat /\ Len(bus) >= BusCapacity
  BY DEF IInv, FieldIInv, FieldTypeOK, EB!BusFull
<1>2. /\ IsFiniteSet(T) /\ Cardinality(T) = Cardinality(Submissions) - 1
      /\ Cardinality(Submissions) \in Nat
  BY FS_RemoveElement, FS_CardinalityType DEF LossFree
<1>3. IsFiniteSet(S) /\ Cardinality(S) = Len(bus)
  <2>1. /\ IsFiniteSet(1 .. Len(bus))
        /\ Cardinality(1 .. Len(bus)) =
             IF 1 > Len(bus) THEN 0 ELSE Len(bus) - 1 + 1
    BY <1>1, FS_Interval
  <2> QED
    BY <1>1, <2>1
<1>4. f \in [S -> T]
  BY DEF OnBus, BusIsOurs
<1>5. Cardinality(T) < Cardinality(S)
  BY <1>1, <1>2, <1>3, BusAssumption DEF LossFree
<1>6. PICK i \in S, j \in S : i # j /\ f[i] = f[j]
  <2> HIDE DEF S, T, f
  <2> QED
    BY <1>2, <1>3, <1>4, <1>5, FS_PigeonHole
<1>7. bus[i] = bus[j] /\ bus[i] \in Submissions
  BY <1>6 DEF BusIsOurs
<1> QED
  BY <1>6, <1>7 DEF IInv, EventInv

\* A task that is inserted is alive.
LEMMA NewTaskAlive ==
  ASSUME IInv, NEW k \in Kinds, NEW s \in Submissions,
         Enqueue([kind |-> k, sub |-> s])
  PROVE  Tasked(s)'
<1>1. /\ last + 1 \in Tasks
      /\ body'[last + 1] = [kind |-> k, sub |-> s]
  BY NewTask
<1>2. status'[last + 1] = "pending"
  BY <1>1 DEF Enqueue, IInv, QueueIInv, QueueTypeOK
<1> QED
  BY <1>1, <1>2 DEF Tasked, Is, Alive

\* The only events are the surveys', and an event that is published or taken
\* is not lost.
LEMMA EventGoesOn ==
  ASSUME LossFree, IInv, BusIsOurs, [Next]_vars
  PROVE  /\ BusIsOurs'
         /\ \A s \in Submissions :
              InRequest(s) \/ OnBus(s) \/ s \in enqueuing => OnItsWay(s)'
<1>0. /\ bus \in Seq(Events) /\ step \in [Submissions -> Steps]
      /\ ~Faults /\ ~CanCrash /\ ~OtherTraffic
  BY DEF IInv, FieldIInv, FieldTypeOK, LossFree
<1>1. ASSUME UNCHANGED <<step, bus, enqueuing>>
      PROVE  /\ BusIsOurs'
             /\ \A s \in Submissions :
                  InRequest(s) \/ OnBus(s) \/ s \in enqueuing => OnItsWay(s)'
  BY <1>1 DEF BusIsOurs, OnItsWay, OnBus, InRequest
<1>2. CASE Field
  <2>1. ASSUME NEW j \in Jobs, NEW a \in Agents, AssignAgent(j, a)
        PROVE  UNCHANGED <<step, bus, enqueuing>>
    BY <1>2, <2>1 DEF Field, AssignAgent, requestVars
  <2>3. ASSUME NEW j \in Jobs,
               \/ \E a \in Agents : LoadArrive(j, a)
               \/ RecordArrival(j) \/ RecordArrivalFails(j)
        PROVE  UNCHANGED <<step, bus, enqueuing>>
    BY <1>2, <2>3 DEF Field, LoadArrive, RecordArrival, RecordArrivalFails,
                      requestVars
  <2>2. ASSUME NEW r \in Submissions, NEW j \in Jobs, NEW a \in Agents,
               LoadSubmit(r, j, a)
        PROVE  /\ UNCHANGED <<bus, enqueuing>>
               /\ \A s \in Submissions : InRequest(s) => InRequest(s)'
    BY <1>0, <1>2, <2>2 DEF Field, LoadSubmit, InRequest
  <2> QED
    BY <1>0, <1>1, <1>2, <2>1, <2>2, <2>3 DEF Field, BusIsOurs, OnItsWay, OnBus
<1>3. ASSUME NEW r \in Submissions, RequestGoesOn(r)
      PROVE  /\ BusIsOurs'
             /\ \A s \in Submissions :
                  InRequest(s) \/ OnBus(s) \/ s \in enqueuing => OnItsWay(s)'
  <2>1. enqueuing' = enqueuing
    BY <1>3 DEF RequestGoesOn
  <2>2. \A s \in Submissions : s # r => step'[s] = step[s]
    BY <1>0, <1>3 DEF RequestGoesOn, Submit, InsertResponse,
       InsertResponseFails, WriteSubmitted, PublishSubmitted
  <2>3. CASE PublishSubmitted(r)
    <3>1. step[r] = "publish" /\ EB!Publish(r)
      BY <2>3 DEF PublishSubmitted
    <3>2. ~EB!BusFull
      BY <3>1, RequestAlone, RoomOnBus
    <3>3. bus' = Append(bus, r)
      BY <3>1, <3>2 DEF EB!Publish
    <3>4. /\ Len(bus') = Len(bus) + 1 /\ bus'[Len(bus) + 1] = r
          /\ \A i \in 1 .. Len(bus) : bus'[i] = bus[i]
          /\ Len(bus) \in Nat
      BY <1>0, <3>3
    <3>5. BusIsOurs'
      BY <3>4 DEF BusIsOurs
    <3>6. OnBus(r)' /\ \A s \in Submissions : OnBus(s) => OnBus(s)'
      BY <3>4 DEF OnBus
    <3> QED
      BY <2>1, <2>2, <3>5, <3>6 DEF OnItsWay, InRequest
  <2>4. CASE InsertResponse(r) \/ WriteSubmitted(r)
    <3>1. bus' = bus /\ step'[r] \in {"status", "publish"}
      BY <1>0, <2>4 DEF InsertResponse, WriteSubmitted
    <3> QED
      BY <2>1, <2>2, <3>1 DEF BusIsOurs, OnItsWay, OnBus, InRequest
  <2> QED
    BY <1>0, <1>3, <2>3, <2>4 DEF RequestGoesOn, Submit, InsertResponseFails
<1>4. CASE Deliver
  <2>1. PICK e \in Events :
          /\ TakeEvent(e)
          /\ enqueuing' = IF e = OtherEvent THEN enqueuing ELSE enqueuing \cup {e}
    BY <1>4 DEF Deliver
  <2>2. step' = step
    BY <2>1 DEF TakeEvent, requestVars
  <2>3. /\ 1 \in 1 .. Len(bus) /\ bus[1] = e
        /\ Len(bus') = Len(bus) - 1
        /\ \A i \in 1 .. Len(bus') :
             i + 1 \in 1 .. Len(bus) /\ bus'[i] = bus[i + 1]
    BY <1>0, <2>1, TakePlaces DEF TakeEvent
  <2>4. e \in Submissions /\ e \in enqueuing' /\ enqueuing \subseteq enqueuing'
    BY <2>1, <2>3, EventAssumption DEF BusIsOurs
  <2>5. ASSUME NEW s \in Submissions, OnBus(s), s # e PROVE OnBus(s)'
    <3>1. PICK i \in 1 .. Len(bus) : bus[i] = s
      BY <2>5 DEF OnBus
    <3>2. i # 1 /\ i - 1 \in 1 .. Len(bus') /\ (i - 1) + 1 = i
      BY <1>0, <2>3, <2>5, <3>1
    <3>3. bus'[i - 1] = s
      BY <2>3, <3>1, <3>2
    <3> QED
      BY <3>2, <3>3 DEF OnBus
  <2>6. BusIsOurs'
    BY <2>3 DEF BusIsOurs
  <2> QED
    BY <2>2, <2>4, <2>5, <2>6 DEF OnItsWay, InRequest
<1>5. ASSUME NEW r \in Submissions, Subscriber(r)
      PROVE  /\ BusIsOurs'
             /\ \A s \in Submissions :
                  InRequest(s) \/ OnBus(s) \/ s \in enqueuing => OnItsWay(s)'
  <2>1. UNCHANGED <<step, bus>> /\ enqueuing' = enqueuing \ {r}
    BY <1>5 DEF Subscriber, fieldVars
  <2>2. Tasked(r)'
    BY <1>5, NewTaskAlive, KindsAre DEF Subscriber
  <2> QED
    BY <2>1, <2>2 DEF BusIsOurs, OnItsWay, OnBus, InRequest
<1>6. ASSUME NEW w \in Workers, Worker(w) PROVE UNCHANGED <<step, bus, enqueuing>>
  BY <1>6, WorkerLeaves
<1>7. CASE UNCHANGED vars
  BY <1>1, <1>7 DEF vars
<1> QED
  BY <1>0, <1>1, <1>2, <1>3, <1>4, <1>5, <1>6, <1>7
     DEF Next, SubscriberFails, Crash

\* What an enqueue does to the rows that were alive.
LEMMA EnqueueAlive ==
  ASSUME IInv, NEW b, Enqueue(b), NEW t \in Tasks
  PROVE  status[t] = "pending" => status'[t] = "pending"
BY DEF Enqueue, IInv, QueueIInv, QueueTypeOK

\* The handler that ends here ends after its last statement.
Hands(w, t) ==
  /\ claimed[w] = t
  /\ EnqueueReport(w) \/ EnqueueNotification(w) \/ (Notify(w) /\ CreateAlert(Sub(w)))

\* A task stays alive until its handler has enqueued the next one, or written
\* the alert.
LEMMA AliveUntilHanded ==
  ASSUME LossFree, IInv, [Next]_vars, NEW t \in Tasks, Alive(t)
  PROVE  Alive(t)' \/ \E w \in Workers : Hands(w, t)
<1>0. /\ at \in [Workers -> {"none", "work", "create", "enqueue", "return"}]
      /\ phase \in [Workers -> Phases] /\ status \in [Tasks -> TaskStatuses]
      /\ claimed \in [Workers -> Tasks \cup {0}]
      /\ ~Faults /\ ~CanCrash
  BY DEF IInv, TypeOK, QueueTypeOK, LossFree
<1>1. ASSUME UNCHANGED <<status, phase, claimed, at>> PROVE Alive(t)'
  BY <1>1 DEF Alive
<1>2. CASE FieldPart
  BY <1>1, <1>2, FieldPartLeaves
<1>3. ASSUME NEW s \in Submissions, Subscriber(s) PROVE Alive(t)'
  <2>1. /\ UNCHANGED <<phase, claimed, at>>
        /\ status[t] = "pending" => status'[t] = "pending"
    BY <1>3, EnqueueAlive DEF Subscriber, Enqueue
  <2> QED
    BY <2>1 DEF Alive
<1>4. ASSUME NEW w \in Workers, LockOldest(w) \/ Claim(w), at' = at
      PROVE  Alive(t)'
  <2>1. \A v \in Workers : phase[v] \notin {"idle", "locking"} =>
          claimed'[v] = claimed[v] /\ phase'[v] = phase[v]
    BY <1>0, <1>4 DEF LockOldest, Claim
  <2>2. CASE LockOldest(w)
    BY <1>4, <2>1, <2>2 DEF LockOldest, Alive
  <2>3. CASE Claim(w)
    <3>1. /\ status' = [status EXCEPT ![claimed[w]] = "processing"]
          /\ claimed' = claimed /\ phase'[w] = "claimed"
      BY <1>0, <2>3 DEF Claim
    <3>2. CASE claimed[w] = t
      BY <3>1, <3>2 DEF Alive
    <3>3. CASE claimed[w] # t
      <4>1. status'[t] = status[t]
        BY <1>0, <3>1, <3>3
      <4> QED
        BY <1>4, <2>1, <4>1 DEF Alive
    <3> QED
      BY <3>2, <3>3
  <2> QED
    BY <1>4, <2>2, <2>3
<1>5. ASSUME NEW w \in Workers, RecordOutcome(w), at' = at PROVE Alive(t)'
  <2>1. /\ phase[w] \in Outcomes
        /\ \E o : status' = [status EXCEPT ![claimed[w]] = o]
        /\ phase' = [phase EXCEPT ![w] = "idle"]
        /\ claimed' = [claimed EXCEPT ![w] = 0]
    BY <1>5 DEF RecordOutcome
  <2>2. status[claimed[w]] = "processing"
    BY <2>1 DEF IInv, QueueIInv, WorkerInv, Polling, Outcomes
  <2>3. status[t] = "pending" => status'[t] = "pending"
    BY <1>0, <2>1, <2>2
  <2>4. \A v \in Workers : phase[v] \in {"claimed", "handling"} =>
          claimed'[v] = claimed[v] /\ phase'[v] = phase[v]
    BY <1>0, <2>1 DEF Outcomes
  <2> QED
    BY <1>5, <2>3, <2>4 DEF Alive
<1>6. ASSUME NEW w \in Workers, Call(w) PROVE Alive(t)'
  <2>1. /\ phase[w] = "claimed" /\ phase' = [phase EXCEPT ![w] = "handling"]
        /\ at' = [at EXCEPT ![w] = "work"] /\ UNCHANGED <<status, claimed>>
    BY <1>6 DEF Call, CallHandler, Continue
  <2>2. /\ phase'[w] = "handling" /\ at'[w] = "work"
        /\ \A v \in Workers : v # w => phase'[v] = phase[v] /\ at'[v] = at[v]
    BY <1>0, <2>1
  <2> QED
    BY <2>1, <2>2 DEF Alive
<1>7. ASSUME NEW w \in Workers, Return(w) PROVE Alive(t)'
  <2>1. /\ at[w] = "return" /\ phase[w] = "handling"
        /\ phase' = [phase EXCEPT ![w] = "ok"]
        /\ at' = [at EXCEPT ![w] = "none"] /\ UNCHANGED <<status, claimed>>
    BY <1>7 DEF Return, HandlerReturns, Continue
  <2>2. \A v \in Workers : v # w => phase'[v] = phase[v] /\ at'[v] = at[v]
    BY <1>0, <2>1
  <2> QED
    BY <2>1, <2>2 DEF Alive
<1>8. ASSUME NEW w \in Workers, ReturnError(w) PROVE FALSE
  <2>1. Handling(w, "report.generate", "work") /\ ~HasResponse(jobOf[Sub(w)])
    BY <1>0, <1>8 DEF ReturnError
  <2>2. Sub(w) \in responses
    BY <2>1, HandledSurvey DEF Handling
  <2> QED
    BY <2>1, <2>2 DEF HasResponse
<1>9. ASSUME NEW w \in Workers,
             \/ \E v \in Verdicts : ScoreSurvey(w, v)
             \/ UploadReport(w) \/ CreateReport(w)
      PROVE  Alive(t)'
  <2>1. /\ UNCHANGED <<status, phase, claimed>>
        /\ \E there \in {"enqueue", "create"} : at' = [at EXCEPT ![w] = there]
    BY <1>9 DEF ScoreSurvey, UploadReport, CreateReport, Continue, queueVars
  <2>2. \A v \in Workers : at[v] # "return" => at'[v] # "return"
    BY <1>0, <2>1
  <2> QED
    BY <2>1, <2>2 DEF Alive
<1>10. ASSUME NEW w \in Workers,
              EnqueueReport(w) \/ EnqueueNotification(w) \/ Notify(w)
       PROVE  Alive(t)' \/ Hands(w, t)
  <2>1. /\ UNCHANGED <<phase, claimed>> /\ phase[w] = "handling"
        /\ at' = [at EXCEPT ![w] = "return"]
    BY <1>10 DEF EnqueueReport, EnqueueNotification, Notify, Handling, Continue,
                 Enqueue, queueVars
  <2>2. status[t] = "pending" => status'[t] = "pending"
    <3>1. ASSUME Notify(w) PROVE status' = status
      BY <3>1 DEF Notify, queueVars
    <3> QED
      BY <1>10, <3>1, EnqueueAlive DEF EnqueueReport, EnqueueNotification
  <2>3. \A v \in Workers : v # w => at'[v] = at[v]
    BY <1>0, <2>1
  <2>4. CASE claimed[w] = t
    BY <1>0, <1>10, <2>4 DEF Hands, Notify
  <2>5. CASE claimed[w] # t
    BY <2>1, <2>2, <2>3, <2>5 DEF Alive
  <2> QED
    BY <2>4, <2>5
<1>11. CASE UNCHANGED vars
  BY <1>1, <1>11 DEF vars, queueVars
<1>12. ASSUME NEW w \in Workers, PollTable(w) PROVE Alive(t)'
  BY <1>0, <1>4, <1>5, <1>12 DEF PollTable, ClaimFails, RecordOutcomeFails
<1> QED
  BY <1>0, <1>2, <1>3, <1>6, <1>7, <1>8, <1>9, <1>10, <1>11, <1>12
     DEF Next, FieldPart, Worker, EnqueueFails, Crash

\* A survey with a live task keeps one, or has its alert.
LEMMA TaskGoesOn ==
  ASSUME LossFree, IInv, [Next]_vars, NEW s \in Submissions, Tasked(s)
  PROVE  alerts'[s] = 1 \/ Tasked(s)'
<1>1. PICK t \in Tasks, k \in Kinds : Is(t, k, s) /\ Alive(t)
  BY DEF Tasked
<1>2. CASE Alive(t)'
  <2>1. Is(t, k, s)'
    BY <1>1, TasksStay
  <2> QED
    BY <1>2, <2>1 DEF Tasked
<1>3. ASSUME NEW w \in Workers, Hands(w, t) PROVE alerts'[s] = 1 \/ Tasked(s)'
  <2>1. phase[w] = "handling"
    BY <1>3 DEF Hands, EnqueueReport, EnqueueNotification, Notify, Handling
  <2>2. Is(t, body[t].kind, Sub(w))
    BY <1>3, <2>1, RunningHandler DEF Hands
  <2>3. Sub(w) = s
    BY <1>1, <2>2, IsOne
  <2>4. CASE EnqueueReport(w)
    BY <2>3, <2>4, NewTaskAlive, KindsAre DEF EnqueueReport
  <2>5. CASE EnqueueNotification(w)
    BY <2>3, <2>5, NewTaskAlive, KindsAre DEF EnqueueNotification
  <2>6. CASE CreateAlert(Sub(w))
    <3>1. alerts \in [Submissions -> Nat] /\ alerts'[s] = alerts[s] + 1
      BY <2>3, <2>6 DEF CreateAlert, IInv, TypeOK
    <3>2. alerts'[s] \in {0, 1}
      BY AlertsKept
    <3> QED
      BY <3>1, <3>2
  <2> QED
    BY <1>3, <2>4, <2>5, <2>6 DEF Hands
<1> QED
  BY <1>1, <1>2, <1>3, AliveUntilHanded

\* While nothing fails or stops and the bus has room for every survey, each
\* stored survey has its alert or is still on its way there: no handler, no
\* poll and no publish of internal/job, qa, report and platform drops one.
\* The code sends every survey that way, whatever its verdict; for the passed
\* ones it is what the documents ask.
THEOREM NoSurveyIsDropped ==
  ASSUME LossFree
  PROVE  Spec => []SurveyGoesOn
<1>1. Init => BusIsOurs /\ SurveyGoesOn
  <2> SUFFICES ASSUME Init PROVE BusIsOurs /\ SurveyGoesOn
    OBVIOUS
  <2>1. bus = <<>> /\ responses = {}
    BY DEF Init, FieldInit, EB!BusInit
  <2> QED
    BY <2>1 DEF BusIsOurs, SurveyGoesOn
<1>2. IInv /\ (BusIsOurs /\ SurveyGoesOn) /\ [Next]_vars =>
        (BusIsOurs /\ SurveyGoesOn)'
  <2> SUFFICES ASSUME IInv, BusIsOurs, SurveyGoesOn, [Next]_vars
               PROVE  BusIsOurs' /\ SurveyGoesOn'
    OBVIOUS
  <2>1. BusIsOurs'
    BY EventGoesOn
  <2>2. ASSUME NEW s \in responses PROVE alerts'[s] = 1 \/ OnItsWay(s)'
    <3>1. s \in Submissions
      BY DEF IInv, FieldIInv, FieldTypeOK
    <3>2. CASE alerts[s] = 1
      BY <3>1, <3>2, AlertsKept
    <3>3. CASE InRequest(s) \/ OnBus(s) \/ s \in enqueuing
      BY <3>1, <3>3, EventGoesOn
    <3>4. CASE Tasked(s)
      BY <3>1, <3>4, TaskGoesOn DEF OnItsWay
    <3> QED
      BY <3>2, <3>3, <3>4 DEF SurveyGoesOn, OnItsWay
  <2>3. ASSUME NEW r \in Submissions, InsertResponse(r)
        PROVE  responses' = responses \cup {r} /\ OnItsWay(r)'
    <3>1. step'[r] = "status"
      BY <2>3 DEF InsertResponse, IInv, FieldIInv, FieldTypeOK
    <3> QED
      BY <2>3, <3>1 DEF InsertResponse, CreateSurveyResponse, OnItsWay, InRequest
  <2> QED
    BY <2>1, <2>2, <2>3, ResponseStep DEF SurveyGoesOn
<1>3. Spec => [](BusIsOurs /\ SurveyGoesOn)
  BY Invariance, <1>1, <1>2, PTL DEF Spec
<1>4. BusIsOurs /\ SurveyGoesOn => SurveyGoesOn
  OBVIOUS
<1> QED
  BY <1>3, <1>4, PTL
=============================================================================
