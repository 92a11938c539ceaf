--------------------------- MODULE SurveyPipeline ---------------------------
(***************************************************************************)
(* From a submitted survey to the owner's alert: the agents' requests      *)
(* (JobLifecycle), the event bus between them and the subscriber that      *)
(* cmd/server/main.go installs, the task queue (TaskQueue), and the three  *)
(* task handlers: qa.Service.HandleTask, report.Service.HandleTask and     *)
(* notification.Service.HandleTask.  Each handler does its own database    *)
(* writes and enqueues the next task of the chain; no transaction spans    *)
(* any two of these steps.  A Crash stops every process at once.           *)
(*                                                                         *)
(* Abstractions.  The verdict of ScoreSurvey is any of the three.  The     *)
(* payloads carry the job, the parcel and the user; the model also keeps   *)
(* in each payload which submission caused it, which no handler looks at.  *)
(* The mailer and the pusher are mocks in the code and left out.           *)
(***************************************************************************)
EXTENDS JobLifecycle, TaskQueue, FiniteSets

CONSTANT OtherTraffic    \* do other modules publish on the bus?

ASSUME TrafficAssumption == OtherTraffic \in BOOLEAN

Kinds == {"qa.score_survey", "report.generate", "notification.send"}
Verdicts == {"passed", "flagged", "failed"}

\* What main registers with the queue: one handler for each kind of task.
\* Every survey causes at most three tasks, for which the table has room.
ASSUME ChainAssumption ==
  /\ Bodies = [kind : Kinds, sub : Submissions]
  /\ Unhandled = {}
  /\ MaxTasks >= 3 * Cardinality(Submissions)

VARIABLES
  enqueuing,   \* survey.submitted handlers about to enqueue
  at,          \* where the running handler of each worker is
  verdict,     \* survey_jobs.qa_status
  scored,      \* history: QA results written on account of each survey
  objects,     \* jobs whose report object is in S3
  reports,     \* rows of reports, by the survey that caused them
  alerts       \* rows of alerts, by the survey that caused them

resultVars == <<verdict, scored, objects, reports, alerts>>
vars == <<jobStatus, assignee, arrived, arriving, step, jobOf, agentOf,
          responses, answered, bus, last, body, status, phase, claimed,
          started, returned, enqueuing, at, verdict, scored, objects,
          reports, alerts>>

Init ==
  /\ FieldInit
  /\ QueueInit
  /\ enqueuing = {}
  /\ at = [w \in Workers |-> "none"]
  /\ verdict = [j \in Jobs |-> "pending"]
  /\ scored = [s \in Submissions |-> 0]
  /\ objects = {}
  /\ reports = [s \in Submissions |-> 0]
  /\ alerts = [s \in Submissions |-> 0]

-----------------------------------------------------------------------------
(* The agents and the bus *)

\* The job gets its agent, the agent arrives or begins a SubmitSurvey request,
\* or another module publishes.
Field ==
  /\ \/ \E j \in Jobs, a \in Agents : AssignAgent(j, a) \/ LoadArrive(j, a)
     \/ \E j \in Jobs : RecordArrival(j) \/ RecordArrivalFails(j)
     \/ \E s \in Submissions, j \in Jobs, a \in Agents : LoadSubmit(s, j, a)
     \/ OtherTraffic /\ PublishOther
  /\ UNCHANGED <<queueVars, enqueuing, at, resultVars>>

\* SubmitSurvey goes on once it has begun.
RequestGoesOn(s) ==
  /\ Submit(s)
  /\ UNCHANGED <<queueVars, enqueuing, at, resultVars>>

\* The bus loop starts the subscriber's goroutine; other events have no
\* subscriber here.
Deliver ==
  /\ \E e \in Events :
       /\ TakeEvent(e)
       /\ enqueuing' = IF e = OtherEvent THEN enqueuing ELSE enqueuing \cup {e}
  /\ UNCHANGED <<queueVars, at, resultVars>>

\* The survey.submitted handler enqueues the QA task.
Subscriber(s) ==
  /\ s \in enqueuing
  /\ enqueuing' = enqueuing \ {s}
  /\ Enqueue([kind |-> "qa.score_survey", sub |-> s])
  /\ UNCHANGED <<fieldVars, at, resultVars>>

\* Its INSERT fails, which is only logged.
SubscriberFails(s) ==
  /\ Faults
  /\ s \in enqueuing
  /\ enqueuing' = enqueuing \ {s}
  /\ UNCHANGED <<fieldVars, queueVars, at, resultVars>>

-----------------------------------------------------------------------------
(* The task handlers *)

Handling(w, kind, here) ==
  /\ phase[w] = "handling" /\ at[w] = here
  /\ body[claimed[w]].kind = kind

Sub(w) == body[claimed[w]].sub

Continue(w, there) == at' = [at EXCEPT ![w] = there]

\* The statements of the handlers.
UpdateJobQA(j, v) == verdict' = [verdict EXCEPT ![j] = v]
InsertReport(s) == reports' = [reports EXCEPT ![s] = @ + 1]
CreateAlert(s) == alerts' = [alerts EXCEPT ![s] = @ + 1]

\* qa HandleTask: ScoreSurvey, whose checks turn every failing query into a
\* score (QAScoring), then UpdateJobQA.
ScoreSurvey(w, v) ==
  /\ Handling(w, "qa.score_survey", "work")
  /\ Continue(w, "enqueue")
  /\ UpdateJobQA(jobOf[Sub(w)], v)
  /\ scored' = [scored EXCEPT ![Sub(w)] = @ + 1]
  /\ UNCHANGED <<fieldVars, queueVars, enqueuing, objects, reports, alerts>>

\* Mutant: the report task is enqueued when the handler starts.
EnqueueReport_First(w) ==
  /\ \/ Handling(w, "qa.score_survey", "enqueue") /\ Continue(w, "return")
     \/ /\ Handling(w, "qa.score_survey", "work")
        /\ \A u \in Tasks : body[u] # [kind |-> "report.generate", sub |-> Sub(w)]
        /\ UNCHANGED at
  /\ Enqueue([kind |-> "report.generate", sub |-> Sub(w)])
  /\ UNCHANGED <<fieldVars, enqueuing, resultVars>>

\* qa HandleTask enqueues the report.
EnqueueReport(w) ==
  /\ Handling(w, "qa.score_survey", "enqueue")
  /\ Continue(w, "return")
  /\ Enqueue([kind |-> "report.generate", sub |-> Sub(w)])
  /\ UNCHANGED <<fieldVars, enqueuing, resultVars>>

\* GetSurveyResponseByJob finds a row.
HasResponse(j) == \E s \in responses : jobOf[s] = j

\* Mutant: a job that has a report object gets no other report.
UploadReport_OncePerJob(w) ==
  /\ Handling(w, "report.generate", "work")
  /\ HasResponse(jobOf[Sub(w)])
  /\ Continue(w, IF jobOf[Sub(w)] \in objects THEN "return" ELSE "create")
  /\ objects' = objects \cup {jobOf[Sub(w)]}
  /\ UNCHANGED <<fieldVars, queueVars, enqueuing, verdict, scored, reports, alerts>>

\* report GenerateReport: read the job, the response and the media, render,
\* PutObject.
UploadReport(w) ==
  /\ Handling(w, "report.generate", "work")
  /\ HasResponse(jobOf[Sub(w)])
  /\ Continue(w, "create")
  /\ objects' = objects \cup {jobOf[Sub(w)]}
  /\ UNCHANGED <<fieldVars, queueVars, enqueuing, verdict, scored, reports, alerts>>

\* Mutant: the row is inserted before the object is uploaded.
CreateReport_BeforeUpload(w) ==
  /\ \/ Handling(w, "report.generate", "create")
     \/ Handling(w, "report.generate", "work")
  /\ Continue(w, "enqueue")
  /\ reports' = [reports EXCEPT ![Sub(w)] = @ + 1]
  /\ UNCHANGED <<fieldVars, queueVars, enqueuing, verdict, scored, objects, alerts>>

\* report repository Create.
CreateReport(w) ==
  /\ Handling(w, "report.generate", "create")
  /\ Continue(w, "enqueue")
  /\ InsertReport(Sub(w))
  /\ UNCHANGED <<fieldVars, queueVars, enqueuing, verdict, scored, objects, alerts>>

\* GenerateReport enqueues the notification.
EnqueueNotification(w) ==
  /\ Handling(w, "report.generate", "enqueue")
  /\ Continue(w, "return")
  /\ Enqueue([kind |-> "notification.send", sub |-> Sub(w)])
  /\ UNCHANGED <<fieldVars, enqueuing, resultVars>>

\* The enqueue of the next task fails, which is only logged.
EnqueueFails(w) ==
  /\ Faults
  /\ phase[w] = "handling" /\ at[w] = "enqueue"
  /\ Continue(w, "return")
  /\ UNCHANGED <<fieldVars, queueVars, enqueuing, resultVars>>

\* Mutant: the alert is sent again until it succeeds, and counted each time.
Notify_Twice(w) ==
  /\ Handling(w, "notification.send", "work")
  /\ Continue(w, "return")
  /\ alerts' = [alerts EXCEPT ![Sub(w)] = @ + 2]
  /\ UNCHANGED <<fieldVars, queueVars, enqueuing, verdict, scored, objects, reports>>

\* notification Notify: CreateAlert, whose error is only logged.
Notify(w) ==
  /\ Handling(w, "notification.send", "work")
  /\ Continue(w, "return")
  /\ \/ CreateAlert(Sub(w))
     \/ Faults /\ UNCHANGED alerts
  /\ UNCHANGED <<fieldVars, queueVars, enqueuing, verdict, scored, objects, reports>>

\* The handler returns nil.
Return(w) ==
  /\ at[w] = "return"
  /\ HandlerReturns(w, "ok")
  /\ Continue(w, "none")
  /\ UNCHANGED <<fieldVars, enqueuing, resultVars>>

\* A query or an upload fails, or the job has no response to report on: the
\* handler returns the error.
ReturnError(w) ==
  /\ at[w] \in {"work", "create"}
  /\ body[claimed[w]].kind # "notification.send"
  /\ \/ Faults
     \/ Handling(w, "report.generate", "work") /\ ~HasResponse(jobOf[Sub(w)])
  /\ HandlerReturns(w, "error")
  /\ Continue(w, "none")
  /\ UNCHANGED <<fieldVars, enqueuing, resultVars>>

\* The worker's poll around the handlers.
Call(w) ==
  /\ CallHandler(w)
  /\ Continue(w, "work")
  /\ UNCHANGED <<fieldVars, enqueuing, resultVars>>

PollTable(w) ==
  /\ \/ LockOldest(w) \/ Claim(w) \/ ClaimFails(w)
     \/ RecordOutcome(w) \/ RecordOutcomeFails(w)
  /\ UNCHANGED <<fieldVars, enqueuing, at, resultVars>>

Worker(w) ==
  \/ PollTable(w) \/ Call(w) \/ Return(w) \/ ReturnError(w)
  \/ \E v \in Verdicts : ScoreSurvey(w, v)
  \/ EnqueueReport(w) \/ UploadReport(w) \/ CreateReport(w)
  \/ EnqueueNotification(w) \/ EnqueueFails(w) \/ Notify(w)

-----------------------------------------------------------------------------
Busy ==
  \/ arriving # {} \/ bus # <<>> \/ enqueuing # {}
  \/ \E s \in Submissions : step[s] \in {"insert", "status", "publish"}
  \/ \E w \in Workers : phase[w] # "idle"

\* Everything in memory is lost: requests, events, goroutines, handlers.
Crash ==
  /\ CanCrash
  /\ Busy
  /\ arriving' = {}
  /\ step' = [s \in Submissions |->
                IF step[s] \in {"new", "done"} THEN step[s] ELSE "lost"]
  /\ bus' = <<>>
  /\ enqueuing' = {}
  /\ \E C \in SUBSET Locked : Settle(C)
  /\ phase' = [w \in Workers |-> "idle"]
  /\ claimed' = [w \in Workers |-> 0]
  /\ at' = [w \in Workers |-> "none"]
  /\ UNCHANGED <<jobStatus, assignee, arrived, jobOf, agentOf, responses,
                 answered, last, body, started, returned, resultVars>>

Next ==
  \/ Field
  \/ \E s \in Submissions : RequestGoesOn(s) \/ Subscriber(s) \/ SubscriberFails(s)
  \/ Deliver
  \/ \E w \in Workers : Worker(w)
  \/ Crash

Spec == Init /\ [][Next]_vars

\* A request that has begun goes on, the bus loop and the goroutines it
\* starts run, and every process keeps polling.
FairSpec ==
  /\ Spec
  /\ \A s \in Submissions : WF_vars(RequestGoesOn(s)) /\ WF_vars(Subscriber(s))
  /\ WF_vars(Deliver)
  /\ \A w \in Workers : WF_vars(Worker(w))

-----------------------------------------------------------------------------
(* Properties *)

\* The variables keep their types.
TypeOK ==
  /\ FieldTypeOK
  /\ QueueTypeOK
  /\ enqueuing \subseteq Submissions
  /\ at \in [Workers -> {"none", "work", "create", "enqueue", "return"}]
  /\ verdict \in [Jobs -> Verdicts \cup {"pending"}]
  /\ scored \in [Submissions -> Nat]
  /\ objects \subseteq Jobs
  /\ reports \in [Submissions -> Nat]
  /\ alerts \in [Submissions -> Nat]

\* A report that Download can be asked for has its object in S3 and a verdict
\* of the job behind it, wherever a handler failed or the process stopped.
ReportIsComplete ==
  \A s \in Submissions : reports[s] > 0 =>
    jobOf[s] \in objects /\ verdict[jobOf[s]] # "pending"

\* One survey causes at most one task of each kind, although its event, its
\* goroutine and its handlers each enqueue on their own: effects are not
\* doubled downstream.
OneTaskOfEachKind ==
  \A t, u \in Tasks :
    body[t] # NoBody /\ body[t] = body[u] => t = u

\* While nothing fails and the bus has room, every survey scored when its job
\* has passed ends in a report and an alert to the owner, however two processes
\* share the tasks of two surveys of one job.
PassedSurveyIsReported ==
  \A s \in Submissions :
    scored[s] = 1 /\ verdict[jobOf[s]] = "passed" ~> alerts[s] = 1

\* The pipeline keeps the promise of SurveyFollowUp.
Stage(s) ==
  CASE alerts[s] = 1 /\ reports[s] = 1 /\ scored[s] = 1 -> "notified"
    [] alerts[s] = 0 /\ reports[s] = 1 /\ scored[s] = 1 -> "reported"
    [] alerts[s] = 0 /\ reports[s] = 0 /\ scored[s] = 1 -> "scored"
    [] alerts[s] = 0 /\ reports[s] = 0 /\ scored[s] = 0 ->
         IF s \in responses THEN "received" ELSE "none"
    [] OTHER -> "broken"

FollowUp == INSTANCE SurveyFollowUp WITH stage <- [s \in Submissions |-> Stage(s)]

ImplementsSurveyFollowUp == FollowUp!Spec
=============================================================================
