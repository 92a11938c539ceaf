------------------------------ MODULE Scheduler ------------------------------
(***************************************************************************)
(* Where survey jobs come from: owners register and delete parcels         *)
(* (internal/land), the hourly scheduler of every server process creates a *)
(* job for each parcel without one and announces it on the event bus       *)
(* (internal/job/scheduler.go), and the bus loop starts the dispatcher's   *)
(* goroutine for it (EventBus, Dispatch).                                  *)
(*                                                                         *)
(* Abstractions.  Parcels are numbered by monitoring_since.  What becomes  *)
(* of a dispatched job is Dispatch and JobLifecycle; here it ends          *)
(* 'unassigned' or 'survey_submitted', the only statuses the code gives a  *)
(* job at the end: no statement ever writes 'completed' or 'cancelled'.    *)
(***************************************************************************)
EXTENDS Naturals, Sequences, FiniteSets

CONSTANTS
  Processes,    \* server processes, a scheduler goroutine each
  MaxParcels,   \* bound on the parcels
  MaxJobs,      \* bound on the jobs ever created
  Limit,        \* LIMIT of FindParcelsNeedingSurvey (100)
  BusCapacity,  \* the event bus's buffer
  Registered,   \* the parcel.registered event, which nobody subscribes to
  MaxMishaps    \* bound on failing calls and stops of the processes

Parcels == 1 .. MaxParcels
Jobs == 1 .. MaxJobs

ASSUME SchedulerBoundsAssumption ==
  /\ MaxParcels \in Nat /\ MaxJobs \in Nat /\ MaxMishaps \in Nat
  /\ Limit \in Nat \ {0}
ASSUME BusCapacityAssumption == BusCapacity \in Nat \ {0}
ASSUME RegisteredAssumption == Registered \notin Nat

VARIABLES
  parcel,     \* parcels.status
  lastJob,    \* the survey_jobs row inserted last
  parcelOf,   \* survey_jobs.parcel_id
  jobStatus,  \* survey_jobs.status
  todo,       \* the parcels a process's tick has found and not yet handled
  unsent,     \* the job a process has created and not yet published, 0 if none
  bus,        \* the event bus (one per process; the handlers are the same)
  dispatches, \* history: dispatcher goroutines started for each job
  mishaps     \* history: calls that failed and stops, so far

vars ==
  <<parcel, lastJob, parcelOf, jobStatus, todo, unsent, bus, dispatches, mishaps>>

EB == INSTANCE EventBus

JobStatuses ==
  {"none", "pending_assignment", "offered", "unassigned", "survey_submitted"}

Init ==
  /\ parcel = [p \in Parcels |-> "none"]
  /\ lastJob = 0
  /\ parcelOf = [j \in Jobs |-> 0]
  /\ jobStatus = [j \in Jobs |-> "none"]
  /\ todo = [s \in Processes |-> {}]
  /\ unsent = [s \in Processes |-> 0]
  /\ EB!BusInit
  /\ dispatches = [j \in Jobs |-> 0]
  /\ mishaps = 0

Mishap == mishaps < MaxMishaps /\ mishaps' = mishaps + 1

JobsOf(p) == {j \in Jobs : parcelOf[j] = p}

\* The join of FindParcelsNeedingSurvey.
InFlight(p) == {j \in JobsOf(p) : jobStatus[j] \notin {"completed", "cancelled"}}

\* Mutant: only jobs that still await an agent are in flight.
Needing_AwaitingOnly ==
  {p \in Parcels : parcel[p] = "active"
     /\ \A j \in JobsOf(p) : jobStatus[j] \notin {"pending_assignment", "offered"}}

\* Its WHERE clause.
Needing == {p \in Parcels : parcel[p] = "active" /\ InFlight(p) = {}}

-----------------------------------------------------------------------------
\* INSERT INTO parcels; the status defaults to 'active'.
InsertParcel(p) ==
  /\ parcel[p] = "none"
  /\ parcel' = [parcel EXCEPT ![p] = "active"]

\* CreateParcel inserts the row and publishes parcel.registered.
CreateParcel(p) ==
  /\ InsertParcel(p)
  /\ EB!Publish(Registered)
  /\ UNCHANGED <<lastJob, parcelOf, jobStatus, todo, unsent, dispatches, mishaps>>

\* DeleteParcel: the row stays with status 'deleted'.
DeleteParcel(p) ==
  /\ parcel[p] = "active"
  /\ parcel' = [parcel EXCEPT ![p] = "deleted"]
  /\ UNCHANGED <<lastJob, parcelOf, jobStatus, todo, unsent, bus, dispatches, mishaps>>

\* The first Limit of a set of parcels.
Oldest(S) == {p \in S : Cardinality({q \in S : q < p}) < Limit}

\* Mutant: the LIMIT applies before the jobs are looked at.
Tick_LimitFirst(s) ==
  /\ todo[s] = {} /\ unsent[s] = 0
  /\ todo' = [todo EXCEPT ![s] =
                Needing \cap Oldest({p \in Parcels : parcel[p] = "active"})]
  /\ todo'[s] # {}
  /\ UNCHANGED <<parcel, lastJob, parcelOf, jobStatus, unsent, bus, dispatches, mishaps>>

\* The ticker fires and the tick reads the Limit oldest parcels in need.
Tick(s) ==
  /\ todo[s] = {} /\ unsent[s] = 0
  /\ Needing # {}
  /\ todo' = [todo EXCEPT ![s] = Oldest(Needing)]
  /\ UNCHANGED <<parcel, lastJob, parcelOf, jobStatus, unsent, bus, dispatches, mishaps>>

\* The parcels are handled in the order of the query.
OldestTodo(s, p) == p \in todo[s] /\ \A q \in todo[s] : p <= q

\* INSERT INTO survey_jobs.  Bound: MaxJobs.
CreateSurveyJob(p) ==
  /\ lastJob < MaxJobs
  /\ lastJob' = lastJob + 1
  /\ parcelOf' = [parcelOf EXCEPT ![lastJob + 1] = p]
  /\ jobStatus' = [jobStatus EXCEPT ![lastJob + 1] = "pending_assignment"]

\* createJobForParcel inserts the row.
CreateJob(s) ==
  /\ unsent[s] = 0
  /\ \E p \in Parcels :
       /\ OldestTodo(s, p)
       /\ CreateSurveyJob(p)
       /\ todo' = [todo EXCEPT ![s] = @ \ {p}]
  /\ unsent' = [unsent EXCEPT ![s] = lastJob + 1]
  /\ UNCHANGED <<parcel, bus, dispatches, mishaps>>

\* createJobForParcel fails: continue with the next parcel.
CreateJobFails(s) ==
  /\ Mishap
  /\ unsent[s] = 0
  /\ \E p \in Parcels :
       /\ OldestTodo(s, p)
       /\ todo' = [todo EXCEPT ![s] = @ \ {p}]
  /\ UNCHANGED <<parcel, lastJob, parcelOf, jobStatus, unsent, bus, dispatches>>

\* Mutant: the event is published again until the dispatcher shows up.
PublishJob_Repeats(s) ==
  /\ unsent[s] # 0
  /\ EB!Publish(unsent[s])
  /\ unsent' = [unsent EXCEPT ![s] = IF dispatches[@] > 0 THEN 0 ELSE @]
  /\ UNCHANGED <<parcel, lastJob, parcelOf, jobStatus, todo, dispatches, mishaps>>

\* Publish job.created.
PublishJob(s) ==
  /\ unsent[s] # 0
  /\ EB!Publish(unsent[s])
  /\ unsent' = [unsent EXCEPT ![s] = 0]
  /\ UNCHANGED <<parcel, lastJob, parcelOf, jobStatus, todo, dispatches, mishaps>>

\* The bus loop: job.created starts HandleJobCreated in a goroutine.
Deliver ==
  /\ \E e \in Jobs \cup {Registered} :
       /\ EB!Take(e)
       /\ dispatches' = IF e = Registered THEN dispatches
                        ELSE [dispatches EXCEPT ![e] = @ + 1]
  /\ UNCHANGED <<parcel, lastJob, parcelOf, jobStatus, todo, unsent, mishaps>>

\* What the cascade and the survey of a dispatched job make of its status.
NextStatuses(st) ==
  CASE st = "pending_assignment" -> {"offered", "unassigned"}
    [] st = "offered" -> {"unassigned", "survey_submitted"}
    [] OTHER -> {}

\* The cascade and the survey of a dispatched job go one status further.
JobGoesOn(j) ==
  /\ dispatches[j] > 0
  /\ \E st \in NextStatuses(jobStatus[j]) : jobStatus' = [jobStatus EXCEPT ![j] = st]
  /\ UNCHANGED <<parcel, lastJob, parcelOf, todo, unsent, bus, dispatches, mishaps>>

\* The processes stop: ticks and events are memory.
Crash ==
  /\ Mishap
  /\ \/ bus # <<>>
     \/ \E s \in Processes : todo[s] # {} \/ unsent[s] # 0
  /\ todo' = [s \in Processes |-> {}]
  /\ unsent' = [s \in Processes |-> 0]
  /\ EB!BusLost
  /\ UNCHANGED <<parcel, lastJob, parcelOf, jobStatus, dispatches>>

Ticking(s) == Tick(s) \/ CreateJob(s) \/ PublishJob(s)

Next ==
  \/ \E p \in Parcels : CreateParcel(p) \/ DeleteParcel(p)
  \/ \E s \in Processes : Ticking(s) \/ CreateJobFails(s)
  \/ Deliver
  \/ \E j \in Jobs : JobGoesOn(j)
  \/ Crash

Spec == Init /\ [][Next]_vars

\* The ticker fires every hour, the bus loop runs, and the jobs go on.
FairSpec ==
  /\ Spec
  /\ \A s \in Processes : WF_vars(Ticking(s))
  /\ WF_vars(Deliver)
  /\ \A j \in Jobs : WF_vars(JobGoesOn(j))

-----------------------------------------------------------------------------
(* Properties *)

\* The variables keep their types.
TypeOK ==
  /\ parcel \in [Parcels -> {"none", "active", "deleted"}]
  /\ lastJob \in 0 .. MaxJobs
  /\ parcelOf \in [Jobs -> Parcels \cup {0}]
  /\ jobStatus \in [Jobs -> JobStatuses]
  /\ todo \in [Processes -> SUBSET Parcels]
  /\ unsent \in [Processes -> Jobs \cup {0}]
  /\ bus \in Seq(Jobs \cup {Registered}) /\ Len(bus) <= BusCapacity
  /\ dispatches \in [Jobs -> Nat]
  /\ mishaps \in 0 .. MaxMishaps

\* No parcel has two jobs in flight: the tick's reading is old by the time the
\* last of its jobs is created, but in one process no other tick comes
\* between, and a restarted tick reads anew.  With two processes it fails.
OneJobPerParcel ==
  \A p \in Parcels : Cardinality(InFlight(p)) <= 1

\* A job gets at most one dispatcher goroutine: two cascades for one job would
\* offer it to two agents at a time.
DispatchedOnce == \A j \in Jobs : dispatches[j] <= 1

\* An active parcel gets a job at last, however many parcels compete for the
\* Limit of each tick, and whichever calls failed or processes stopped before.
ParcelGetsJob ==
  \A p \in Parcels : parcel[p] = "active" ~> JobsOf(p) # {} \/ parcel[p] = "deleted"
=============================================================================
