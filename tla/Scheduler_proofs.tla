-------------------------- MODULE Scheduler_proofs --------------------------
(***************************************************************************)
(* Scheduler for any number of parcels, jobs and mishaps, any LIMIT and    *)
(* any bus.  That a job is dispatched once holds for any number of         *)
(* processes: the job is in one place at a time, in the hands of the       *)
(* process that created it, on the bus, or with the dispatcher.  That a    *)
(* parcel has one job holds for one process only, because nothing but the  *)
(* order of its own steps keeps the list of a tick true.                   *)
(***************************************************************************)
EXTENDS Scheduler, FiniteSetTheorems, TLAPS

Events == Jobs \cup {Registered}

\* The rows up to lastJob have their parcel, the others nothing yet.
RowInv ==
  \A j \in Jobs :
    /\ parcelOf[j] # 0 <=> j <= lastJob
    /\ j > lastJob => dispatches[j] = 0

\* A job that a process has still to announce is announced nowhere else.
UnsentInv ==
  \A s \in Processes : unsent[s] # 0 =>
    /\ unsent[s] <= lastJob
    /\ dispatches[unsent[s]] = 0
    /\ \A i \in 1 .. Len(bus) : bus[i] # unsent[s]
    /\ \A t \in Processes : unsent[t] = unsent[s] => t = s

\* A job on the bus is there once, and has not been dispatched.
BusInv ==
  \A i \in 1 .. Len(bus) : bus[i] \in Jobs =>
    /\ bus[i] <= lastJob
    /\ dispatches[bus[i]] = 0
    /\ \A k \in 1 .. Len(bus) : bus[k] = bus[i] => k = i

IInv ==
  /\ TypeOK
  /\ RowInv
  /\ UnsentInv
  /\ BusInv
  /\ DispatchedOnce

\* One server process.
OneProcess == \A s, t \in Processes : s = t

\* With one process: a parcel has one row at most, and one that the tick has
\* found and not yet handled has none.
ParcelInv ==
  /\ \A j, k \in Jobs : parcelOf[j] # 0 /\ parcelOf[j] = parcelOf[k] => j = k
  /\ \A s \in Processes : \A p \in todo[s] : \A j \in Jobs : parcelOf[j] # p

-----------------------------------------------------------------------------
(* The bus.                                                                *)

\* Publish adds the event at the end or drops it.
LEMMA PublishFacts ==
  ASSUME bus \in Seq(Events), Len(bus) <= BusCapacity, NEW e \in Events,
         EB!Publish(e)
  PROVE  /\ bus' \in Seq(Events) /\ Len(bus') <= BusCapacity
         /\ \/ bus' = bus
            \/ /\ Len(bus') = Len(bus) + 1 /\ bus'[Len(bus) + 1] = e
               /\ \A i \in 1 .. Len(bus) : bus'[i] = bus[i]
<1>1. CASE EB!BusFull
  BY <1>1 DEF EB!Publish
<1>2. CASE ~EB!BusFull
  <2>1. bus' = Append(bus, e) /\ Len(bus) < BusCapacity
    BY <1>2, BusCapacityAssumption DEF EB!Publish, EB!BusFull
  <2> QED
    BY <2>1, BusCapacityAssumption
<1> QED
  BY <1>1, <1>2

\* Take removes the first event.
LEMMA TakeFacts ==
  ASSUME bus \in Seq(Events), Len(bus) <= BusCapacity, NEW e, EB!Take(e)
  PROVE  /\ bus' \in Seq(Events) /\ Len(bus') <= BusCapacity
         /\ 1 \in 1 .. Len(bus) /\ bus[1] = e
         /\ \A i \in 1 .. Len(bus') :
              i + 1 \in 1 .. Len(bus) /\ bus'[i] = bus[i + 1]
BY BusCapacityAssumption DEF EB!Take

-----------------------------------------------------------------------------
(* One job, one dispatch.                                                  *)

\* Every initial state satisfies the invariant.
LEMMA InitIInv == Init => IInv
<1> SUFFICES ASSUME Init PROVE IInv
  OBVIOUS
<1> USE SchedulerBoundsAssumption, BusCapacityAssumption DEF Init, EB!BusInit
<1>1. TypeOK
  BY DEF TypeOK, JobStatuses
<1>2. RowInv
  BY DEF RowInv, Jobs
<1>3. UnsentInv /\ BusInv /\ DispatchedOnce
  BY DEF UnsentInv, BusInv, DispatchedOnce
<1> QED
  BY <1>1, <1>2, <1>3 DEF IInv

\* Parcels' own events are not jobs, and a parcel's row is no job's.
LEMMA ParcelKeeps ==
  ASSUME IInv, NEW p \in Parcels, CreateParcel(p) \/ DeleteParcel(p)
  PROVE  IInv'
<1>1. CASE CreateParcel(p)
  <2> USE <1>1 DEF CreateParcel, InsertParcel
  <2>1. Registered \in Events /\ Registered \notin Jobs
    BY RegisteredAssumption, SchedulerBoundsAssumption DEF Events, Jobs
  <2>2. /\ bus' \in Seq(Events) /\ Len(bus') <= BusCapacity
        /\ \/ bus' = bus
           \/ /\ Len(bus') = Len(bus) + 1 /\ bus'[Len(bus) + 1] = Registered
              /\ \A i \in 1 .. Len(bus) : bus'[i] = bus[i]
    BY <2>1, PublishFacts DEF IInv, TypeOK, Events
  <2>3. TypeOK'
    BY <2>2 DEF IInv, TypeOK, Events
  <2>4. RowInv' /\ DispatchedOnce'
    BY DEF IInv, RowInv, DispatchedOnce
  <2>5. UnsentInv'
    BY <2>1, <2>2 DEF IInv, TypeOK, UnsentInv
  <2>6. BusInv'
    BY <2>1, <2>2 DEF IInv, TypeOK, BusInv
  <2> QED
    BY <2>3, <2>4, <2>5, <2>6 DEF IInv
<1>2. CASE DeleteParcel(p)
  BY <1>2 DEF DeleteParcel, IInv, TypeOK, RowInv, UnsentInv, BusInv, DispatchedOnce
<1> QED
  BY <1>1, <1>2

\* A tick only reads.
LEMMA TickKeeps ==
  ASSUME IInv, NEW s \in Processes, Tick(s)
  PROVE  IInv'
<1> USE DEF Tick
<1>1. TypeOK'
  BY DEF IInv, TypeOK, Oldest, Needing
<1> QED
  BY <1>1 DEF IInv, RowInv, UnsentInv, BusInv, DispatchedOnce

\* The new job is in nobody's hands but the process's.
LEMMA CreateJobKeeps ==
  ASSUME IInv, NEW s \in Processes, CreateJob(s)
  PROVE  IInv'
<1>1. PICK p \in Parcels : CreateSurveyJob(p) /\ todo' = [todo EXCEPT ![s] = @ \ {p}]
  BY DEF CreateJob
<1> USE DEF CreateJob, CreateSurveyJob
<1>2. lastJob + 1 \in Jobs /\ lastJob \in Nat /\ lastJob + 1 # 0
  BY SchedulerBoundsAssumption DEF IInv, TypeOK, Jobs
<1>3. TypeOK'
  BY <1>1, <1>2, SchedulerBoundsAssumption DEF IInv, TypeOK, JobStatuses, Jobs
<1>4. RowInv'
  BY <1>1, <1>2, SchedulerBoundsAssumption DEF IInv, TypeOK, RowInv, Jobs, Parcels
<1>5. UnsentInv'
  <2>1. dispatches[lastJob + 1] = 0
    BY <1>2, SchedulerBoundsAssumption DEF IInv, RowInv, Jobs
  <2>2. \A i \in 1 .. Len(bus) : bus[i] # lastJob + 1
    <3>1. BusInv
      BY DEF IInv
    <3>2. ~(lastJob + 1 <= lastJob)
      BY <1>2
    <3> QED
      BY <1>2, <3>1, <3>2 DEF BusInv
  <2>3. \A t \in Processes : unsent[t] # lastJob + 1
    BY <1>2 DEF IInv, TypeOK, UnsentInv
  <2> QED
    BY <1>1, <1>2, <2>1, <2>2, <2>3, SchedulerBoundsAssumption DEF IInv, TypeOK, UnsentInv, Jobs
<1>6. BusInv'
  BY <1>1, <1>2, SchedulerBoundsAssumption DEF IInv, TypeOK, BusInv, Jobs
<1>7. DispatchedOnce'
  BY DEF IInv, DispatchedOnce
<1> QED
  BY <1>3, <1>4, <1>5, <1>6, <1>7 DEF IInv

\* A parcel that could not be served is left for the next tick.
LEMMA CreateJobFailsKeeps ==
  ASSUME IInv, NEW s \in Processes, CreateJobFails(s)
  PROVE  IInv'
<1> USE DEF CreateJobFails, Mishap
<1>1. TypeOK'
  BY SchedulerBoundsAssumption DEF IInv, TypeOK
<1> QED
  BY <1>1 DEF IInv, RowInv, UnsentInv, BusInv, DispatchedOnce

\* The job goes from the process's hands to the bus, or is lost.
LEMMA PublishJobKeeps ==
  ASSUME IInv, NEW s \in Processes, PublishJob(s)
  PROVE  IInv'
<1> USE DEF PublishJob
<1>1. /\ unsent[s] \in Jobs /\ unsent[s] \in Events
      /\ unsent[s] <= lastJob /\ dispatches[unsent[s]] = 0
      /\ \A i \in 1 .. Len(bus) : bus[i] # unsent[s]
      /\ \A t \in Processes : unsent[t] = unsent[s] => t = s
  BY DEF IInv, TypeOK, UnsentInv, Events
<1>2. /\ bus' \in Seq(Events) /\ Len(bus') <= BusCapacity
      /\ \/ bus' = bus
         \/ /\ Len(bus') = Len(bus) + 1 /\ bus'[Len(bus) + 1] = unsent[s]
            /\ \A i \in 1 .. Len(bus) : bus'[i] = bus[i]
  BY <1>1, PublishFacts DEF IInv, TypeOK, Events
<1>3. TypeOK'
  BY <1>2 DEF IInv, TypeOK, Events
<1>4. RowInv' /\ DispatchedOnce'
  BY DEF IInv, RowInv, DispatchedOnce
<1>5. UnsentInv'
  BY <1>1, <1>2 DEF IInv, TypeOK, UnsentInv
<1>6. BusInv'
  <2>1. BusInv /\ Len(bus) \in Nat
    BY DEF IInv, TypeOK
  <2>2. CASE bus' = bus
    BY <2>1, <2>2 DEF BusInv
  <2>3. CASE bus' # bus
    <3> SUFFICES ASSUME NEW i \in 1 .. Len(bus'), bus'[i] \in Jobs
                 PROVE  /\ bus'[i] <= lastJob /\ dispatches[bus'[i]] = 0
                        /\ \A k \in 1 .. Len(bus') : bus'[k] = bus'[i] => k = i
      BY DEF BusInv
    <3>1. \A k \in 1 .. Len(bus') :
            \/ k \in 1 .. Len(bus) /\ bus'[k] = bus[k]
            \/ k = Len(bus) + 1 /\ bus'[k] = unsent[s]
      BY <1>2, <2>1, <2>3
    <3> QED
      BY <1>1, <2>1, <3>1 DEF BusInv
  <2> QED
    BY <2>2, <2>3
<1> QED
  BY <1>3, <1>4, <1>5, <1>6 DEF IInv

\* The job goes from the bus to the dispatcher.
LEMMA DeliverKeeps ==
  ASSUME IInv, Deliver
  PROVE  IInv'
<1> USE DEF Deliver
<1>1. PICK e \in Events :
        /\ EB!Take(e)
        /\ dispatches' = IF e = Registered THEN dispatches
                         ELSE [dispatches EXCEPT ![e] = @ + 1]
  BY DEF Events
<1>2. /\ bus' \in Seq(Events) /\ Len(bus') <= BusCapacity
      /\ 1 \in 1 .. Len(bus) /\ bus[1] = e
      /\ \A i \in 1 .. Len(bus') :
           i + 1 \in 1 .. Len(bus) /\ bus'[i] = bus[i + 1]
  BY <1>1, TakeFacts DEF IInv, TypeOK, Events
<1>3. CASE e = Registered
  <2>1. dispatches' = dispatches
    BY <1>1, <1>3
  <2>2. TypeOK'
    BY <1>2, <2>1 DEF IInv, TypeOK, Events
  <2>3. RowInv' /\ DispatchedOnce'
    BY <2>1 DEF IInv, RowInv, DispatchedOnce
  <2>4. UnsentInv'
    BY <1>2, <2>1 DEF IInv, UnsentInv
  <2>5. BusInv'
    <3>1. BusInv /\ Len(bus') \in Nat
      BY <1>2 DEF IInv
    <3>2. \A i, k \in 1 .. Len(bus') : bus'[i] \in Jobs =>
            /\ bus'[i] <= lastJob /\ dispatches[bus'[i]] = 0
            /\ bus'[k] = bus'[i] => k + 1 = i + 1
      BY <1>2, <3>1 DEF BusInv
    <3> QED
      BY <2>1, <3>1, <3>2 DEF BusInv
  <2> QED
    BY <2>2, <2>3, <2>4, <2>5 DEF IInv
<1>4. CASE e # Registered
  <2>1. /\ e \in Jobs /\ dispatches' = [dispatches EXCEPT ![e] = @ + 1]
        /\ e <= lastJob /\ dispatches[e] = 0
    BY <1>1, <1>2, <1>4 DEF Events, IInv, BusInv
  <2>2. TypeOK'
    BY <1>2, <2>1 DEF IInv, TypeOK, Events
  <2>3. RowInv'
    BY <2>1, SchedulerBoundsAssumption DEF IInv, TypeOK, RowInv, Jobs
  <2>4. UnsentInv'
    BY <1>2, <2>1 DEF IInv, TypeOK, UnsentInv
  <2>5. BusInv'
    <3>1. BusInv /\ dispatches \in [Jobs -> Nat]
      BY DEF IInv, TypeOK
    <3>2. \A i \in 1 .. Len(bus') : bus'[i] # e
      BY <1>2, <2>1, <3>1 DEF BusInv
    <3> QED
      BY <1>2, <2>1, <3>1, <3>2 DEF BusInv
  <2>6. DispatchedOnce'
    BY <2>1 DEF IInv, TypeOK, DispatchedOnce
  <2> QED
    BY <2>2, <2>3, <2>4, <2>5, <2>6 DEF IInv
<1> QED
  BY <1>3, <1>4

\* What the cascade makes of a status is no announcement.
LEMMA JobGoesOnKeeps ==
  ASSUME IInv, NEW j \in Jobs, JobGoesOn(j)
  PROVE  IInv'
<1> USE DEF JobGoesOn
<1>1. TypeOK'
  BY DEF IInv, TypeOK, NextStatuses, JobStatuses
<1> QED
  BY <1>1 DEF IInv, RowInv, UnsentInv, BusInv, DispatchedOnce

\* A job that was in somebody's hands is lost, not announced again.
LEMMA CrashKeeps ==
  ASSUME IInv, Crash
  PROVE  IInv'
<1> USE DEF Crash, Mishap, EB!BusLost
<1>1. TypeOK'
  BY SchedulerBoundsAssumption, BusCapacityAssumption DEF IInv, TypeOK
<1> QED
  BY <1>1 DEF IInv, RowInv, UnsentInv, BusInv, DispatchedOnce

\* The invariant holds in every state.
THEOREM Invariance == Spec => []IInv
<1>1. IInv /\ [Next]_vars => IInv'
  <2> SUFFICES ASSUME IInv, [Next]_vars PROVE IInv'
    OBVIOUS
  <2>1. ASSUME NEW s \in Processes, Ticking(s) \/ CreateJobFails(s) PROVE IInv'
    BY <2>1, TickKeeps, CreateJobKeeps, PublishJobKeeps, CreateJobFailsKeeps DEF Ticking
  <2>2. CASE UNCHANGED vars
    BY <2>2 DEF vars, IInv, TypeOK, RowInv, UnsentInv, BusInv, DispatchedOnce
  <2> QED
    BY <2>1, <2>2, ParcelKeeps, DeliverKeeps, JobGoesOnKeeps, CrashKeeps DEF Next
<1> QED
  BY InitIInv, <1>1, PTL DEF Spec

\* The rows, the lists and the bus keep their types, and the bus never
\* outgrows its capacity.
THEOREM SchedulerTypeCorrect == Spec => []TypeOK
<1>1. IInv => TypeOK
  BY DEF IInv
<1> QED
  BY Invariance, <1>1, PTL

\* A job gets one dispatcher goroutine at most, whatever processes tick,
\* fail and stop: the announcements of internal/job/scheduler.go.
THEOREM JobDispatchedOnce == Spec => []DispatchedOnce
<1>1. IInv => DispatchedOnce
  BY DEF IInv
<1> QED
  BY Invariance, <1>1, PTL

-----------------------------------------------------------------------------
(* One parcel, one job.                                                    *)

\* A row of a parcel is in flight for ever: none of the statuses the code
\* writes ends that.
LEMMA NeedingHasNoJob ==
  ASSUME TypeOK, NEW p \in Needing
  PROVE  p \in Parcels /\ \A j \in Jobs : parcelOf[j] # p
BY DEF TypeOK, Needing, InFlight, JobsOf, JobStatuses

\* With one process, nothing but its own next step outdates its list.
LEMMA ParcelInvKeeps ==
  ASSUME OneProcess, IInv, ParcelInv, [Next]_vars
  PROVE  ParcelInv'
<1>1. ASSUME NEW p \in Parcels, CreateParcel(p) \/ DeleteParcel(p) PROVE ParcelInv'
  BY <1>1 DEF CreateParcel, DeleteParcel, ParcelInv
<1>2. ASSUME NEW s \in Processes, Tick(s) PROVE ParcelInv'
  BY <1>2, NeedingHasNoJob DEF Tick, Oldest, IInv, TypeOK, ParcelInv
<1>3. ASSUME NEW s \in Processes, CreateJob(s) PROVE ParcelInv'
  <2>1. PICK q \in Parcels :
          q \in todo[s] /\ CreateSurveyJob(q) /\ todo' = [todo EXCEPT ![s] = @ \ {q}]
    BY <1>3 DEF CreateJob, OldestTodo
  <2>2. lastJob + 1 \in Jobs
    BY <2>1, SchedulerBoundsAssumption DEF CreateSurveyJob, IInv, TypeOK, Jobs
  <2>3. \A j \in Jobs : parcelOf[j] # q
    BY <2>1 DEF ParcelInv
  <2>4. \A t \in Processes : t = s
    BY DEF OneProcess
  <2>5. \A p \in todo'[s] : p \in todo[s] /\ p # q
    BY <2>1 DEF IInv, TypeOK
  <2>6. \A j \in Jobs :
          parcelOf'[j] = IF j = lastJob + 1 THEN q ELSE parcelOf[j]
    BY <2>1, <2>2 DEF CreateSurveyJob, IInv, TypeOK
  <2>7. \A j, k \in Jobs : parcelOf'[j] # 0 /\ parcelOf'[j] = parcelOf'[k] => j = k
    BY <2>3, <2>6 DEF ParcelInv
  <2>8. \A t \in Processes : \A p \in todo'[t] : \A j \in Jobs : parcelOf'[j] # p
    BY <2>3, <2>4, <2>5, <2>6 DEF ParcelInv
  <2> QED
    BY <2>7, <2>8 DEF ParcelInv
<1>4. ASSUME NEW s \in Processes, CreateJobFails(s) PROVE ParcelInv'
  BY <1>4 DEF CreateJobFails, IInv, TypeOK, ParcelInv
<1>5. ASSUME NEW s \in Processes, PublishJob(s) PROVE ParcelInv'
  BY <1>5 DEF PublishJob, ParcelInv
<1>6. CASE Deliver
  BY <1>6 DEF Deliver, ParcelInv
<1>7. ASSUME NEW j \in Jobs, JobGoesOn(j) PROVE ParcelInv'
  BY <1>7 DEF JobGoesOn, ParcelInv
<1>8. CASE Crash
  BY <1>8 DEF Crash, ParcelInv
<1>9. CASE UNCHANGED vars
  BY <1>9 DEF vars, ParcelInv
<1> QED
  BY <1>1, <1>2, <1>3, <1>4, <1>5, <1>6, <1>7, <1>8, <1>9 DEF Next, Ticking

\* With one row for a parcel there is one job in flight at most.
LEMMA OneRowOneJob ==
  ASSUME IInv, ParcelInv
  PROVE  OneJobPerParcel
<1> SUFFICES ASSUME NEW p \in Parcels PROVE Cardinality(InFlight(p)) <= 1
  BY DEF OneJobPerParcel
<1>1. p # 0
  BY SchedulerBoundsAssumption DEF Parcels
<1>2. CASE InFlight(p) = {}
  BY <1>2, FS_EmptySet
<1>3. CASE InFlight(p) # {}
  <2>1. PICK j \in Jobs : j \in InFlight(p)
    BY <1>3 DEF InFlight, JobsOf
  <2>2. InFlight(p) = {j}
    BY <1>1, <2>1 DEF InFlight, JobsOf, ParcelInv
  <2>3. Cardinality({j}) = 1
    BY FS_Singleton
  <2> QED
    BY <2>2, <2>3
<1> QED
  BY <1>2, <1>3

\* In one process no parcel ever has two jobs in flight, for any number of
\* parcels, failures and restarts: tick and FindParcelsNeedingSurvey.
THEOREM ParcelHasOneJob == OneProcess => (Spec => []OneJobPerParcel)
<1> SUFFICES ASSUME OneProcess PROVE Spec => []OneJobPerParcel
  OBVIOUS
<1>1. Init => ParcelInv
  BY DEF Init, ParcelInv
<1>2. IInv /\ ParcelInv /\ [Next]_vars => ParcelInv'
  BY ParcelInvKeeps
<1>3. IInv /\ ParcelInv => OneJobPerParcel
  BY OneRowOneJob
<1> QED
  BY <1>1, <1>2, <1>3, Invariance, PTL DEF Spec

-----------------------------------------------------------------------------
(* How a job can be lost before it is dispatched.                          *)

InHand(j) == \E s \in Processes : unsent[s] = j
OnBus(j) == \E i \in 1 .. Len(bus) : bus[i] = j
OnItsWay(j) == InHand(j) \/ OnBus(j) \/ dispatches[j] > 0

\* A job's row without a dispatcher, and without anybody who will start one, is
\* there only because the bus was full when its process published it, or
\* because the processes stopped.
LossHasItsCause ==
  [][\A j \in Jobs :
       j <= lastJob' /\ (j <= lastJob => OnItsWay(j))
       => \/ OnItsWay(j)'
          \/ InHand(j) /\ EB!BusFull
          \/ mishaps' # mishaps]_vars

LEMMA StepKeepsOrExplains ==
  ASSUME IInv, [Next]_vars, NEW j \in Jobs,
         j <= lastJob', j <= lastJob => OnItsWay(j)
  PROVE  OnItsWay(j)' \/ (InHand(j) /\ EB!BusFull) \/ mishaps' # mishaps
<1>1. /\ bus \in Seq(Events) /\ Len(bus) \in Nat /\ Len(bus) <= BusCapacity
      /\ unsent \in [Processes -> Jobs \cup {0}] /\ dispatches \in [Jobs -> Nat]
      /\ lastJob \in Nat /\ mishaps \in Nat /\ j \in Nat /\ j # 0
  BY SchedulerBoundsAssumption DEF IInv, TypeOK, Events, Jobs
<1>2. ASSUME j <= lastJob, UNCHANGED <<unsent, bus, dispatches>>
      PROVE  OnItsWay(j)'
  BY <1>2 DEF OnItsWay, InHand, OnBus
\* An event that is published leaves what is on the bus there.
<1>3. ASSUME j <= lastJob, NEW e \in Events, EB!Publish(e), UNCHANGED dispatches,
             \A s \in Processes : unsent[s] = j =>
               unsent'[s] = j \/ (e = j /\ ~EB!BusFull)
      PROVE  OnItsWay(j)'
  <2>1. /\ bus' \in Seq(Events) /\ Len(bus') \in Nat
        /\ \A i \in 1 .. Len(bus) : i \in 1 .. Len(bus') /\ bus'[i] = bus[i]
    BY <1>1, <1>3, PublishFacts
  <2>2. ~EB!BusFull => Len(bus) + 1 \in 1 .. Len(bus') /\ bus'[Len(bus) + 1] = e
    BY <1>1, <1>3 DEF EB!Publish
  <2>3. CASE InHand(j)
    BY <1>3, <2>2, <2>3 DEF OnItsWay, InHand, OnBus
  <2>4. CASE OnBus(j)
    BY <2>1, <2>4 DEF OnItsWay, OnBus
  <2> QED
    BY <1>3, <2>3, <2>4 DEF OnItsWay
<1>4. ASSUME NEW p \in Parcels, CreateParcel(p) \/ DeleteParcel(p)
      PROVE  OnItsWay(j)'
  <2>1. CASE CreateParcel(p)
    BY <1>3, <2>1 DEF CreateParcel, Events
  <2> QED
    BY <1>2, <1>4, <2>1 DEF DeleteParcel
<1>5. ASSUME NEW s \in Processes, Tick(s) \/ CreateJobFails(s)
      PROVE  OnItsWay(j)'
  BY <1>2, <1>5 DEF Tick, CreateJobFails
<1>6. ASSUME NEW s \in Processes, CreateJob(s)
      PROVE  OnItsWay(j)'
  <2>1. /\ unsent' = [unsent EXCEPT ![s] = lastJob + 1] /\ lastJob' = lastJob + 1
        /\ unsent[s] = 0 /\ UNCHANGED <<bus, dispatches>>
    BY <1>6 DEF CreateJob, CreateSurveyJob
  <2>2. CASE j = lastJob + 1
    BY <1>1, <2>1, <2>2 DEF OnItsWay, InHand
  <2>3. CASE j <= lastJob
    BY <1>1, <2>1, <2>3 DEF OnItsWay, InHand, OnBus
  <2> QED
    BY <1>1, <2>1, <2>2, <2>3
<1>7. ASSUME NEW s \in Processes, PublishJob(s)
      PROVE  OnItsWay(j)' \/ (InHand(j) /\ EB!BusFull)
  <2>1. /\ EB!Publish(unsent[s]) /\ unsent[s] \in Events
        /\ unsent' = [unsent EXCEPT ![s] = 0]
        /\ UNCHANGED <<lastJob, dispatches>>
    BY <1>1, <1>7 DEF PublishJob, Events
  <2>2. CASE unsent[s] = j /\ EB!BusFull
    BY <2>2 DEF InHand
  <2>3. CASE ~(unsent[s] = j /\ EB!BusFull)
    <3>1. \A t \in Processes : unsent[t] = j =>
            unsent'[t] = j \/ (unsent[s] = j /\ ~EB!BusFull)
      BY <1>1, <2>1, <2>3
    <3> QED
      BY <1>3, <2>1, <3>1
  <2> QED
    BY <2>2, <2>3
<1>8. CASE Deliver
  <2>1. PICK e \in Events :
          /\ EB!Take(e)
          /\ dispatches' = IF e = Registered THEN dispatches
                           ELSE [dispatches EXCEPT ![e] = @ + 1]
    BY <1>8 DEF Deliver, Events
  <2>2. Registered # j
    BY <1>1, RegisteredAssumption
  <2>3. bus # <<>> /\ e = bus[1] /\ Len(bus') = Len(bus) - 1
        /\ \A i \in 1 .. Len(bus') : bus'[i] = bus[i + 1]
    BY <1>1, <2>1 DEF EB!Take
  <2>4. UNCHANGED <<lastJob, unsent>>
    BY <1>8 DEF Deliver
  <2>5. CASE e = j
    BY <1>1, <2>1, <2>2, <2>5 DEF OnItsWay
  <2>6. CASE e # j
    <3>1. dispatches'[j] = dispatches[j]
      BY <1>1, <2>1, <2>6
    <3>2. CASE OnBus(j)
      <4>1. PICK i \in 1 .. Len(bus) : bus[i] = j
        BY <3>2 DEF OnBus
      <4>2. i # 1 /\ i - 1 \in 1 .. Len(bus') /\ bus'[i - 1] = j
        BY <1>1, <2>3, <2>6, <4>1
      <4> QED
        BY <4>2 DEF OnItsWay, OnBus
    <3> QED
      BY <2>4, <3>1, <3>2 DEF OnItsWay, InHand
  <2> QED
    BY <2>5, <2>6
<1>9. ASSUME NEW k \in Jobs, JobGoesOn(k)
      PROVE  OnItsWay(j)'
  BY <1>2, <1>9 DEF JobGoesOn
<1>10. CASE Crash
  BY <1>1, <1>10 DEF Crash, Mishap
<1>11. CASE UNCHANGED vars
  BY <1>2, <1>11 DEF vars
<1> QED
  BY <1>4, <1>5, <1>6, <1>7, <1>8, <1>9, <1>10, <1>11 DEF Next, Ticking

\* From its INSERT on a job is with the process that created it, on the bus, or
\* dispatched, unless the bus drops it or the processes stop: no other way to
\* lose one exists, for any number of processes and parcels.
THEOREM JobLossHasItsCause == Spec => LossHasItsCause
<1>1. IInv /\ [Next]_vars =>
        [\A j \in Jobs :
           j <= lastJob' /\ (j <= lastJob => OnItsWay(j))
           => \/ OnItsWay(j)'
              \/ InHand(j) /\ EB!BusFull
              \/ mishaps' # mishaps]_vars
  BY StepKeepsOrExplains
<1> QED
  BY <1>1, Invariance, PTL DEF Spec, LossHasItsCause
=============================================================================
