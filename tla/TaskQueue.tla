------------------------------ MODULE TaskQueue ------------------------------
(***************************************************************************)
(* The durable task queue of internal/platform/taskqueue.go: rows of the   *)
(* table task_queue, inserted by Enqueue, and the poll loop of every       *)
(* server process, which claims the oldest pending row that no other claim *)
(* has locked, runs the handler registered for its type, and records the   *)
(* outcome in a second UPDATE whose error nobody looks at.                 *)
(*                                                                         *)
(* Abstractions.  A task is its id, and ids stand for created_at; INSERTs  *)
(* that overlap may commit in another order, on which nothing here rests.  *)
(* A payload is a member of Bodies.  What a handler does is left to the    *)
(* module that composes this one (SurveyPipeline); here it returns nil or  *)
(* an error as it likes.  A worker is the one goroutine that runs Start in *)
(* a server process; an auto-scaled service has several.                   *)
(***************************************************************************)
EXTENDS Naturals, Failures

CONSTANTS
  Workers,     \* server processes, one poll loop each
  Bodies,      \* task types and payloads
  Unhandled,   \* the bodies no handler is registered for
  NoBody,      \* no such row yet
  MaxTasks     \* bound on the rows ever inserted

ASSUME BodiesAssumption == NoBody \notin Bodies /\ Unhandled \subseteq Bodies
ASSUME MaxTasksAssumption == MaxTasks \in Nat

Tasks == 1 .. MaxTasks

VARIABLES
  last,      \* id of the row inserted last
  body,      \* task_type and payload of each row
  status,    \* task_queue.status
  phase,     \* where each worker's poll is
  claimed,   \* the row the worker locks or has claimed, 0 when it is idle
  started,   \* history: how often each task's handler was started
  returned   \* history: what the handler last returned

queueVars == <<last, body, status, phase, claimed, started, returned>>

TaskStatuses == {"none", "pending", "processing", "completed", "failed"}
Outcomes == {"ok", "error"}
Phases == {"idle", "locking", "claimed", "handling"} \cup Outcomes

QueueInit ==
  /\ last = 0
  /\ body = [t \in Tasks |-> NoBody]
  /\ status = [t \in Tasks |-> "none"]
  /\ phase = [w \in Workers |-> "idle"]
  /\ claimed = [w \in Workers |-> 0]
  /\ started = [t \in Tasks |-> 0]
  /\ returned = [t \in Tasks |-> "none"]

\* The rows whose UPDATE by a claim is under way: locked, and still 'pending'
\* to everybody else.
Locked == {t \in Tasks : \E w \in Workers : phase[w] = "locking" /\ claimed[w] = t}

Pending == {t \in Tasks : status[t] = "pending"}

-----------------------------------------------------------------------------
\* Enqueue: one INSERT.  Bound: MaxTasks rows.
Enqueue(b) ==
  /\ last < MaxTasks
  /\ last' = last + 1
  /\ body' = [body EXCEPT ![last + 1] = b]
  /\ status' = [status EXCEPT ![last + 1] = "pending"]
  /\ UNCHANGED <<phase, claimed, started, returned>>

\* Mutant: the subquery lacks FOR UPDATE SKIP LOCKED; the second UPDATE waits
\* for the first and then claims the row again.
LockOldest_SeesLocked(w) ==
  \E t \in Pending :
    /\ phase[w] = "idle"
    /\ \A u \in Pending : t <= u
    /\ claimed' = [claimed EXCEPT ![w] = t]
    /\ phase' = [phase EXCEPT ![w] = "locking"]
    /\ UNCHANGED <<last, body, status, started, returned>>

\* poll: the subquery of the claim's UPDATE locks the oldest pending row,
\* skipping those that are locked; with none, poll returns.
LockOldest(w) ==
  \E t \in Pending \ Locked :
    /\ phase[w] = "idle"
    /\ \A u \in Pending \ Locked : t <= u
    /\ claimed' = [claimed EXCEPT ![w] = t]
    /\ phase' = [phase EXCEPT ![w] = "locking"]
    /\ UNCHANGED <<last, body, status, started, returned>>

\* The UPDATE commits and poll has the row.
Claim(w) ==
  /\ phase[w] = "locking"
  /\ status' = [status EXCEPT ![claimed[w]] = "processing"]
  /\ phase' = [phase EXCEPT ![w] = "claimed"]
  /\ UNCHANGED <<last, body, claimed, started, returned>>

\* What is left of the statements under way when nobody awaits them: those on
\* the rows of C had committed, the others are rolled back.
Settle(C) == status' = [t \in Tasks |-> IF t \in C THEN "processing" ELSE status[t]]

\* The UPDATE fails, or its answer is lost after the commit: poll returns.
ClaimFails(w) ==
  /\ Faults
  /\ phase[w] = "locking"
  /\ \E C \in SUBSET {claimed[w]} : Settle(C)
  /\ phase' = [phase EXCEPT ![w] = "idle"]
  /\ claimed' = [claimed EXCEPT ![w] = 0]
  /\ UNCHANGED <<last, body, started, returned>>

\* No handler is registered for the type: poll returns and the row stays
\* 'processing'.
NoHandler(w) ==
  /\ phase[w] = "claimed"
  /\ body[claimed[w]] \in Unhandled
  /\ phase' = [phase EXCEPT ![w] = "idle"]
  /\ claimed' = [claimed EXCEPT ![w] = 0]
  /\ UNCHANGED <<last, body, status, started, returned>>

\* The registered handler is called.
CallHandler(w) ==
  /\ phase[w] = "claimed"
  /\ body[claimed[w]] \notin Unhandled
  /\ phase' = [phase EXCEPT ![w] = "handling"]
  /\ started' = [started EXCEPT ![claimed[w]] = @ + 1]
  /\ UNCHANGED <<last, body, status, claimed, returned>>

\* The handler returns nil or an error.
HandlerReturns(w, outcome) ==
  /\ phase[w] = "handling"
  /\ phase' = [phase EXCEPT ![w] = outcome]
  /\ returned' = [returned EXCEPT ![claimed[w]] = outcome]
  /\ UNCHANGED <<last, body, status, claimed, started>>

\* Mutant: the branch for the error lacks its return, so that every task
\* ends 'completed'.
RecordOutcome_NoReturn(w) ==
  /\ phase[w] \in Outcomes
  /\ status' = [status EXCEPT ![claimed[w]] = "completed"]
  /\ phase' = [phase EXCEPT ![w] = "idle"]
  /\ claimed' = [claimed EXCEPT ![w] = 0]
  /\ UNCHANGED <<last, body, started, returned>>

\* The row is updated to 'completed' or 'failed'; poll returns.
RecordOutcome(w) ==
  /\ phase[w] \in Outcomes
  /\ status' = [status EXCEPT ![claimed[w]] =
                  IF phase[w] = "ok" THEN "completed" ELSE "failed"]
  /\ phase' = [phase EXCEPT ![w] = "idle"]
  /\ claimed' = [claimed EXCEPT ![w] = 0]
  /\ UNCHANGED <<last, body, started, returned>>

\* That UPDATE fails, and its error is ignored: the row stays 'processing'.
RecordOutcomeFails(w) ==
  /\ Faults
  /\ phase[w] \in Outcomes
  /\ phase' = [phase EXCEPT ![w] = "idle"]
  /\ claimed' = [claimed EXCEPT ![w] = 0]
  /\ UNCHANGED <<last, body, status, started, returned>>

\* The process stops and is started again; a shutdown has the same effect,
\* since the last UPDATE runs on the cancelled context.  No start-up code
\* looks for rows that are 'processing'.
WorkerCrash(w) ==
  /\ CanCrash
  /\ phase[w] # "idle"
  /\ \E C \in SUBSET (Locked \cap {claimed[w]}) : Settle(C)
  /\ phase' = [phase EXCEPT ![w] = "idle"]
  /\ claimed' = [claimed EXCEPT ![w] = 0]
  /\ UNCHANGED <<last, body, started, returned>>

\* One poll of worker w, without a crash.
Poll(w) ==
  \/ LockOldest(w) \/ Claim(w) \/ ClaimFails(w)
  \/ NoHandler(w) \/ CallHandler(w)
  \/ HandlerReturns(w, "ok")
  \/ Faults /\ HandlerReturns(w, "error")
  \/ RecordOutcome(w) \/ RecordOutcomeFails(w)

QueueNext ==
  \/ \E b \in Bodies : Enqueue(b)
  \/ \E w \in Workers : Poll(w) \/ WorkerCrash(w)

QueueSpec == QueueInit /\ [][QueueNext]_queueVars

\* Every ticker fires again and every call returns.
QueueFairSpec == QueueSpec /\ \A w \in Workers : WF_queueVars(Poll(w))

-----------------------------------------------------------------------------
(* Properties *)

\* The variables keep their types.
QueueTypeOK ==
  /\ last \in 0 .. MaxTasks
  /\ body \in [Tasks -> Bodies \cup {NoBody}]
  /\ status \in [Tasks -> TaskStatuses]
  /\ phase \in [Workers -> Phases]
  /\ claimed \in [Workers -> Tasks \cup {0}]
  /\ started \in [Tasks -> Nat]
  /\ returned \in [Tasks -> Outcomes \cup {"none"}]

\* Two processes never work on the same row, although each takes it from a
\* table they all poll and looks at it only once ("claim one pending task
\* atomically").
RowHasOneWorker ==
  \A w, v \in Workers : claimed[w] # 0 /\ claimed[w] = claimed[v] => w = v

\* However many processes poll the table, whatever fails and wherever they
\* stop, the handler of a task is started at most once: what a handler writes
\* is not written twice, and what a stop interrupts is not done again.
StartedAtMostOnce == \A t \in Tasks : started[t] <= 1

\* The row tells the truth about the handler: a row nobody claimed has seen
\* no handler, and 'completed' and 'failed' are what the handler returned,
\* even when workers end their polls in another order than they claimed.
StatusIsTruthful ==
  \A t \in Tasks :
    /\ status[t] = "completed" => returned[t] = "ok"
    /\ status[t] = "failed" => returned[t] = "error"
    /\ status[t] \in {"none", "pending"} => started[t] = 0

\* What the architecture document promises ("At-least-once delivery", a failed
\* task "will be retried"): a task whose handler failed, or whose worker is
\* gone, is tried again.
Abandoned(t) ==
  \/ status[t] = "failed"
  \/ status[t] = "processing" /\ \A w \in Workers : claimed[w] # t

AbandonedTaskIsRetried ==
  \A t \in Tasks : Abandoned(t) ~> status[t] \in {"pending", "completed"}
=============================================================================
