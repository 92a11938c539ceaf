# TerraScore in TLA+

TerraScore (LandIntel) sends field agents to land parcels.  Owners register
parcels; a scheduler turns each parcel into a survey job; a dispatcher offers
the job to one nearby agent after another; the agent surveys the parcel, often
without a network; the survey is scored, reported and announced to the owner.
The server is one Go process (`cmd/server`) over PostgreSQL, Redis and S3; the
agents have a React Native app, the owners a web front end.

This directory holds TLA+ models of the parts of it that are concurrent or can
fail half-way, TLC configurations that check them on small instances, and
proofs that TLAPS checks for every size.  `PROJECT.json` maps every definition
to the lines of source it stands for.  Paths below are relative to the
repository.

    tlc -workers 2 -config DispatchFaults.cfg MCDispatch.tla
    tlapm Dispatch_proofs.tla

## The system

| part | state | operations | who it talks to |
| --- | --- | --- | --- |
| **Land** `internal/land` | rows of `parcels` | create, update, delete a parcel; validate its boundary | publishes `parcel.registered` |
| **Job scheduler** `internal/job/scheduler.go` | none of its own; reads `parcels` and `survey_jobs` | every hour: a job for each parcel without one, at most 100 | publishes `job.created` |
| **Event bus** `internal/platform/eventbus.go` | a Go channel of 1000 events | `Publish` (drops when full), a loop that starts a goroutine per handler | scheduler, land, job handlers, subscribers of `main.go` |
| **Cascade dispatcher** `internal/job/dispatcher.go` | a goroutine per job; rows of `job_offers` and `survey_jobs` | rank candidates, offer, wait 30 minutes, assign or go on; 3 rounds of 5 | Redis pub/sub, matcher |
| **Matcher** `internal/job/matcher.go` | none | candidates around a point by radius, load, tier and score | the dispatcher |
| **Job handlers** `internal/job/handler.go` | rows of `job_offers`, `survey_jobs`, `survey_media`, `survey_responses` | accept, decline, arrive, presigned URL, record media, submit survey | publish answers to Redis and `survey.submitted` to the bus |
| **Task queue** `internal/platform/taskqueue.go` | rows of `task_queue` | `Enqueue`; a poll loop per process | its three handlers |
| **QA, report, notification** `internal/qa`, `report`, `notification` | `qa_status`/`qa_score` of the job, S3 objects, rows of `reports` and `alerts` | one task handler each; each enqueues the next task | the task queue, S3 |
| **Mobile app, offline** `mobile/services/sync.ts`, `db.ts`, `mobile/app/job/[id]/survey.tsx` | SQLite: `upload_queue`, `survey_draft`; memory: the survey, the flag `syncing` | take photos, submit, save offline, `runSync` | the job handlers over HTTP |
| **Offer feed** `mobile/hooks/useJobOffers.ts` | the socket, reconnect timers, the poll, the list on the screen | connect, fetch on a push, poll without a socket | WebSocket, `GET /v1/agents/me/offers` |
| **WebSocket** `internal/ws` | a handler and two pumps per connection | forward the agent's Redis channel | Redis, the dispatcher's publishes |
| **Mobile API client** `mobile/services/api.ts`, `stores/authStore.ts` | tokens in SecureStore, `isRefreshing`, `failedQueue` | attach the token, refresh a refused one once for all waiting calls, log in and out | auth |
| **Auth and registration** `internal/auth`, `agent/service.go` `Register` | accounts in Keycloak, rows of `users` and `agents`, one-time codes in Redis, a cache of signing keys | register a landowner or an agent, log in, verify a code, refresh, check a bearer token and its role | Keycloak, Redis, PostgreSQL |
| **Agents** `internal/agent` | last locations in Redis with a time to live, `agents.last_location`, `is_online` | profile, availability, location, a flusher every 5 minutes | Redis, PostgreSQL, read by the matcher |
| **Billing, web, HTTP helpers, infra** | none, or presentation | | |

What makes it hard:

* *Nothing spans two writes.*  The handlers read a row, check it, and later
  write by id.  Offer, answer and assignment are three statements of two
  processes and a Redis message in between; survey, event, task, verdict,
  report and alert are six writes to three stores.
* *Channels lose things.*  Redis pub/sub drops what nobody listens to; the bus
  drops when full and is lost in a restart; publish and UPDATE errors are
  often ignored or only logged.
* *Several processes may run.*  docs/TechnicalArchitecture.md:454 draws an
  "auto-scaled" monolith, and every process polls the task table and ticks
  the scheduler.
* *Restarts are routine.*  `infra/deploy/update.sh` rebuilds and restarts the
  server when the branch moves.  No goroutine is resumed.
* *Clients repeat themselves.*  Double taps, HTTP retries, and the offline
  sync running beside the survey screen.

What must hold, part by part: a job goes to at most one agent, who accepted it,
and every cascade ends (dispatcher); no parcel has two jobs in flight, every
active parcel gets one (scheduler); a job's status claims no more than its rows
show (job handlers); two processes never work on one task, its row does not lie,
and a task that failed is tried again (task queue); a survey is scored, reported
and announced in this order and each once, one that passed is reported at all
(pipeline); nothing saved on the phone is lost, no photo is uploaded by two
syncs at once, and every sync ends (mobile); a phone number is one account whose
roles follow its row, and a code that is used up, replaced or expired is no good
(auth); nobody is matched on a position that is too old, and who reports is in
the pool (agents); the better agent is asked first, nobody who could do the job
is overlooked, and only a survey with evidence passes (matcher, QA); the feed
never goes quiet and shows what is pending (offer feed); calls that are refused
together share one refresh, and none of them waits for one that is over (API
client).  Two of these the code does not keep: see *Disagreements*.

## The modules

| module | models | composes |
| --- | --- | --- |
| `JobAllocation` | what dispatching promises: open, then handed once to a willing agent or given up | |
| `Dispatch` | the dispatcher goroutines with the accept and decline handlers, Redis, crash; of the assignee's requests what they do to the job's status | implements `JobAllocation` |
| `EventBus` | the bounded channel that drops | |
| `Scheduler` | parcels, ticks, `job.created`, the start of a cascade | `EventBus` |
| `Failures` | the switches for failing calls and for stops, shared by the next two | |
| `JobLifecycle` | `Arrive` and `SubmitSurvey` of overlapping requests | `EventBus` |
| `TaskQueue` | the task table and the poll loops | |
| `SurveyFollowUp` | what the back half promises: received, scored, reported, notified | |
| `SurveyPipeline` | from `SubmitSurvey` to the alert: subscriber and three task handlers | `JobLifecycle` (with its bus), `TaskQueue`; implements `SurveyFollowUp` |
| `MobileSync` | the survey screen and `runSync` over SQLite and the server | |
| `KeycloakClient` | the identity server's realm and keys, and the client's key cache | |
| `Accounts` | both registrations, login, verification, refresh, the checks of a bearer token | `KeycloakClient` |
| `AgentPresence` | locations in Redis, the flusher, the pool of matchable agents | |
| `OfferFeed` | `useJobOffers`, `ServeWS` with its pumps, the offers endpoint | |
| `ApiClient` | the axios instance with its interceptors and the shared refresh, login and logout | |
| `Matcher` | the expansion, the query, the filter and the ranking, as operators | |
| `QAScoring` | the five checks, the weighted sum and the verdict, as operators | |
| `Decisions` | every call of the two, one per behaviour | `Matcher`, `QAScoring` |
| `Dispatch_proofs`, `Scheduler_proofs`, `MobileSync_proofs`, `Accounts_proofs`, `OfferFeed_proofs`, `ApiClient_proofs` | theorems about the module of that name | |
| `SurveyPipeline_proofs` | theorems about `JobLifecycle`, `TaskQueue` and `SurveyPipeline` | |
| `Decisions_proofs` | theorems about `AgentPresence`, and about `Matcher` and `QAScoring` through `Decisions` | |
| `MC*` | instances for TLC, symmetry | |

The seams between the modules are rows and messages: `Scheduler` ends where
`Dispatch` begins (a goroutine for a `pending_assignment` job), `Dispatch` ends
where `JobLifecycle` begins (an assigned job; `Dispatch` keeps of `Arrive` and
`SubmitSurvey` the status they write), and `SurveyPipeline` takes
`JobLifecycle` and `TaskQueue` whole: it extends both, and each of its steps is
a step of one, of both, or leaves their variables alone.  `Dispatch` takes what
`Matcher` may answer as any candidate list; `AgentPresence` says who is in the
pool `Matcher` ranks; `SurveyPipeline` takes any verdict where `QAScoring` says
which; `OfferFeed` takes the offers `Dispatch` inserts and publishes as given;
`MobileSync` calls the endpoints of `JobLifecycle`.  Definitions called
`Action_WhatIsWrong`, with a comment "Mutant", are plausible bugs of the action
that follows them.  No specification uses them; each is there to show that a
property fails when the code is changed so.

### How state and actions correspond to the code

**Dispatch.**  `pc[j]` is the line at which the goroutine of job `j` is in
`dispatchJob`/`waitForResponse`; `queue`, `excluded`, `current`, `sent` are its
locals; `heard` is the first message in its subscription, and is only set while
`pc` is `"wait"`, which is how Redis loses an answer.  `offers`, `jobStatus`,
`assignee`, `offersSent` are columns.  `requests` holds the accept and decline
requests between their read, their write and their publish.  `Timeout` leaves
the offer `'sent'`: the UPDATE to `'expired'` runs on the context whose
deadline has just passed (`dispatcher.go:207`).  `arriving` are the jobs with an
`Arrive` between its check and its UPDATE (`handler.go:350`), which may put
`agent_on_site` over `survey_submitted`; `JobAllocation` promises of an assigned
job only that it stays with its agent, not that its status never goes back.  The ranking is data: `Match`
proposes any set of agents that is not excluded and below the load limit.

**Scheduler.**  `Tick` is the query with its LIMIT, `CreateJob` and
`PublishJob` the loop body, one step per statement; `todo` is the list the
query returned.  `JobGoesOn` stands for everything later; it never writes
`completed` or `cancelled` because no code does.

**JobLifecycle.**  `LoadArrive`/`RecordArrival` and
`LoadSubmit`/`InsertResponse`/`WriteSubmitted`/`PublishSubmitted` are the
statements of the two handlers; what a handler has read lives in `arriving` and
`step`.  A request that a check rejects changes nothing and is left out.

**TaskQueue.**  `phase[w]` is where the poll of process `w` is.  The claim is
one UPDATE in two steps: `LockOldest` is its sub-select with `FOR UPDATE SKIP
LOCKED`, `Claim` its commit, and `ClaimFails` or `WorkerCrash` between the two
may roll it back.  `RecordOutcome` is the second UPDATE.  What the handler does
is left to the composing module.

**SurveyPipeline.**  `at[w]` is where the running handler is; each database
write, upload and enqueue of the three handlers is one action.  The requests,
the bus and the poll loops are the actions of `JobLifecycle` and `TaskQueue`;
a stop (`Crash`) is both of theirs at once.

**MobileSync.**  Both programs run on one JavaScript thread, so an action runs
from one `await` to the next.  `screen` is the survey screen, `phase[y]` the
position of one call of `runSync`; `row`, `retries`, `draft` are SQLite;
`recorded`, `received` the server.  Drafts are told apart by their version, so
that a newer draft does not count as sent because an older one was.  `Kill`
loses the memory and keeps SQLite.

**Accounts.**  A request is a row of `at` and `input`: `at[r]` is the call it
makes next, to Keycloak, Redis or PostgreSQL.  Every call may fail; one to
Keycloak may fail after it took effect.  `CreateAccount`, `AssignRole`,
`InsertRow`, `SendOTP` are the four calls of both registrations;
`CompareCode`, `ConsumeCode`, `FindRow`, `SetPassword`, `GrantToken` those of
`VerifyOTP`; `ValidateToken`, `FetchJWKS`, `ApplyJWKS`, `LookAgain`,
`RequireRole` the middleware.  `certs[r]` is what a refresh was answered with
and has not applied yet.  `stale[r]` is history: the code was not the stored one
when the request was sent.

**AgentPresence.**  Ages instead of a clock: `reading[a]` is the age of the key
in Redis, `located[a]` of `last_location_at`, `taken[a]` of the position in the
row, which is older.  A flush takes the keys that are there (`StartFlush`) and
reads and writes one after another (`FlushKey`), by which time a key may have
expired.  `steady` counts how long an agent has reported without a gap.

**OfferFeed.**  One slot of `Conns` is one connection with both its ends:
`handler`, `reading`, `done`, `outbox` the server's, `cur`, `opened` the
hook's.  `timers` and `awaiting` are `connectWS` calls to come, which `ConnectWS`
or, without a token, `NoToken` ends; `asked` and `answer` are fetches in flight,
and an older answer may overwrite a newer one.  `hijackable` says which `ResponseWriter` the
handler gets: `cmd/server` installs `platform.Logging`, whose wrapper has
neither `Hijack` nor `Unwrap` (`middleware.go:38`), so every upgrade fails and
the app lives from its poll; with a writer that can be hijacked it behaves as
designed.  The run takes both.

**ApiClient.**  `place[c]` is the await a call is at, on its own way or, for
the one that refreshes, in `doRefresh`.  `AttachToken` is the request
interceptor, `Unauthorized` the response interceptor on a 401; `Resume` and
`GiveUp` are the four lines behind `await doRefresh()` with `processQueue`,
which no other callback can split.  A token is a number, and one that nobody
holds any more stands for the next new token (`Issue`): refreshes never run
out.  `fresh[c]` is a token that `c` was answered with and has still to store,
which takes two writes.  `refused[c]` is history.

**Decisions.**  An operator that the code could answer in several ways (ties in
the sort, floats at a threshold, the random flag) is the set of its answers,
and the properties quantify over it.  Distances are in metres, and a query whose
rows do not all scan (`Scans`: a whole number of kilometres) has no answer: the
match fails, as `matcher.go:83` does, which `Decisions` records as `Failed`.

## The runs

Passing runs.  Each property of each of them has been seen to fail on a mutant
of the code, named in `PROJECT.json`.  The type invariants are proved (below)
and are in no run; to have TLC check one, add it to the `INVARIANTS` of its
configuration.

| run | instance | what it shows |
| --- | --- | --- |
| `dispatch_faults` | 1 job, 2 agents, 2 rounds of 2, faults, crash | one cascade against racing accepts and declines: at most one pending offer, only a willing agent is assigned, no refused agent asked again, assignment final, refinement of `JobAllocation`; and the cascade ends |
| `pipeline_faults` | 1 job, an arrival, 2 surveys, 1 process, bus of 1 with other traffic, faults, restarts | status and events are backed by rows, task rows truthful, each stage at most once and in order (refinement of `SurveyFollowUp`), reports complete, one task of a kind per survey |
| `pipeline_live` | 1 job, 2 surveys, 2 processes, no faults, room on the bus | two processes never work on one row; every survey that passed QA is reported to the owner |
| `scheduler_faults` | 3 parcels, LIMIT 2, bus of 2, two failures or restarts | one job in flight per parcel, one cascade per job, every active parcel gets a job |
| `mobile_sync_faults` | 2 surveys, 2 photos, 2 checklist steps, 2 sync triggers, faults, kills | no row leaves the queue without the server's record, no draft is deleted before a POST of it, or of the one it replaced, was accepted; no photo is uploaded by two at once, every sync ends |
| `accounts_faults` | 2 requests at a time, a new and a registered phone, 2 keys, 2 codes, any call fails, rotation, restarts | one account per phone, no role beyond the row's, a fetched key is found, no code passes that was not the stored one when it was sent |
| `agent_presence` | 2 agents, TTL 2, interval 2, window 4, failing flushes, restarts | no match on a position of TTL + window or older; an agent that reports is matchable |
| `offer_feed` | 1 offer, 2 connections, 2 fetches, 1 fault, both writers | the feed never loses both socket and poll, and its next connection only to a failing read of the token; the server lets go of dead sockets, a pending offer is shown while no socket is open, a pushed one while its socket stays up |
| `api_client` | 2 calls and a login, 2 tokens held at a time, any number of refreshes, any storage access throws, 401 at will, logouts, kills | one refresh at a time, no waiter without one, no last try with a refused token; if refreshes are answered, who waits is released, and a call settles unless it is made to wait again and again |
| `decisions` | every pool of 3 agents of 40 kinds, every survey of up to 5 photos with at most one failing query | of a match that succeeds: the better agent first, and no eligible agent overlooked; one more good photo never hurts, only a survey with a response and located photos passes |

### Disagreements

Two runs are expected to fail: each states what a document of the repository
says, and TLC finds the behaviour of the code that contradicts it.

| run | what the document says | what the code does |
| --- | --- | --- |
| `task_queue_retry` (2 processes, 2 tasks, one of an unregistered type, faults, stops) | TechnicalArchitecture.md:343 "At-least-once delivery", 392 a failed task "will be retried" | only `'pending'` rows are claimed and nothing sets a row back: a task is started at most once (`HandledAtMostOnce`), and one that failed or whose process stopped stays so |
| `mobile_sync_loss` (as `mobile_sync_faults`) | Implementation.md:830-832 the background sync "uploads all data", "nothing is lost" | a photo that was `'uploading'` when the app was killed is never found again (`db.ts:97`, the shortest counterexample); two failed uploads use up three retries (`db.ts:113`); a survey saved while an older one is being posted is deleted with it (`sync.ts:127`) |

### Bounds, and why they are enough

* *Dispatch*: three requests in flight are one more than a race needs; a second
  round needs an offer left over from the first; two agents are the least for
  an answer that comes for the wrong candidate; one candidate can be skipped,
  declined, timed out or accepted in each.  Jobs only meet in the load limit, about which nothing is stated; the theorems hold for any
  number of jobs.  Fairness runs use no symmetry.
* *TaskQueue*: two processes are the least for a locked row, two tasks for one
  that is claimed before an older one whose claim is rolled back.
* *SurveyPipeline*: two surveys of one job (a double submission) share `verdict`
  and the S3 key, and race one arrival.  The theorems about `JobLifecycle` hold
  for any number of jobs and agents.  One process when processes crash, because a `Crash` stops
  all of them; two in the fault-free run.
* *Scheduler*: three parcels and LIMIT 2 make a tick leave one out.
  `MaxMishaps` = 2 is enough for a tick whose job is inserted and never
  announced, and another that fails; `MaxJobs` = 3 is one for each parcel,
  since no parcel gets two.
* *MobileSync*: two photos let one be uploaded and the other fail; two sync
  triggers are a reconnect and a return to the foreground; the second opening
  of the screen is the survey done again after a draft was saved.  A photo is
  tried until its retries are used up, so no bound is needed there.
  `recorded` counts up to 2.
* *Accounts*: two requests are the least that overlap, and a request leaves
  nothing but rows behind, so that a third finds what two have left.  One phone
  is new, the other has its row, its code used up and a token.  Two codes make
  an old and a new one; two keys one rotation.
* *AgentPresence*: a unit is 2.5 minutes, so the code's 5, 5 and 10 minutes are
  2, 2 and 4; a second agent is what a flush fails or goes on with.
* *OfferFeed*: a slot for the current socket and one for a socket that one of
  the two ends has not given up; two fetches are in flight at a time, so that an
  older answer may come after a newer one, and the poll leaves one to a push;
  one fault is a restart, a failed fetch or a failed read of the token.
* *ApiClient*: three calls are one that refreshes, one that waits and one that
  stores a login's tokens meanwhile, and a login may be each of the three.  Two
  tokens are held at a time, by the storage and a header, or by the storage and
  a refresh or login that is about to store a new one; each leaves again, so
  that the number of refreshes has no bound.  The theorems have none at all.
* *Decisions*: the distances lie on and between the three radii (25, 50 and
  100 km), and one of them is no whole number of kilometres; the loads on both sides of 3; spans, walks and counts
  on both sides of every `switch` of the checks.

Deadlock is checked in `accounts_faults`, `agent_presence`, `offer_feed` and
`api_client`.
Elsewhere it is off: a finished cascade, an empty queue, an evaluated decision
and a phone without surveys are meant to stop.

### Fairness

Only what runs by itself is fair, and only weakly.  A cascade goroutine is run
by Go, and its wait ends by the 30-minute timer, so `CascadeEnds` needs no
agent to answer.  The poll loops and ticks are `time.Ticker` loops; the bus is
a loop over a channel; a request or a subscriber's goroutine that has begun
goes on.  A call of `runSync` goes on because every await returns, if only with
an error.  Nothing is assumed of agents, owners, the network, failures, or
when a sync starts.  `ParcelGetsJob` and `PassedSurveyIsReported` could not hold
if every call failed for ever: the first is checked with finitely many mishaps,
the second where nothing fails.

In `OfferFeed` each goroutine of the server, each timer, each promise and each
fetch of the hook has its own weak fairness.  A write to a lost link
(`WriteFails`) and the return to the foreground have none: the server must let
go because its read deadline passes, not because a ping happens to fail.
Weak fairness on `ServeWS(c)` as a whole is enough, since at every place
exactly one of its steps goes on, or refuses.

In `ApiClient` a call that can go on does: SecureStore returns or throws, and
the instance has a timeout of 15 s.  The POST of the refresh has neither: it is
plain axios (`api.ts:66`).  It has no fairness, and `WaitersAreReleased` has the
premise that every refresh is answered; without it all later refused calls wait.
It does not say that every call settles, which is false: a call that waited is
not marked `_retry` (`api.ts:88`; only the refreshing one is, at 100), so while
the server answers 401 it may be woken, refused during another call's refresh,
and queued again for ever.  TLC finds that behaviour when it is asked for
`[]<>(place[c] = "idle")`.

`task_queue_retry` is fair to the polls, and to the handlers, which return.

## What is proved

TLAPS checks, for every number of jobs, agents, rounds, candidates, requests,
surveys, photos, processes, tasks, parcels, phones, keys, connections, calls and
tokens, with and without faults, every invariant a passing run checks, its
action properties and the two refinements:

* `Dispatch_proofs`: `TypeCorrect`, `OnlyWillingAgents` (`AssignedAgreed`),
  `PendingOfferUnique` (`AtMostOnePendingOffer`), `RefusalIsFinal`
  (`RefusedNotReoffered`), `AssignmentFinal` (`AssignmentIsFinal`),
  `DispatchImplementsAllocation` (`ImplementsJobAllocation`),
  `OffersAreCounted`, `CascadeOnlyFurther` and, for finitely many agents,
  `OffersAreBounded`.
* `SurveyPipeline_proofs`, about `TaskQueue`: `QueueTypeCorrect`,
  `HandledAtMostOnce` (`StartedAtMostOnce`), `RowsTellTheTruth`
  (`StatusIsTruthful`), `RowsAreNotShared` (`RowHasOneWorker`); about `JobLifecycle`:
  `LifecycleTypeCorrect`, `StatusIsBacked` (`StatusHasItsCause`),
  `EventIsBacked` (`EventHasResponse`), `ResponsesAreTheAssignees`
  (`OnlyAssigneeResponds`); about the pipeline: `TypeCorrect`,
  `TasksAreNotDoubled` (`OneTaskOfEachKind`), `ReportsAreComplete`
  (`ReportIsComplete`), `PipelineImplementsFollowUp`
  (`ImplementsSurveyFollowUp`) and, under `LossFree`, `NoSurveyIsDropped`.
* `Scheduler_proofs`: `SchedulerTypeCorrect`, `JobDispatchedOnce`
  (`DispatchedOnce`, for any number of processes), `ParcelHasOneJob`
  (`OneJobPerParcel`, for one process) and `JobLossHasItsCause`.
* `Accounts_proofs`: `AccountsTypeCorrect`, `PhoneHasOneAccount`
  (`OneAccountPerPhone`), `RowGivesRoles` (`RolesFollowRow`), `KeysStay`
  (`FetchedKeysStay`), `StaleCodesAreRefused` (`StaleCodeIsRefused`).
* `MobileSync_proofs`: `MobileTypeCorrect`, `PhotosAreKept` (`SavedMediaKept`),
  `UploadsDoNotOverlap` (`OneUploadAtATime`), `DraftsAreSentFirst`
  (`DraftDeletedAfterSend`), `FlagIsLowered`.
* `Decisions_proofs`, about `AgentPresence`: `PresenceTypeCorrect`,
  `MatchedPositionIsRecent` (`PositionIsRecent`), `ReporterInPool`
  (`ReporterIsMatchable`); about `Decisions`: `BetterAgentsFirst`
  (`BetterAgentFirst`), `NobodyOverlooked` (`NobodyIsOverlooked`),
  `EverySurveyGetsAVerdict`, `PassingTakesEvidence` (`PassedHasEvidence`), `EvidenceHelps` (`MoreEvidenceNeverHurts`).
* `OfferFeed_proofs`: `FeedTypeCorrect`, `FeedAlive` (`FeedStaysAlive`).
* `ApiClient_proofs`: `ClientTypeCorrect`, `RefreshIsShared`
  (`WaitersHaveTheirRefresh`), `RetryHasNewToken` (`LastTryHasNewToken`).

The assumptions are the named `ASSUME`s of the modules: `NoAgent`, `NoJob`,
`NoBody`, `NoConn` and the other bus event are nobody's name, the bounds are
numbers, the switches Booleans, Keycloak has its first key and the two roles;
a location lives longer than one unit of time and the flusher runs more often
than the window is long.  None excludes a failure.  Three more are used in one
place only.  `ChainAssumption` says what `main.go` registers: the tasks are of
the three kinds, each with its handler, and the table has room for all; the
theorems about `TaskQueue` and `JobLifecycle` do not use it.  `PoolAssumption`:
the pool is finite, distances and merits are whole numbers.  `WholeAssumption`
and `MediaAssumption`: a full score has so many parts that a tenth of it and the
share of a photo are whole (60 parts do for six photos; the code has floats).

*Dispatch.*  None of the properties is inductive.  The invariant `IInv` has four
parts.  `TypeInv` adds to `TypeOK` that a goroutine past `CreateOffer` has a
candidate.  `AgreeInv` follows an acceptance on its way: a publish in flight, an
answer heard and an answer acted upon each come from an agent who accepted.
`RowInv` is why one pending offer is all there is: candidates to be tried are
not excluded and have no row in this round, coming rounds have no rows, a row
whose answer is being published is no longer `'sent'`, and a row still `'sent'`
is the one being waited for or belongs to an agent excluded for good.
`StatusInv` ties the job's row to the goroutine, and to the requests of the
assignee that are on their way.  The action properties and the
refinement follow from `IInv` and one step.

`OffersAreCounted` says that the number `AssignAgent` stores is that of the rows:
`CreateOffer` never meets a row it made before (`QueueFresh`).  `BudgetInv` bounds
both: offers sent and candidates waiting are within the lists of the rounds
begun.  `CascadeOnlyFurther` is the half of `CascadeEnds` that needs no fairness:
each step of a goroutine takes it to a later round, to a later stage of the
round, to a shorter list or further with its candidate, and rounds and lists are
finite.

*TaskQueue.*  `WorkerInv` says what a worker in a poll holds: a row that it has
locked and that is still `'pending'`, or one that it has claimed and that is
`'processing'`, started once if the handler runs, returned what its phase says;
and no other worker holds it.  `RowInv` says that a row not claimed has seen no
handler.  `QueueIInv` joins both to the types and two of the properties.
`HandledAtMostOnce` is the other side of the disagreement above.

*JobLifecycle.*  Nothing locks what a handler has read, and yet it stays true:
`JobInv` says that the assignee is written once, before any request of an agent
is let through; `RequestInv` that a request that was let through is the
assignee's and never forgets the row it inserted; `BusInv` that an event
follows its row.

*SurveyPipeline.*  No handler asks whether its work was done before, and no
constraint of the tables would refuse a second row.  What keeps results from
being doubled is a chain: a handler is started once for a task (`TaskQueue`),
and a task is inserted once.  `EventInv` says why for the first task: a survey
is in one place only between its request and its task, as the request, as one
event on the bus, or as one subscriber's goroutine.  `HandlerInv` says what a
running handler is about, `TaskInv` that a later task exists only when the one
handler that inserts it is past doing so, `WrittenOnce` that a verdict, report
or alert is there only when its handler is past writing it, and `CauseInv` that
what the next link relies on is there.  Together with `FieldIInv` and
`QueueIInv` this is `IInv`.  `OneTaskOfEachKind` and `ReportIsComplete` follow
from it, and `StepIsFollowUp` shows with it that each step moves one survey one
stage on or none at all.

`NoSurveyIsDropped` is the safety half of `PassedSurveyIsReported`: a stored
survey has its alert, or is in a request, on the bus, with a subscriber, or in a
task that is *alive*, whose handler has not come to its return.  It speaks of
every survey, since the code reports those that failed too (below).  It assumes
`LossFree`, what the run of the liveness property assumes too: no faults, no
crash, no other traffic, and a bus with room for the events of all surveys.
With less room it is false, since a full bus drops the event (`bus.go`).  Room
is enough because a survey has one event at most (`RoomOnBus`); a live task
stays alive until its handler has inserted the next or written the alert.

*MobileSync.*  `FlagInv`: only one call of `runSync` is past the flag, which is
raised in the step that tests it; `OneUploadAtATime` follows with `HandInv`, what
a call has in hand at each of its awaits.  `MediaInv`: what is marked next is on
the server already, and nothing takes it from there.  `DraftInv`: the draft that
is deleted next was read before, has been accepted since, and may have been
replaced by a newer one, never by an older.  `RetryInv` bounds the retries, although the photo in hand was read
before they were counted.  `FlagIsLowered`: a flag that is up has a call past its
start, so that no way out of a call stops the syncs that follow.

*Scheduler.*  A job is in one place at a time.  `UnsentInv`: what a process has
still to announce is nowhere else; `BusInv`: what is on the bus is there once
and not dispatched; `RowInv`: rows beyond the last have seen nothing.  With one
process `ParcelInv` adds that a parcel has one row at most and that what a
tick has found and not handled has none; it fails with two, which is the
hazard named below.  `JobLossHasItsCause` names the two ways in which a row is
left without anybody to dispatch it: the bus is full when its process publishes
it, or the processes stop.  There is no third, and nothing repairs either.

*Accounts.*  No constraint of the database spans `users` and `agents`.
`CreatingInv` says why a phone has one row all the same: a registration between
account and row *owns* its phone, because Keycloak answered 201 to it alone,
and its input gives the role.  `InputInv`, `PasswordInv` and `TokenInv` follow a
request from the code to the token.  `StaleInv`: codes are only ever replaced by
newer ones, so that one that is stale when it is sent stays so.

*AgentPresence.*  `AgeInv`: row and position age together and never drift apart
by more than TTL; `ReadingInv` and `FlushInv`: an agent that reports without a
gap has a key whenever a flush looks, and its row is younger than the time
since the flush began.

*OfferFeed.*  `FeedStaysAlive` is a property of steps and needs the types only:
`onclose` alone leaves the hook without a socket, and it starts the poll and a
timer; a timer or a return to the foreground that finds no token (`NoToken`)
takes the next connection with it, never the socket or the poll.

*ApiClient.*  `NewTokenInv`: a token that is not stored is known to the call that
carries it alone, because the server issues one nobody holds (`IssueNew`).
`RetryInv`: so what is in the storage when a refresh is over, whoever wrote it
last, was not refused to the call that is sent again.

*Decisions.*  A behaviour is one call, so that `AnswerInv` only says that the
answer is one of those the operators give; the rest is arithmetic.  A list is of
one round, and no round before it had an eligible agent (`FoundInRound`): with a
pool that fits into the LIMIT a query hides nobody.  A nearer agent scores more
(`BetterScoresMore`) because what a query returned has been scanned, so that
two distances that differ do so by whole kilometres, and because each radius
divides 400.  For the verdict, one more located photo lowers none of
the five checks (`MorePhotosScoreMore`), and without a response the other three
are too little for a pass (`WeightsMissed`).

Model-checked only: the liveness properties, one of each of `Dispatch`,
`SurveyPipeline`, `Scheduler`, `MobileSync`, `ApiClient` and three of `OfferFeed`.
They rest on fairness and `ENABLED`, beyond the prover.  What they need of safety
is proved for some: `CascadeOnlyFurther`, `NoSurveyIsDropped`, `FlagIsLowered`,
`RefreshIsShared`, `FeedAlive`.  The theorems that name no property of a run were
checked by TLC on the instances of the runs before they were proved
(`SurveyGoesOn` on three surveys; with room for two on the bus it fails).

## What the models showed beyond the runs

Met while reading and modelling; the models contain the behaviour, and no run
is spent on it.

* A pending offer's expiry fails on the expired context (`dispatcher.go:207`).
* An answer published between the offer's INSERT and the subscription is lost
  (`dispatcher.go:194`, `handler.go:104`); the agent is told 200.
* Accept and decline of one offer may both pass the check and overwrite each
  other (`handler.go:97`).
* The load limit is checked when ranking, not when assigning
  (`matcher.go:132`), so two cascades can exceed it.
* After a failed `AssignAgent` (`dispatcher.go:148`) the job may be offered to
  the agent who already accepted.
* An offer that times out stays `'sent'` (`dispatcher.go:207`), is accepted with
  a 200 after the cascade gave up, and nobody is assigned;
  TechnicalArchitecture.md:1656 says an accept does "Update job:
  assigned_agent_id, status = assigned".
* A slow `Arrive` turns `survey_submitted` back into `agent_on_site`
  (`handler.go:350`; TechnicalArchitecture.md:1669 says "enforced transitions").
  `Dispatch` and `JobLifecycle` have the step; `StatusHasItsCause` asks of a
  status that it has a cause, and the order of statuses is promised by neither.
* No statement writes the status that would release a parcel, so it is never
  visited again (`parcels.sql:23`; Implementation.md:704 says "Subsequent visits
  auto-scheduled").
* A report is made of every survey, whatever its verdict (`qa/service.go:138`):
  the documents say "Report generation (after QA pass)"
  (TechnicalArchitecture.md:419), that a flagged survey goes to a human and a
  rejected one is surveyed again (TechnicalArchitecture.md:1839-1841), and "If
  automated QA passes" (Implementation.md:307).  The run states what both agree
  on, that a passed one is reported.  When the enqueue fails, a passed one is
  not reported either.
* A survey is accepted without an arrival (`handler.go:527`; Implementation.md:285)
  and twice for one job (`handler.go:557`).
* The bus drops events (`eventbus.go:46`; TechnicalArchitecture.md:320 promises
  that the caller knows), and the loss of a report task is only logged
  (`qa/service.go:142`; TechnicalArchitecture.md:335 lists reports as work that
  must not be lost).
* With two processes two ticks create two jobs for one parcel
  (`scheduler.go:71`): `OneJobPerParcel` fails in `Scheduler` with two
  `Processes`.  The run has one.
* Every active parcel gets a job, whether its owner has subscribed or not; the
  documents ask for an active subscription whose interval is over
  (Implementation.md:129, 140-141, 150).
* A parcel deleted during a tick still gets its job; a job whose event was
  dropped or lost in a restart is never dispatched and blocks its parcel.
* An agent's registration makes no `users` row, so login and verification
  answer 404 to every agent, the latter after using up the code
  (`auth/service.go:133`), although an agent's registration sends one
  (`agent/service.go:105`) and TechnicalArchitecture.md:1432-1439 and 1531 give
  agents the login.  No property calls that right.  Its route is mounted
  behind the token check, though README.md:205 and `agent/handler.go:25` say it
  needs none.  A failed INSERT leaves the Keycloak account, and every retry is
  a conflict.  No code calls `UpdateAgentStatus`, and only `'active'` agents
  are matched.
* GET, compare and DEL of a code are three steps (`otp.go:61-79`): two
  verifications that overlap may both use one code, and the DEL may fail, or
  delete a newer code.  `StaleCodeIsRefused` is what is left: a code that was
  not the stored one when the request was sent does not pass.  Codes are stored
  as they are, for five minutes; TechnicalArchitecture.md:1425 says "OTP hash in
  Redis (TTL 10 min)".
* `/ws` cannot be upgraded behind `platform.Logging` (README.md:195 and
  TechnicalArchitecture.md:414 promise it).  With a writer that can, an offer
  published before the subscription, or whose fetch failed, is shown at the
  next message only: the poll is off while a socket is open.
* `connectWS` returns when the stored token is missing or cannot be read
  (`useJobOffers.ts:37`), and nothing calls it again but a return to the
  foreground: after the first socket the poll goes on for good, before it the
  feed shows nothing new.
* An older fetch of the offers that is answered late overwrites a newer list
  (`useJobOffers.ts:24`), so that an offer is shown and vanishes until the next
  poll or push.  What the properties say of a shown offer is that it was shown.
* The distance of a matched agent is a double precision in kilometres
  (`agents.sql.go:100`) and is scanned into an `int32` (160, 215), which pgx
  refuses unless it is a whole number.  So the query and the match fail
  (`matcher.go:83`) for practically every agent in reach, and the cascade with
  them.  The model has matches that fail and matches that succeed, and the
  properties of `Decisions` speak of the latter; `Dispatch` takes either.
* The expansion ends with the first radius that has a candidate, and all three
  are searched in each round of the cascade; Implementation.md:185 says "If < 3
  agents found" the radius grows, TechnicalArchitecture.md:1608-1611 that each
  round has its own.  `BetterAgentFirst` and `NobodyIsOverlooked` are about the
  code's rule.
* Candidates are ranked once per round and offered the job one after another,
  30 minutes each (`dispatcher.go:80-138`): the position on which the fifth is
  offered a job may be two hours older than `PositionIsRecent` says of the match.
* The query's LIMIT of 50 counts agents who are not eligible, so that 50 near
  ones hide a farther one who is (`agents.sql.go:98`).
* A failing duplicates query scores 1.0 (`qa/service.go:244`), and a survey of
  duplicates only can still pass.  A boundary may change between submission
  and scoring.
* A logout during a refresh leaves the refreshed tokens in the storage, and the
  next start is logged in; a login during an old refresh that fails loses its
  tokens.  A refresh that fails for want of a network clears the tokens too, and
  `isAuthenticated` stays true.  A call that waited is sent once more even with a
  token it was just refused, and refreshes then itself, or waits again: nothing
  bounds how often (`api.ts:88`).  A wrong code that is entered while an old
  token is stored is submitted twice.
* On the phone, beside the run that fails: a survey whose photo has used up its
  retries is submitted without it (`sync.ts:97` says "If all media for a job is
  uploaded"); a saved survey with nothing left to upload is never submitted
  (`sync.ts:63`; survey.tsx:183 says it "will auto-submit when you reconnect");
  after a failed submission a second photo of an uploaded step is not saved
  (`survey.tsx:230`).

## What is not modelled

* *Data*: GPS distances, boundaries and their validation, payloads, wording.
  Scores are `Matcher`'s and `QAScoring`'s; ratings, completion and freshness
  enter them as one sum.
* *Mobile API client*: `OfferFeed` and `MobileSync` take a call as one that
  succeeds or fails, whose inside is `ApiClient`; its screen state
  (`isAuthenticated`, `agent`) is left out.
* *Agents*: `UpdateProfile`, which writes text columns (an omitted
  `full_name` as `''`), and listings.  *Tokens*: expiry is a check that may
  fail; the realm's administration token is part of a call that may fail.
* *Offer feed*: the screen's unmounting, an agent that logs out.
* *Notification inbox, report downloads, listings*: reads and one idempotent
  UPDATE.
* *Billing* is an empty package; *web, screens, infrastructure, migrations,
  generated queries* are presentation, deployment or generated.  SQL that
  matters is mapped where it is used.
* The location buffer of the phone (`db.ts:168`), which no code fills, and
  `ClaimTask`, `FailTask`, `CompleteJob`, which no code calls.
* On the phone: a survey screen left while its submission still runs, several
  jobs at once (their rows meet only in the loops), SQLite errors.

## Plan

Done, most important first: `Dispatch`, `TaskQueue`, `EventBus`,
`JobLifecycle`, `SurveyPipeline`, `Scheduler`, `MobileSync`; then `Accounts`
over `KeycloakClient`, `AgentPresence`, `OfferFeed`, `ApiClient`,
`Matcher`, `QAScoring` and `Decisions`; proofs of every invariant and both refinements.

Next:

`Dispatch` with two jobs that compete for one agent, with `Matcher` ranking the
pool of `AgentPresence`.

Theorems to come: the safety halves of `ParcelGetsJob` and of the offer feed's
timers, and that composing `Scheduler` with `Dispatch` keeps both.
