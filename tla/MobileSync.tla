----------------------------- MODULE MobileSync -----------------------------
(***************************************************************************)
(* The offline half of the agent's app: the survey screen, which uploads   *)
(* its photos and submits at once or saves both in SQLite                  *)
(* (mobile/app/job/[id]/survey.tsx), and the background sync that sends    *)
(* what was saved (mobile/services/sync.ts, db.ts).  Both run on one       *)
(* JavaScript thread and interleave at every await; the app can be killed  *)
(* at any of them, and an answer of the server can get lost.               *)
(*                                                                         *)
(* Abstractions.  One job: the rows and drafts of several jobs share only  *)
(* the loops, in which an error of one upload is caught.  Photos are       *)
(* numbered as they are taken.  Being offline is an upload or a POST that  *)
(* fails.  Whether a row's file still exists, and SQLite errors, are left  *)
(* out, and so is the location buffer, which no code ever fills.           *)
(***************************************************************************)
EXTENDS Naturals, FiniteSets

CONSTANTS
  MaxMedia,    \* bound on the photos taken
  MaxSurveys,  \* bound on the surveys the agent submits or saves for the job
  Steps,       \* steps of the checklist that want a photo
  NoStep,      \* the step of a photo not taken yet
  Syncs,       \* calls of runSync: start-up, reconnect, foreground
  Faults,      \* may an upload or a POST fail, or its answer get lost?
  CanKill      \* may the app be killed?

ASSUME MobileBoundsAssumption == MaxMedia \in Nat /\ MaxSurveys \in Nat
ASSUME NoStepAssumption == NoStep \notin Steps
ASSUME MobileSwitchAssumption == Faults \in BOOLEAN /\ CanKill \in BOOLEAN

Media == 1 .. MaxMedia

VARIABLES
  (* the survey screen and its store, in memory *)
  screen,    \* what the screen is doing
  made,      \* surveys made up so far: the calls of handleSubmit
  taken,     \* photos taken so far
  stepOf,    \* the step of each photo
  shots,     \* mediaQueue of the open survey
  left,      \* photos that the running loop has not handled yet
  sent,      \* uploadedStepIds
  (* SQLite *)
  row,       \* upload_queue.status of each photo
  retries,   \* upload_queue.retries
  draft,     \* the survey in the job's row of survey_draft, 0 for no row
  (* the background sync *)
  syncing,   \* the flag of sync.ts
  phase,     \* where each call of runSync is
  batch,     \* its photos from getPendingUploads not yet handled
  current,   \* the photo it uploads, 0 if none
  reading,   \* the draft it has read, 0 if none
  (* the server *)
  recorded,  \* survey_media rows of each photo
  received,  \* the surveys of the job that the server accepted
  (* history *)
  saved      \* the survey saved offline last, 0 if none

screenVars == <<screen, made, taken, stepOf, shots, left, sent>>
syncVars == <<syncing, phase, batch, current, reading>>
vars == <<screen, made, taken, stepOf, shots, left, sent, row, retries, draft,
          syncing, phase, batch, current, reading, recorded, received, saved>>

Screens == {"closed", "open", "uploading", "alert", "saving"}
Phases == {"idle", "next", "upload", "mark", "remaining", "draft", "post",
           "delete", "clear"}
RowStatuses == {"none", "pending", "uploading", "done", "failed", "cleared"}

Init ==
  /\ screen = "closed" /\ made = 0
  /\ taken = 0 /\ stepOf = [m \in Media |-> NoStep]
  /\ shots = {} /\ left = {} /\ sent = {}
  /\ row = [m \in Media |-> "none"] /\ retries = [m \in Media |-> 0]
  /\ draft = 0
  /\ syncing = FALSE
  /\ phase = [y \in Syncs |-> "idle"] /\ batch = [y \in Syncs |-> {}]
  /\ current = [y \in Syncs |-> 0] /\ reading = [y \in Syncs |-> 0]
  /\ recorded = [m \in Media |-> 0] /\ received = {}
  /\ saved = 0

First(m, S) == m \in S /\ \A n \in S : m <= n

\* The server's RecordMedia, the last request of uploadMediaNative: one more
\* row for the photo.  Bound: more than two rows count as two.
RecordMedia(m) ==
  recorded' = [recorded EXCEPT ![m] = IF @ < 2 THEN @ + 1 ELSE @]

-----------------------------------------------------------------------------
(* The survey screen *)

\* The screen loads the template and starts a survey, after leaving an unfinished
\* one too.
Open ==
  /\ screen \in {"closed", "open"}
  /\ screen' = "open"
  /\ shots' = {} /\ left' = {} /\ sent' = {}
  /\ UNCHANGED <<made, taken, stepOf, row, retries, draft, syncVars, recorded,
                 received, saved>>

\* handleMediaCapture; a second photo of a step does not replace the first.
\* Bound: MaxMedia.
Capture(s) ==
  /\ screen = "open" /\ taken < MaxMedia
  /\ taken' = taken + 1
  /\ stepOf' = [stepOf EXCEPT ![taken + 1] = s]
  /\ shots' = shots \cup {taken + 1}
  /\ UNCHANGED <<screen, made, left, sent, row, retries, draft, syncVars,
                 recorded, received, saved>>

\* handleSubmit makes up the survey, while the phone says that it is offline,
\* or online.  Bound: MaxSurveys.
Submit(online) ==
  /\ screen = "open" /\ made < MaxSurveys
  /\ made' = made + 1
  /\ screen' = IF online THEN "uploading" ELSE "saving"
  /\ left' = shots /\ sent' = {}
  /\ UNCHANGED <<taken, stepOf, shots, row, retries, draft, syncVars,
                 recorded, received, saved>>

\* One upload of the online path.
UploadShot(m) ==
  /\ screen = "uploading" /\ First(m, left)
  /\ left' = left \ {m}
  /\ sent' = sent \cup {stepOf[m]}
  /\ RecordMedia(m)
  /\ UNCHANGED <<screen, made, taken, stepOf, shots, row, retries, draft,
                 syncVars, received, saved>>

\* It fails, before or after the server recorded it: the alert comes up.
UploadShotFails(m) ==
  /\ Faults
  /\ screen = "uploading" /\ First(m, left)
  /\ screen' = "alert"
  /\ left' = {}
  /\ \/ RecordMedia(m)
     \/ UNCHANGED recorded
  /\ UNCHANGED <<made, taken, stepOf, shots, sent, row, retries, draft,
                 syncVars, received, saved>>

\* The POST of the survey; the screen closes.
PostSurvey ==
  /\ screen = "uploading" /\ left = {}
  /\ screen' = "closed"
  /\ received' = received \cup {made}
  /\ shots' = {} /\ sent' = {}
  /\ UNCHANGED <<made, taken, stepOf, left, row, retries, draft, syncVars,
                 recorded, saved>>

\* It fails, or its answer is lost.
PostSurveyFails ==
  /\ Faults
  /\ screen = "uploading" /\ left = {}
  /\ screen' = "alert"
  /\ received' \in {received, received \cup {made}}
  /\ UNCHANGED <<made, taken, stepOf, shots, left, sent, row, retries, draft,
                 syncVars, recorded, saved>>

\* The alert's 'Cancel': the survey stays open, and no photo counts as uploaded.
Cancel ==
  /\ screen = "alert"
  /\ screen' = "open"
  /\ sent' = {}
  /\ UNCHANGED <<made, taken, stepOf, shots, left, row, retries, draft,
                 syncVars, recorded, received, saved>>

\* The alert's 'Save Offline' takes the photos of the steps not uploaded.
SaveOffline ==
  /\ screen = "alert"
  /\ screen' = "saving"
  /\ left' = {m \in shots : stepOf[m] \notin sent}
  /\ sent' = {}
  /\ UNCHANGED <<made, taken, stepOf, shots, row, retries, draft,
                 syncVars, recorded, received, saved>>

\* saveOffline: one INSERT for each photo,
EnqueueUpload(m) ==
  /\ screen = "saving" /\ First(m, left)
  /\ left' = left \ {m}
  /\ row' = [row EXCEPT ![m] = "pending"]
  /\ UNCHANGED <<screen, made, taken, stepOf, shots, sent, retries, draft,
                 syncVars, recorded, received, saved>>

\* and an INSERT OR REPLACE for the draft; the store is reset.
SaveSurveyDraft ==
  /\ screen = "saving" /\ left = {}
  /\ screen' = "closed"
  /\ draft' = made
  /\ saved' = made
  /\ shots' = {} /\ sent' = {}
  /\ UNCHANGED <<made, taken, stepOf, left, row, retries, syncVars, recorded,
                 received>>

-----------------------------------------------------------------------------
(* runSync *)

\* getPendingUploads.
Pending == {m \in Media : row[m] \in {"pending", "failed"} /\ retries[m] < 3}

At(y, from) == phase[y] = from

\* Mutant: nothing keeps a second call out.
RunSync_NoFlag(y) ==
  /\ At(y, "idle")
  /\ Pending # {}
  /\ syncing' = TRUE
  /\ phase' = [phase EXCEPT ![y] = "next"]
  /\ batch' = [batch EXCEPT ![y] = Pending]
  /\ UNCHANGED <<screenVars, row, retries, draft, current, reading,
                 recorded, received, saved>>

\* Mutant: the flag is raised and the early return does not lower it.
RunSync_EarlyReturn(y) ==
  /\ At(y, "idle") /\ ~syncing
  /\ syncing' = TRUE
  /\ phase' = [phase EXCEPT ![y] = IF Pending = {} THEN "idle" ELSE "next"]
  /\ batch' = [batch EXCEPT ![y] = Pending]
  /\ UNCHANGED <<screenVars, row, retries, draft, current, reading,
                 recorded, received, saved>>

\* runSync up to getPendingUploads; with nothing pending it is over at once.  A
\* call made meanwhile returns, which is the same as no call.
RunSync(y) ==
  /\ At(y, "idle") /\ ~syncing
  /\ Pending # {}
  /\ syncing' = TRUE
  /\ phase' = [phase EXCEPT ![y] = "next"]
  /\ batch' = [batch EXCEPT ![y] = Pending]
  /\ UNCHANGED <<screenVars, row, retries, draft, current, reading,
                 recorded, received, saved>>

\* markUploadStatus 'uploading', which counts as a retry.
MarkUploading(y, m) ==
  /\ At(y, "next") /\ First(m, batch[y])
  /\ phase' = [phase EXCEPT ![y] = "upload"]
  /\ batch' = [batch EXCEPT ![y] = @ \ {m}]
  /\ current' = [current EXCEPT ![y] = m]
  /\ row' = [row EXCEPT ![m] = "uploading"]
  /\ retries' = [retries EXCEPT ![m] = @ + 1]
  /\ UNCHANGED <<screenVars, draft, syncing, reading, recorded, received,
                 saved>>

\* uploadMediaNative reaches the server's RecordMedia.
UploadMedia(y) ==
  /\ At(y, "upload")
  /\ phase' = [phase EXCEPT ![y] = "mark"]
  /\ RecordMedia(current[y])
  /\ UNCHANGED <<screenVars, row, retries, draft, syncing, batch, current,
                 reading, received, saved>>

\* markUploadStatus 'done'.
MarkDone(y) ==
  /\ At(y, "mark")
  /\ phase' = [phase EXCEPT ![y] = "next"]
  /\ row' = [row EXCEPT ![current[y]] = "done"]
  /\ current' = [current EXCEPT ![y] = 0]
  /\ UNCHANGED <<screenVars, retries, draft, syncing, batch, reading, recorded,
                 received, saved>>

\* The upload fails, or the last answer is lost: markUploadStatus 'failed',
\* which counts as another retry.
MarkFailed(y) ==
  /\ Faults
  /\ phase[y] \in {"upload", "mark"}
  /\ phase' = [phase EXCEPT ![y] = "next"]
  /\ row' = [row EXCEPT ![current[y]] = "failed"]
  /\ retries' = [retries EXCEPT ![current[y]] = @ + 1]
  /\ current' = [current EXCEPT ![y] = 0]
  /\ UNCHANGED <<screenVars, draft, syncing, batch, reading, recorded, received,
                 saved>>

\* The batch is through.
UploadsOver(y) ==
  /\ At(y, "next") /\ batch[y] = {}
  /\ phase' = [phase EXCEPT ![y] = "remaining"]
  /\ UNCHANGED <<screenVars, row, retries, draft, syncing, batch, current,
                 reading, recorded, received, saved>>

\* The call ends and lowers the flag.
Finish(y) ==
  /\ phase' = [phase EXCEPT ![y] = "idle"]
  /\ reading' = [reading EXCEPT ![y] = 0]
  /\ syncing' = FALSE

\* tryAutoSubmitSurvey: uploads remain, so that is all.
SomeRemain(y) ==
  /\ At(y, "remaining") /\ Pending # {}
  /\ Finish(y)
  /\ UNCHANGED <<screenVars, row, retries, draft, batch, current, recorded,
                 received, saved>>

\* None remains: on to the draft.
NoneRemains(y) ==
  /\ At(y, "remaining") /\ Pending = {}
  /\ phase' = [phase EXCEPT ![y] = "draft"]
  /\ UNCHANGED <<screenVars, row, retries, draft, syncing, batch, current,
                 reading, recorded, received, saved>>

\* getSurveyDraft finds none, or one.
NoDraft(y) ==
  /\ At(y, "draft") /\ draft = 0
  /\ Finish(y)
  /\ UNCHANGED <<screenVars, row, retries, draft, batch, current, recorded,
                 received, saved>>

GetSurveyDraft(y) ==
  /\ At(y, "draft") /\ draft # 0
  /\ phase' = [phase EXCEPT ![y] = "post"]
  /\ reading' = [reading EXCEPT ![y] = draft]
  /\ UNCHANGED <<screenVars, row, retries, draft, syncing, batch, current,
                 recorded, received, saved>>

\* The POST of the draft that was read succeeds.
PostDraft(y) ==
  /\ At(y, "post")
  /\ phase' = [phase EXCEPT ![y] = "delete"]
  /\ received' = received \cup {reading[y]}
  /\ UNCHANGED <<screenVars, row, retries, draft, syncing, batch, current,
                 reading, recorded, saved>>

\* Mutant: the clean-up also runs when the POST failed.
PostDraftFails_CleansUp(y) ==
  /\ Faults
  /\ At(y, "post")
  /\ phase' = [phase EXCEPT ![y] = "delete"]
  /\ UNCHANGED <<screenVars, row, retries, draft, syncing, batch, current,
                 reading, recorded, received, saved>>

\* It fails, or its answer is lost: the draft stays.
PostDraftFails(y) ==
  /\ Faults
  /\ At(y, "post")
  /\ Finish(y)
  /\ received' \in {received, received \cup {reading[y]}}
  /\ UNCHANGED <<screenVars, row, retries, draft, batch, current, recorded, saved>>

\* deleteSurveyDraft, by job: whichever draft is there now.
DeleteSurveyDraft(y) ==
  /\ At(y, "delete")
  /\ phase' = [phase EXCEPT ![y] = "clear"]
  /\ draft' = 0
  /\ UNCHANGED <<screenVars, row, retries, syncing, batch, current, reading,
                 recorded, received, saved>>

\* Mutant: all rows of the job are deleted.
ClearCompletedUploads_All(y) ==
  /\ At(y, "clear")
  /\ Finish(y)
  /\ row' = [m \in Media |-> IF row[m] = "none" THEN "none" ELSE "cleared"]
  /\ UNCHANGED <<screenVars, retries, draft, batch, current, recorded, received,
                 saved>>

\* clearCompletedUploads.
ClearCompletedUploads(y) ==
  /\ At(y, "clear")
  /\ Finish(y)
  /\ row' = [m \in Media |-> IF row[m] = "done" THEN "cleared" ELSE row[m]]
  /\ UNCHANGED <<screenVars, retries, draft, batch, current, recorded, received,
                 saved>>

\* The steps of a call that has begun.
SyncGoesOn(y) ==
  \/ \E m \in Media : MarkUploading(y, m)
  \/ UploadMedia(y) \/ MarkDone(y) \/ MarkFailed(y) \/ UploadsOver(y)
  \/ SomeRemain(y) \/ NoneRemains(y) \/ NoDraft(y) \/ GetSurveyDraft(y)
  \/ PostDraft(y) \/ PostDraftFails(y)
  \/ DeleteSurveyDraft(y) \/ ClearCompletedUploads(y)

-----------------------------------------------------------------------------
\* The app is killed and started again: the store, the loops and the flag are
\* memory, SQLite stays.
Kill ==
  /\ CanKill
  /\ \/ screen # "closed"
     \/ syncing
  /\ screen' = "closed"
  /\ shots' = {} /\ left' = {} /\ sent' = {}
  /\ syncing' = FALSE
  /\ phase' = [y \in Syncs |-> "idle"] /\ batch' = [y \in Syncs |-> {}]
  /\ current' = [y \in Syncs |-> 0] /\ reading' = [y \in Syncs |-> 0]
  /\ UNCHANGED <<made, taken, stepOf, row, retries, draft, recorded, received,
                 saved>>

SurveyScreen ==
  \/ Open \/ \E s \in Steps : Capture(s)
  \/ \E online \in BOOLEAN : Submit(online)
  \/ \E m \in Media : UploadShot(m) \/ UploadShotFails(m) \/ EnqueueUpload(m)
  \/ PostSurvey \/ PostSurveyFails \/ Cancel \/ SaveOffline \/ SaveSurveyDraft

Next ==
  \/ SurveyScreen
  \/ \E y \in Syncs : RunSync(y) \/ SyncGoesOn(y)
  \/ Kill

Spec == Init /\ [][Next]_vars

\* A call of runSync that has begun goes on: every await returns, if only by a
\* timeout.  Nothing is assumed of the agent or of when a sync starts.
FairSpec == Spec /\ \A y \in Syncs : WF_vars(SyncGoesOn(y))

-----------------------------------------------------------------------------
(* Properties *)

\* The variables keep their types.
TypeOK ==
  /\ screen \in Screens /\ made \in 0 .. MaxSurveys
  /\ taken \in 0 .. MaxMedia /\ stepOf \in [Media -> Steps \cup {NoStep}]
  /\ shots \subseteq Media /\ left \subseteq shots /\ sent \subseteq Steps
  /\ row \in [Media -> RowStatuses] /\ retries \in [Media -> 0 .. 4]
  /\ draft \in 0 .. MaxSurveys /\ saved \in 0 .. MaxSurveys
  /\ syncing \in BOOLEAN
  /\ phase \in [Syncs -> Phases] /\ batch \in [Syncs -> SUBSET Media]
  /\ current \in [Syncs -> 0 .. MaxMedia]
  /\ reading \in [Syncs -> 0 .. MaxSurveys]
  /\ recorded \in [Media -> 0 .. 2] /\ received \subseteq 1 .. MaxSurveys

\* A row of the queue is deleted, or counts as done, only when the server has
\* the photo's record, although the sync, the screen and the killing of the
\* app meet at every await.  That every row gets there is not so: see
\* NothingIsLost.
SavedMediaKept ==
  \A m \in Media : row[m] \in {"done", "cleared"} => recorded[m] > 0

\* Two calls of runSync never upload the same photo at the same time: a
\* reconnect and a return to the foreground come together.
OneUploadAtATime ==
  \A y, z \in Syncs : y # z /\ current[y] # 0 => current[y] # current[z]

\* A draft is deleted only by a call of runSync that has read it, or an older
\* one of the job, and whose POST of what it read the server has accepted.
DraftDeletedAfterSend ==
  [][draft # 0 /\ draft' = 0 =>
       \E y \in Syncs : reading[y] \in received /\ reading[y] <= draft]_vars

\* A sync that begins ends, and lowers the flag without which no later sync
\* would ever run.
SyncEnds == syncing ~> ~syncing

\* What the documents claim of the offline mode ("background sync queue
\* uploads all data", "nothing is lost"): a queued photo is on the server, or
\* a call has it in hand, or the next sync finds it; and the survey saved last
\* is on the phone or on the server.
NothingIsLost ==
  /\ \A m \in Media :
       row[m] # "none" =>
         recorded[m] > 0 \/ m \in Pending \/ \E y \in Syncs : current[y] = m
  /\ saved # 0 => draft = saved \/ saved \in received
=============================================================================
