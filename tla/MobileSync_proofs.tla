------------------------- MODULE MobileSync_proofs -------------------------
(***************************************************************************)
(* Proofs about the app's offline half: any number of photos, of visits to *)
(* the survey screen and of sync triggers, with uploads and POSTs that     *)
(* fail or whose answers get lost, and an app that is killed anywhere.     *)
(*                                                                         *)
(* Everything rests on the flag `syncing', which is tested and raised with *)
(* no await in between: only one call of runSync is past its start         *)
(* (FlagInv), so what a call has in hand (HandInv) is touched by no other, *)
(* and the screen meets it only in SQLite, where it inserts pending rows   *)
(* and a draft.                                                            *)
(***************************************************************************)
EXTENDS MobileSync, TLAPS

\* A call of runSync that is past its start holds the flag, and it is the only
\* one.
FlagInv ==
  /\ \A y \in Syncs : phase[y] # "idle" => syncing
  /\ \A y, z \in Syncs : phase[y] # "idle" /\ phase[z] # "idle" => y = z

\* What a call has in hand at each of its awaits.
HandInv ==
  \A y \in Syncs :
    /\ current[y] # 0 <=> phase[y] \in {"upload", "mark"}
    /\ current[y] \notin batch[y]
    /\ batch[y] # {} => phase[y] \in {"next", "upload", "mark"}

\* A photo is taken up with fewer than three retries, one of which its upload
\* uses up.
RetryInv ==
  \A y \in Syncs :
    /\ \A m \in batch[y] : retries[m] < 3
    /\ current[y] # 0 => retries[current[y]] <= 3

\* The server has the record of the photo that is about to be marked.
MediaInv ==
  /\ \A y \in Syncs : phase[y] = "mark" => recorded[current[y]] > 0
  /\ SavedMediaKept

\* Surveys are numbered in the order they are made up, so a draft is replaced
\* by later ones only; the draft is deleted when the server has what was read.
DraftInv ==
  /\ draft <= made
  /\ screen \in {"uploading", "alert", "saving"} => made # 0
  /\ \A y \in Syncs : phase[y] \in {"post", "delete"} =>
       reading[y] # 0 /\ reading[y] <= draft
  /\ \A y \in Syncs : phase[y] = "delete" => reading[y] \in received

\* A photo of the open survey has its step.
ShotInv == \A m \in shots : stepOf[m] \in Steps

IInv ==
  /\ TypeOK /\ ShotInv /\ FlagInv /\ HandInv /\ RetryInv /\ MediaInv /\ DraftInv

-----------------------------------------------------------------------------
(* Helpers.                                                                *)

\* Photos are numbers from 1 on.
LEMMA MediaAreNumbers ==
  /\ \A m \in Media : m \in Nat /\ m # 0 /\ m \in 0 .. MaxMedia
  /\ \A m \in 0 .. MaxMedia : m # 0 => m \in Media
BY MobileBoundsAssumption DEF Media

\* The types, for citing.
LEMMA Types ==
  ASSUME IInv
  PROVE  /\ row \in [Media -> RowStatuses] /\ retries \in [Media -> 0 .. 4]
         /\ phase \in [Syncs -> Phases] /\ batch \in [Syncs -> SUBSET Media]
         /\ current \in [Syncs -> 0 .. MaxMedia]
         /\ recorded \in [Media -> 0 .. 2]
         /\ stepOf \in [Media -> Steps \cup {NoStep}]
         /\ reading \in [Syncs -> 0 .. MaxSurveys] /\ syncing \in BOOLEAN
         /\ draft \in 0 .. MaxSurveys /\ saved \in 0 .. MaxSurveys
         /\ made \in 0 .. MaxSurveys /\ received \subseteq 1 .. MaxSurveys
BY DEF IInv, TypeOK

\* One more record of a photo: none is ever taken back.
LEMMA RecordFacts ==
  ASSUME IInv, NEW m \in Media, RecordMedia(m)
  PROVE  /\ recorded' \in [Media -> 0 .. 2]
         /\ recorded'[m] > 0
         /\ \A n \in Media : recorded[n] > 0 => recorded'[n] > 0
BY Types DEF RecordMedia

\* A call that is past its start is alone.
LEMMA Alone ==
  ASSUME IInv, NEW y \in Syncs, phase[y] # "idle", NEW z \in Syncs, z # y
  PROVE  phase[z] = "idle" /\ current[z] = 0 /\ batch[z] = {}
<1>1. phase[z] = "idle"
  BY DEF IInv, FlagInv
<1> QED
  BY <1>1 DEF IInv, HandInv

\* The photo a call has in hand.
LEMMA InHand ==
  ASSUME IInv, NEW y \in Syncs, phase[y] \in {"upload", "mark"}
  PROVE  /\ current[y] \in Media /\ retries[current[y]] \in 0 .. 3
         /\ phase[y] = "mark" => recorded[current[y]] > 0
<1>1. current[y] \in Media
  BY Types, MediaAreNumbers DEF IInv, HandInv
<1>2. retries[current[y]] <= 3
  BY <1>1, MediaAreNumbers DEF IInv, HandInv, RetryInv
<1> QED
  BY <1>1, <1>2, Types DEF IInv, MediaInv

\* Every initial state satisfies the invariant.
LEMMA InitIInv == Init => IInv
<1> SUFFICES ASSUME Init PROVE IInv
  OBVIOUS
<1> USE DEF Init
<1>1. TypeOK
  <2>1. /\ screen \in Screens /\ made \in 0 .. MaxSurveys
        /\ taken \in 0 .. MaxMedia /\ stepOf \in [Media -> Steps \cup {NoStep}]
        /\ row \in [Media -> RowStatuses] /\ retries \in [Media -> 0 .. 4]
        /\ phase \in [Syncs -> Phases] /\ current \in [Syncs -> 0 .. MaxMedia]
        /\ reading \in [Syncs -> 0 .. MaxSurveys]
        /\ recorded \in [Media -> 0 .. 2]
    BY MobileBoundsAssumption DEF Screens, RowStatuses, Phases
  <2>2. /\ shots \subseteq Media /\ left \subseteq shots /\ sent \subseteq Steps
        /\ batch \in [Syncs -> SUBSET Media]
    OBVIOUS
  <2>3. draft \in 0 .. MaxSurveys /\ saved \in 0 .. MaxSurveys
    BY MobileBoundsAssumption
  <2>4. syncing \in BOOLEAN /\ received \subseteq 1 .. MaxSurveys
    OBVIOUS
  <2> QED
    BY <2>1, <2>2, <2>3, <2>4 DEF TypeOK
<1>2. ShotInv /\ FlagInv /\ HandInv /\ RetryInv /\ DraftInv
  BY DEF ShotInv, FlagInv, HandInv, RetryInv, DraftInv
<1>3. MediaInv
  BY DEF MediaInv, SavedMediaKept
<1> QED
  BY <1>1, <1>2, <1>3 DEF IInv

-----------------------------------------------------------------------------
(* The survey screen.                                                      *)

\* The screen leaves the sync's memory and the retries alone, adds only
\* pending rows, and takes no record back.
LEMMA ScreenLeaves ==
  ASSUME IInv, SurveyScreen
  PROVE  /\ UNCHANGED <<syncing, phase, batch, current, reading, retries>>
         /\ row' \in [Media -> RowStatuses]
         /\ \A m \in Media : row'[m] = row[m] \/ row'[m] = "pending"
         /\ recorded' \in [Media -> 0 .. 2]
         /\ \A m \in Media : recorded[m] > 0 => recorded'[m] > 0
<1>1. CASE Open \/ (\E s \in Steps : Capture(s)) \/ (\E online \in BOOLEAN : Submit(online))
  BY <1>1, Types DEF Open, Capture, Submit, syncVars
<1>2. ASSUME NEW m \in Media, UploadShot(m) \/ UploadShotFails(m)
      PROVE  /\ UNCHANGED <<syncing, phase, batch, current, reading, retries, row>>
             /\ recorded' \in [Media -> 0 .. 2]
             /\ \A n \in Media : recorded[n] > 0 => recorded'[n] > 0
  <2>1. RecordMedia(m) \/ UNCHANGED recorded
    BY <1>2 DEF UploadShot, UploadShotFails
  <2> QED
    BY <1>2, <2>1, RecordFacts, Types DEF UploadShot, UploadShotFails, syncVars
<1>3. ASSUME NEW m \in Media, EnqueueUpload(m)
      PROVE  /\ UNCHANGED <<syncing, phase, batch, current, reading, retries,
                            recorded>>
             /\ row' \in [Media -> RowStatuses]
             /\ \A n \in Media : row'[n] = row[n] \/ row'[n] = "pending"
  BY <1>3, Types DEF EnqueueUpload, syncVars, RowStatuses
<1>4. CASE PostSurvey \/ PostSurveyFails \/ Cancel \/ SaveOffline \/ SaveSurveyDraft
  BY <1>4, Types DEF PostSurvey, PostSurveyFails, Cancel, SaveOffline,
     SaveSurveyDraft, syncVars
<1> QED
  BY <1>1, <1>2, <1>3, <1>4, Types DEF SurveyScreen

\* The screen replaces the draft by a later one only, and adds to what the
\* server has only the survey it has made up.
LEMMA ScreenDrafts ==
  ASSUME IInv, SurveyScreen
  PROVE  /\ made' \in 0 .. MaxSurveys
         /\ screen' \in {"uploading", "alert", "saving"} => made' # 0
         /\ draft' \in 0 .. MaxSurveys /\ draft <= draft' /\ draft' <= made'
         /\ draft # 0 => draft' # 0
         /\ saved' \in 0 .. MaxSurveys
         /\ received \subseteq received' /\ received' \subseteq 1 .. MaxSurveys
<1>0. /\ made \in 0 .. MaxSurveys /\ draft \in 0 .. made
      /\ draft \in 0 .. MaxSurveys /\ saved \in 0 .. MaxSurveys
      /\ received \subseteq 1 .. MaxSurveys /\ MaxSurveys \in Nat
      /\ screen \in {"uploading", "alert", "saving"} => made # 0
  BY Types, MobileBoundsAssumption DEF IInv, DraftInv
<1>1. CASE /\ UNCHANGED <<made, draft, saved>>
           /\ screen' \in {"uploading", "alert", "saving"} =>
                screen \in {"uploading", "alert", "saving"}
           /\ received' = received \/ (received' = received \cup {made} /\ made # 0)
  <2>1. made # 0 => made \in 1 .. MaxSurveys
    BY <1>0
  <2>2. received \subseteq received' /\ received' \subseteq 1 .. MaxSurveys
    BY <1>0, <1>1, <2>1
  <2> QED
    BY <1>0, <1>1, <2>2
<1>2. CASE \E online \in BOOLEAN : Submit(online)
  <2>1. /\ made' = made + 1 /\ made < MaxSurveys
        /\ UNCHANGED <<draft, saved, received>>
    BY <1>2 DEF Submit
  <2> QED
    BY <1>0, <2>1
<1>3. CASE Open \/ (\E s \in Steps : Capture(s)) \/ Cancel \/ SaveOffline
  BY <1>1, <1>3 DEF Open, Capture, Cancel, SaveOffline
<1>4. CASE \E m \in Media : UploadShot(m) \/ UploadShotFails(m) \/ EnqueueUpload(m)
  BY <1>1, <1>4 DEF UploadShot, UploadShotFails, EnqueueUpload
<1>5. CASE PostSurvey \/ PostSurveyFails
  <2>1. /\ UNCHANGED <<made, draft, saved>> /\ screen = "uploading"
        /\ received' = received \/ received' = received \cup {made}
    BY <1>5 DEF PostSurvey, PostSurveyFails
  <2> QED
    BY <1>0, <1>1, <2>1
<1>6. CASE SaveSurveyDraft
  <2>1. /\ made' = made /\ draft' = made /\ saved' = made /\ made # 0
        /\ received' = received
    BY <1>0, <1>6 DEF SaveSurveyDraft
  <2> QED
    BY <1>0, <2>1
<1> QED
  BY <1>0, <1>1, <1>2, <1>3, <1>4, <1>5, <1>6 DEF SurveyScreen

\* The screen's own variables keep their types.
LEMMA ScreenTypes ==
  ASSUME IInv, SurveyScreen
  PROVE  /\ screen' \in Screens
         /\ taken' \in 0 .. MaxMedia
         /\ stepOf' \in [Media -> Steps \cup {NoStep}]
         /\ shots' \subseteq Media /\ left' \subseteq shots' /\ sent' \subseteq Steps
         /\ ShotInv'
<1> USE DEF IInv, TypeOK, ShotInv, Screens
<1>1. CASE Open
  BY <1>1, MobileBoundsAssumption DEF Open
<1>2. ASSUME NEW s \in Steps, Capture(s)
      PROVE  /\ screen' \in Screens
             /\ taken' \in 0 .. MaxMedia
             /\ stepOf' \in [Media -> Steps \cup {NoStep}]
             /\ shots' \subseteq Media /\ left' \subseteq shots'
             /\ sent' \subseteq Steps
             /\ ShotInv'
  <2>1. taken + 1 \in Media /\ taken' \in 0 .. MaxMedia
    BY <1>2, MobileBoundsAssumption DEF Capture, Media
  <2>2. \A m \in Media : stepOf'[m] = IF m = taken + 1 THEN s ELSE stepOf[m]
    BY <1>2 DEF Capture
  <2> QED
    BY <1>2, <2>1, <2>2 DEF Capture
<1>3. ASSUME NEW online \in BOOLEAN, Submit(online)
      PROVE  /\ screen' \in Screens
             /\ UNCHANGED <<taken, stepOf, shots>>
             /\ left' = shots /\ sent' = {}
  BY <1>3 DEF Submit
<1>4. ASSUME NEW m \in Media, UploadShot(m)
      PROVE  /\ UNCHANGED <<screen, taken, stepOf, shots>>
             /\ left' \subseteq left /\ sent' \subseteq Steps
  BY <1>4 DEF UploadShot, First
<1>5. ASSUME NEW m \in Media, UploadShotFails(m) \/ EnqueueUpload(m)
      PROVE  /\ UNCHANGED <<taken, stepOf, shots, sent>>
             /\ screen' \in Screens /\ left' \subseteq left
  BY <1>5 DEF UploadShotFails, EnqueueUpload
<1>6. CASE PostSurvey \/ PostSurveyFails \/ SaveSurveyDraft
  BY <1>6 DEF PostSurvey, PostSurveyFails, SaveSurveyDraft
<1>7. CASE Cancel \/ SaveOffline
  BY <1>7 DEF Cancel, SaveOffline
<1> QED
  BY <1>1, <1>2, <1>3, <1>4, <1>5, <1>6, <1>7 DEF SurveyScreen

\* The screen keeps the invariant.
LEMMA ScreenKeeps == ASSUME IInv, SurveyScreen PROVE IInv'
<1>1. TypeOK' /\ ShotInv'
  BY ScreenLeaves, ScreenDrafts, ScreenTypes DEF IInv, TypeOK
<1>2. FlagInv' /\ HandInv' /\ RetryInv'
  BY ScreenLeaves DEF IInv, FlagInv, HandInv, RetryInv
<1>3. MediaInv'
  <2>1. ASSUME NEW y \in Syncs, phase'[y] = "mark"
        PROVE  recorded'[current'[y]] > 0
    <3>1. phase[y] = "mark" /\ current'[y] = current[y]
      BY <2>1, ScreenLeaves
    <3> QED
      BY <3>1, InHand, ScreenLeaves
  <2>2. SavedMediaKept'
    BY ScreenLeaves DEF IInv, MediaInv, SavedMediaKept
  <2> QED
    BY <2>1, <2>2 DEF MediaInv
<1>4. DraftInv'
  <2>1. ASSUME NEW y \in Syncs, phase'[y] \in {"post", "delete"}
        PROVE  reading'[y] # 0 /\ reading'[y] <= draft'
    <3>1. /\ phase[y] \in {"post", "delete"} /\ reading'[y] = reading[y]
          /\ reading[y] \in Nat /\ draft \in Nat /\ draft' \in Nat
      BY <2>1, ScreenLeaves, ScreenDrafts, Types
    <3> QED
      BY <3>1, ScreenDrafts DEF IInv, DraftInv
  <2> QED
    BY <2>1, ScreenLeaves, ScreenDrafts DEF IInv, DraftInv
<1> QED
  BY <1>1, <1>2, <1>3, <1>4 DEF IInv

-----------------------------------------------------------------------------
(* runSync.                                                                *)

\* A call begins: no other is past its start, since the flag is down.
LEMMA RunSyncKeeps ==
  ASSUME IInv, NEW y \in Syncs, RunSync(y) PROVE IInv'
<1> USE DEF RunSync, screenVars
<1>1. \A z \in Syncs : phase[z] = "idle"
  BY DEF IInv, FlagInv
<1>2. \A z \in Syncs : phase'[z] = IF z = y THEN "next" ELSE "idle"
  BY <1>1, Types
<1>3. /\ batch' \in [Syncs -> SUBSET Media]
      /\ \A z \in Syncs : batch'[z] = IF z = y THEN Pending ELSE batch[z]
  BY Types DEF Pending
<1>4. TypeOK' /\ ShotInv'
  BY <1>3 DEF IInv, TypeOK, ShotInv, Phases
<1>5. FlagInv'
  BY <1>2 DEF FlagInv
<1>6. \A z \in Syncs : current[z] = 0 /\ batch[z] = {}
  BY <1>1 DEF IInv, HandInv
<1>7. \A m \in Pending : m # 0 /\ retries[m] < 3
  BY MediaAreNumbers DEF Pending
<1>8. HandInv' /\ RetryInv'
  BY <1>2, <1>3, <1>6, <1>7 DEF HandInv, RetryInv
<1>9. MediaInv' /\ DraftInv'
  BY <1>2 DEF IInv, MediaInv, SavedMediaKept, DraftInv
<1> QED
  BY <1>4, <1>5, <1>8, <1>9 DEF IInv

\* What a step of a call does to the calls: it moves from one await to
\* another, or ends and lowers the flag; no other call is past its start.
LEMMA FlagKept ==
  ASSUME IInv, NEW y \in Syncs, phase[y] # "idle", NEW there,
         phase' = [phase EXCEPT ![y] = there],
         syncing' = syncing \/ (there = "idle" /\ syncing' = FALSE)
  PROVE  /\ FlagInv'
         /\ \A z \in Syncs : phase'[z] = IF z = y THEN there ELSE "idle"
<1>1. \A z \in Syncs : phase'[z] = IF z = y THEN there ELSE "idle"
  BY Types, Alone
<1>2. syncing
  BY DEF IInv, FlagInv
<1> QED
  BY <1>1, <1>2 DEF FlagInv

\* A photo is taken up.
LEMMA MarkUploadingKeeps ==
  ASSUME IInv, NEW y \in Syncs, NEW m \in Media, MarkUploading(y, m) PROVE IInv'
<1> USE DEF MarkUploading, At, First, screenVars
<1>1. /\ FlagInv'
      /\ \A z \in Syncs : phase'[z] = IF z = y THEN "upload" ELSE "idle"
  BY FlagKept
<1>2. m \in batch[y] /\ retries[m] < 3 /\ retries[m] \in 0 .. 4
  BY Types DEF IInv, RetryInv
<1>3. /\ row' \in [Media -> RowStatuses]
      /\ \A n \in Media : row'[n] = IF n = m THEN "uploading" ELSE row[n]
  BY Types DEF RowStatuses
<1>4. /\ retries' \in [Media -> 0 .. 4]
      /\ \A n \in Media : retries'[n] = IF n = m THEN retries[m] + 1 ELSE retries[n]
  BY <1>2, Types
<1>5. /\ batch' \in [Syncs -> SUBSET Media]
      /\ \A z \in Syncs : batch'[z] = IF z = y THEN batch[y] \ {m} ELSE {}
  BY Types, Alone
<1>6. /\ current' \in [Syncs -> 0 .. MaxMedia]
      /\ \A z \in Syncs : current'[z] = IF z = y THEN m ELSE 0
  BY Types, Alone, MediaAreNumbers
<1>7. phase' \in [Syncs -> Phases]
  BY Types DEF Phases
<1>8. TypeOK' /\ ShotInv'
  BY <1>3, <1>4, <1>5, <1>6, <1>7 DEF IInv, TypeOK, ShotInv
<1>9. HandInv'
  BY <1>1, <1>5, <1>6, MediaAreNumbers DEF HandInv
<1>10. RetryInv'
  <2>1. \A n \in batch[y] : n \in Media /\ retries[n] < 3
    BY Types DEF IInv, RetryInv
  <2>2. retries'[m] <= 3
    BY <1>2, <1>4
  <2> QED
    BY <1>4, <1>5, <1>6, <2>1, <2>2 DEF RetryInv
<1>11. MediaInv'
  BY <1>1, <1>3 DEF IInv, MediaInv, SavedMediaKept
<1>12. DraftInv'
  BY <1>1 DEF IInv, DraftInv
<1> QED
  BY <1>1, <1>8, <1>9, <1>10, <1>11, <1>12 DEF IInv

\* The server records it.
LEMMA UploadMediaKeeps ==
  ASSUME IInv, NEW y \in Syncs, UploadMedia(y) PROVE IInv'
<1> USE DEF UploadMedia, At, screenVars
<1>1. /\ FlagInv'
      /\ \A z \in Syncs : phase'[z] = IF z = y THEN "mark" ELSE "idle"
  BY FlagKept
<1>2. current[y] \in Media
  BY InHand
<1>3. /\ recorded' \in [Media -> 0 .. 2] /\ recorded'[current[y]] > 0
      /\ \A n \in Media : recorded[n] > 0 => recorded'[n] > 0
  BY <1>2, RecordFacts
<1>4. phase' \in [Syncs -> Phases]
  BY Types DEF Phases
<1>5. TypeOK' /\ ShotInv'
  BY <1>3, <1>4 DEF IInv, TypeOK, ShotInv
<1>6. HandInv' /\ RetryInv'
  BY <1>1 DEF IInv, HandInv, RetryInv
<1>7. MediaInv'
  BY <1>1, <1>3 DEF IInv, MediaInv, SavedMediaKept
<1>8. DraftInv'
  BY <1>1 DEF IInv, DraftInv
<1> QED
  BY <1>1, <1>5, <1>6, <1>7, <1>8 DEF IInv

\* The row is marked: 'done' only after the record.
LEMMA MarkKeeps ==
  ASSUME IInv, NEW y \in Syncs, MarkDone(y) \/ MarkFailed(y) PROVE IInv'
<1> USE DEF MarkDone, MarkFailed, At, screenVars
<1>1. /\ FlagInv'
      /\ \A z \in Syncs : phase'[z] = IF z = y THEN "next" ELSE "idle"
  BY FlagKept
<1>2. /\ current[y] \in Media /\ retries[current[y]] \in 0 .. 3
      /\ phase[y] = "mark" => recorded[current[y]] > 0
  BY InHand
<1>3. /\ row' \in [Media -> RowStatuses]
      /\ \A n \in Media : n # current[y] => row'[n] = row[n]
      /\ \/ row'[current[y]] = "done" /\ phase[y] = "mark"
         \/ row'[current[y]] = "failed"
  BY <1>2, Types DEF RowStatuses
<1>4. /\ retries' \in [Media -> 0 .. 4]
      /\ \A n \in Media : n # current[y] => retries'[n] = retries[n]
  BY <1>2, Types
<1>5. /\ current' \in [Syncs -> 0 .. MaxMedia]
      /\ \A z \in Syncs : current'[z] = 0
  BY Types, Alone, MobileBoundsAssumption
<1>6. phase' \in [Syncs -> Phases]
  BY Types DEF Phases
<1>7. TypeOK' /\ ShotInv'
  BY <1>3, <1>4, <1>5, <1>6 DEF IInv, TypeOK, ShotInv
<1>8. \A z \in Syncs : batch[z] \subseteq Media /\ 0 \notin batch[z]
  BY Types, MediaAreNumbers
<1>9. \A z \in Syncs : z # y => batch[z] = {}
  BY Alone
<1>10. HandInv'
  BY <1>1, <1>5, <1>8, <1>9 DEF HandInv
<1>11. RetryInv'
  <2>1. \A m \in batch[y] : m # current[y] /\ m \in Media /\ retries[m] < 3
    BY <1>8 DEF IInv, HandInv, RetryInv
  <2> QED
    BY <1>4, <1>5, <1>9, <2>1 DEF RetryInv
<1>12. MediaInv'
  BY <1>1, <1>2, <1>3 DEF IInv, MediaInv, SavedMediaKept
<1>13. DraftInv'
  BY <1>1 DEF IInv, DraftInv
<1> QED
  BY <1>1, <1>7, <1>10, <1>11, <1>12, <1>13 DEF IInv

\* The rest of the call, once the batch is through.
LEMMA SubmitPartKeeps ==
  ASSUME IInv, NEW y \in Syncs,
         \/ UploadsOver(y) \/ SomeRemain(y) \/ NoneRemains(y) \/ NoDraft(y)
         \/ GetSurveyDraft(y) \/ PostDraft(y) \/ PostDraftFails(y)
         \/ DeleteSurveyDraft(y) \/ ClearCompletedUploads(y)
  PROVE  IInv'
<1> USE DEF UploadsOver, SomeRemain, NoneRemains, NoDraft, GetSurveyDraft,
       PostDraft, PostDraftFails, DeleteSurveyDraft, ClearCompletedUploads,
       Finish, At, screenVars
<1>1. /\ phase[y] \notin {"idle", "upload", "mark"}
      /\ batch[y] = {}
      /\ UNCHANGED <<screenVars, retries, batch, current, recorded, saved>>
  BY DEF IInv, HandInv
<1>2. PICK there \in {"idle", "remaining", "draft", "post", "delete", "clear"} :
        /\ phase' = [phase EXCEPT ![y] = there]
        /\ syncing' = syncing \/ (there = "idle" /\ syncing' = FALSE)
        /\ there = "post" => reading' = [reading EXCEPT ![y] = draft] /\ draft # 0
        /\ there = "delete" =>
             phase[y] = "post" /\ reading' = reading /\ reading[y] \in received'
        /\ there \in {"post", "delete"} => draft' = draft
  OBVIOUS
<1>3. /\ FlagInv'
      /\ \A z \in Syncs : phase'[z] = IF z = y THEN there ELSE "idle"
  BY <1>1, <1>2, FlagKept
<1>4. /\ row' \in [Media -> RowStatuses]
      /\ \A m \in Media : row'[m] = row[m] \/ (row[m] = "done" /\ row'[m] = "cleared")
  BY Types DEF RowStatuses
<1>5. /\ received' \subseteq 1 .. MaxSurveys /\ received \subseteq received'
      /\ draft' \in 0 .. MaxSurveys /\ draft' <= made
      /\ reading' \in [Syncs -> 0 .. MaxSurveys] /\ syncing' \in BOOLEAN
  <2>1. \/ received' = received
        \/ phase[y] = "post" /\ received' = received \cup {reading[y]}
    OBVIOUS
  <2>2. draft' = draft \/ draft' = 0
    OBVIOUS
  <2>3. syncing' = syncing \/ syncing' = FALSE
    OBVIOUS
  <2>4. \/ reading' = reading \/ reading' = [reading EXCEPT ![y] = draft]
        \/ reading' = [reading EXCEPT ![y] = 0]
    OBVIOUS
  <2>5. phase[y] = "post" => reading[y] # 0
    BY DEF IInv, DraftInv
  <2>6. draft <= made
    BY DEF IInv, DraftInv
  <2> HIDE DEF UploadsOver, SomeRemain, NoneRemains, NoDraft, GetSurveyDraft,
       PostDraft, PostDraftFails, DeleteSurveyDraft, ClearCompletedUploads,
       Finish, At
  <2>7. phase[y] = "post" => reading[y] \in 1 .. MaxSurveys
    BY <2>5, Types
  <2>8. received' \subseteq 1 .. MaxSurveys /\ received \subseteq received'
    BY <2>1, <2>7, Types
  <2>9. draft' \in 0 .. MaxSurveys /\ draft' <= made
    BY <2>2, <2>6, Types, MobileBoundsAssumption
  <2>10. reading' \in [Syncs -> 0 .. MaxSurveys]
    BY <2>4, Types, MobileBoundsAssumption
  <2>11. syncing' \in BOOLEAN
    BY <2>3, Types
  <2> QED
    BY <2>8, <2>9, <2>10, <2>11
<1>6. phase' \in [Syncs -> Phases]
  BY <1>2, Types DEF Phases
<1>7. TypeOK' /\ ShotInv'
  BY <1>1, <1>4, <1>5, <1>6 DEF IInv, TypeOK, ShotInv
<1>8. \A z \in Syncs : batch[z] = {} /\ current[z] = 0
  BY <1>1, Alone DEF IInv, HandInv
<1>9. HandInv' /\ RetryInv'
  BY <1>1, <1>3, <1>8 DEF HandInv, RetryInv
<1>10. MediaInv'
  BY <1>1, <1>3, <1>4 DEF IInv, MediaInv, SavedMediaKept
<1>11. ASSUME NEW z \in Syncs, phase'[z] \in {"post", "delete"}
       PROVE  /\ z = y /\ phase'[y] = there
              /\ reading'[y] # 0 /\ reading'[y] <= draft'
              /\ phase'[y] = "delete" => reading'[y] \in received'
  <2>1. z = y /\ phase'[y] = there /\ there \in {"post", "delete"}
    BY <1>3, <1>11
  <2>2. draft' = draft /\ draft \in Nat
    BY <1>2, <2>1, Types
  <2>3. CASE there = "post"
    BY <1>2, <2>1, <2>2, <2>3, Types
  <2>4. CASE there = "delete"
    <3>1. phase[y] = "post" /\ reading' = reading /\ reading[y] \in received'
      BY <1>2, <2>4
    <3> QED
      BY <2>1, <2>2, <3>1 DEF IInv, DraftInv
  <2> QED
    BY <2>1, <2>3, <2>4
<1>12. DraftInv'
  BY <1>1, <1>5, <1>11 DEF IInv, DraftInv
<1> QED
  BY <1>3, <1>7, <1>9, <1>10, <1>12 DEF IInv

-----------------------------------------------------------------------------

\* The app starts again with what SQLite and the server have.
LEMMA KillKeeps == ASSUME IInv, Kill PROVE IInv'
<1> USE DEF Kill
<1>1. TypeOK'
  <2>1. /\ screen' \in Screens /\ phase' \in [Syncs -> Phases]
        /\ current' \in [Syncs -> 0 .. MaxMedia]
        /\ batch' \in [Syncs -> SUBSET Media]
        /\ reading' \in [Syncs -> 0 .. MaxSurveys]
    BY MobileBoundsAssumption DEF Screens, Phases
  <2>2. syncing' \in BOOLEAN
    OBVIOUS
  <2> QED
    BY <2>1, <2>2 DEF IInv, TypeOK
<1>2. ShotInv' /\ FlagInv' /\ HandInv' /\ RetryInv'
  BY DEF ShotInv, FlagInv, HandInv, RetryInv
<1>3. MediaInv' /\ DraftInv'
  BY DEF IInv, MediaInv, SavedMediaKept, DraftInv
<1> QED
  BY <1>1, <1>2, <1>3 DEF IInv

\* Every step keeps the invariant.
LEMMA NextIInv == IInv /\ [Next]_vars => IInv'
<1> SUFFICES ASSUME IInv, [Next]_vars PROVE IInv'
  OBVIOUS
<1>1. CASE SurveyScreen
  BY <1>1, ScreenKeeps
<1>2. ASSUME NEW y \in Syncs, RunSync(y) PROVE IInv'
  BY <1>2, RunSyncKeeps
<1>3. ASSUME NEW y \in Syncs, SyncGoesOn(y) PROVE IInv'
  BY <1>3, MarkUploadingKeeps, UploadMediaKeeps, MarkKeeps, SubmitPartKeeps
     DEF SyncGoesOn
<1>4. CASE Kill
  BY <1>4, KillKeeps
<1>5. CASE UNCHANGED vars
  BY <1>5 DEF vars, syncVars, IInv, TypeOK, ShotInv, FlagInv, HandInv, RetryInv,
     MediaInv, SavedMediaKept, DraftInv
<1> QED
  BY <1>1, <1>2, <1>3, <1>4, <1>5 DEF Next

\* The invariant that the theorems below rest on.
THEOREM Invariance == Spec => []IInv
BY InitIInv, NextIInv, PTL DEF Spec

\* The variables keep their types; no photo collects more than four retries.
THEOREM MobileTypeCorrect == Spec => []TypeOK
<1>1. IInv => TypeOK
  BY DEF IInv
<1> QED
  BY <1>1, Invariance, PTL

\* A queued photo is marked done or cleared only when the server has it,
\* wherever the app is killed and whichever answer is lost.
THEOREM PhotosAreKept == Spec => []SavedMediaKept
<1>1. IInv => SavedMediaKept
  BY DEF IInv, MediaInv
<1> QED
  BY <1>1, Invariance, PTL

\* However many triggers of a sync come together, no photo is uploaded by two
\* of them at a time.
THEOREM UploadsDoNotOverlap == Spec => []OneUploadAtATime
<1>1. ASSUME IInv PROVE OneUploadAtATime
  <2> SUFFICES ASSUME NEW y \in Syncs, NEW z \in Syncs, y # z, current[y] # 0
               PROVE  current[y] # current[z]
    BY DEF OneUploadAtATime
  <2>1. phase[y] # "idle"
    BY <1>1 DEF IInv, HandInv
  <2> QED
    BY <1>1, <2>1, Alone
<1> QED
  BY <1>1, Invariance, PTL

\* A draft is deleted only after the server has accepted it, or one of the
\* same job that it has replaced since the deleting call read it: what the
\* agent saved offline is never dropped by a POST that failed, an answer that
\* was lost or a second call of runSync.
THEOREM DraftsAreSentFirst == Spec => DraftDeletedAfterSend
<1>1. IInv /\ [Next]_vars =>
        [draft # 0 /\ draft' = 0 =>
           \E y \in Syncs : reading[y] \in received /\ reading[y] <= draft]_vars
  <2> SUFFICES ASSUME IInv, [Next]_vars, draft # 0, draft' = 0
               PROVE  \E y \in Syncs : reading[y] \in received /\ reading[y] <= draft
    OBVIOUS
  <2>1. ~SurveyScreen
    BY ScreenDrafts
  <2>2. PICK y \in Syncs : RunSync(y) \/ SyncGoesOn(y)
    BY <2>1 DEF Next, Kill, vars
  <2>3. DeleteSurveyDraft(y)
    BY <2>2 DEF RunSync, SyncGoesOn, MarkUploading, UploadMedia, MarkDone, MarkFailed,
       UploadsOver, SomeRemain, NoneRemains, NoDraft, GetSurveyDraft, PostDraft,
       PostDraftFails, ClearCompletedUploads
  <2> QED
    BY <2>3 DEF DeleteSurveyDraft, At, IInv, DraftInv
<1> QED
  BY <1>1, Invariance, PTL DEF Spec, DraftDeletedAfterSend

\* The flag is up only while a call of runSync is past its start: were it left
\* up by one of the ways out of a call, the app would not sync again until it
\* is killed.
FlagIsHeld == syncing => \E y \in Syncs : phase[y] # "idle"

\* The flag never outlives the call that raised it: every return of runSync and
\* of tryAutoSubmitSurvey goes through the finally that lowers it, and a killed
\* app starts with the flag down.
THEOREM FlagIsLowered == Spec => []FlagIsHeld
<1>1. Init => FlagIsHeld
  BY DEF Init, FlagIsHeld
<1>2. IInv /\ FlagIsHeld /\ [Next]_vars => FlagIsHeld'
  <2> SUFFICES ASSUME IInv, FlagIsHeld, [Next]_vars, syncing'
               PROVE  \E y \in Syncs : phase'[y] # "idle"
    BY DEF FlagIsHeld
  <2>1. CASE SurveyScreen
    BY <2>1, ScreenLeaves DEF FlagIsHeld
  <2>2. ASSUME NEW y \in Syncs, RunSync(y)
        PROVE  phase'[y] = "next"
    BY <2>2, Types DEF RunSync
  <2>3. ASSUME NEW y \in Syncs, SyncGoesOn(y)
        PROVE  phase'[y] # "idle"
    BY <2>3, Types DEF SyncGoesOn, MarkUploading, UploadMedia, MarkDone, MarkFailed,
       UploadsOver, SomeRemain, NoneRemains, NoDraft, GetSurveyDraft, PostDraft,
       PostDraftFails, DeleteSurveyDraft, ClearCompletedUploads, Finish, At
  <2>4. CASE Kill
    BY <2>4 DEF Kill
  <2>5. CASE UNCHANGED vars
    BY <2>5 DEF vars, syncVars, FlagIsHeld
  <2> QED
    BY <2>1, <2>2, <2>3, <2>4, <2>5 DEF Next
<1> QED
  BY <1>1, <1>2, Invariance, PTL DEF Spec
=============================================================================
