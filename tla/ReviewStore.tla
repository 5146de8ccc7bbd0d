----------------------------- MODULE ReviewStore -----------------------------
(***************************************************************************)
(* The in-memory review store of the local recognition API                 *)
(* (services/local_recognition_store.py) together with the requests and    *)
(* background tasks that drive it (routers/local_recognition.py and        *)
(* services/local_recognition.py).                                         *)
(*                                                                         *)
(* Each store call runs under one lock and is one action.  A handler that  *)
(* makes two store calls is two actions: PATCH and confirm read a record,  *)
(* compute a new draft from what they read, and write it in a second call, *)
(* so anything may happen in between.  The OCR task of a review runs on a  *)
(* thread of its own and ends by marking the record and deleting the       *)
(* uploaded image.                                                         *)
(*                                                                         *)
(* A draft is abstracted to a function from Fields to values: the item     *)
(* name and the prices and quantities, which compute_edited_fields         *)
(* compares with the OCR candidate.  How a draft's identity and            *)
(* observed_at are worked out is in ReviewDraft.                           *)
(***************************************************************************)
EXTENDS Naturals, FiniteSets

CONSTANTS
  Reviews,      \* review ids: uuid4, so an id is never handed out twice
  Editors,      \* PATCH requests that may be in flight at once
  Confirmers,   \* confirm requests that may be in flight at once
  Fields,       \* the fields of a draft that OCR fills in
  Name,         \* the field that holds the item name
  Required,     \* the fields a confirmed draft must have: the two prices
  Values,       \* what a field may hold
  None,         \* a field that is null
  MaxReviews,   \* max_reviews: capacity of the store
  Ttl,          \* ttl_seconds
  MaxTime       \* bound: the clock stops here

ASSUME ReviewStoreAssumption ==
  /\ MaxReviews \in Nat
  /\ Ttl \in Nat
  /\ MaxTime \in Nat
  /\ IsFiniteSet(Reviews)
  /\ Name \in Fields
  /\ Required \subseteq Fields
  /\ Required # {}
  /\ None \notin Values \cup Reviews

VARIABLES
  now,      \* datetime.now(UTC)
  issued,   \* ids handed out so far
  records,  \* LocalReviewStore._records
  task,     \* where the OCR task of each review stands
  temp,     \* the reviews whose uploaded image is still on disk
  patch,    \* what each PATCH request holds between its two store calls
  confirm   \* what each confirm request holds between its two store calls

vars == <<now, issued, records, task, temp, patch, confirm>>

-----------------------------------------------------------------------------
(* Data *)

Decided  == {"confirmed", "confirmed_with_edits", "rejected"}
Live     == {"processing", "pending_review"}
Statuses == Live \cup Decided \cup {"unreadable", "failed", "expired"}

Draft == [Fields -> Values \cup {None}]
Blank == [f \in Fields |-> None]

(* The fields a request sets (model_fields_set) with their new values. *)
Requests == UNION {[S -> Values \cup {None}] : S \in SUBSET Fields}

Record == [status  : Statuses \cup {"absent"},
           expires : Nat,
           ocr     : Draft,
           draft   : Draft]

Absent == [status |-> "absent", expires |-> 0, ocr |-> Blank, draft |-> Blank]

(* A request between two store calls: the draft it computed from the       *)
(* record it read, and that record's OCR candidate.                        *)
Idle == [id |-> None, draft |-> Blank, ocr |-> Blank, selected |-> FALSE]
Flight == [id : Reviews \cup {None}, draft : Draft, ocr : Draft,
           selected : BOOLEAN]

Stored(recs) == {r \in Reviews : recs[r].status # "absent"}

Init ==
  /\ now = 0
  /\ issued = {}
  /\ records = [r \in Reviews |-> Absent]
  /\ task = [r \in Reviews |-> "none"]
  /\ temp = {}
  /\ patch = [e \in Editors |-> Idle]
  /\ confirm = [c \in Confirmers |-> Idle]

-----------------------------------------------------------------------------
(* The helpers of LocalReviewStore *)

(* _cleanup_locked(remove_expired_records=False) *)
Expire(rec) ==
  IF now >= rec.expires /\ rec.status \in Live
  THEN [rec EXCEPT !.status = "expired"]
  ELSE rec

Aged == [r \in Reviews |-> Expire(records[r])]

(* Wrong: a terminal record makes room before its time to live is over. *)
EvictableEarly(r) == records[r].status \notin Live

(* _cleanup_locked(remove_expired_records=True) *)
Evictable(r) ==
  \/ now >= records[r].expires /\ records[r].status \notin Live
  \/ Expire(records[r]).status = "expired"

Swept == [r \in Reviews |-> IF Evictable(r) THEN Absent ELSE records[r]]

(* The capacity test of create_processing, after its clean-up. *)
HasRoom == Cardinality(Stored(Swept)) < MaxReviews

(* Wrong: any record may be edited; or the clean-up comes after the test;  *)
(* or an OCR result is stored without looking for its record.              *)
PendingUnchecked(r)  == records[r].status # "absent"
PendingBeforeAging(r) == records[r].status = "pending_review"
ProcessingUnchecked(r) == r \in issued

(* _editable_pending_record_locked and _editable_processing_record_locked  *)
(* after the clean-up.                                                     *)
Pending(r)    == Aged[r].status = "pending_review"
Processing(r) == Aged[r].status = "processing"

(* patch_review_draft: the fields the request does not set keep the value  *)
(* they had in the record that was read.                                   *)
Merge(draft, request) ==
  [f \in Fields |-> IF f \in DOMAIN request THEN request[f] ELSE draft[f]]

(* Wrong: the item name is not compared. *)
EditedWithoutName(ocr, draft) == {f \in Fields \ {Name} : draft[f] # ocr[f]}

(* compute_edited_fields *)
EditedFields(ocr, draft) == {f \in Fields : draft[f] # ocr[f]}

-----------------------------------------------------------------------------
(* Creation *)

(* POST /reviews, the store having room once expired records are gone.     *)
(* The image is on disk before the record exists, and the OCR task is      *)
(* scheduled with the response.                                            *)
Create(r) ==
  /\ r \notin issued
  /\ HasRoom
  /\ records' = [Swept EXCEPT ![r] = [status  |-> "processing",
                                       expires |-> now + Ttl,
                                       ocr     |-> Blank,
                                       draft   |-> Blank]]
  /\ issued' = issued \cup {r}
  /\ task' = [task EXCEPT ![r] = "queued"]
  /\ temp' = temp \cup {r}
  /\ UNCHANGED <<now, patch, confirm>>

(* POST /reviews, the store being full (409): the clean-up stays, and      *)
(* create_review_from_image deletes the image.                             *)
CreateFull ==
  /\ ~HasRoom
  /\ records' = Swept
  /\ UNCHANGED <<now, issued, task, temp, patch, confirm>>

-----------------------------------------------------------------------------
(* The OCR task: process_review_image *)

(* Recognition succeeded and mark_recognized accepts its result. *)
MarkRecognized(r) ==
  /\ task[r] = "queued"
  /\ Processing(r)
  /\ \E ocr \in Draft :
       records' = [Aged EXCEPT ![r].status = "pending_review",
                               ![r].ocr    = ocr,
                               ![r].draft  = ocr]
  /\ task' = [task EXCEPT ![r] = "finally"]
  /\ UNCHANGED <<now, issued, temp, patch, confirm>>

(* Wrong: a refused result ends the task at once. *)
MarkRefusedEscapes(r) ==
  /\ task[r] = "queued"
  /\ ~Processing(r)
  /\ records' = Aged
  /\ task' = [task EXCEPT ![r] = "done"]
  /\ UNCHANGED <<now, issued, temp, patch, confirm>>

(* Recognition succeeded but the review has gone or is no longer           *)
(* processing: the error lands in the handler that marks a failure.        *)
MarkRefused(r) ==
  /\ task[r] = "queued"
  /\ ~Processing(r)
  /\ records' = Aged
  /\ task' = [task EXCEPT ![r] = "failing"]
  /\ UNCHANGED <<now, issued, temp, patch, confirm>>

(* Wrong: an error of OCR is swallowed. *)
RecognitionSwallowed(r) ==
  /\ task[r] = "queued"
  /\ task' = [task EXCEPT ![r] = "finally"]
  /\ UNCHANGED <<now, issued, records, temp, patch, confirm>>

(* The image or its layout is not readable, or OCR raised an error. *)
RecognitionRaises(r) ==
  /\ task[r] = "queued"
  /\ \E handler \in {"failing", "unreadable"} :
       task' = [task EXCEPT ![r] = handler]
  /\ UNCHANGED <<now, issued, records, temp, patch, confirm>>

(* mark_failed: no clean-up, and a record that is not processing stays. *)
MarkFailed(r) ==
  /\ task[r] \in {"failing", "unreadable"}
  /\ IF records[r].status = "processing"
     THEN records' = [records EXCEPT ![r].status =
                        IF task[r] = "unreadable" THEN "unreadable"
                                                  ELSE "failed"]
     ELSE records' = records
  /\ task' = [task EXCEPT ![r] = "finally"]
  /\ UNCHANGED <<now, issued, temp, patch, confirm>>

(* The finally clause deletes the image. *)
DeleteImage(r) ==
  /\ task[r] = "finally"
  /\ temp' = temp \ {r}
  /\ task' = [task EXCEPT ![r] = "done"]
  /\ UNCHANGED <<now, issued, records, patch, confirm>>

TaskStep(r) ==
  \/ MarkRecognized(r) \/ MarkRefused(r) \/ RecognitionRaises(r)
  \/ MarkFailed(r) \/ DeleteImage(r)

-----------------------------------------------------------------------------
(* Requests of the reviewer *)

(* GET /reviews, GET /reviews/{id}, and every request that stops after its *)
(* first read (not found, or invalid values).                              *)
Read ==
  /\ records' = Aged
  /\ UNCHANGED <<now, issued, task, temp, patch, confirm>>

(* PATCH, first half: read the record, whatever its status, and compute    *)
(* the draft to write.                                                     *)
PatchRead(e, r) ==
  /\ patch[e].id = None
  /\ records[r].status # "absent"
  /\ records' = Aged
  /\ \E request \in Requests :
       patch' = [patch EXCEPT ![e] =
                   [id |-> r, draft |-> Merge(Aged[r].draft, request),
                    ocr |-> Blank, selected |-> FALSE]]
  /\ UNCHANGED <<now, issued, task, temp, confirm>>

(* PATCH, second half: patch_draft replaces the whole draft if the review  *)
(* is pending, and otherwise answers 404 or 409.                           *)
PatchWrite(e) ==
  /\ patch[e].id # None
  /\ LET r == patch[e].id IN
       records' = IF Pending(r)
                  THEN [Aged EXCEPT ![r].draft = patch[e].draft]
                  ELSE Aged
  /\ patch' = [patch EXCEPT ![e] = Idle]
  /\ UNCHANGED <<now, issued, task, temp, confirm>>

(* Confirm, up to the query for the item: the record read, whatever its    *)
(* status, gives the draft and the OCR candidate to compare it with.       *)
(* Manual mode (selected = FALSE) needs an item name.                      *)
ConfirmRead(c, r) ==
  /\ confirm[c].id = None
  /\ records[r].status # "absent"
  /\ records' = Aged
  /\ \E request \in Requests, selected \in BOOLEAN :
       LET draft == Merge(Aged[r].draft, request) IN
       /\ selected \/ draft[Name] # None
       /\ confirm' = [confirm EXCEPT ![c] =
                        [id |-> r, draft |-> draft, ocr |-> Aged[r].ocr,
                         selected |-> selected]]
  /\ UNCHANGED <<now, issued, task, temp, patch>>

(* The draft after _apply_canonical_identity: the name of an item selected *)
(* by id is the database's.                                                *)
FinalDrafts(c) ==
  IF confirm[c].selected
  THEN {[confirm[c].draft EXCEPT ![Name] = name] : name \in Values}
  ELSE {confirm[c].draft}

(* _validate_confirm_values *)
Complete(draft) == \A f \in Required : draft[f] # None

(* LocalReviewStore.confirm on record r of Aged. *)
Confirmed(c, draft) ==
  LET r == confirm[c].id
      edited == EditedFields(confirm[c].ocr, draft)
  IN IF Pending(r)
     THEN [Aged EXCEPT ![r].status = IF edited = {} THEN "confirmed"
                                     ELSE "confirmed_with_edits",
                       ![r].draft = draft]
     ELSE Aged

(* Confirm, after the query. *)
ConfirmWrite(c) ==
  /\ confirm[c].id # None
  /\ \E draft \in FinalDrafts(c) :
       /\ Complete(draft)
       /\ records' = Confirmed(c, draft)
  /\ confirm' = [confirm EXCEPT ![c] = Idle]
  /\ UNCHANGED <<now, issued, task, temp, patch>>

(* The item does not exist, or a price is missing: no second store call. *)
ConfirmAbort(c) ==
  /\ confirm[c].id # None
  /\ \/ confirm[c].selected
     \/ ~Complete(confirm[c].draft)
  /\ confirm' = [confirm EXCEPT ![c] = Idle]
  /\ UNCHANGED <<now, issued, records, task, temp, patch>>

(* reject and unreadable: one store call each. *)
Refuse(r, verdict) ==
  /\ Pending(r)
  /\ records' = [Aged EXCEPT ![r].status = verdict]
  /\ UNCHANGED <<now, issued, task, temp, patch, confirm>>

(* DELETE /reviews/{id}: whatever the status, also while OCR is running. *)
Delete(r) ==
  /\ records[r].status # "absent"
  /\ records' = [Aged EXCEPT ![r] = Absent]
  /\ UNCHANGED <<now, issued, task, temp, patch, confirm>>

(* DELETE /reviews?confirm=true *)
Clear ==
  /\ records' = [r \in Reviews |-> Absent]
  /\ UNCHANGED <<now, issued, task, temp, patch, confirm>>

Tick ==
  /\ now < MaxTime
  /\ now' = now + 1
  /\ UNCHANGED <<issued, records, task, temp, patch, confirm>>

Next ==
  \/ Tick
  \/ Read
  \/ Clear
  \/ CreateFull
  \/ \E r \in Reviews :
       \/ Create(r)
       \/ TaskStep(r)
       \/ \E verdict \in {"rejected", "unreadable"} : Refuse(r, verdict)
       \/ Delete(r)
       \/ \E e \in Editors : PatchRead(e, r)
       \/ \E c \in Confirmers : ConfirmRead(c, r)
  \/ \E e \in Editors : PatchWrite(e)
  \/ \E c \in Confirmers : ConfirmWrite(c) \/ ConfirmAbort(c)

Spec == Init /\ [][Next]_vars

(* A background task gets a thread of the pool, and OCR ends: a result, an *)
(* error, or the helper's timeout.  Nothing is assumed of the reviewer.    *)
Fairness == \A r \in Reviews : WF_vars(TaskStep(r))

FairSpec == Spec /\ Fairness

-----------------------------------------------------------------------------
(* Properties *)

TypeOK ==
  /\ now \in Nat
  /\ issued \subseteq Reviews
  /\ records \in [Reviews -> Record]
  /\ task \in [Reviews -> {"none", "queued", "failing", "unreadable",
                           "finally", "done"}]
  /\ temp \subseteq Reviews
  /\ patch \in [Editors -> Flight]
  /\ confirm \in [Confirmers -> Flight]

(* The store never holds more than max_reviews records. *)
CapacityRespected == Cardinality(Stored(records)) <= MaxReviews

(* A review confirmed without edits carries exactly what OCR read, even    *)
(* when the confirm request read the record before OCR had finished.       *)
ConfirmedIsUnedited ==
  \A r \in Reviews :
    records[r].status = "confirmed" => records[r].draft = records[r].ocr

(* A decision is final: once a review is decided, failed or expired, no    *)
(* request or task still in flight changes its record; it can only go.     *)
FinalIsFrozen ==
  [][\A r \in Reviews :
       records[r].status \in Statuses \ Live =>
         records'[r] \in {records[r], Absent}]_vars

(* Making room never costs a live review: when a new review comes in, the  *)
(* reviews that leave the store are past their expiry.                     *)
NoLiveEviction ==
  [][issued' # issued =>
       \A r \in Reviews :
         records[r].status # "absent" /\ records'[r].status = "absent"
           => now >= records[r].expires]_vars

(* After its expiry a review is neither offered for review nor decided,    *)
(* however early the request or task that would do it began.               *)
NothingDecidedLate ==
  [][\A r \in Reviews :
       /\ records'[r].status # records[r].status
       /\ records'[r].status \in Decided \cup {"pending_review"}
       => now < records[r].expires]_vars

(* The OCR candidate is evidence: once OCR has finished, no edit, confirm  *)
(* or late task alters it while the record exists.                         *)
EvidenceKept ==
  [][\A r \in Reviews :
       /\ records[r].status \notin {"absent", "processing"}
       /\ records'[r].status # "absent"
       => records'[r].ocr = records[r].ocr]_vars

(* The statuses follow the documented state machine. *)
Machine == INSTANCE ReviewStateMachine WITH
  status <- [r \in Reviews |->
               IF r \notin issued THEN "unborn"
               ELSE IF records[r].status = "absent" THEN "gone"
               ELSE records[r].status]

FollowsStateMachine == Machine!Spec

(* Nothing waits for a task that will not come: a review in processing has *)
(* a task that has still to mark it, and the images on disk are those of   *)
(* the tasks that have still to delete them, whatever was done to the      *)
(* review meanwhile.                                                       *)
TasksOutstanding ==
  /\ \A r \in Reviews : records[r].status = "processing" =>
       task[r] \in {"queued", "failing", "unreadable"}
  /\ temp = {r \in Reviews : task[r] \notin {"none", "done"}}

(* No review is processing for ever: OCR failing in any way, even after    *)
(* its result was refused, gets it out of that status.                     *)
ProcessingEnds ==
  \A r \in Reviews :
    records[r].status = "processing" ~> records[r].status # "processing"

(* The uploaded image does not stay on disk: it is deleted whatever        *)
(* happened to the review meanwhile (deleted, cleared, expired, refused).  *)
ImageDeleted == \A r \in Reviews : r \in temp ~> r \notin temp
=============================================================================
