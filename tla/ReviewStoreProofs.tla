-------------------------- MODULE ReviewStoreProofs --------------------------
(***************************************************************************)
(* Proofs about ReviewStore, for every number of reviews, requests, fields *)
(* and values.  The order is: types; what one step does to one record      *)
(* (RecordStep); then each property from those two.                        *)
(***************************************************************************)
EXTENDS ReviewStore, FiniteSetTheorems, TLAPS

-----------------------------------------------------------------------------
(* Types *)

(* A blank draft is a draft, and so is what a request makes of one. *)
LEMMA DraftTypes ==
  /\ Blank \in Draft
  /\ \A draft \in Draft, request \in Requests : Merge(draft, request) \in Draft
BY DEF Blank, Draft, Merge, Requests

(* The clean-up keeps records, and the empty place, well typed. *)
LEMMA RecordTypes ==
  /\ Absent \in Record
  /\ \A rec \in Record : Expire(rec) \in Record
  /\ Idle \in Flight
BY DraftTypes DEF Absent, Record, Expire, Idle, Flight, Statuses, Live, Decided

(* Replacing the status or the draft of a record leaves a record. *)
LEMMA UpdateTypes ==
  ASSUME NEW rec \in Record
  PROVE  /\ \A s \in Statuses : [rec EXCEPT !.status = s] \in Record
         /\ \A d \in Draft : [rec EXCEPT !.draft = d] \in Record
BY DEF Record

LEMMA AgedType ==
  ASSUME TypeOK PROVE Aged \in [Reviews -> Record] /\ Swept \in [Reviews -> Record]
BY RecordTypes DEF TypeOK, Aged, Swept

(* The drafts a confirm request may write are drafts. *)
LEMMA FinalDraftsType ==
  ASSUME TypeOK, NEW c \in Confirmers
  PROVE  FinalDrafts(c) \subseteq Draft
<1>1. confirm[c].draft \in Draft
  BY DEF TypeOK, Flight
<1>2. ASSUME NEW v \in Values
      PROVE  [confirm[c].draft EXCEPT ![Name] = v] \in Draft
  BY <1>1 DEF Draft
<1> QED
  BY <1>1, <1>2 DEF FinalDrafts

LEMMA TypeInit == Init => TypeOK
BY RecordTypes DEF Init, TypeOK

(* What each step does to records: it stays well typed. *)
LEMMA RecordsTyped ==
  ASSUME TypeOK, Next
  PROVE  records' \in [Reviews -> Record]
<1> USE AgedType DEF TypeOK
<1>1. CASE Tick \/ \E c \in Confirmers : ConfirmAbort(c)
  BY <1>1 DEF Tick, ConfirmAbort
<1>2. CASE Read
  BY <1>2 DEF Read
<1>3. CASE Clear
  BY <1>3, RecordTypes DEF Clear
<1>4. CASE CreateFull
  BY <1>4 DEF CreateFull
<1>5. ASSUME NEW r \in Reviews, Create(r)
      PROVE  records' \in [Reviews -> Record]
  <2>1. now + Ttl \in Nat
    BY ReviewStoreAssumption
  <2>2. [status |-> "processing", expires |-> now + Ttl,
         ocr |-> Blank, draft |-> Blank] \in Record
    BY <2>1, DraftTypes DEF Record, Statuses, Live
  <2> QED
    BY <1>5, <2>2 DEF Create
<1>6. ASSUME NEW r \in Reviews, MarkRecognized(r)
      PROVE  records' \in [Reviews -> Record]
  <2>1. PICK ocr \in Draft :
          records' = [Aged EXCEPT ![r].status = "pending_review",
                                  ![r].ocr    = ocr,
                                  ![r].draft  = ocr]
    BY <1>6 DEF MarkRecognized
  <2>2. Aged[r] \in Record
    OBVIOUS
  <2>3. [[[Aged[r] EXCEPT !.status = "pending_review"] EXCEPT !.ocr = ocr]
           EXCEPT !.draft = ocr] \in Record
    BY <2>2 DEF Record, Statuses, Live
  <2> QED
    BY <2>1, <2>3
<1>7. ASSUME NEW r \in Reviews, MarkRefused(r) \/ RecognitionRaises(r) \/ DeleteImage(r)
      PROVE  records' \in [Reviews -> Record]
  BY <1>7 DEF MarkRefused, RecognitionRaises, DeleteImage
<1>8. ASSUME NEW r \in Reviews, MarkFailed(r)
      PROVE  records' \in [Reviews -> Record]
  <2>1. CASE records[r].status = "processing"
    <3>1. PICK s \in {"unreadable", "failed"} :
            records' = [records EXCEPT ![r].status = s]
      BY <1>8, <2>1 DEF MarkFailed
    <3>2. [records[r] EXCEPT !.status = s] \in Record
      BY <3>1, UpdateTypes DEF Statuses
    <3> QED
      BY <3>1, <3>2
  <2>2. CASE records[r].status # "processing"
    BY <1>8, <2>2 DEF MarkFailed
  <2> QED
    BY <2>1, <2>2
<1>9. ASSUME NEW r \in Reviews, NEW verdict \in {"rejected", "unreadable"}, Refuse(r, verdict)
      PROVE  records' \in [Reviews -> Record]
  BY <1>9 DEF Refuse, Record, Statuses, Decided
<1>10. ASSUME NEW r \in Reviews, Delete(r)
       PROVE  records' \in [Reviews -> Record]
  BY <1>10, RecordTypes DEF Delete
<1>11. ASSUME NEW r \in Reviews,
              (\E e \in Editors : PatchRead(e, r)) \/ (\E c \in Confirmers : ConfirmRead(c, r))
       PROVE  records' \in [Reviews -> Record]
  BY <1>11 DEF PatchRead, ConfirmRead
<1>12. ASSUME NEW e \in Editors, PatchWrite(e)
       PROVE  records' \in [Reviews -> Record]
  <2>1. patch[e].draft \in Draft /\ patch[e].id \in Reviews
    BY <1>12 DEF PatchWrite, Flight
  <2>2. [Aged[patch[e].id] EXCEPT !.draft = patch[e].draft] \in Record
    BY <2>1, UpdateTypes
  <2> QED
    BY <1>12, <2>1, <2>2 DEF PatchWrite
<1>13. ASSUME NEW c \in Confirmers, ConfirmWrite(c)
       PROVE  records' \in [Reviews -> Record]
  <2>1. confirm[c].id \in Reviews
    BY <1>13 DEF ConfirmWrite, Flight
  <2>2. PICK draft \in Draft : records' = Confirmed(c, draft)
    BY <1>13, FinalDraftsType DEF ConfirmWrite
  <2> DEFINE s == IF EditedFields(confirm[c].ocr, draft) = {} THEN "confirmed"
                  ELSE "confirmed_with_edits"
  <2>3. Confirmed(c, draft) = IF Pending(confirm[c].id)
          THEN [Aged EXCEPT ![confirm[c].id].status = s,
                            ![confirm[c].id].draft = draft]
          ELSE Aged
    BY DEF Confirmed
  <2>4. s \in Statuses
    BY DEF Statuses, Decided
  <2> HIDE DEF s
  <2>5. Aged[confirm[c].id] \in Record
    BY <2>1
  <2>6. [Aged[confirm[c].id] EXCEPT !.status = s] \in Record
    BY <2>4, <2>5, UpdateTypes
  <2>7. [[Aged[confirm[c].id] EXCEPT !.status = s] EXCEPT !.draft = draft] \in Record
    BY <2>6, UpdateTypes
  <2> QED
    BY <2>1, <2>2, <2>3, <2>7
<1> QED
  BY <1>1, <1>2, <1>3, <1>4, <1>5, <1>6, <1>7, <1>8, <1>9, <1>10, <1>11,
     <1>12, <1>13 DEF Next, TaskStep

(* The requests in flight stay well typed. *)
LEMMA FlightsTyped ==
  ASSUME TypeOK, Next
  PROVE  patch' \in [Editors -> Flight] /\ confirm' \in [Confirmers -> Flight]
<1>1. ASSUME NEW r \in Reviews, NEW e \in Editors, PatchRead(e, r)
      PROVE  patch' \in [Editors -> Flight] /\ confirm' \in [Confirmers -> Flight]
  <2>1. PICK request \in Requests :
          patch' = [patch EXCEPT ![e] =
                      [id |-> r, draft |-> Merge(Aged[r].draft, request),
                       ocr |-> Blank, selected |-> FALSE]]
    BY <1>1 DEF PatchRead
  <2>2. Aged[r].draft \in Draft
    BY AgedType DEF Record
  <2>3. Merge(Aged[r].draft, request) \in Draft
    BY <2>2, DraftTypes
  <2> QED
    BY <1>1, <2>1, <2>3, DraftTypes DEF PatchRead, TypeOK, Flight
<1>2. ASSUME NEW r \in Reviews, NEW c \in Confirmers, ConfirmRead(c, r)
      PROVE  patch' \in [Editors -> Flight] /\ confirm' \in [Confirmers -> Flight]
  <2>1. PICK request \in Requests, selected \in BOOLEAN :
          confirm' = [confirm EXCEPT ![c] =
                        [id |-> r, draft |-> Merge(Aged[r].draft, request),
                         ocr |-> Aged[r].ocr, selected |-> selected]]
    BY <1>2 DEF ConfirmRead
  <2>2. Aged[r].draft \in Draft /\ Aged[r].ocr \in Draft
    BY AgedType DEF Record
  <2>3. Merge(Aged[r].draft, request) \in Draft
    BY <2>2, DraftTypes
  <2> QED
    BY <1>2, <2>1, <2>2, <2>3 DEF ConfirmRead, TypeOK, Flight
<1>3. ASSUME NEW e \in Editors, PatchWrite(e)
      PROVE  patch' \in [Editors -> Flight] /\ confirm' \in [Confirmers -> Flight]
  BY <1>3, RecordTypes DEF PatchWrite, TypeOK
<1>4. ASSUME NEW c \in Confirmers, ConfirmWrite(c) \/ ConfirmAbort(c)
      PROVE  patch' \in [Editors -> Flight] /\ confirm' \in [Confirmers -> Flight]
  BY <1>4, RecordTypes DEF ConfirmWrite, ConfirmAbort, TypeOK
<1>5. CASE patch' = patch /\ confirm' = confirm
  BY <1>5 DEF TypeOK
<1>6. ASSUME NEW r \in Reviews, TaskStep(r)
      PROVE  patch' = patch /\ confirm' = confirm
  BY <1>6 DEF TaskStep, MarkRecognized, MarkRefused, RecognitionRaises,
     MarkFailed, DeleteImage
<1> QED
  BY <1>1, <1>2, <1>3, <1>4, <1>5, <1>6
     DEF Next, Tick, Read, Clear, CreateFull, Create, Refuse, Delete

(* The clock only moves forward. *)
LEMMA ClockStep ==
  ASSUME Next PROVE now' = now \/ now' = now + 1
BY DEF Next, Tick, Read, Clear, CreateFull, Create, TaskStep,
   MarkRecognized, MarkRefused, RecognitionRaises, MarkFailed, DeleteImage,
   Refuse, Delete, PatchRead, PatchWrite, ConfirmRead, ConfirmWrite, ConfirmAbort

LEMMA TypeStep == TypeOK /\ [Next]_vars => TypeOK'
<1> SUFFICES ASSUME TypeOK, Next PROVE TypeOK'
  BY DEF TypeOK, vars
<1>1. now' \in Nat
  BY ClockStep DEF TypeOK
<1>2. issued' \subseteq Reviews /\ temp' \subseteq Reviews
  BY DEF TypeOK, Next, Tick, Read, Clear, CreateFull, Create, TaskStep,
     MarkRecognized, MarkRefused, RecognitionRaises, MarkFailed, DeleteImage,
     Refuse, Delete, PatchRead, PatchWrite, ConfirmRead, ConfirmWrite, ConfirmAbort
<1>3. \/ task' = task
      \/ \E r \in Reviews, t \in {"queued", "failing", "unreadable", "finally", "done"} :
           task' = [task EXCEPT ![r] = t]
  BY DEF Next, Tick, Read, Clear, CreateFull, Create, TaskStep,
     MarkRecognized, MarkRefused, RecognitionRaises, MarkFailed, DeleteImage,
     Refuse, Delete, PatchRead, PatchWrite, ConfirmRead, ConfirmWrite, ConfirmAbort
<1>4. task' \in [Reviews -> {"none", "queued", "failing", "unreadable",
                             "finally", "done"}]
  BY <1>3 DEF TypeOK
<1> QED
  BY <1>1, <1>2, <1>4, RecordsTyped, FlightsTyped DEF TypeOK

(* Every variable keeps its type: in particular a record always has a      *)
(* status of the API, and every draft has all its fields.                  *)
THEOREM TypeCorrect == Spec => []TypeOK
  BY TypeInit, TypeStep, PTL DEF Spec

-----------------------------------------------------------------------------
(* What one step does to one record *)

Created(r) ==
  /\ r \notin issued
  /\ issued' = issued \cup {r}
  /\ records'[r] = [status |-> "processing", expires |-> now + Ttl,
                    ocr |-> Blank, draft |-> Blank]

Recognized(r) ==
  /\ Processing(r)
  /\ \E ocr \in Draft :
       records'[r] = [Aged[r] EXCEPT !.status = "pending_review",
                                     !.ocr = ocr, !.draft = ocr]

Failed(r) ==
  /\ records[r].status = "processing"
  /\ \E s \in {"unreadable", "failed"} :
       records'[r] = [records[r] EXCEPT !.status = s]

Patched(r) ==
  /\ Pending(r)
  /\ \E draft \in Draft : records'[r] = [Aged[r] EXCEPT !.draft = draft]

WasConfirmed(r) ==
  /\ Pending(r)
  /\ \E c \in Confirmers, draft \in Draft :
       /\ confirm[c].id = r
       /\ Complete(draft)
       /\ records'[r] =
            [Aged[r] EXCEPT !.status = IF EditedFields(confirm[c].ocr, draft) = {}
                                       THEN "confirmed"
                                       ELSE "confirmed_with_edits",
                            !.draft = draft]

Refused(r) ==
  /\ Pending(r)
  /\ \E s \in {"rejected", "unreadable"} :
       records'[r] = [Aged[r] EXCEPT !.status = s]

(* An upload is the one step that hands out an id, and it evicts; every    *)
(* other step may remove a record only as the reviewer asked.              *)
RecordStep(r) ==
  \/ records'[r] = records[r]
  \/ records'[r] = Aged[r]
  \/ records'[r] = Absent /\ (issued' = issued \/ Evictable(r))
  \/ Created(r)
  \/ issued' = issued /\ (Recognized(r) \/ Failed(r) \/ Patched(r)
                            \/ WasConfirmed(r) \/ Refused(r))

(* Every step of the store treats every record in one of those ways. *)
LEMMA Steps ==
  ASSUME TypeOK, Next, NEW r \in Reviews
  PROVE  /\ RecordStep(r)
         /\ issued' = issued \/ \E q \in Reviews : Create(q) /\ Created(q)
<1> USE AgedType
<1>1. CASE Tick \/ \E c \in Confirmers : ConfirmAbort(c)
  BY <1>1 DEF Tick, ConfirmAbort, RecordStep
<1>2. CASE Read
  BY <1>2 DEF Read, RecordStep
<1>3. CASE Clear
  BY <1>3 DEF Clear, RecordStep
<1>4. CASE CreateFull
  BY <1>4 DEF CreateFull, Swept, RecordStep
<1>5. ASSUME NEW q \in Reviews, Create(q)
      PROVE  RecordStep(r) /\ Create(q) /\ Created(q)
  <2>1. Created(q)
    BY <1>5 DEF Create, Created
  <2>2. r # q => records'[r] = IF Evictable(r) THEN Absent ELSE records[r]
    BY <1>5 DEF Create, Swept
  <2> QED
    BY <1>5, <2>1, <2>2 DEF RecordStep
<1>6. ASSUME NEW q \in Reviews, MarkRecognized(q)
      PROVE  RecordStep(r) /\ issued' = issued
  <2>1. PICK ocr \in Draft :
          records' = [Aged EXCEPT ![q].status = "pending_review",
                                  ![q].ocr    = ocr,
                                  ![q].draft  = ocr]
    BY <1>6 DEF MarkRecognized
  <2>2. Processing(q) /\ issued' = issued
    BY <1>6 DEF MarkRecognized
  <2>3. CASE r = q
    <3>1. records'[r] = [Aged[r] EXCEPT !.status = "pending_review",
                                        !.ocr = ocr, !.draft = ocr]
      BY <2>1, <2>3
    <3> QED
      BY <2>2, <2>3, <3>1 DEF RecordStep, Recognized
  <2>4. CASE r # q
    BY <2>1, <2>2, <2>4 DEF RecordStep
  <2> QED
    BY <2>2, <2>3, <2>4
<1>7. ASSUME NEW q \in Reviews, MarkRefused(q) \/ RecognitionRaises(q) \/ DeleteImage(q)
      PROVE  RecordStep(r) /\ issued' = issued
  BY <1>7 DEF MarkRefused, RecognitionRaises, DeleteImage, RecordStep
<1>8. ASSUME NEW q \in Reviews, MarkFailed(q)
      PROVE  RecordStep(r) /\ issued' = issued
  BY <1>8 DEF MarkFailed, RecordStep, Failed, TypeOK
<1>9. ASSUME NEW q \in Reviews, NEW verdict \in {"rejected", "unreadable"}, Refuse(q, verdict)
      PROVE  RecordStep(r) /\ issued' = issued
  BY <1>9 DEF Refuse, RecordStep, Refused
<1>10. ASSUME NEW q \in Reviews, Delete(q)
       PROVE  RecordStep(r) /\ issued' = issued
  BY <1>10 DEF Delete, RecordStep
<1>11. ASSUME NEW q \in Reviews,
              (\E e \in Editors : PatchRead(e, q)) \/ (\E c \in Confirmers : ConfirmRead(c, q))
       PROVE  RecordStep(r) /\ issued' = issued
  BY <1>11 DEF PatchRead, ConfirmRead, RecordStep
<1>12. ASSUME NEW e \in Editors, PatchWrite(e)
       PROVE  RecordStep(r) /\ issued' = issued
  <2>1. patch[e].draft \in Draft /\ patch[e].id \in Reviews
    BY <1>12 DEF PatchWrite, Flight, TypeOK
  <2> QED
    BY <1>12, <2>1 DEF PatchWrite, RecordStep, Patched
<1>13. ASSUME NEW c \in Confirmers, ConfirmWrite(c)
       PROVE  RecordStep(r) /\ issued' = issued
  <2>1. confirm[c].id \in Reviews /\ issued' = issued
    BY <1>13 DEF ConfirmWrite, Flight, TypeOK
  <2>2. PICK draft \in Draft : Complete(draft) /\ records' = Confirmed(c, draft)
    BY <1>13, FinalDraftsType DEF ConfirmWrite
  <2> DEFINE s == IF EditedFields(confirm[c].ocr, draft) = {} THEN "confirmed"
                  ELSE "confirmed_with_edits"
  <2>3. records' = IF Pending(confirm[c].id)
          THEN [Aged EXCEPT ![confirm[c].id].status = s,
                            ![confirm[c].id].draft = draft]
          ELSE Aged
    BY <2>2 DEF Confirmed
  <2>4. CASE r = confirm[c].id /\ Pending(r)
    <3>1. records'[r] = [Aged[r] EXCEPT !.status = s, !.draft = draft]
      BY <2>1, <2>3, <2>4
    <3>2. WasConfirmed(r)
      BY <2>2, <2>4, <3>1 DEF WasConfirmed
    <3> QED
      BY <2>1, <3>2 DEF RecordStep
  <2>5. CASE r # confirm[c].id \/ ~Pending(r)
    <3> HIDE DEF s
    <3>1. records'[r] = Aged[r]
      BY <2>1, <2>3, <2>5
    <3> QED
      BY <2>1, <3>1 DEF RecordStep
  <2> QED
    BY <2>1, <2>4, <2>5
<1> QED
  BY <1>1, <1>2, <1>3, <1>4, <1>5, <1>6, <1>7, <1>8, <1>9, <1>10, <1>11,
     <1>12, <1>13
     DEF Next, TaskStep, Tick, ConfirmAbort, Read, Clear, CreateFull

(* Ageing a record changes its status alone, from a live one. *)
LEMMA Ageing ==
  ASSUME TypeOK, NEW r \in Reviews
  PROVE  /\ records[r] \in Record
         /\ Aged[r] \in Record
         /\ Aged[r].ocr = records[r].ocr
         /\ Aged[r].draft = records[r].draft
         /\ Aged[r].expires = records[r].expires
         /\ \/ Aged[r] = records[r]
            \/ /\ Aged[r].status = "expired"
               /\ records[r].status \in Live
               /\ now >= records[r].expires
         /\ Aged[r].status \in Live =>
              Aged[r] = records[r] /\ ~(now >= records[r].expires)
<1>1. records[r] \in Record /\ Aged[r] \in Record
  BY AgedType DEF TypeOK
<1> QED
  BY <1>1 DEF Aged, Expire, Record, Live

(* RecordStep again, field by field.  Ageing touches live records alone, so *)
(* a store call that finds a record pending or processing comes before its *)
(* expiry and starts from the record as it was.                            *)
KeepsContents(r) ==
  /\ records'[r].expires = records[r].expires
  /\ records'[r].ocr = records[r].ocr
  /\ records'[r].draft = records[r].draft

FromPending(r) ==
  /\ records[r].status = "pending_review"
  /\ ~(now >= records[r].expires)
  /\ records'[r].expires = records[r].expires
  /\ records'[r].ocr = records[r].ocr

Effect(r) ==
  \/ records'[r] = records[r]
  \/ /\ records'[r] = Absent
     /\ records'[r].status = "absent"
     /\ issued' = issued \/ Evictable(r)
  \/ Created(r)
  \/ /\ records[r].status \in Live
     /\ now >= records[r].expires
     /\ records'[r].status = "expired"
     /\ KeepsContents(r)
  \/ /\ records[r].status = "processing"
     /\ ~(now >= records[r].expires)
     /\ records'[r].status = "pending_review"
     /\ records'[r].expires = records[r].expires
     /\ issued' = issued
  \/ /\ records[r].status = "processing"
     /\ records'[r].status \in {"unreadable", "failed"}
     /\ KeepsContents(r)
     /\ issued' = issued
  \/ /\ FromPending(r)
     /\ records'[r].status \in {"pending_review", "rejected", "unreadable"}
     /\ issued' = issued
  \/ /\ FromPending(r)
     /\ issued' = issued
     /\ \E c \in Confirmers, draft \in Draft :
          /\ confirm[c].id = r
          /\ Complete(draft)
          /\ records'[r].draft = draft
          /\ records'[r].status = IF EditedFields(confirm[c].ocr, draft) = {}
                                  THEN "confirmed" ELSE "confirmed_with_edits"

LEMMA Effects ==
  ASSUME TypeOK, Next, NEW r \in Reviews
  PROVE  Effect(r)
<1> USE Ageing
<1>1. CASE records'[r] = records[r]
  BY <1>1 DEF Effect
<1>2. CASE records'[r] = Aged[r]
  BY <1>2 DEF Effect, KeepsContents
<1>3. CASE records'[r] = Absent /\ (issued' = issued \/ Evictable(r))
  BY <1>3 DEF Effect, Absent
<1>4. CASE Created(r)
  BY <1>4 DEF Effect
<1>5. CASE Recognized(r) /\ issued' = issued
  <2>1. Aged[r] = records[r] /\ ~(now >= records[r].expires)
        /\ records[r].status = "processing"
    BY <1>5 DEF Recognized, Processing, Live
  <2>2. records'[r].status = "pending_review" /\ records'[r].expires = records[r].expires
    BY <1>5, <2>1 DEF Recognized, Record
  <2> QED
    BY <1>5, <2>1, <2>2 DEF Effect
<1>6. CASE Failed(r) /\ issued' = issued
  <2>1. records'[r].status \in {"unreadable", "failed"} /\ KeepsContents(r)
    BY <1>6 DEF Failed, Record, KeepsContents
  <2> QED
    BY <1>6, <2>1 DEF Effect, Failed
<1>7. ASSUME Pending(r)
      PROVE  /\ Aged[r] = records[r]
             /\ ~(now >= records[r].expires)
             /\ records[r].status = "pending_review"
  BY <1>7 DEF Pending, Live
<1>8. CASE Patched(r) /\ issued' = issued
  <2>1. FromPending(r) /\ records'[r].status = "pending_review"
    BY <1>7, <1>8 DEF Patched, Record, FromPending
  <2> QED
    BY <1>8, <2>1 DEF Effect
<1>9. CASE WasConfirmed(r) /\ issued' = issued
  <2>1. PICK c \in Confirmers, draft \in Draft :
          /\ confirm[c].id = r
          /\ Complete(draft)
          /\ records'[r] =
               [Aged[r] EXCEPT
                  !.status = IF EditedFields(confirm[c].ocr, draft) = {}
                             THEN "confirmed" ELSE "confirmed_with_edits",
                  !.draft = draft]
    BY <1>9 DEF WasConfirmed
  <2>2. FromPending(r)
    BY <1>7, <1>9, <2>1 DEF WasConfirmed, Record, FromPending
  <2>3. /\ records'[r].draft = draft
        /\ records'[r].status = IF EditedFields(confirm[c].ocr, draft) = {}
                                THEN "confirmed" ELSE "confirmed_with_edits"
    BY <2>1 DEF Record
  <2> QED
    BY <1>9, <2>1, <2>2, <2>3 DEF Effect
<1>10. CASE Refused(r) /\ issued' = issued
  <2>1. FromPending(r) /\ records'[r].status \in {"rejected", "unreadable"}
    BY <1>7, <1>10 DEF Refused, Record, FromPending
  <2> QED
    BY <1>10, <2>1 DEF Effect
<1> QED
  BY <1>1, <1>2, <1>3, <1>4, <1>5, <1>6, <1>8, <1>9, <1>10, Steps DEF RecordStep

(* A record the store does not hold stays away, except for a new review. *)
LEMMA AbsentStays ==
  ASSUME TypeOK, Next, NEW r \in Reviews, records[r].status = "absent", ~Created(r)
  PROVE  records'[r].status = "absent"
BY Effects DEF Effect, FromPending, Live

-----------------------------------------------------------------------------
(* Confirmed without edits *)

(* ConfirmedIsUnedited is not inductive by itself.  It holds because a     *)
(* confirm request carries either the record's OCR candidate or, when it   *)
(* read the record too early, a blank one, which no draft with a price     *)
(* equals; and because an id is not used twice, so that the record it      *)
(* finds is the record it read.                                            *)
ReadsAreTrue ==
  /\ \A r \in Reviews :
       /\ records[r].status # "absent" => r \in issued
       /\ records[r].status = "processing" => records[r].ocr = Blank
       /\ records[r].status = "expired" => now >= records[r].expires
  /\ \A c \in Confirmers :
       LET r == confirm[c].id IN
       r # None =>
         /\ r \in issued
         /\ \/ records[r].status = "absent"
            \/ confirm[c].ocr = Blank
            \/ confirm[c].ocr = records[r].ocr

UneditedInv == TypeOK /\ ReadsAreTrue /\ ConfirmedIsUnedited

(* A complete draft with no edited field is the OCR candidate itself, and  *)
(* the candidate is not the blank one.                                     *)
LEMMA NoEdits ==
  ASSUME NEW ocr \in Draft, NEW draft \in Draft, Complete(draft),
         EditedFields(ocr, draft) = {}
  PROVE  draft = ocr /\ ocr # Blank
<1>1. \A f \in Fields : draft[f] = ocr[f]
  BY DEF EditedFields
<1>2. draft = ocr
  BY <1>1 DEF Draft
<1>3. PICK f \in Required : TRUE
  BY ReviewStoreAssumption
<1>4. draft[f] # None /\ f \in Fields
  BY <1>3, ReviewStoreAssumption DEF Complete
<1> QED
  BY <1>2, <1>4 DEF Blank

(* The evidence of a record that OCR is done with does not change. *)
LEMMA EvidenceStep ==
  ASSUME TypeOK, Next, NEW r \in Reviews,
         r \in issued, records[r].status # "processing"
  PROVE  records'[r].status = "absent" \/ records'[r].ocr = records[r].ocr
<1>1. ~Created(r)
  BY DEF Created
<1> QED
  BY <1>1, Effects DEF Effect, KeepsContents, FromPending

LEMMA ReadsStep ==
  ASSUME TypeOK, ReadsAreTrue, Next
  PROVE  ReadsAreTrue'
<1>1. ASSUME NEW r \in Reviews
      PROVE  /\ records'[r].status # "absent" => r \in issued'
             /\ records'[r].status = "processing" => records'[r].ocr = Blank
             /\ records'[r].status = "expired" => now' >= records'[r].expires
  <2>1. issued \subseteq issued'
    BY Steps, <1>1 DEF Created
  <2>2. CASE Created(r)
    BY <2>2 DEF Created
  <2>3. CASE ~Created(r)
    <3>0. ASSUME records'[r].status = "expired"
          PROVE  now' >= records'[r].expires
      <4>1. now >= records[r].expires /\ records'[r].expires = records[r].expires
        BY <2>3, <3>0, Effects DEF Effect, FromPending, KeepsContents, ReadsAreTrue
      <4>2. now \in Nat /\ records[r].expires \in Nat
        BY DEF TypeOK, Record
      <4> QED
        BY <4>1, <4>2, ClockStep
    <3>1. records[r].status = "absent" => records'[r].status = "absent"
      BY <2>3, AbsentStays
    <3>2. records'[r].status = "processing" => records'[r].ocr = records[r].ocr
                                               /\ records[r].status = "processing"
      BY <2>3, Effects DEF Effect, KeepsContents, FromPending
    <3> QED
      BY <2>1, <3>0, <3>1, <3>2 DEF ReadsAreTrue
  <2> QED
    BY <2>2, <2>3
<1>2. ASSUME NEW c \in Confirmers, confirm'[c].id # None
      PROVE  LET r == confirm'[c].id IN
             /\ r \in issued'
             /\ \/ records'[r].status = "absent"
                \/ confirm'[c].ocr = Blank
                \/ confirm'[c].ocr = records'[r].ocr
  <2>1. CASE confirm'[c] = confirm[c]
    <3> DEFINE r == confirm[c].id
    <3>1. r \in Reviews /\ confirm[c].id # None
      BY <1>2, <2>1 DEF TypeOK, Flight
    <3>2. r \in issued /\ issued \subseteq issued'
      BY <3>1, Steps DEF ReadsAreTrue, Created
    <3>3. CASE records[r].status = "absent"
      <4>1. records'[r].status = "absent"
        BY <3>1, <3>2, <3>3, AbsentStays DEF Created
      <4> QED
        BY <2>1, <3>2, <4>1
    <3>4. CASE records[r].status = "processing"
      <4>1. records[r].ocr = Blank
        BY <3>1, <3>4 DEF ReadsAreTrue
      <4> QED
        BY <2>1, <3>1, <3>2, <3>4, <4>1 DEF ReadsAreTrue
    <3>5. CASE records[r].status \notin {"absent", "processing"}
      <4>1. records'[r].status = "absent" \/ records'[r].ocr = records[r].ocr
        BY <3>1, <3>2, <3>5, EvidenceStep
      <4> QED
        BY <2>1, <3>1, <3>2, <3>5, <4>1 DEF ReadsAreTrue
    <3> QED
      BY <3>3, <3>4, <3>5
  <2>2. CASE confirm'[c] # confirm[c]
    <3>1. PICK r \in Reviews : ConfirmRead(c, r)
      <4>1. ASSUME NEW d \in Confirmers, ConfirmWrite(d) \/ ConfirmAbort(d)
            PROVE  confirm'[c] = confirm[c] \/ confirm'[c].id = None
        BY <4>1 DEF ConfirmWrite, ConfirmAbort, Idle, TypeOK
      <4>2. ASSUME NEW d \in Confirmers, NEW r \in Reviews, ConfirmRead(d, r), d # c
            PROVE  confirm'[c] = confirm[c]
        BY <4>2 DEF ConfirmRead, TypeOK
      <4> QED
        BY <1>2, <2>2, <4>1, <4>2 DEF Next, Tick, Read, Clear, CreateFull,
           Create, TaskStep, MarkRecognized, MarkRefused, RecognitionRaises,
           MarkFailed, DeleteImage, Refuse, Delete, PatchRead, PatchWrite
    <3>2. /\ confirm'[c].id = r
          /\ confirm'[c].ocr = Aged[r].ocr
          /\ records' = Aged
          /\ issued' = issued
          /\ records[r].status # "absent"
      BY <3>1 DEF ConfirmRead, TypeOK
    <3> QED
      BY <3>2 DEF ReadsAreTrue
  <2> QED
    BY <2>1, <2>2
<1> QED
  BY <1>1, <1>2 DEF ReadsAreTrue

LEMMA UneditedStep == UneditedInv /\ [Next]_vars => UneditedInv'
<1>1. CASE UNCHANGED vars
  BY <1>1 DEF UneditedInv, TypeOK, ReadsAreTrue, ConfirmedIsUnedited, vars
<1>2. ASSUME UneditedInv, Next
      PROVE  UneditedInv'
  <2> USE <1>2 DEF UneditedInv
  <2>1. TypeOK' /\ ReadsAreTrue'
    BY TypeStep, ReadsStep
  <2>2. ASSUME NEW r \in Reviews, records'[r].status = "confirmed"
        PROVE  records'[r].draft = records'[r].ocr
    <3>1. CASE records[r].status = "pending_review"
      <4>1. PICK c \in Confirmers, draft \in Draft :
              /\ confirm[c].id = r
              /\ Complete(draft)
              /\ EditedFields(confirm[c].ocr, draft) = {}
              /\ records'[r].draft = draft
              /\ records'[r].ocr = records[r].ocr
        BY <2>2, <3>1, Effects, SMTT(30) DEF Effect, FromPending, Created
      <4>2. confirm[c].ocr \in Draft
        BY DEF TypeOK, Flight
      <4>3. draft = confirm[c].ocr /\ confirm[c].ocr # Blank
        BY <4>1, <4>2, NoEdits
      <4>4. confirm[c].ocr = records[r].ocr
        BY <3>1, <4>1, <4>3, ReviewStoreAssumption DEF ReadsAreTrue
      <4> QED
        BY <4>1, <4>3, <4>4
    <3>2. CASE records[r].status # "pending_review"
      <4>1. records'[r] = records[r]
        BY <2>2, <3>2, Effects DEF Effect, FromPending, Created
      <4> QED
        BY <2>2, <4>1 DEF ConfirmedIsUnedited
    <3> QED
      BY <3>1, <3>2
  <2> QED
    BY <2>1, <2>2 DEF ConfirmedIsUnedited
<1> QED
  BY <1>1, <1>2

(* A review confirmed without edits carries what OCR read, whatever the    *)
(* interleaving of confirm requests with OCR and with edits.               *)
THEOREM UneditedCorrect == Spec => []ConfirmedIsUnedited
<1>1. Init => UneditedInv
  BY TypeInit DEF Init, UneditedInv, ReadsAreTrue, ConfirmedIsUnedited, Absent, Idle
<1> QED
  BY <1>1, UneditedStep, PTL DEF Spec, UneditedInv

-----------------------------------------------------------------------------
(* What a step may never do *)

LEMMA ReadsInvariant == Spec => [](TypeOK /\ ReadsAreTrue)
<1>1. Init => TypeOK /\ ReadsAreTrue
  BY TypeInit DEF Init, ReadsAreTrue, Absent, Idle
<1>2. TypeOK /\ ReadsAreTrue /\ [Next]_vars => TypeOK' /\ ReadsAreTrue'
  <2>1. CASE UNCHANGED vars
    BY <2>1 DEF TypeOK, ReadsAreTrue, vars
  <2>2. CASE Next
    BY <2>2, TypeStep, ReadsStep
  <2> QED
    BY <2>1, <2>2
<1> QED
  BY <1>1, <1>2, PTL DEF Spec

(* A stored record is not created again. *)
LEMMA NotCreatedAgain ==
  ASSUME ReadsAreTrue, NEW r \in Reviews, records[r].status # "absent"
  PROVE  ~Created(r)
BY DEF ReadsAreTrue, Created

(* A decided, failed or expired review never changes again, for any number *)
(* of requests and tasks in flight.                                        *)
THEOREM FinalCorrect == Spec => FinalIsFrozen
<1>1. TypeOK /\ ReadsAreTrue /\ [Next]_vars =>
        [\A r \in Reviews : records[r].status \in Statuses \ Live =>
                              records'[r] \in {records[r], Absent}]_vars
  <2> SUFFICES ASSUME TypeOK, ReadsAreTrue, Next, NEW r \in Reviews,
                      records[r].status \in Statuses \ Live
               PROVE  records'[r] \in {records[r], Absent}
    OBVIOUS
  <2>1. ~Created(r)
    BY NotCreatedAgain DEF Statuses, Decided, Live
  <2> QED
    BY <2>1, Effects DEF Effect, FromPending, Live
<1> QED
  BY <1>1, ReadsInvariant, PTL DEF Spec, FinalIsFrozen

(* However early a request or a task began, nothing is offered for review  *)
(* or decided after its expiry.                                            *)
THEOREM NothingLateCorrect == Spec => NothingDecidedLate
<1>1. TypeOK /\ ReadsAreTrue /\ [Next]_vars =>
        [\A r \in Reviews :
           /\ records'[r].status # records[r].status
           /\ records'[r].status \in Decided \cup {"pending_review"}
           => now < records[r].expires]_vars
  <2> SUFFICES ASSUME TypeOK, ReadsAreTrue, Next, NEW r \in Reviews,
                      records'[r].status # records[r].status,
                      records'[r].status \in Decided \cup {"pending_review"}
               PROVE  now < records[r].expires
    OBVIOUS
  <2>1. ~(now >= records[r].expires)
    BY Effects DEF Effect, FromPending, Created, Decided, Absent
  <2>2. now \in Nat /\ records[r].expires \in Nat
    BY DEF TypeOK, Record
  <2> QED
    BY <2>1, <2>2
<1> QED
  BY <1>1, ReadsInvariant, PTL DEF Spec, NothingDecidedLate

(* Once OCR has finished with a review, its evidence stays. *)
THEOREM EvidenceCorrect == Spec => EvidenceKept
<1>1. TypeOK /\ ReadsAreTrue /\ [Next]_vars =>
        [\A r \in Reviews :
           /\ records[r].status \notin {"absent", "processing"}
           /\ records'[r].status # "absent"
           => records'[r].ocr = records[r].ocr]_vars
  <2> SUFFICES ASSUME TypeOK, ReadsAreTrue, Next, NEW r \in Reviews,
                      records[r].status \notin {"absent", "processing"},
                      records'[r].status # "absent"
               PROVE  records'[r].ocr = records[r].ocr
    OBVIOUS
  <2> QED
    BY EvidenceStep DEF ReadsAreTrue
<1> QED
  BY <1>1, ReadsInvariant, PTL DEF Spec, EvidenceKept

(* A live review that is not past its expiry never leaves to make room. *)
THEOREM NoEvictionCorrect == Spec => NoLiveEviction
<1>1. TypeOK /\ ReadsAreTrue /\ [Next]_vars =>
        [issued' # issued =>
           \A r \in Reviews :
             records[r].status # "absent" /\ records'[r].status = "absent"
               => now >= records[r].expires]_vars
  <2> SUFFICES ASSUME TypeOK, ReadsAreTrue, Next, issued' # issued,
                      NEW r \in Reviews,
                      records[r].status # "absent", records'[r].status = "absent"
               PROVE  now >= records[r].expires
    OBVIOUS
  <2>1. records'[r] # records[r] /\ ~Created(r)
    BY NotCreatedAgain
  <2>2. Evictable(r)
    BY <2>1, Effects DEF Effect, FromPending
  <2> QED
    BY <2>2 DEF Evictable, Expire, Live, ReadsAreTrue
<1> QED
  BY <1>1, ReadsInvariant, PTL DEF Spec, NoLiveEviction

-----------------------------------------------------------------------------
(* Capacity *)

LEMMA StoredFinite ==
  ASSUME NEW recs
  PROVE  IsFiniteSet(Stored(recs)) /\ Cardinality(Stored(recs)) \in Nat
BY FS_Subset, FS_CardinalityType, ReviewStoreAssumption DEF Stored

(* The store never holds more than max_reviews records, whatever requests  *)
(* run beside an upload.                                                   *)
THEOREM CapacityCorrect == Spec => []CapacityRespected
<1>1. Init => CapacityRespected
  <2> SUFFICES ASSUME Init PROVE CapacityRespected
    OBVIOUS
  <2>1. Stored(records) = {}
    BY DEF Init, Stored, Absent
  <2> QED
    BY <2>1, FS_EmptySet, ReviewStoreAssumption DEF CapacityRespected
<1>2. TypeOK /\ ReadsAreTrue /\ CapacityRespected /\ [Next]_vars => CapacityRespected'
  <2>1. CASE UNCHANGED vars
    BY <2>1 DEF CapacityRespected, Stored, vars
  <2>2. ASSUME TypeOK, CapacityRespected, Next, issued' = issued
        PROVE  CapacityRespected'
    <3>1. Stored(records') \subseteq Stored(records)
      <4>1. ASSUME NEW r \in Reviews, records[r].status = "absent"
            PROVE  records'[r].status = "absent"
        <5>1. ~Created(r)
          BY <2>2 DEF Created
        <5> QED
          BY <2>2, <4>1, <5>1, AbsentStays
      <4> QED
        BY <4>1 DEF Stored
    <3>2. Cardinality(Stored(records')) <= Cardinality(Stored(records))
      BY <3>1, StoredFinite, FS_Subset
    <3> QED
      BY <2>2, <3>2, StoredFinite, ReviewStoreAssumption DEF CapacityRespected
  <2>3. ASSUME TypeOK, NEW q \in Reviews, Create(q)
        PROVE  CapacityRespected'
    <3>1. Stored(records') \subseteq Stored(Swept) \cup {q}
      BY <2>3, AgedType DEF Create, Stored
    <3>2. Cardinality(Stored(Swept) \cup {q}) <= Cardinality(Stored(Swept)) + 1
      <4>1. IsFiniteSet(Stored(Swept)) /\ Cardinality(Stored(Swept)) \in Nat
        BY StoredFinite
      <4>2. Cardinality(Stored(Swept) \cup {q}) =
              IF q \in Stored(Swept) THEN Cardinality(Stored(Swept))
              ELSE Cardinality(Stored(Swept)) + 1
        BY <4>1, FS_AddElement
      <4> QED
        BY <4>1, <4>2
    <3>3. IsFiniteSet(Stored(Swept) \cup {q})
      BY StoredFinite, FS_AddElement
    <3>4. Cardinality(Stored(records')) <= Cardinality(Stored(Swept) \cup {q})
      BY <3>1, <3>3, FS_Subset
    <3>5. Cardinality(Stored(Swept)) < MaxReviews
      BY <2>3 DEF Create, HasRoom
    <3>6. Cardinality(Stored(Swept) \cup {q}) \in Nat
      BY <3>3, FS_CardinalityType
    <3> QED
      BY <3>2, <3>4, <3>5, <3>6, StoredFinite, ReviewStoreAssumption
         DEF CapacityRespected
  <2>4. Next => issued' = issued \/ \E q \in Reviews : Create(q)
    BY DEF Next, Tick, Read, Clear, CreateFull, TaskStep, MarkRecognized,
       MarkRefused, RecognitionRaises, MarkFailed, DeleteImage, Refuse, Delete,
       PatchRead, PatchWrite, ConfirmRead, ConfirmWrite, ConfirmAbort
  <2> QED
    BY <2>1, <2>2, <2>3, <2>4
<1> QED
  BY <1>1, <1>2, ReadsInvariant, PTL DEF Spec

-----------------------------------------------------------------------------
(* The OCR tasks *)

(* A task moves by its own steps alone; the image it has to delete is put  *)
(* on disk and taken away together with it.                                *)
LEMMA TaskMoves ==
  ASSUME TypeOK, Next, NEW r \in Reviews
  PROVE  \/ /\ task'[r] = task[r]
            /\ r \in temp' <=> r \in temp
         \/ Create(r)
         \/ TaskStep(r)
<1> USE DEF TypeOK
<1>1. CASE UNCHANGED <<task, temp>>
  BY <1>1
<1>2. ASSUME NEW q \in Reviews, q # r, Create(q)
      PROVE  task'[r] = task[r] /\ (r \in temp' <=> r \in temp)
  BY <1>2 DEF Create
<1>3. ASSUME NEW q \in Reviews, q # r, TaskStep(q)
      PROVE  task'[r] = task[r] /\ (r \in temp' <=> r \in temp)
  BY <1>3 DEF TaskStep, MarkRecognized, MarkRefused, RecognitionRaises, MarkFailed,
     DeleteImage
<1>4. CASE \E q \in Reviews : Create(q) \/ TaskStep(q)
  BY <1>2, <1>3, <1>4
<1> QED
  BY <1>1, <1>4 DEF Next, Tick, Read, Clear, CreateFull, Refuse, Delete, PatchRead,
     PatchWrite, ConfirmRead, ConfirmWrite, ConfirmAbort

(* A review is in processing after a step because it was just created,     *)
(* with its task, or because it was before.                                *)
LEMMA ProcessingBefore ==
  ASSUME TypeOK, Next, NEW r \in Reviews, records'[r].status = "processing"
  PROVE  Create(r) \/ records[r].status = "processing"
<1>1. CASE Created(r)
  <2>1. PICK q \in Reviews : Create(q) /\ Created(q)
    BY <1>1, Steps DEF Created
  <2>2. q = r
    BY <1>1, <2>1 DEF Created
  <2> QED
    BY <2>1, <2>2
<1>2. CASE ~Created(r)
  BY <1>2, Effects DEF Effect, FromPending
<1> QED
  BY <1>1, <1>2

Marking == {"queued", "failing", "unreadable"}

LEMMA TasksStep ==
  ASSUME TypeOK, TasksOutstanding, Next
  PROVE  TasksOutstanding'
<1> USE DEF TypeOK
<1>1. ASSUME NEW r \in Reviews, Create(r)
      PROVE  task'[r] = "queued" /\ r \in temp'
  BY <1>1 DEF Create
<1>2. ASSUME NEW r \in Reviews, TaskStep(r)
      PROVE  /\ \/ task'[r] \in Marking
                \/ task[r] = "finally"
                \/ records'[r].status # "processing"
             /\ r \in temp' <=> task'[r] \notin {"none", "done"}
  <2>1. task[r] \notin {"none", "done"} => r \in temp
    BY DEF TasksOutstanding
  <2>2. records[r] \in Record /\ Aged[r] \in Record
    BY Ageing
  <2>3. CASE MarkRecognized(r)
    <3>1. records'[r].status = "pending_review"
      BY <2>2, <2>3, AgedType DEF MarkRecognized, Record
    <3> QED
      BY <2>1, <2>3, <3>1 DEF MarkRecognized
  <2>4. CASE MarkRefused(r) \/ RecognitionRaises(r)
    BY <2>1, <2>4 DEF MarkRefused, RecognitionRaises, Marking
  <2>5. CASE MarkFailed(r)
    <3>1. records'[r].status # "processing"
      BY <2>2, <2>5 DEF MarkFailed, Record
    <3> QED
      BY <2>1, <2>5, <3>1 DEF MarkFailed
  <2>6. CASE DeleteImage(r)
    BY <2>6 DEF DeleteImage
  <2> QED
    BY <1>2, <2>3, <2>4, <2>5, <2>6 DEF TaskStep
<1>3. ASSUME NEW r \in Reviews
      PROVE  /\ records'[r].status = "processing" => task'[r] \in Marking
             /\ r \in temp' <=> task'[r] \notin {"none", "done"}
  <2>1. /\ records[r].status = "processing" => task[r] \in Marking
        /\ r \in temp <=> task[r] \notin {"none", "done"}
    BY DEF TasksOutstanding, Marking
  <2>2. CASE Create(r)
    BY <1>1, <2>2 DEF Marking
  <2>3. CASE TaskStep(r) /\ ~Create(r)
    BY <1>2, <2>1, <2>3, ProcessingBefore DEF Marking
  <2>4. CASE /\ task'[r] = task[r]
             /\ r \in temp' <=> r \in temp
             /\ ~Create(r)
    BY <2>1, <2>4, ProcessingBefore
  <2> QED
    BY <2>2, <2>3, <2>4, TaskMoves
<1>4. temp' \subseteq Reviews
  BY TypeStep
<1> QED
  BY <1>3, <1>4 DEF TasksOutstanding, Marking

(* A review in processing always has a task that has still to mark it, and *)
(* an image on disk one that has still to delete it.                       *)
THEOREM TasksOutstandingAlways == Spec => []TasksOutstanding
<1>1. Init => TasksOutstanding
  BY DEF Init, TasksOutstanding, Absent
<1>2. TypeOK /\ TasksOutstanding /\ [Next]_vars => TasksOutstanding'
  <2>1. CASE UNCHANGED vars
    BY <2>1 DEF vars, TasksOutstanding
  <2> QED
    BY <2>1, TasksStep
<1> QED
  BY <1>1, <1>2, TypeCorrect, PTL DEF Spec

-----------------------------------------------------------------------------
(* Refinement *)

StatusOf(r) ==
  IF r \notin issued THEN "unborn"
  ELSE IF records[r].status = "absent" THEN "gone"
  ELSE records[r].status

LEMMA SameStatuses ==
  Machine!Statuses = Statuses /\ Machine!Decided = Decided /\ Machine!Live = Live
BY DEF Machine!Statuses, Machine!Decided, Machine!Live, Statuses, Decided, Live

(* The status of one review moves as the state machine allows. *)
LEMMA StatusMoves ==
  ASSUME TypeOK, ReadsAreTrue, Next, NEW r \in Reviews
  PROVE  \/ StatusOf(r)' = StatusOf(r)
         \/ <<StatusOf(r), StatusOf(r)'>> \in Machine!Allowed
<1> USE DEF StatusOf
<1>0. records[r].status \in Statuses \cup {"absent"}
  BY DEF TypeOK, Record
<1>1. CASE r \notin issued
  <2>1. records[r].status = "absent"
    BY <1>1 DEF ReadsAreTrue
  <2>2. CASE Created(r)
    BY <1>1, <2>2 DEF Created, Machine!Allowed
  <2>3. CASE ~Created(r)
    <3>1. r \notin issued'
      BY <1>1, <2>3, Steps DEF Created
    <3> QED
      BY <1>1, <3>1
  <2> QED
    BY <2>2, <2>3
<1>2. CASE r \in issued
  <2>1. r \in issued' /\ ~Created(r)
    BY <1>2, Steps DEF Created
  <2>2. CASE records[r].status = "absent"
    BY <1>2, <2>1, <2>2, AbsentStays
  <2>3. CASE records[r].status # "absent"
    <3>1. StatusOf(r) = records[r].status /\ records[r].status \in Statuses
      BY <1>0, <1>2, <2>3
    <3>2. CASE records'[r].status = "absent"
      <4>1. StatusOf(r)' = "gone"
        BY <2>1, <3>2
      <4> QED
        BY <3>1, <4>1, SameStatuses DEF Machine!Allowed
    <3>3. CASE records'[r].status # "absent"
      <4>1. StatusOf(r)' = records'[r].status
        BY <2>1, <3>3
      <4>2. \/ records'[r].status = records[r].status
            \/ <<records[r].status, records'[r].status>> \in Machine!Allowed
        BY <2>1, <3>3, Effects, SameStatuses DEF Effect, FromPending,
           Machine!Allowed, Live, Decided
      <4> QED
        BY <3>1, <4>1, <4>2
    <3> QED
      BY <3>2, <3>3
  <2> QED
    BY <2>2, <2>3
<1> QED
  BY <1>1, <1>2

(* The store implements the state machine: every step of it moves the      *)
(* status of each review along the documented transitions or not at all.   *)
THEOREM StateMachineCorrect == Spec => FollowsStateMachine
<1>1. Init => Machine!Init
  BY DEF Init, Machine!Init
<1>2. TypeOK /\ TypeOK' /\ ReadsAreTrue /\ [Next]_vars =>
        [Machine!Next]_([r \in Reviews |->
           IF r \notin issued THEN "unborn"
           ELSE IF records[r].status = "absent" THEN "gone"
           ELSE records[r].status])
  <2>1. CASE UNCHANGED vars
    BY <2>1 DEF vars
  <2>2. ASSUME TypeOK, TypeOK', ReadsAreTrue, Next
        PROVE  Machine!Next
    <3>1. \A r \in Reviews : StatusOf(r)' \in Statuses \cup {"unborn", "gone"}
      BY <2>2 DEF StatusOf, TypeOK, Record
    <3>2. \A r \in Reviews :
            \/ StatusOf(r)' = StatusOf(r)
            \/ <<StatusOf(r), StatusOf(r)'>> \in Machine!Allowed
      BY <2>2, StatusMoves
    <3> QED
      BY <3>1, <3>2, SameStatuses DEF Machine!Next, Machine!Move, StatusOf
  <2> QED
    BY <2>1, <2>2
<1> QED
  BY <1>1, <1>2, TypeCorrect, ReadsInvariant, PTL
     DEF Spec, FollowsStateMachine, Machine!Spec

=============================================================================
