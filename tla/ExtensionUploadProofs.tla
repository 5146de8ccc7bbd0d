------------------------ MODULE ExtensionUploadProofs ------------------------
(***************************************************************************)
(* Proofs about ExtensionUpload, for any number of uploads, any window and *)
(* any size of the review store.                                           *)
(***************************************************************************)
EXTENDS ExtensionUpload, TLAPS

-----------------------------------------------------------------------------
(* The inductive invariant, with one event loop or with many *)

(* A request that holds a reservation, or did until it expired. *)
Holding == {"creating", "rolling_back", "binding"}

(* The review that a request names was created from the same capture. *)
NamesOwn(u) ==
  LET r == uploads[u].review IN
  r \in Uploads /\ uploads[r].pc = "created" /\ uploads[r].key = uploads[u].key

RequestOK(u) ==
  /\ uploads[u].pc \notin {"idle", "refused"} => uploads[u].key \in Keys
  /\ uploads[u].pc \in OnLoop => uploads[u].at \in Nat
  /\ uploads[u].pc \in {"duplicate", "deduplicated"} => NamesOwn(u)
  /\ u \in tasks => uploads[u].pc = "created"

RequestInv == \A u \in Uploads : RequestOK(u)

(* A reservation is bound to a review created from its capture. *)
CaptureOK(k) ==
  captures[k] # None /\ captures[k].review # None =>
    LET r == captures[k].review IN
    uploads[r].pc = "created" /\ uploads[r].key = k

CaptureInv == \A k \in Keys : CaptureOK(k)

UploadInv == TypeOK /\ RequestInv /\ CaptureInv /\ FilesOwned /\ NothingDangling

(* The requests that a step does not run: at most they are woken. *)
Same(o) ==
  \/ uploads'[o] = uploads[o]
  \/ /\ uploads[o].pc = "asleep"
     /\ uploads'[o] = [uploads[o] EXCEPT !.pc = "checking"]

(* What a step of request u may do to the reservation of key k. *)
CaptureMoves(u, k) ==
  \/ captures'[k] = None
  \/ /\ captures'[k] = captures[k]
     /\ uploads[u].pc \in Holding /\ uploads[u].key = k /\ Existing(k) = None =>
          uploads'[u].pc \in Holding /\ uploads'[u].key = k
  \/ /\ captures'[k] \in Reservation
     /\ captures'[k].review = None
     /\ uploads'[u].pc \in Holding /\ uploads'[u].key = k
  \/ /\ captures'[k] \in Reservation
     /\ captures'[k].review = u
     /\ uploads'[u].pc = "created" /\ uploads'[u].key = k

(* A step of one request keeps the invariant if it keeps what is said of   *)
(* that request, of its file and of the reservations.                      *)
LEMMA Frame ==
  ASSUME UploadInv, TypeOK', NEW u \in Uploads,
         \A o \in Uploads \ {u} : Same(o),
         uploads[u].pc # "created",
         RequestOK(u)',
         \A o \in Uploads \ {u} : o \in files' <=> o \in files,
         \A o \in Uploads \ {u} : o \in tasks' <=> o \in tasks,
         u \in files' <=> u \in tasks' \/ uploads'[u].pc \in OnLoop,
         \A k \in Keys : CaptureMoves(u, k)
  PROVE  UploadInv'
<1> USE DEF UploadInv
<1>0. /\ None \notin Uploads
      /\ \A k \in Keys : captures[k] \in Reservation \cup {None}
      /\ \A o \in Uploads : uploads[o] \in Upload
  BY ExtensionUploadAssumption DEF TypeOK
<1>1. \A o \in Uploads : uploads[o].pc = "created" => uploads'[o] = uploads[o]
  BY DEF Same
<1>2. ASSUME NEW o \in Uploads \ {u}
      PROVE  /\ \/ uploads'[o].pc = uploads[o].pc
                \/ uploads[o].pc = "asleep" /\ uploads'[o].pc = "checking"
             /\ uploads'[o].key = uploads[o].key
             /\ uploads'[o].at = uploads[o].at
             /\ uploads'[o].review = uploads[o].review
  BY <1>0 DEF Same, Upload
<1>3. RequestInv'
  <2> SUFFICES ASSUME NEW o \in Uploads, o # u PROVE RequestOK(o)'
    BY DEF RequestInv
  <2>1. RequestOK(o)
    BY DEF RequestInv
  <2>2. NamesOwn(o) => NamesOwn(o)'
    BY <1>1, <1>2 DEF NamesOwn
  <2>3. o \in tasks' <=> o \in tasks
    OBVIOUS
  <2>4. CASE uploads'[o].pc = uploads[o].pc
    BY <1>2, <2>1, <2>2, <2>3, <2>4 DEF RequestOK
  <2>5. CASE uploads[o].pc = "asleep" /\ uploads'[o].pc = "checking"
    <3>1. uploads[o].at \in Nat /\ uploads[o].key \in Keys /\ o \notin tasks
      BY <2>1, <2>5 DEF RequestOK, OnLoop, Waiting
    <3> QED
      BY <1>2, <2>3, <2>5, <3>1 DEF RequestOK
  <2> QED
    BY <1>2, <2>4, <2>5
<1>4. CaptureInv'
  <2> SUFFICES ASSUME NEW k \in Keys PROVE CaptureOK(k)'
    BY DEF CaptureInv
  <2>1. CaptureOK(k)
    BY DEF CaptureInv
  <2>2. CASE captures'[k] = captures[k]
    <3>1. captures[k] # None /\ captures[k].review # None => captures[k].review \in Uploads
      BY <1>0 DEF Reservation
    <3> QED
      BY <1>1, <2>1, <2>2, <3>1 DEF CaptureOK
  <2>3. CASE captures'[k] # captures[k]
    BY <1>0, <2>3 DEF CaptureOK, CaptureMoves
  <2> QED
    BY <2>2, <2>3
<1>5. FilesOwned'
  <2>1. \A o \in Uploads : o \in files' <=> o \in tasks' \/ uploads'[o].pc \in OnLoop
    BY <1>2 DEF FilesOwned, OnLoop, Waiting
  <2> QED
    BY <2>1 DEF FilesOwned, TypeOK
<1>6. NothingDangling'
  <2> SUFFICES ASSUME NEW k \in Keys, captures'[k] # None, captures'[k].review = None
               PROVE  \E w \in Uploads : uploads'[w].key = k /\ uploads'[w].pc \in Holding
    BY DEF NothingDangling, Holding
  <2>1. CASE captures'[k] = captures[k]
    <3>1. PICK w \in Uploads : uploads[w].key = k /\ uploads[w].pc \in Holding
      BY <2>1 DEF NothingDangling, Holding
    <3>2. CASE w = u
      BY <1>0, <2>1, <3>1, <3>2 DEF CaptureMoves, Existing
    <3>3. CASE w # u
      BY <1>2, <3>1, <3>3 DEF Holding
    <3> QED
      BY <3>2, <3>3
  <2>2. CASE captures'[k] # captures[k]
    BY <1>0, <2>2 DEF CaptureMoves
  <2> QED
    BY <2>1, <2>2
<1> QED
  BY <1>3, <1>4, <1>5, <1>6

-----------------------------------------------------------------------------
(* What the helpers do *)

LEMMA GotoOne ==
  ASSUME TypeOK, NEW u \in Uploads, NEW pc \in OnLoop \cup {"idle", "reading"} \cup Outcomes,
         Goto(u, pc)
  PROVE  /\ uploads' \in [Uploads -> Upload]
         /\ uploads'[u] = [uploads[u] EXCEPT !.pc = pc]
         /\ \A o \in Uploads \ {u} : Same(o)
<1>1. uploads[u] \in Upload
  BY DEF TypeOK
<1>2. [uploads[u] EXCEPT !.pc = pc] \in Upload
  BY <1>1 DEF Upload
<1> QED
  BY <1>2 DEF Goto, TypeOK, Same

LEMMA NotifiedOne ==
  ASSUME TypeOK, NEW u \in Uploads, NEW ups \in [Uploads -> Upload],
         \A o \in Uploads \ {u} : ups[o] = uploads[o],
         ups[u].pc # "asleep",
         uploads' = Notified(ups)
  PROVE  /\ uploads' \in [Uploads -> Upload]
         /\ uploads'[u] = ups[u]
         /\ \A o \in Uploads \ {u} : Same(o)
<1>1. \A o \in Uploads : [ups[o] EXCEPT !.pc = "checking"] \in Upload
  BY DEF Upload, OnLoop, Waiting
<1> QED
  BY <1>1 DEF Notified, Same

LEMMA CleanedOne ==
  ASSUME TypeOK, NEW t \in Nat
  PROVE  /\ Cleaned(t) \in [Keys -> Reservation \cup {None}]
         /\ \A k \in Keys : Cleaned(t)[k] = None \/ Cleaned(t)[k] = captures[k]
  BY DEF TypeOK, Cleaned

-----------------------------------------------------------------------------
(* Every step keeps the invariant *)

LEMMA UploadInit == Init => UploadInv
<1> SUFFICES ASSUME Init PROVE UploadInv
  OBVIOUS
<1>1. \A u \in Uploads : uploads[u] = NotSent
  BY DEF Init
<1>2. NotSent \in Upload
  BY DEF NotSent, Upload
<1>3. TypeOK
  BY <1>1, <1>2 DEF Init, TypeOK
<1>4. RequestInv
  BY <1>1 DEF Init, RequestInv, RequestOK, NotSent, OnLoop, Waiting
<1>5. CaptureInv /\ NothingDangling
  BY DEF Init, CaptureInv, CaptureOK, NothingDangling
<1>6. FilesOwned
  BY <1>1 DEF Init, FilesOwned, NotSent, OnLoop, Waiting
<1> QED
  BY <1>3, <1>4, <1>5, <1>6 DEF UploadInv

(* The steps that run no request. *)
LEMMA EnvironmentStep ==
  ASSUME UploadInv,
         \/ Tick \/ ListPairings \/ ClearReviews \/ UNCHANGED vars
         \/ \E p \in Pairings : Revoke(p)
         \/ \E v \in Uploads : DeleteReview(v) \/ TaskEnds(v)
  PROVE  UploadInv'
<1> USE DEF UploadInv
<1>1. uploads' = uploads
  BY DEF Tick, ListPairings, ClearReviews, vars, Revoke, DeleteReview, TaskEnds
<1>2. \A k \in Keys : captures'[k] = None \/ captures'[k] = captures[k]
  BY CleanedOne DEF TypeOK, Tick, ListPairings, ClearReviews, vars, Revoke,
     DeleteReview, TaskEnds
<1>3. \/ files' = files /\ tasks' = tasks
      \/ \E v \in tasks : files' = files \ {v} /\ tasks' = tasks \ {v}
  BY DEF Tick, ListPairings, ClearReviews, vars, Revoke, DeleteReview, TaskEnds
<1>4. TypeOK'
  BY <1>1, <1>3, CleanedOne DEF TypeOK, Tick, ListPairings, ClearReviews, vars,
     Revoke, DeleteReview, TaskEnds
<1>5. RequestInv'
  BY <1>1, <1>3 DEF RequestInv, RequestOK, NamesOwn
<1>6. CaptureInv'
  BY <1>1, <1>2 DEF CaptureInv, CaptureOK
<1>7. FilesOwned'
  <2>1. \A v \in tasks : uploads[v].pc \notin OnLoop
    BY DEF RequestInv, RequestOK, TypeOK, OnLoop, Waiting
  <2> QED
    BY <1>1, <1>3, <2>1 DEF FilesOwned
<1>8. NothingDangling'
  BY <1>1, <1>2 DEF NothingDangling
<1> QED
  BY <1>4, <1>5, <1>6, <1>7, <1>8

(* Refusing, refused images, and going on to the next store call. *)
LEMMA AdmitStep ==
  ASSUME UploadInv, NEW u \in Uploads, NEW p \in Pairings, NEW c \in Captures,
         Admit(u, p, c)
  PROVE  UploadInv'
<1> USE DEF UploadInv
<1>1. /\ uploads[u] \in Upload /\ uploads[u].pc = "idle" /\ u \notin tasks
      /\ <<p, c>> \in Keys
  BY DEF Admit, At, TypeOK, RequestInv, RequestOK, Keys
<1>2. uploads' = [uploads EXCEPT ![u] =
                    [uploads[u] EXCEPT !.pc = "reading", !.key = <<p, c>>]]
  BY <1>1 DEF Admit, TypeOK
<1>3. [uploads[u] EXCEPT !.pc = "reading", !.key = <<p, c>>] \in Upload
  BY <1>1 DEF Upload
<1>4. \A o \in Uploads \ {u} : Same(o)
  BY <1>2 DEF TypeOK, Same
<1>5. uploads'[u].pc = "reading" /\ uploads'[u].key = <<p, c>>
  BY <1>1, <1>2 DEF TypeOK, Upload
<1>6. /\ captures' \in [Keys -> Reservation \cup {None}]
      /\ \A k \in Keys : captures'[k] = None \/ captures'[k] = captures[k]
  BY CleanedOne DEF Admit, TypeOK
<1>7. UNCHANGED <<now, reviews, files, tasks, revoked>>
  BY DEF Admit
<1>8. TypeOK'
  BY <1>2, <1>3, <1>6, <1>7 DEF TypeOK
<1>9. RequestOK(u)'
  BY <1>1, <1>5, <1>7 DEF RequestOK, OnLoop, Waiting
<1>10. \A k \in Keys : CaptureMoves(u, k)
  BY <1>1, <1>6 DEF CaptureMoves, Holding
<1>11. u \in files' <=> u \in tasks' \/ uploads'[u].pc \in OnLoop
  BY <1>1, <1>5, <1>7 DEF FilesOwned, OnLoop, Waiting
<1> QED
  BY <1>1, <1>4, <1>7, <1>8, <1>9, <1>10, <1>11, Frame

LEMMA RefuseStep ==
  ASSUME UploadInv, NEW u \in Uploads, Refuse(u) \/ Invalid(u)
  PROVE  UploadInv'
<1> USE DEF UploadInv
<1> DEFINE pc == IF uploads[u].pc = "idle" THEN "refused" ELSE "invalid"
<1>1. /\ uploads[u] \in Upload /\ uploads[u].pc \in {"idle", "reading"}
      /\ u \notin tasks /\ RequestOK(u)
  BY DEF Refuse, Invalid, At, TypeOK, RequestInv, RequestOK
<1>2. Goto(u, pc) /\ UNCHANGED <<now, reviews, files, tasks, revoked>>
  BY DEF Refuse, Invalid, At
<1>3. /\ uploads' \in [Uploads -> Upload]
      /\ uploads'[u] = [uploads[u] EXCEPT !.pc = pc]
      /\ \A o \in Uploads \ {u} : Same(o)
  BY <1>2, GotoOne DEF Outcomes
<1>4. uploads'[u].pc = pc /\ uploads'[u].key = uploads[u].key
  BY <1>1, <1>3 DEF Upload
<1>5. /\ captures' \in [Keys -> Reservation \cup {None}]
      /\ \A k \in Keys : captures'[k] = None \/ captures'[k] = captures[k]
  BY CleanedOne DEF Refuse, Invalid, TypeOK
<1>6. TypeOK'
  BY <1>2, <1>3, <1>5 DEF TypeOK
<1>7. RequestOK(u)'
  BY <1>1, <1>2, <1>4 DEF RequestOK, OnLoop, Waiting
<1>8. \A k \in Keys : CaptureMoves(u, k)
  BY <1>1, <1>5 DEF CaptureMoves, Holding
<1>9. u \in files' <=> u \in tasks' \/ uploads'[u].pc \in OnLoop
  BY <1>1, <1>2, <1>4 DEF FilesOwned, OnLoop, Waiting
<1> QED
  BY <1>1, <1>2, <1>3, <1>6, <1>7, <1>8, <1>9, Frame

LEMMA ValidateStep ==
  ASSUME UploadInv, NEW u \in Uploads, Validate(u)
  PROVE  UploadInv'
<1> USE DEF UploadInv
<1>1. /\ uploads[u] \in Upload /\ uploads[u].pc = "reading"
      /\ u \notin tasks /\ RequestOK(u) /\ now \in Nat
  BY DEF Validate, At, TypeOK, RequestInv, RequestOK
<1>2. uploads' = [uploads EXCEPT ![u] =
                    [uploads[u] EXCEPT !.pc = "reserving", !.at = now]]
  BY <1>1 DEF Validate, TypeOK
<1>3. [uploads[u] EXCEPT !.pc = "reserving", !.at = now] \in Upload
  BY <1>1 DEF Upload, OnLoop
<1>4. \A o \in Uploads \ {u} : Same(o)
  BY <1>2 DEF TypeOK, Same
<1>5. /\ uploads'[u].pc = "reserving" /\ uploads'[u].at = now
      /\ uploads'[u].key = uploads[u].key
  BY <1>1, <1>2 DEF TypeOK, Upload
<1>6. UNCHANGED <<now, captures, reviews, tasks, revoked>> /\ files' = files \cup {u}
  BY DEF Validate
<1>7. TypeOK'
  BY <1>2, <1>3, <1>6 DEF TypeOK
<1>8. RequestOK(u)'
  BY <1>1, <1>5, <1>6 DEF RequestOK, OnLoop, Waiting
<1>9. \A k \in Keys : CaptureMoves(u, k)
  BY <1>1, <1>6 DEF CaptureMoves, Holding
<1>10. u \in files' <=> u \in tasks' \/ uploads'[u].pc \in OnLoop
  BY <1>5, <1>6 DEF OnLoop
<1> QED
  BY <1>1, <1>4, <1>6, <1>7, <1>8, <1>9, <1>10, Frame

LEMMA ReserveStep ==
  ASSUME UploadInv, NEW u \in Uploads, Reserve(u)
  PROVE  UploadInv'
<1> USE DEF UploadInv
<1> DEFINE k == uploads[u].key
           t == uploads[u].at
           made == [expires |-> t + Window, review |-> None]
<1>1. /\ uploads[u] \in Upload /\ uploads[u].pc = "reserving"
      /\ u \notin tasks /\ k \in Keys /\ t \in Nat /\ now \in Nat
  BY DEF Reserve, At, TypeOK, RequestInv, RequestOK, OnLoop
<1>2. uploads' = [uploads EXCEPT ![u] =
                    [uploads[u] EXCEPT !.pc = "creating", !.when = now]]
  BY <1>1 DEF Reserve, TypeOK
<1>3. [uploads[u] EXCEPT !.pc = "creating", !.when = now] \in Upload
  BY <1>1 DEF Upload, OnLoop
<1>4. \A o \in Uploads \ {u} : Same(o)
  BY <1>2 DEF TypeOK, Same
<1>5. /\ uploads'[u].pc = "creating" /\ uploads'[u].at = t
      /\ uploads'[u].key = k
  BY <1>1, <1>2 DEF TypeOK, Upload
<1>6. /\ UNCHANGED <<now, reviews, files, tasks, revoked>>
      /\ captures' = [Cleaned(t) EXCEPT ![k] = made]
  BY DEF Reserve, Slot
<1>7. made \in Reservation /\ made.review = None
  BY <1>1, ExtensionUploadAssumption DEF Reservation
<1>8. captures' \in [Keys -> Reservation \cup {None}]
  <2> HIDE DEF made
  <2> QED
    BY <1>1, <1>6, <1>7, CleanedOne
<1>9. captures'[k] = made
      /\ \A j \in Keys \ {k} : captures'[j] = None \/ captures'[j] = captures[j]
  <2> HIDE DEF made
  <2> QED
    BY <1>1, <1>6, CleanedOne
<1>10. TypeOK'
  BY <1>2, <1>3, <1>6, <1>8 DEF TypeOK
<1>11. RequestOK(u)'
  BY <1>1, <1>5, <1>6 DEF RequestOK, OnLoop, Waiting
<1>12. \A j \in Keys : CaptureMoves(u, j)
  <2> HIDE DEF made
  <2>1. ASSUME NEW j \in Keys
        PROVE  CaptureMoves(u, j)
    <3>1. CASE j = k
      BY <1>5, <1>7, <1>9, <3>1 DEF CaptureMoves, Holding
    <3>2. CASE j # k
      BY <1>1, <1>9, <3>2 DEF CaptureMoves, Holding
    <3> QED
      BY <3>1, <3>2
  <2> QED
    BY <2>1
<1>13. u \in files' <=> u \in tasks' \/ uploads'[u].pc \in OnLoop
  BY <1>1, <1>5, <1>6 DEF FilesOwned, OnLoop, Waiting
<1> QED
  BY <1>1, <1>4, <1>6, <1>10, <1>11, <1>12, <1>13, Frame

(* Naming a bound review, in reserve_capture or after a wait. *)
LEMMA FoundIsOwn ==
  ASSUME UploadInv, NEW k \in Keys, Existing(k) # None
  PROVE  /\ Existing(k) \in Uploads
         /\ uploads[Existing(k)].pc = "created"
         /\ uploads[Existing(k)].key = k
<1>1. captures[k] \in Reservation \cup {None} /\ CaptureOK(k)
  BY DEF UploadInv, TypeOK, CaptureInv
<1> QED
  BY <1>1 DEF Existing, CaptureOK, Reservation

LEMMA DuplicateFound ==
  ASSUME UploadInv, NEW u \in Uploads, uploads[u].pc \in OnLoop,
         LET k == uploads[u].key IN
         uploads' = [uploads EXCEPT ![u].pc = "duplicate", ![u].review = Existing(k)],
         Existing(uploads[u].key) # None,
         captures' \in [Keys -> Reservation \cup {None}],
         \A k \in Keys : captures'[k] = None \/ captures'[k] = captures[k],
         uploads[u].pc \notin Holding,
         UNCHANGED <<now, reviews, files, tasks, revoked>>
  PROVE  UploadInv'
<1> USE DEF UploadInv
<1> DEFINE k == uploads[u].key
           r == Existing(k)
<1>1. /\ uploads[u] \in Upload /\ k \in Keys /\ uploads[u].at \in Nat
      /\ u \notin tasks /\ uploads[u].pc # "created"
  BY DEF TypeOK, RequestInv, RequestOK, OnLoop, Waiting
<1>2. r \in Uploads /\ uploads[r].pc = "created" /\ uploads[r].key = k
  BY <1>1, FoundIsOwn
<1>3. uploads' = [uploads EXCEPT ![u] =
                    [uploads[u] EXCEPT !.pc = "duplicate", !.review = r]]
  BY <1>1 DEF TypeOK
<1> HIDE DEF r
<1>4. [uploads[u] EXCEPT !.pc = "duplicate", !.review = r] \in Upload
  BY <1>1, <1>2 DEF Upload, OnLoop
<1>5. \A o \in Uploads \ {u} : Same(o)
  BY <1>3 DEF TypeOK, Same
<1>6. /\ uploads'[u].pc = "duplicate" /\ uploads'[u].key = k
      /\ uploads'[u].at = uploads[u].at /\ uploads'[u].review = r
  <2>1. uploads'[u] = [uploads[u] EXCEPT !.pc = "duplicate", !.review = r]
    BY <1>3 DEF TypeOK
  <2> QED
    BY ONLY <1>1, <2>1 DEF Upload
<1>7. TypeOK'
  BY <1>3, <1>4 DEF TypeOK
<1>8. uploads'[r] = uploads[r]
  BY <1>1, <1>2, <1>3 DEF TypeOK
<1>9. RequestOK(u)'
  BY <1>1, <1>2, <1>6, <1>8 DEF RequestOK, NamesOwn
<1>10. \A j \in Keys : CaptureMoves(u, j)
  BY DEF CaptureMoves
<1>11. u \in files' <=> u \in tasks' \/ uploads'[u].pc \in OnLoop
  BY <1>6 DEF FilesOwned, OnLoop
<1> QED
  BY <1>1, <1>5, <1>7, <1>9, <1>10, <1>11, Frame

LEMMA FindReservedStep ==
  ASSUME UploadInv, NEW u \in Uploads, FindReserved(u)
  PROVE  UploadInv'
<1> USE DEF UploadInv
<1> DEFINE k == uploads[u].key
           t == uploads[u].at
           found == Cleaned(t)[k]
<1>1. /\ uploads[u] \in Upload /\ uploads[u].pc = "reserving"
      /\ u \notin tasks /\ k \in Keys /\ t \in Nat
  BY DEF FindReserved, At, TypeOK, RequestInv, RequestOK, OnLoop
<1>2. found = captures[k] /\ found # None
  BY <1>1, CleanedOne DEF FindReserved, Slot
<1>3. /\ captures' \in [Keys -> Reservation \cup {None}]
      /\ \A j \in Keys : captures'[j] = None \/ captures'[j] = captures[j]
      /\ UNCHANGED <<now, reviews, files, tasks, revoked>>
  BY <1>1, CleanedOne DEF FindReserved
<1>4. uploads' = [uploads EXCEPT ![u].pc = IF found.review = None THEN "checking" ELSE "duplicate",
                                ![u].review = found.review]
  BY DEF FindReserved, Slot
<1>5. CASE found.review # None
  <2>1. Existing(k) = found.review
    BY <1>2 DEF Existing
  <2> HIDE DEF found
  <2>2. uploads' = [uploads EXCEPT ![u].pc = "duplicate", ![u].review = Existing(k)]
    BY <1>4, <1>5, <2>1
  <2> QED
    BY <1>1, <1>3, <1>5, <2>1, <2>2, DuplicateFound DEF OnLoop, Holding
<1>6. CASE found.review = None
  <2> HIDE DEF found
  <2>1. uploads' = [uploads EXCEPT ![u] =
                      [uploads[u] EXCEPT !.pc = "checking", !.review = None]]
    BY <1>4, <1>6 DEF TypeOK
  <2>2. [uploads[u] EXCEPT !.pc = "checking", !.review = None] \in Upload
    BY <1>1 DEF Upload, OnLoop, Waiting
  <2>3. \A o \in Uploads \ {u} : Same(o)
    BY <2>1 DEF TypeOK, Same
  <2>4. uploads'[u].pc = "checking" /\ uploads'[u].key = k /\ uploads'[u].at = t
    BY <1>1, <2>1 DEF TypeOK, Upload
  <2>5. TypeOK'
    BY <1>3, <2>1, <2>2 DEF TypeOK
  <2>6. RequestOK(u)'
    BY <1>1, <1>3, <2>4 DEF RequestOK
  <2>7. \A j \in Keys : CaptureMoves(u, j)
    BY <1>1, <1>3 DEF CaptureMoves, Holding
  <2>8. u \in files' <=> u \in tasks' \/ uploads'[u].pc \in OnLoop
    BY <1>1, <1>3, <2>4 DEF FilesOwned, OnLoop, Waiting
  <2> QED
    BY <1>1, <1>3, <2>3, <2>5, <2>6, <2>7, <2>8, Frame
<1> QED
  BY <1>5, <1>6

(* Steps that only go on to another place, keeping the reservations.       *)
LEMMA MoveStep ==
  ASSUME UploadInv, NEW u \in Uploads, uploads[u].pc \in OnLoop,
         NEW pc \in OnLoop \cup Outcomes, Goto(u, pc),
         UNCHANGED <<now, captures, tasks, revoked>>,
         reviews' \in SUBSET Uploads,
         files' = IF pc \in OnLoop THEN files ELSE files \ {u},
         uploads[u].pc \in Holding => pc \in Holding,
         pc = "deduplicated" => uploads[u].pc = "duplicate",
         pc \notin {"idle", "refused", "duplicate"}
  PROVE  UploadInv'
<1> USE DEF UploadInv
<1>1. /\ uploads[u] \in Upload /\ uploads[u].key \in Keys /\ uploads[u].at \in Nat
      /\ u \notin tasks /\ uploads[u].pc # "created" /\ RequestOK(u)
  BY DEF TypeOK, RequestInv, RequestOK, OnLoop, Waiting
<1>2. /\ uploads' \in [Uploads -> Upload]
      /\ uploads'[u] = [uploads[u] EXCEPT !.pc = pc]
      /\ \A o \in Uploads \ {u} : Same(o)
  BY GotoOne
<1>3. /\ uploads'[u].pc = pc /\ uploads'[u].key = uploads[u].key
      /\ uploads'[u].at = uploads[u].at /\ uploads'[u].review = uploads[u].review
  BY <1>1, <1>2 DEF Upload
<1>4. TypeOK'
  BY <1>2 DEF TypeOK
<1>5. ASSUME pc = "deduplicated"
      PROVE  NamesOwn(u)'
  <2>1. NamesOwn(u)
    BY <1>1, <1>5 DEF RequestOK
  <2>2. uploads[u].review # u
    BY <1>1, <2>1 DEF NamesOwn
  <2>3. uploads'[uploads[u].review] = uploads[uploads[u].review]
    BY <1>2, <2>1, <2>2 DEF NamesOwn, Same
  <2> QED
    BY <1>3, <2>1, <2>3 DEF NamesOwn
<1>6. RequestOK(u)'
  BY <1>1, <1>3, <1>5 DEF RequestOK
<1>7. \A k \in Keys : CaptureMoves(u, k)
  BY <1>3 DEF CaptureMoves
<1>8. u \in files' <=> u \in tasks' \/ uploads'[u].pc \in OnLoop
  BY <1>1, <1>3 DEF FilesOwned
<1> QED
  BY <1>1, <1>2, <1>4, <1>6, <1>7, <1>8, Frame

LEMMA WaitStep ==
  ASSUME UploadInv, NEW u \in Uploads, Look(u) \/ TimeOut(u)
  PROVE  UploadInv'
<1>1. /\ uploads[u].pc \in Waiting /\ uploads[u].pc \in OnLoop
      /\ uploads[u].pc \notin Holding
      /\ UNCHANGED <<now, captures, reviews, tasks, revoked>>
      /\ captures \in [Keys -> Reservation \cup {None}]
      /\ reviews \in SUBSET Uploads
  BY DEF Look, TimeOut, At, Waiting, OnLoop, Holding, UploadInv, TypeOK
<1>2. CASE GivesUp(u)
  <2>1. "pending" \in Outcomes /\ "pending" \notin OnLoop
    BY DEF Outcomes, OnLoop, Waiting
  <2> QED
    BY <1>1, <1>2, <2>1, MoveStep DEF GivesUp
<1>3. CASE Sees(u)
  BY <1>1, <1>3, DuplicateFound DEF Sees, Slot
<1>4. CASE Goto(u, "asleep") /\ UNCHANGED files
  <2>1. "asleep" \in OnLoop
    BY DEF OnLoop, Waiting
  <2> QED
    BY <1>1, <1>4, <2>1, MoveStep
<1> QED
  BY <1>2, <1>3, <1>4 DEF Look, TimeOut

LEMMA CreateStep ==
  ASSUME UploadInv, NEW u \in Uploads, CreateReview(u) \/ CreateFails(u)
  PROVE  UploadInv'
<1>1. /\ uploads[u].pc = "creating" /\ UNCHANGED <<now, captures, files, tasks, revoked>>
      /\ reviews' \in SUBSET Uploads
      /\ Goto(u, "binding") \/ Goto(u, "rolling_back")
  BY DEF CreateReview, CreateFails, At, UploadInv, TypeOK
<1>2. {"creating", "binding", "rolling_back"} \subseteq OnLoop \cap Holding
  BY DEF OnLoop, Holding
<1> QED
  BY <1>1, <1>2, MoveStep

LEMMA AnswerStep ==
  ASSUME UploadInv, NEW u \in Uploads, AnswerDuplicate(u)
  PROVE  UploadInv'
<1>1. /\ uploads[u].pc = "duplicate" /\ UNCHANGED <<now, captures, reviews, tasks, revoked>>
      /\ reviews' \in SUBSET Uploads
      /\ Goto(u, "deduplicated") \/ Goto(u, "error")
      /\ files' = files \ {u}
  BY DEF AnswerDuplicate, At, FilesWithout, UploadInv, TypeOK
<1>2. /\ {"deduplicated", "error"} \subseteq Outcomes
      /\ {"deduplicated", "error"} \cap OnLoop = {}
      /\ "duplicate" \in OnLoop /\ "duplicate" \notin Holding
  BY DEF OnLoop, Waiting, Holding, Outcomes
<1> QED
  BY <1>1, <1>2, MoveStep

LEMMA RollBackStep ==
  ASSUME UploadInv, NEW u \in Uploads, RollBack(u)
  PROVE  UploadInv'
<1> USE DEF UploadInv
<1> DEFINE k == uploads[u].key
           ups == [uploads EXCEPT ![u] = [uploads[u] EXCEPT !.pc = "full"]]
<1>1. /\ uploads[u] \in Upload /\ uploads[u].pc = "rolling_back"
      /\ u \notin tasks /\ k \in Keys /\ RequestOK(u)
  BY DEF RollBack, At, TypeOK, RequestInv, RequestOK, OnLoop
<1>2. /\ uploads' = Notified(ups)
      /\ captures' = [captures EXCEPT ![k] = None]
      /\ files' = files \ {u}
      /\ UNCHANGED <<now, reviews, tasks, revoked>>
  BY DEF RollBack, Slot, TypeOK
<1>3. /\ ups \in [Uploads -> Upload]
      /\ ups[u].pc = "full" /\ ups[u].key = k
      /\ \A o \in Uploads \ {u} : ups[o] = uploads[o]
  BY <1>1 DEF TypeOK, Upload, Outcomes
<1> HIDE DEF ups
<1>4. /\ uploads' \in [Uploads -> Upload]
      /\ uploads'[u] = ups[u]
      /\ \A o \in Uploads \ {u} : Same(o)
  BY <1>2, <1>3, NotifiedOne
<1>5. TypeOK'
  BY <1>2, <1>4 DEF TypeOK
<1>6. RequestOK(u)'
  BY <1>1, <1>2, <1>3, <1>4 DEF RequestOK, OnLoop, Waiting
<1>7. \A j \in Keys : CaptureMoves(u, j)
  BY <1>1, <1>2 DEF CaptureMoves, TypeOK
<1>8. u \in files' <=> u \in tasks' \/ uploads'[u].pc \in OnLoop
  BY <1>1, <1>2, <1>3, <1>4 DEF OnLoop, Waiting
<1> QED
  BY <1>1, <1>2, <1>4, <1>5, <1>6, <1>7, <1>8, Frame

LEMMA BindStep ==
  ASSUME UploadInv, NEW u \in Uploads, Bind(u)
  PROVE  UploadInv'
<1> USE DEF UploadInv
<1> DEFINE k == uploads[u].key
           ups == [uploads EXCEPT ![u] =
                     [uploads[u] EXCEPT !.pc = "created", !.review = u]]
<1>1. /\ uploads[u] \in Upload /\ uploads[u].pc = "binding"
      /\ u \notin tasks /\ k \in Keys /\ RequestOK(u)
      /\ u \in files
  BY DEF Bind, At, TypeOK, RequestInv, RequestOK, OnLoop, FilesOwned
<1>2. /\ uploads' = ups \/ uploads' = Notified(ups)
      /\ captures' = [captures EXCEPT ![k] = Bound(captures[k], u)]
      /\ tasks' = tasks \cup {u}
      /\ UNCHANGED <<now, reviews, files, revoked>>
  BY DEF Bind, Slot, TypeOK
<1>3. /\ ups \in [Uploads -> Upload]
      /\ ups[u].pc = "created" /\ ups[u].key = k
      /\ \A o \in Uploads \ {u} : ups[o] = uploads[o]
  BY <1>1 DEF TypeOK, Upload, Outcomes
<1> HIDE DEF ups
<1>4. /\ uploads' \in [Uploads -> Upload]
      /\ uploads'[u] = ups[u]
      /\ \A o \in Uploads \ {u} : Same(o)
  BY <1>2, <1>3, NotifiedOne DEF Same
<1>5. /\ Bound(captures[k], u) \in Reservation \cup {None}
      /\ Bound(captures[k], u) # None => Bound(captures[k], u).review = u
  BY <1>1, ExtensionUploadAssumption DEF TypeOK, Bound, Reservation
<1>6. TypeOK'
  BY <1>1, <1>2, <1>4, <1>5 DEF TypeOK
<1>7. RequestOK(u)'
  BY <1>1, <1>2, <1>3, <1>4 DEF RequestOK, OnLoop, Waiting
<1>8. \A j \in Keys : CaptureMoves(u, j)
  <2>1. ASSUME NEW j \in Keys
        PROVE  CaptureMoves(u, j)
    <3>1. CASE j = k
      BY <1>1, <1>2, <1>3, <1>4, <1>5, <3>1 DEF CaptureMoves, TypeOK
    <3>2. CASE j # k
      BY <1>1, <1>2, <3>2 DEF CaptureMoves, TypeOK
    <3> QED
      BY <3>1, <3>2
  <2> QED
    BY <2>1
<1>9. u \in files' <=> u \in tasks' \/ uploads'[u].pc \in OnLoop
  BY <1>1, <1>2
<1> QED
  BY <1>1, <1>2, <1>4, <1>6, <1>7, <1>8, <1>9, Frame

LEMMA UploadStep == UploadInv /\ [Next]_vars => UploadInv'
<1> SUFFICES ASSUME UploadInv, [Next]_vars PROVE UploadInv'
  OBVIOUS
<1>1. ASSUME NEW u \in Uploads, Step(u) \/ Refuse(u)
      PROVE  UploadInv'
  BY <1>1, RefuseStep, ValidateStep, ReserveStep, FindReservedStep, WaitStep,
     CreateStep, RollBackStep, BindStep, AnswerStep DEF Step
<1> QED
  BY <1>1, AdmitStep, EnvironmentStep DEF Next

LEMMA UploadInvariant == Spec => []UploadInv
  BY UploadInit, UploadStep, PTL DEF Spec

-----------------------------------------------------------------------------
(* Theorems, with one event loop or with many *)

(* Type correctness of uploads, reservations, reviews and files. *)
THEOREM UploadTypes == Spec => []TypeOK
<1>1. UploadInv => TypeOK
  BY DEF UploadInv
<1> QED
  BY <1>1, UploadInvariant, PTL

(* Every temporary file belongs to a request in progress or to an OCR task *)
(* that has not ended, and every such task has its file.                   *)
THEOREM FilesOwnedCorrect == Spec => []FilesOwned
<1>1. UploadInv => FilesOwned
  BY DEF UploadInv
<1> QED
  BY <1>1, UploadInvariant, PTL

(* An unbound reservation belongs to a request that will bind it or roll   *)
(* it back.                                                                *)
THEOREM NothingDanglingCorrect == Spec => []NothingDangling
<1>1. UploadInv => NothingDangling
  BY DEF UploadInv
<1> QED
  BY <1>1, UploadInvariant, PTL

(* A duplicate is answered with a review of the same capture from the same *)
(* pairing.                                                                *)
THEOREM SameCaptureCorrect == Spec => []SameCapture
<1>1. UploadInv => SameCapture
  BY DEF UploadInv, RequestInv, RequestOK, NamesOwn, SameCapture
<1> QED
  BY <1>1, UploadInvariant, PTL

-----------------------------------------------------------------------------
(* The inductive invariant with one event loop *)

(* A request that has reserved its capture and not failed. *)
Reserved(u) == uploads[u].pc \in {"creating", "binding", "created"}

TimesOK(u) ==
  /\ uploads[u].at # None => uploads[u].at \in Nat /\ uploads[u].at <= now
  /\ Reserved(u) => uploads[u].at \in Nat /\ uploads[u].when \in Nat

(* The reservation under a holder's key is its own, if it is still there: *)
(* nobody else can have made one while it has the loop.                    *)
HoldsOwn(u) ==
  LET c == captures[uploads[u].key] IN
  uploads[u].pc \in Holding /\ c # None =>
    c.review = None /\ c.expires = uploads[u].at + Window

(* Within its window the reservation of a request that has not failed is   *)
(* still there.                                                            *)
StillThere(u) ==
  LET c == captures[uploads[u].key] IN
  Reserved(u) =>
    \/ now >= uploads[u].at + Window
    \/ /\ c # None
       /\ c.expires = uploads[u].at + Window
       /\ c.review = IF uploads[u].pc = "created" THEN u ELSE None

Apart(u, v) ==
  u # v /\ Reserved(u) /\ Reserved(v) /\ uploads[u].key = uploads[v].key =>
    \/ uploads[v].when >= uploads[u].at + Window
    \/ uploads[u].when >= uploads[v].at + Window

LoopInv ==
  /\ LoopNeverWaits
  /\ \A u, v \in Uploads :
       uploads[u].pc \in OnLoop /\ uploads[v].pc \in OnLoop => u = v
  /\ \A u \in Uploads : TimesOK(u) /\ HoldsOwn(u) /\ StillThere(u)
  /\ \A u, v \in Uploads : Apart(u, v)

LEMMA OthersSame ==
  ASSUME UploadInv, NEW u \in Uploads,
         \/ Step(u) \/ Refuse(u)
         \/ \E p \in Pairings, c \in Captures : Admit(u, p, c)
  PROVE  \A o \in Uploads \ {u} : Same(o)
<1> USE DEF UploadInv, TypeOK
<1>1. CASE RollBack(u) \/ Bind(u)
  BY <1>1 DEF RollBack, Bind, Notified, Same
<1>2. CASE ~(RollBack(u) \/ Bind(u))
  BY <1>2 DEF Step, Refuse, Admit, Validate, Invalid, Reserve, FindReserved, Look,
     TimeOut, Sees, GivesUp, CreateReview, CreateFails, AnswerDuplicate, Goto, Same
<1> QED
  BY <1>1, <1>2

(* With one loop a step of one request leaves the others alone; it keeps   *)
(* the invariant if it keeps what is said of that request, and takes no    *)
(* reservation from another within its window.                             *)
LEMMA LoopFrame ==
  ASSUME UploadInv, UploadInv', LoopInv, NEW u \in Uploads,
         \A o \in Uploads \ {u} : Same(o),
         \A o \in Uploads \ {u} : uploads[o].pc \notin OnLoop,
         now' = now,
         uploads'[u].pc \notin Waiting \cup {"pending"},
         TimesOK(u)', HoldsOwn(u)', StillThere(u)',
         \A v \in Uploads \ {u} :
           /\ Reserved(v) => \/ captures'[uploads[v].key] = captures[uploads[v].key]
                             \/ now >= uploads[v].at + Window
           /\ Apart(u, v)'
  PROVE  LoopInv'
<1>1. \A o \in Uploads \ {u} : uploads'[o] = uploads[o]
  BY DEF Same, OnLoop, Waiting
<1>2. LoopNeverWaits'
  BY <1>1 DEF LoopInv, LoopNeverWaits
<1>3. \A o, v \in Uploads : uploads'[o].pc \in OnLoop /\ uploads'[v].pc \in OnLoop => o = v
  BY <1>1
<1>4. ASSUME NEW o \in Uploads \ {u}
      PROVE  TimesOK(o)' /\ HoldsOwn(o)' /\ StillThere(o)'
  <2>1. TimesOK(o) /\ StillThere(o)
    BY DEF LoopInv
  <2>2. TimesOK(o)'
    BY <1>1, <2>1 DEF TimesOK, Reserved
  <2>3. HoldsOwn(o)'
    BY <1>1 DEF HoldsOwn, Holding, OnLoop
  <2>4. StillThere(o)'
    BY <1>1, <2>1 DEF StillThere, Reserved
  <2> QED
    BY <2>2, <2>3, <2>4
<1>5. ASSUME NEW o \in Uploads, NEW v \in Uploads
      PROVE  Apart(o, v)'
  <2>1. CASE o # u /\ v # u
    BY <1>1, <2>1 DEF LoopInv, Apart, Reserved
  <2>2. CASE o = u \/ v = u
    BY <2>2 DEF Apart, Reserved
  <2> QED
    BY <2>1, <2>2
<1> QED
  BY <1>2, <1>3, <1>4, <1>5 DEF LoopInv

LEMMA LoopInit == Init => LoopInv
<1> SUFFICES ASSUME Init PROVE LoopInv
  OBVIOUS
<1>1. \A u \in Uploads : uploads[u].pc = "idle" /\ uploads[u].at = None
  BY DEF Init, NotSent
<1> QED
  BY <1>1 DEF LoopInv, LoopNeverWaits, Waiting, OnLoop, Holding, TimesOK, HoldsOwn,
     StillThere, Apart, Reserved

LEMMA LoopEnvironment ==
  ASSUME UploadInv, LoopInv,
         \/ Tick \/ ListPairings \/ ClearReviews \/ UNCHANGED vars
         \/ \E p \in Pairings : Revoke(p)
         \/ \E v \in Uploads : DeleteReview(v) \/ TaskEnds(v)
  PROVE  LoopInv'
<1>1. uploads' = uploads /\ now \in Nat /\ now' \in Nat /\ now' >= now
  BY DEF UploadInv, TypeOK, Tick, ListPairings, ClearReviews, vars, Revoke,
     DeleteReview, TaskEnds
<1>2. \A k \in Keys : \/ captures'[k] = captures[k]
                      \/ captures'[k] = None /\ now >= captures[k].expires
  <2>1. captures' = captures \/ captures' = Cleaned(now)
    BY DEF Tick, ListPairings, ClearReviews, vars, Revoke, DeleteReview, TaskEnds
  <2> QED
    BY <2>1 DEF Cleaned
<1>3. LoopNeverWaits' /\ \A u, v \in Uploads : Apart(u, v)'
  BY <1>1 DEF LoopInv, LoopNeverWaits, Apart, Reserved
<1>4. ASSUME NEW u \in Uploads
      PROVE  TimesOK(u)' /\ HoldsOwn(u)' /\ StillThere(u)'
  <2>1. TimesOK(u) /\ HoldsOwn(u) /\ StillThere(u)
    BY DEF LoopInv
  <2>2. TimesOK(u)'
    BY <1>1, <2>1 DEF TimesOK, Reserved
  <2>3. uploads[u].pc \in Holding \/ Reserved(u) => uploads[u].key \in Keys
    BY DEF UploadInv, RequestInv, RequestOK, Holding, Reserved
  <2>4. HoldsOwn(u)'
    BY <1>1, <1>2, <2>1, <2>3 DEF HoldsOwn
  <2>5. StillThere(u)'
    BY <1>1, <1>2, <2>1, <2>3, ExtensionUploadAssumption
       DEF StillThere, TimesOK, Reserved
  <2> QED
    BY <2>2, <2>4, <2>5
<1> QED
  BY <1>1, <1>3, <1>4 DEF LoopInv

(* Where a step of request u with the loop finds everyone else. *)
LEMMA Alone ==
  ASSUME UploadInv, LoopInv, OneLoop, NEW u \in Uploads,
         \/ Step(u) \/ Refuse(u)
         \/ \E p \in Pairings, c \in Captures : Admit(u, p, c)
  PROVE  /\ \A o \in Uploads \ {u} : Same(o) /\ uploads[o].pc \notin OnLoop
         /\ now' = now /\ now \in Nat
         /\ uploads[u].pc \notin Waiting \cup {"pending"}
         /\ TimesOK(u) /\ HoldsOwn(u) /\ StillThere(u)
<1>1. LoopFree(u)
  BY DEF Step, Refuse, Admit, Validate, Invalid, Reserve, FindReserved, Look,
     TimeOut, CreateReview, CreateFails, RollBack, Bind, AnswerDuplicate, At
<1>2. now' = now /\ now \in Nat
  BY DEF Step, Refuse, Admit, Validate, Invalid, Reserve, FindReserved, Look,
     TimeOut, CreateReview, CreateFails, RollBack, Bind, AnswerDuplicate,
     UploadInv, TypeOK
<1> QED
  BY <1>1, <1>2, OthersSame DEF LoopFree, LoopInv, LoopNeverWaits

(* Cleaning up at a time that has come takes a reservation only after its  *)
(* window.                                                                 *)
LEMMA CleanedLate ==
  ASSUME UploadInv, LoopInv, NEW v \in Uploads, Reserved(v),
         NEW t \in Nat, t <= now,
         Cleaned(t)[uploads[v].key] # captures[uploads[v].key]
  PROVE  now >= uploads[v].at + Window
<1>1. /\ uploads[v].key \in Keys /\ uploads[v].at \in Nat /\ now \in Nat
      /\ StillThere(v)
  BY DEF UploadInv, RequestInv, RequestOK, Reserved, LoopInv, TimesOK, TypeOK
<1> QED
  BY <1>1, ExtensionUploadAssumption DEF StillThere, Cleaned

(* The steps before a capture is reserved, and those that end a request    *)
(* without touching the reservations of others.                            *)
LEMMA LoopQuietStep ==
  ASSUME UploadInv, UploadInv', LoopInv, OneLoop, NEW u \in Uploads,
         \/ \E p \in Pairings, c \in Captures : Admit(u, p, c)
         \/ Refuse(u) \/ Invalid(u) \/ Validate(u) \/ FindReserved(u)
         \/ AnswerDuplicate(u)
  PROVE  LoopInv'
<1>1. /\ \A o \in Uploads \ {u} : Same(o) /\ uploads[o].pc \notin OnLoop
      /\ now' = now /\ now \in Nat
      /\ TimesOK(u)
  BY Alone DEF Step
<1>2. uploads[u] \in Upload
  BY DEF UploadInv, TypeOK
<1>3. uploads'[u].pc \in {"reading", "refused", "invalid", "reserving", "duplicate",
                         "deduplicated", "error"}
  <2>1. CASE FindReserved(u)
    <3> DEFINE k == uploads[u].key
               t == uploads[u].at
               found == Cleaned(t)[k]
    <3>1. uploads[u].pc = "reserving" /\ k \in Keys /\ found # None
      BY <2>1 DEF FindReserved, At, Slot, UploadInv, RequestInv, RequestOK
    <3>2. captures[k] = found
      BY <3>1 DEF Cleaned
    <3>3. found.review # None
      <4> SUFFICES ASSUME captures[k].review = None PROVE FALSE
        BY <3>2
      <4>1. PICK w \in Uploads : uploads[w].pc \in {"creating", "rolling_back", "binding"}
        BY <3>1, <3>2 DEF UploadInv, NothingDangling
      <4> QED
        BY <1>1, <3>1, <4>1 DEF OnLoop
    <3> HIDE DEF found
    <3>4. uploads' = [uploads EXCEPT ![u].pc = "duplicate", ![u].review = found.review]
      BY <2>1, <3>3 DEF FindReserved, Slot, found
    <3> QED
      BY <3>4 DEF UploadInv, TypeOK, Upload
  <2>2. CASE ~FindReserved(u)
    BY <2>2 DEF Admit, Refuse, Invalid, Validate, AnswerDuplicate, Goto,
       UploadInv, TypeOK, Upload
  <2> QED
    BY <2>1, <2>2
<1>4. uploads'[u].at = uploads[u].at \/ uploads'[u].at = now
  BY <1>2 DEF Admit, Refuse, Invalid, Validate, FindReserved, AnswerDuplicate, Goto,
     UploadInv, TypeOK, Upload
<1>5. ~Reserved(u)' /\ uploads'[u].pc \notin Holding
      /\ uploads'[u].pc \notin Waiting \cup {"pending"}
  BY <1>3 DEF Reserved, Holding, Waiting
<1>6. TimesOK(u)' /\ HoldsOwn(u)' /\ StillThere(u)'
  BY <1>1, <1>4, <1>5 DEF TimesOK, HoldsOwn, StillThere
<1>7. ASSUME NEW v \in Uploads \ {u}
      PROVE  /\ Reserved(v) => \/ captures'[uploads[v].key] = captures[uploads[v].key]
                               \/ now >= uploads[v].at + Window
             /\ Apart(u, v)'
  <2>1. \/ captures' = captures \/ captures' = Cleaned(now)
        \/ captures' = Cleaned(uploads[u].at) /\ uploads[u].pc = "reserving"
    BY DEF Admit, Refuse, Invalid, Validate, FindReserved, AnswerDuplicate, At
  <2>2. uploads[u].pc = "reserving" => uploads[u].at \in Nat /\ uploads[u].at <= now
    BY <1>1, ExtensionUploadAssumption
       DEF UploadInv, RequestInv, RequestOK, OnLoop, TimesOK
  <2> QED
    BY <1>1, <1>5, <2>1, <2>2, CleanedLate DEF Apart
<1> QED
  BY <1>1, <1>5, <1>6, <1>7, LoopFrame

(* A new reservation comes after the window of every request that reserved *)
(* the capture before.                                                     *)
LEMMA LoopReserveStep ==
  ASSUME UploadInv, UploadInv', LoopInv, OneLoop, NEW u \in Uploads, Reserve(u)
  PROVE  LoopInv'
<1> DEFINE k == uploads[u].key
           t == uploads[u].at
           made == [expires |-> t + Window, review |-> None]
<1>1. /\ \A o \in Uploads \ {u} : Same(o) /\ uploads[o].pc \notin OnLoop
      /\ now' = now /\ now \in Nat
      /\ TimesOK(u)
  BY Alone DEF Step
<1>2. /\ uploads[u] \in Upload /\ uploads[u].pc = "reserving" /\ k \in Keys
      /\ t \in Nat /\ t <= now
      /\ captures \in [Keys -> Reservation \cup {None}]
  BY <1>1, ExtensionUploadAssumption
     DEF Reserve, At, UploadInv, TypeOK, RequestInv, RequestOK, OnLoop, TimesOK
<1>3. /\ uploads'[u].pc = "creating" /\ uploads'[u].at = t
      /\ uploads'[u].key = k /\ uploads'[u].when = now
  <2>1. uploads'[u] = [uploads[u] EXCEPT !.pc = "creating", !.when = now]
    BY DEF Reserve, UploadInv, TypeOK
  <2> QED
    BY <1>2, <2>1 DEF Upload
<1>4. captures'[k] = made /\ \A j \in Keys \ {k} : captures'[j] = Cleaned(t)[j]
  BY <1>2 DEF Reserve, Slot, Cleaned
<1>5. TimesOK(u)' /\ HoldsOwn(u)' /\ StillThere(u)'
  <2>1. made.review = None /\ made.expires = t + Window
    OBVIOUS
  <2>2. TimesOK(u)'
    BY <1>1, <1>2, <1>3 DEF TimesOK
  <2> HIDE DEF made
  <2>3. HoldsOwn(u)'
    BY <1>3, <1>4, <2>1 DEF HoldsOwn
  <2>4. StillThere(u)'
    <3>1. made # None
      BY <1>2, ExtensionUploadAssumption DEF made, Reservation
    <3> QED
      BY <1>3, <1>4, <2>1, <3>1 DEF StillThere
  <2> QED
    BY <2>2, <2>3, <2>4
<1> HIDE DEF made
<1>6. ASSUME NEW v \in Uploads \ {u}
      PROVE  /\ Reserved(v) => \/ captures'[uploads[v].key] = captures[uploads[v].key]
                               \/ now >= uploads[v].at + Window
             /\ Apart(u, v)'
  <2>1. Reserved(v) => /\ uploads[v].key \in Keys /\ uploads[v].at \in Nat
                      /\ StillThere(v)
    BY DEF UploadInv, RequestInv, RequestOK, Reserved, LoopInv, TimesOK
  <2>2. Reserved(v) /\ uploads[v].key = k => now >= uploads[v].at + Window
    <3> SUFFICES ASSUME Reserved(v), uploads[v].key = k
                 PROVE  now >= uploads[v].at + Window
      OBVIOUS
    <3>1. Cleaned(t)[k] = None
      BY DEF Reserve, Slot
    <3>2. CASE captures[k] = None
      BY <2>1, <3>2 DEF StillThere
    <3>3. CASE captures[k] # None
      BY <1>2, <3>1, <3>3, CleanedLate
    <3> QED
      BY <3>2, <3>3
  <2>3. Reserved(v) /\ uploads[v].key # k =>
          \/ captures'[uploads[v].key] = captures[uploads[v].key]
          \/ now >= uploads[v].at + Window
    BY <1>2, <1>4, <2>1, CleanedLate
  <2>4. uploads'[v] = uploads[v] \/ ~Reserved(v)
    BY <1>1 DEF Same, Reserved
  <2>5. Reserved(v)' => Reserved(v)
    BY <1>1 DEF Same, Reserved, UploadInv, TypeOK, Upload, OnLoop, Waiting
  <2>6. Apart(u, v)'
    BY <1>3, <2>2, <2>4, <2>5 DEF Apart
  <2> QED
    BY <2>2, <2>3, <2>6
<1>7. uploads'[u].pc \notin Waiting \cup {"pending"}
  BY <1>3 DEF Waiting
<1> QED
  BY <1>1, <1>5, <1>6, <1>7, LoopFrame

(* While a request holds the loop, no other request's reservation stands   *)
(* under its key, so that it can neither take one nor bind it.             *)
LEMMA NotUnderOwnKey ==
  ASSUME UploadInv, LoopInv, NEW u \in Uploads, NEW v \in Uploads \ {u},
         uploads[u].pc \in Holding,
         \A o \in Uploads \ {u} : uploads[o].pc \notin OnLoop,
         Reserved(v), uploads[v].key = uploads[u].key
  PROVE  now >= uploads[v].at + Window
<1>1. HoldsOwn(u) /\ StillThere(v)
  BY DEF LoopInv
<1>2. uploads[v].pc = "created" /\ v # None
  BY ExtensionUploadAssumption DEF Reserved, OnLoop
<1> QED
  BY <1>1, <1>2 DEF HoldsOwn, StillThere

(* Creating the review, rolling back and binding. *)
LEMMA LoopHolderStep ==
  ASSUME UploadInv, UploadInv', LoopInv, OneLoop, NEW u \in Uploads,
         CreateReview(u) \/ CreateFails(u) \/ RollBack(u) \/ Bind(u)
  PROVE  LoopInv'
<1> DEFINE k == uploads[u].key
<1>1. /\ \A o \in Uploads \ {u} : Same(o)
      /\ \A o \in Uploads \ {u} : uploads[o].pc \notin OnLoop
      /\ now' = now /\ now \in Nat
      /\ TimesOK(u) /\ HoldsOwn(u) /\ StillThere(u)
  BY Alone DEF Step
<1>2. /\ uploads[u] \in Upload /\ uploads[u].pc \in Holding /\ k \in Keys
      /\ uploads[u].at \in Nat
      /\ captures \in [Keys -> Reservation \cup {None}]
  BY DEF CreateReview, CreateFails, RollBack, Bind, At, Holding, OnLoop,
     UploadInv, TypeOK, RequestInv, RequestOK
<1>3. /\ uploads'[u].key = k /\ uploads'[u].at = uploads[u].at
      /\ uploads'[u].when = uploads[u].when
      /\ uploads'[u].pc =
           IF CreateReview(u) THEN "binding" ELSE IF CreateFails(u) THEN "rolling_back"
           ELSE IF RollBack(u) THEN "full" ELSE "created"
  <2>1. CASE CreateReview(u)
    BY <1>2, <2>1 DEF CreateReview, Goto, UploadInv, TypeOK, Upload
  <2>2. CASE CreateFails(u)
    <3>1. ~CreateReview(u)
      BY <2>2 DEF CreateReview, CreateFails, Goto, UploadInv, TypeOK, Upload
    <3> QED
      BY <1>2, <2>2, <3>1 DEF CreateFails, Goto, UploadInv, TypeOK, Upload
  <2>3. CASE RollBack(u)
    <3>1. ~CreateReview(u) /\ ~CreateFails(u)
      BY <2>3 DEF CreateReview, CreateFails, RollBack, At
    <3>2. uploads'[u] = [uploads[u] EXCEPT !.pc = "full"]
      BY <2>3 DEF RollBack, Notified, UploadInv, TypeOK, Upload
    <3> QED
      BY <1>2, <2>3, <3>1, <3>2 DEF Upload
  <2>4. CASE Bind(u)
    <3>1. ~CreateReview(u) /\ ~CreateFails(u) /\ ~RollBack(u)
      BY <2>4 DEF CreateReview, CreateFails, RollBack, Bind, At
    <3>2. uploads'[u] = [uploads[u] EXCEPT !.pc = "created", !.review = u]
      BY <2>4 DEF Bind, Notified, UploadInv, TypeOK, Upload
    <3> QED
      BY <1>2, <2>4, <3>1, <3>2 DEF Upload
  <2> QED
    BY <2>1, <2>2, <2>3, <2>4
<1>4. \A j \in Keys \ {k} : captures'[j] = captures[j]
  BY <1>2 DEF CreateReview, CreateFails, RollBack, Bind, Slot
<1>5. /\ uploads[u].pc \in {"creating", "binding"} \/ CreateFails(u) \/ RollBack(u)
      /\ uploads'[u].pc \in {"binding", "rolling_back"} => captures' = captures
      /\ uploads'[u].pc = "created" =>
           captures'[k] = Bound(captures[k], u) /\ uploads[u].pc = "binding"
      /\ uploads'[u].pc = "binding" => uploads[u].pc = "creating"
  BY <1>2, <1>3 DEF CreateReview, CreateFails, RollBack, Bind, Slot, At
<1>6. Reserved(u)' => Reserved(u)
  BY <1>3, <1>5 DEF Reserved
<1>7. TimesOK(u)' /\ HoldsOwn(u)'
  BY <1>1, <1>2, <1>3, <1>5, <1>6 DEF TimesOK, HoldsOwn, Holding
<1>8. StillThere(u)'
  <2> SUFFICES ASSUME Reserved(u)', ~(now >= uploads[u].at + Window)
               PROVE  /\ captures'[k] # None
                      /\ captures'[k].expires = uploads[u].at + Window
                      /\ captures'[k].review =
                           IF uploads'[u].pc = "created" THEN u ELSE None
    BY <1>1, <1>3 DEF StillThere
  <2>1. /\ captures[k] # None /\ captures[k].expires = uploads[u].at + Window
        /\ captures[k].review = None
    BY <1>1, <1>2, <1>6 DEF StillThere, Holding
  <2>2. CASE uploads'[u].pc = "created"
    <3>1. captures[k] \in Reservation
      BY <1>2, <2>1
    <3>2. captures'[k] = [captures[k] EXCEPT !.review = u]
      BY <1>5, <2>1, <2>2 DEF Bound
    <3>3. captures'[k] \in [expires : Nat, review : Uploads]
          /\ captures'[k].expires = captures[k].expires /\ captures'[k].review = u
      BY <3>1, <3>2 DEF Reservation
    <3>4. captures'[k] # None
      <4>1. captures'[k] \in Reservation
        BY <3>3 DEF Reservation
      <4> QED
        BY <4>1, ExtensionUploadAssumption
    <3> QED
      BY <2>1, <2>2, <3>3, <3>4
  <2>3. CASE uploads'[u].pc # "created"
    <3>1. uploads'[u].pc = "binding"
      BY <1>3, <2>3 DEF Reserved
    <3> QED
      BY <1>5, <2>1, <2>3, <3>1
  <2> QED
    BY <2>2, <2>3
<1>9. ASSUME NEW v \in Uploads \ {u}
      PROVE  /\ Reserved(v) => \/ captures'[uploads[v].key] = captures[uploads[v].key]
                               \/ now >= uploads[v].at + Window
             /\ Apart(u, v)'
  <2>1. Reserved(v) => uploads[v].key \in Keys
    BY DEF UploadInv, RequestInv, RequestOK, Reserved
  <2>2. Reserved(v) => \/ captures'[uploads[v].key] = captures[uploads[v].key]
                      \/ now >= uploads[v].at + Window
    BY <1>1, <1>2, <1>4, <2>1, NotUnderOwnKey
  <2>3. uploads'[v] = uploads[v]
    BY <1>1 DEF Same, OnLoop, Waiting
  <2>4. Apart(u, v)'
    BY <1>3, <1>6, <2>3 DEF LoopInv, Apart, Reserved
  <2> QED
    BY <2>2, <2>4
<1>10. uploads'[u].pc \notin Waiting \cup {"pending"}
  BY <1>3 DEF Waiting
<1> QED
  BY <1>1, <1>7, <1>8, <1>9, <1>10, LoopFrame

LEMMA LoopStep ==
  ASSUME OneLoop, UploadInv, LoopInv, [Next]_vars
  PROVE  LoopInv'
<1>1. UploadInv'
  BY UploadStep
<1>2. ASSUME NEW u \in Uploads, Look(u) \/ TimeOut(u)
      PROVE  FALSE
  BY <1>2 DEF Look, TimeOut, At, LoopInv, LoopNeverWaits, Waiting
<1> QED
  BY <1>1, <1>2, LoopEnvironment, LoopQuietStep, LoopReserveStep, LoopHolderStep
     DEF Next, Step

LEMMA LoopInvariant ==
  ASSUME OneLoop
  PROVE  Spec => []LoopInv
<1>1. UploadInv /\ LoopInv /\ [Next]_vars => LoopInv'
  BY LoopStep
<1> QED
  BY <1>1, LoopInit, UploadInvariant, PTL DEF Spec

-----------------------------------------------------------------------------
(* Theorems, with one event loop *)

(* With one event loop no upload ever waits for another on the loop, and   *)
(* none is answered capture_pending.                                       *)
THEOREM LoopNeverWaitsCorrect ==
  ASSUME OneLoop
  PROVE  Spec => []LoopNeverWaits
<1>1. LoopInv => LoopNeverWaits
  BY DEF LoopInv
<1> QED
  BY <1>1, LoopInvariant, PTL

(* With one event loop a capture makes at most one review in a window, so  *)
(* it is read once.                                                        *)
THEOREM OneReviewCorrect ==
  ASSUME OneLoop
  PROVE  Spec => []OneReviewPerWindow
<1>1. LoopInv => OneReviewPerWindow
  BY DEF LoopInv, Apart, Reserved, OneReviewPerWindow
<1> QED
  BY <1>1, LoopInvariant, PTL

-----------------------------------------------------------------------------
(* No wake-up is lost *)

(* A request that is asleep after a step was asleep before it or has just  *)
(* gone to sleep, under the same key.                                      *)
LEMMA FallsAsleep ==
  ASSUME UploadInv, Next, NEW o \in Uploads, uploads'[o].pc = "asleep"
  PROVE  /\ uploads'[o].key = uploads[o].key
         /\ uploads[o].key \in Keys
         /\ \/ uploads[o].pc = "asleep"
            \/ /\ Existing(uploads[o].key) = None
               /\ captures' = captures
<1> USE DEF UploadInv
<1>1. uploads[o] \in Upload
  BY DEF TypeOK
<1>2. uploads[o].pc = "asleep" => uploads[o].key \in Keys
  BY DEF RequestInv, RequestOK
<1>3. CASE UNCHANGED uploads
  BY <1>2, <1>3
<1>4. ASSUME NEW u \in Uploads,
             \/ Step(u) \/ Refuse(u)
             \/ \E p \in Pairings, c \in Captures : Admit(u, p, c)
      PROVE  /\ uploads'[o].key = uploads[o].key
             /\ uploads[o].key \in Keys
             /\ \/ uploads[o].pc = "asleep"
                \/ Existing(uploads[o].key) = None /\ captures' = captures
  <2>1. CASE o # u
    <3>1. Same(o)
      BY <1>4, <2>1, OthersSame
    <3> QED
      BY <1>1, <1>2, <3>1 DEF Same, Upload
  <2>2. CASE o = u
    <3>1. uploads'[u].pc = "asleep" /\ uploads[u] \in Upload /\ DOMAIN uploads = Uploads
      BY <1>1, <2>2 DEF TypeOK
    <3>2. ~(Refuse(u) \/ Invalid(u) \/ CreateReview(u) \/ CreateFails(u) \/ AnswerDuplicate(u))
      BY <3>1 DEF Upload, Refuse, Invalid, CreateReview, CreateFails, AnswerDuplicate, Goto
    <3>3. ~(Validate(u) \/ \E p \in Pairings, c \in Captures : Admit(u, p, c))
      BY <3>1 DEF Upload, Validate, Admit
    <3>4. ~(Reserve(u) \/ FindReserved(u))
      BY <3>1 DEF Upload, Reserve, FindReserved
    <3>5. ~TimeOut(u)
      BY <3>1 DEF Upload, TimeOut, Sees, GivesUp, Goto
    <3>6. ~(RollBack(u) \/ Bind(u))
      BY <3>1 DEF Upload, RollBack, Bind, Notified
    <3>7. Look(u)
      BY <1>4, <3>2, <3>3, <3>4, <3>5, <3>6 DEF Step
    <3>8. uploads[u].pc = "checking" /\ uploads[u].key \in Keys
      BY <3>7 DEF Look, At, RequestInv, RequestOK, OnLoop, Waiting
    <3>9. ~GivesUp(u) /\ ~Sees(u)
      BY <3>1 DEF Upload, GivesUp, Sees, Goto
    <3>10. Existing(uploads[u].key) = None /\ Goto(u, "asleep")
      BY <3>7, <3>9 DEF Look, Slot
    <3>11. uploads'[u].key = uploads[u].key
      BY <3>1, <3>10 DEF Upload, Goto
    <3>12. captures' = captures
      BY <3>7 DEF Look
    <3> QED
      BY <2>2, <3>8, <3>10, <3>11, <3>12
  <2> QED
    BY <2>1, <2>2
<1> QED
  BY <1>3, <1>4 DEF Next, Tick, ListPairings, ClearReviews, Revoke, DeleteReview,
     TaskEnds

(* The one step that binds a capture wakes every sleeper.                  *)
LEMMA BindingWakes ==
  ASSUME UploadInv, Next, NEW k \in Keys, Existing(k) = None, Existing(k)' # None,
         NEW o \in Uploads
  PROVE  uploads'[o].pc # "asleep"
<1> USE DEF UploadInv
<1>1. CASE UNCHANGED captures
  BY <1>1 DEF Existing
<1>2. ASSUME NEW t \in Nat, captures' = Cleaned(t)
      PROVE  FALSE
  BY <1>2, CleanedOne DEF Existing
<1>3. ASSUME NEW u \in Uploads, Reserve(u)
      PROVE  FALSE
  <2>1. uploads[u].at \in Nat /\ uploads[u].key \in Keys
    BY <1>3 DEF Reserve, At, RequestInv, RequestOK, OnLoop
  <2>2. \/ captures'[k] = Cleaned(uploads[u].at)[k]
        \/ captures'[k].review = None
    BY <1>3, <2>1, CleanedOne DEF Reserve, Slot
  <2> QED
    BY <2>1, <2>2, CleanedOne DEF Existing
<1>4. ASSUME NEW u \in Uploads, RollBack(u)
      PROVE  FALSE
  BY <1>4 DEF RollBack, Slot, Existing, TypeOK
<1>5. ASSUME NEW u \in Uploads, Bind(u)
      PROVE  uploads'[o].pc # "asleep"
  <2> DEFINE ups == [uploads EXCEPT ![u].pc = "created", ![u].review = u]
  <2>1. /\ captures' = [captures EXCEPT ![uploads[u].key] = Bound(captures[uploads[u].key], u)]
        /\ uploads' = IF captures[uploads[u].key] = None THEN ups ELSE Notified(ups)
        /\ uploads[u].key \in Keys
    BY <1>5 DEF Bind, Slot, At, RequestInv, RequestOK, TypeOK
  <2>2. captures[uploads[u].key] # None
    <3>1. SUFFICES ASSUME captures[uploads[u].key] = None PROVE captures' = captures
      BY <1>1 DEF Existing
    <3> QED
      BY <2>1, <3>1 DEF Bound, TypeOK
  <2>3. ups[o] \in Upload
    <3>1. uploads[o] \in Upload /\ DOMAIN uploads = Uploads
      BY DEF TypeOK
    <3>2. CASE o = u
      BY <3>1, <3>2 DEF Upload, Outcomes
    <3>3. CASE o # u
      BY <3>1, <3>3
    <3> QED
      BY <3>2, <3>3
  <2>4. uploads' = Notified(ups)
    BY <2>1, <2>2
  <2> HIDE DEF ups
  <2> QED
    BY <2>3, <2>4 DEF Notified, Upload
<1>6. ASSUME NEW u \in Uploads, FindReserved(u)
      PROVE  FALSE
  <2>1. uploads[u].at \in Nat
    BY <1>6 DEF FindReserved, At, RequestInv, RequestOK, OnLoop
  <2> QED
    BY <1>2, <1>6, <2>1 DEF FindReserved
<1>7. now \in Nat
  BY DEF TypeOK
<1>8. CASE \E u \in Uploads : \/ Refuse(u) \/ DeleteReview(u) \/ TaskEnds(u)
                              \/ \E p \in Pairings, c \in Captures : Admit(u, p, c)
  BY <1>1, <1>2, <1>7, <1>8 DEF Refuse, DeleteReview, TaskEnds, Admit
<1>9. CASE \E u \in Uploads : \/ Validate(u) \/ Invalid(u) \/ Look(u) \/ TimeOut(u)
                              \/ CreateReview(u) \/ CreateFails(u) \/ AnswerDuplicate(u)
  BY <1>1, <1>9 DEF Validate, Invalid, Look, TimeOut, CreateReview, CreateFails,
     AnswerDuplicate
<1>10. CASE Tick \/ ListPairings \/ ClearReviews \/ \E p \in Pairings : Revoke(p)
  BY <1>1, <1>2, <1>7, <1>10 DEF Tick, ListPairings, ClearReviews, Revoke
<1> QED
  BY <1>3, <1>4, <1>5, <1>6, <1>8, <1>9, <1>10 DEF Next, Step

(* No upload sleeps on a capture that is already bound: it looks and goes  *)
(* to sleep in one hold of the lock, and the binding notifies all.         *)
THEOREM NoLostWakeupAlways == Spec => []NoLostWakeup
<1>1. Init => NoLostWakeup
  BY DEF Init, NotSent, NoLostWakeup
<1>2. UploadInv /\ NoLostWakeup /\ [Next]_vars => NoLostWakeup'
  <2>1. CASE UNCHANGED vars
    BY <2>1 DEF vars, NoLostWakeup, Existing, Slot
  <2>2. ASSUME UploadInv, NoLostWakeup, Next, NEW o \in Uploads,
               uploads'[o].pc = "asleep"
        PROVE  Existing(uploads[o].key)' = None
    <3>1. /\ uploads'[o].key = uploads[o].key
          /\ uploads[o].key \in Keys
          /\ \/ uploads[o].pc = "asleep"
             \/ Existing(uploads[o].key) = None /\ captures' = captures
      BY <2>2, FallsAsleep
    <3>2. Existing(uploads[o].key) = None
      BY <2>2, <3>1 DEF NoLostWakeup, Slot
    <3>3. CASE captures' = captures
      BY <3>1, <3>2, <3>3 DEF Existing
    <3>4. CASE uploads[o].pc = "asleep"
      BY <2>2, <3>1, <3>2, BindingWakes
    <3> QED
      BY <3>1, <3>3, <3>4
  <2>3. ASSUME UploadInv, NoLostWakeup, Next PROVE NoLostWakeup'
    BY <2>2, <2>3 DEF NoLostWakeup, Slot, Existing
  <2> QED
    BY <2>1, <2>3
<1> QED
  BY <1>1, <1>2, UploadInvariant, PTL DEF Spec

=============================================================================
