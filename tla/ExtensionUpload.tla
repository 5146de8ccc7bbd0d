--------------------------- MODULE ExtensionUpload ---------------------------
(***************************************************************************)
(* One screenshot upload from the browser extension                        *)
(* (routers/local_recognition.py, create_extension_review) against the     *)
(* capture reservations of the pairing store, the review store and the     *)
(* temporary file that the OCR task takes over.                            *)
(*                                                                         *)
(* The handler is a coroutine.  Its only suspension is the await of the    *)
(* file: everything after it runs without giving up the event loop, and    *)
(* each store call in it takes a lock of its own.  With OneLoop, as the    *)
(* API is run, no other upload gets in between, only the threads of the    *)
(* synchronous endpoints and of the OCR tasks.  Without it every request   *)
(* has an event loop of its own, as in the tests, and uploads interleave   *)
(* between any two store calls.                                            *)
(*                                                                         *)
(* Each upload is one request.  The review it creates, its temporary file  *)
(* and its background task are named after it.                             *)
(***************************************************************************)
EXTENDS Naturals, FiniteSets

CONSTANTS
  Uploads,      \* the requests
  Pairings,
  Captures,     \* values of capture_sha256
  None,
  MaxReviews,   \* max_reviews of the review store
  Window,       \* CAPTURE_DEDUP_WINDOW_SECONDS
  OneLoop,      \* do all requests share one event loop?
  MaxTime       \* bound: the clock stops here

(* CaptureReservation, with review None until it is bound. *)
Reservation == [expires : Nat, review : Uploads \cup {None}]

ASSUME ExtensionUploadAssumption ==
  /\ MaxReviews \in Nat
  /\ Window \in Nat \ {0}
  /\ MaxTime \in Nat
  /\ OneLoop \in BOOLEAN
  /\ IsFiniteSet(Uploads)
  /\ None \notin Nat \cup Uploads \cup Pairings \cup Captures \cup Reservation

VARIABLES
  now,       \* the clock
  uploads,   \* the requests: where each is and what it holds
  captures,  \* _captures of the pairing store
  reviews,   \* reviews in the review store
  files,     \* temporary files on disk
  tasks,     \* OCR tasks that have been added and have not ended
  revoked    \* revoked pairings

vars == <<now, uploads, captures, reviews, files, tasks, revoked>>

Keys == Pairings \X Captures

Waiting == {"checking", "asleep"}

(* Where a request holds the event loop: from the end of its await on. *)
OnLoop == Waiting \cup {"reserving", "creating", "rolling_back", "binding",
                        "duplicate"}

Outcomes == {"created", "deduplicated", "pending", "full", "invalid",
             "refused", "error"}

(* at: the time reserve_capture read before it took the lock; when: the    *)
(* time it had the lock; review: the review of the answer.                 *)
Upload == [pc : OnLoop \cup {"idle", "reading"} \cup Outcomes,
           key : Keys \cup {None},
           at : Nat \cup {None},
           when : Nat \cup {None},
           review : Uploads \cup {None}]

NotSent == [pc |-> "idle", key |-> None, at |-> None, when |-> None,
            review |-> None]

Init ==
  /\ now = 0
  /\ uploads = [u \in Uploads |-> NotSent]
  /\ captures = [k \in Keys |-> None]
  /\ reviews = {}
  /\ files = {}
  /\ tasks = {}
  /\ revoked = {}

-----------------------------------------------------------------------------
(* Helpers *)

(* Wrong: the handler gives up the loop between two store calls. *)
LoopFreeAlways(u) == TRUE

(* With one event loop a request runs only while no other holds it. *)
LoopFree(u) ==
  OneLoop => \A o \in Uploads \ {u} : uploads[o].pc \notin OnLoop

(* _cleanup_locked: expired reservations go, bound or not. *)
Cleaned(t) ==
  [k \in Keys |-> IF captures[k] # None /\ t >= captures[k].expires
                  THEN None ELSE captures[k]]

(* Requests after notify_all: the sleepers look again. *)
Notified(ups) ==
  [o \in Uploads |-> IF ups[o].pc = "asleep"
                     THEN [ups[o] EXCEPT !.pc = "checking"] ELSE ups[o]]

Goto(u, pc) == uploads' = [uploads EXCEPT ![u].pc = pc]

At(u, pc) == uploads[u].pc = pc /\ LoopFree(u)

(* Wrong: captures keyed by their hash alone. *)
SlotOfHash(u) == <<CHOOSE p \in Pairings : TRUE, uploads[u].key[2]>>

(* Where a request looks for its capture: by pairing and hash. *)
Slot(u) == uploads[u].key

(* The review bound to a capture, None if it has none or is not reserved. *)
Existing(k) == IF captures[k] = None THEN None ELSE captures[k].review

-----------------------------------------------------------------------------
(* The environment *)

Tick ==
  /\ now < MaxTime
  /\ now' = now + 1
  /\ UNCHANGED <<uploads, captures, reviews, files, tasks, revoked>>

Revoke(p) ==
  /\ revoked' = revoked \cup {p}
  /\ UNCHANGED <<now, uploads, captures, reviews, files, tasks>>

(* extension-status, and every other call that cleans up first. *)
ListPairings ==
  /\ captures' = Cleaned(now)
  /\ UNCHANGED <<now, uploads, reviews, files, tasks, revoked>>

DeleteReview(v) ==
  /\ v \in reviews
  /\ reviews' = reviews \ {v}
  /\ UNCHANGED <<now, uploads, captures, files, tasks, revoked>>

ClearReviews ==
  /\ reviews' = {}
  /\ UNCHANGED <<now, uploads, captures, files, tasks, revoked>>

(* process_review_image ends, in whatever way, with its finally clause. *)
TaskEnds(v) ==
  /\ v \in tasks
  /\ tasks' = tasks \ {v}
  /\ files' = files \ {v}
  /\ UNCHANGED <<now, uploads, captures, reviews, revoked>>

-----------------------------------------------------------------------------
(* The handler *)

(* The token authenticates and the rate limit lets the upload pass ... *)
Admit(u, p, c) ==
  /\ At(u, "idle")
  /\ p \notin revoked
  /\ uploads' = [uploads EXCEPT ![u].pc = "reading", ![u].key = <<p, c>>]
  /\ captures' = Cleaned(now)
  /\ UNCHANGED <<now, reviews, files, tasks, revoked>>

(* ... or not. *)
Refuse(u) ==
  /\ At(u, "idle")
  /\ Goto(u, "refused")
  /\ captures' = Cleaned(now)
  /\ UNCHANGED <<now, reviews, files, tasks, revoked>>

(* The file has been read and is valid, it is written to a temporary file, *)
(* and reserve_capture reads the clock.                                    *)
Validate(u) ==
  /\ At(u, "reading")
  /\ uploads' = [uploads EXCEPT ![u].pc = "reserving", ![u].at = now]
  /\ files' = files \cup {u}
  /\ UNCHANGED <<now, captures, reviews, tasks, revoked>>

(* The image, or afterwards the source metadata, is refused. *)
Invalid(u) ==
  /\ At(u, "reading")
  /\ Goto(u, "invalid")
  /\ UNCHANGED <<now, captures, reviews, files, tasks, revoked>>

(* reserve_capture finds no reservation in force and makes one. *)
Reserve(u) ==
  LET k == Slot(u)
      t == uploads[u].at
  IN
  /\ At(u, "reserving")
  /\ Cleaned(t)[k] = None
  /\ uploads' = [uploads EXCEPT ![u].pc = "creating", ![u].when = now]
  /\ captures' = [Cleaned(t) EXCEPT ![k] = [expires |-> t + Window,
                                            review |-> None]]
  /\ UNCHANGED <<now, reviews, files, tasks, revoked>>

(* It finds one, bound or still being processed. *)
FindReserved(u) ==
  LET t == uploads[u].at
      found == Cleaned(t)[Slot(u)]
  IN
  /\ At(u, "reserving")
  /\ found # None
  /\ uploads' = [uploads EXCEPT
                   ![u].pc = IF found.review = None THEN "checking"
                             ELSE "duplicate",
                   ![u].review = found.review]
  /\ captures' = Cleaned(t)
  /\ UNCHANGED <<now, reviews, files, tasks, revoked>>

(* wait_for_capture_review looks, and sleeps until it is notified or its   *)
(* two seconds are over.                                                   *)
Sees(u) ==
  /\ Existing(Slot(u)) # None
  /\ uploads' = [uploads EXCEPT ![u].pc = "duplicate",
                               ![u].review = Existing(Slot(u))]
  /\ UNCHANGED files

(* None: capture_pending, and the handler deletes the file. *)
GivesUp(u) ==
  /\ Goto(u, "pending")
  /\ files' = files \ {u}

Look(u) ==
  /\ At(u, "checking")
  /\ \/ captures[Slot(u)] = None /\ GivesUp(u)
     \/ Sees(u)
     \/ /\ captures[Slot(u)] # None
        /\ Existing(Slot(u)) = None
        /\ Goto(u, "asleep")
        /\ UNCHANGED files
  /\ UNCHANGED <<now, captures, reviews, tasks, revoked>>

(* Wrong: a sleeper waits for a notification only. *)
TimeOutNever(u) == FALSE /\ UNCHANGED vars

TimeOut(u) ==
  /\ At(u, "asleep")
  /\ \/ Existing(Slot(u)) = None /\ GivesUp(u)
     \/ Sees(u)
  /\ UNCHANGED <<now, captures, reviews, tasks, revoked>>

(* The review store has room ... *)
CreateReview(u) ==
  /\ At(u, "creating")
  /\ Cardinality(reviews) < MaxReviews
  /\ reviews' = reviews \cup {u}
  /\ Goto(u, "binding")
  /\ UNCHANGED <<now, captures, files, tasks, revoked>>

(* ... or it raises ReviewStoreFullError. *)
CreateFails(u) ==
  /\ At(u, "creating")
  /\ Cardinality(reviews) >= MaxReviews
  /\ Goto(u, "rolling_back")
  /\ UNCHANGED <<now, captures, reviews, files, tasks, revoked>>

(* Wrong: the reservation of a failed upload stays. *)
KeepReservation(u) ==
  /\ At(u, "rolling_back")
  /\ Goto(u, "full")
  /\ files' = files \ {u}
  /\ UNCHANGED <<now, captures, reviews, tasks, revoked>>

(* rollback_capture, whoever holds the reservation now. *)
RollBack(u) ==
  /\ At(u, "rolling_back")
  /\ captures' = [captures EXCEPT ![Slot(u)] = None]
  /\ uploads' = Notified([uploads EXCEPT ![u].pc = "full"])
  /\ files' = files \ {u}
  /\ UNCHANGED <<now, reviews, tasks, revoked>>

(* bind_capture binds whatever reservation is there, if one is. *)
Bound(held, u) == IF held = None THEN None ELSE [held EXCEPT !.review = u]

(* bind_capture, and the OCR task takes over the temporary file. *)
Bind(u) ==
  LET k == Slot(u)
      answered == [uploads EXCEPT ![u].pc = "created", ![u].review = u]
  IN
  /\ At(u, "binding")
  /\ captures' = [captures EXCEPT ![k] = Bound(@, u)]
  /\ uploads' = IF captures[k] = None THEN answered ELSE Notified(answered)
  /\ tasks' = tasks \cup {u}
  /\ UNCHANGED <<now, reviews, files, revoked>>

(* Wrong: a duplicate keeps its temporary file. *)
LeaveFile(u) == files

(* The temporary files once a duplicate has been answered. *)
FilesWithout(u) == files \ {u}

(* Wrong: a duplicate that fails rolls back a reservation not its own. *)
AnswerDuplicateRollsBack(u) ==
  LET found == uploads[u].review \in reviews IN
  /\ At(u, "duplicate")
  /\ Goto(u, IF found THEN "deduplicated" ELSE "error")
  /\ files' = FilesWithout(u)
  /\ captures' = IF found THEN captures ELSE [captures EXCEPT ![Slot(u)] = None]
  /\ UNCHANGED <<now, reviews, tasks, revoked>>

(* A duplicate deletes its file and answers with the existing review, if   *)
(* the review store still has it.                                          *)
AnswerDuplicate(u) ==
  /\ At(u, "duplicate")
  /\ Goto(u, IF uploads[u].review \in reviews THEN "deduplicated" ELSE "error")
  /\ files' = FilesWithout(u)
  /\ UNCHANGED <<now, captures, reviews, tasks, revoked>>

(* The steps of a request that has been admitted. *)
Step(u) ==
  \/ Validate(u) \/ Invalid(u)
  \/ Reserve(u) \/ FindReserved(u)
  \/ Look(u) \/ TimeOut(u)
  \/ CreateReview(u) \/ CreateFails(u)
  \/ RollBack(u) \/ Bind(u)
  \/ AnswerDuplicate(u)

Next ==
  \/ Tick \/ ListPairings \/ ClearReviews
  \/ \E p \in Pairings : Revoke(p)
  \/ \E u \in Uploads :
       \/ \E p \in Pairings, c \in Captures : Admit(u, p, c)
       \/ Refuse(u)
       \/ Step(u)
       \/ DeleteReview(u)
       \/ TaskEnds(u)

Spec == Init /\ [][Next]_vars

(* The event loop, or the request's thread, goes on with a request; a wait *)
(* ends at the latest after two seconds; a task that was added runs.       *)
Fairness ==
  \A u \in Uploads : WF_vars(Step(u)) /\ WF_vars(TaskEnds(u))

FairSpec == Spec /\ Fairness

-----------------------------------------------------------------------------
(* Properties *)

TypeOK ==
  /\ now \in Nat
  /\ uploads \in [Uploads -> Upload]
  /\ captures \in [Keys -> Reservation \cup {None}]
  /\ reviews \in SUBSET Uploads
  /\ files \in SUBSET Uploads
  /\ tasks \in SUBSET Uploads
  /\ revoked \in SUBSET Pairings

(* A reservation that names no review belongs to a request that will bind  *)
(* it or roll it back: no failure leaves a capture reserved for ever.      *)
NothingDangling ==
  \A k \in Keys :
    captures[k] # None /\ captures[k].review = None =>
      \E u \in Uploads : /\ uploads[u].key = k
                         /\ uploads[u].pc \in {"creating", "rolling_back", "binding"}

(* Every temporary file belongs to a request in progress or to a task that *)
(* will delete it, and every task finds its file.                          *)
FilesOwned ==
  files = tasks \cup {u \in Uploads : uploads[u].pc \in OnLoop}

(* A duplicate is answered with the review of the same capture from the    *)
(* same pairing.                                                           *)
SameCapture ==
  \A u \in Uploads :
    uploads[u].pc = "deduplicated" =>
      LET v == uploads[u].review IN
      uploads[v].pc = "created" /\ uploads[v].key = uploads[u].key

(* Within the window a capture makes one review, so it is read once: the   *)
(* next reservation comes no earlier than Window after the time read by    *)
(* the one before.                                                         *)
OneReviewPerWindow ==
  \A u, v \in Uploads :
    /\ u # v
    /\ uploads[u].pc = "created" /\ uploads[v].pc = "created"
    /\ uploads[u].key = uploads[v].key
    => \/ uploads[v].when >= uploads[u].at + Window
       \/ uploads[u].when >= uploads[v].at + Window

(* With one event loop no upload ever blocks the loop waiting for another, *)
(* and none is answered capture_pending.                                   *)
LoopNeverWaits ==
  \A u \in Uploads : uploads[u].pc \notin Waiting \cup {"pending"}

(* No wake-up is lost: an upload never sleeps on a capture that is already *)
(* bound to a review, so what is left of its two seconds ends in           *)
(* capture_pending only.                                                   *)
NoLostWakeup ==
  \A u \in Uploads : uploads[u].pc = "asleep" => Existing(Slot(u)) = None

(* Every upload that was admitted is answered. *)
UploadAnswered ==
  \A u \in Uploads : uploads[u].pc = "reading" ~> uploads[u].pc \in Outcomes

(* docs/local-extension-bridge.md: duplicates are idempotent successes.    *)
(* The code fails when the existing review has been deleted.               *)
DuplicatesSucceed == \A u \in Uploads : uploads[u].pc # "error"
=============================================================================
