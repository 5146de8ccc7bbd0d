--------------------------- MODULE ReviewWorkspace ---------------------------
(***************************************************************************)
(* The review page (app/screen-recognition/screen-recognition-workspace.tsx*)
(* and review-validation.ts): one reviewer who selects a review, edits its *)
(* form and sends requests, and the loads with which the page follows a    *)
(* server that others change too.                                          *)
(*                                                                         *)
(* A load asks for the list and the selected review, then for the          *)
(* extension status, and then sets the page's state.  polling.current lets *)
(* one load run at a time: load is None exactly when that flag is off.     *)
(* A load remembers the values that its callback was made with, and so do  *)
(* the requests, which load again when they are answered.                  *)
(*                                                                         *)
(* React runs the effect of load when one of the values it depends on has  *)
(* changed: at once after what the reviewer does, some time later (Render) *)
(* after an answer, so that timers and other answers may come in between.  *)
(* The reviewer acts on a page that has been rendered.  A draft is a text, *)
(* and the form holds such a text as well.                                 *)
(***************************************************************************)
EXTENDS Naturals, FiniteSets

CONSTANTS
  Reviews,           \* review ids
  Texts,             \* contents of drafts and forms
  Blank,             \* the text of a review that OCR has not read
  Calls,             \* requests of the reviewer in flight at once
  None,
  MaxActs            \* bound: actions of the reviewer, of others, and errors

VARIABLES
  acts,      \* what has counted towards MaxActs
  server,    \* the reviews on the server
  capable,   \* capabilities: which object, 0 for none
  list,      \* reviewList: the reviews it holds, by id
  selected,  \* selectedReview
  form,      \* form
  dirty,     \* dirty
  conflict,  \* is there a conflictMessage?
  shown,     \* the dependencies of load when its effect last ran
  load,      \* the load in progress
  calls      \* the reviewer's requests in flight

page == <<list, selected, form, dirty, conflict>>
vars == <<acts, server, capable, page, shown, load, calls>>

Present  == {"processing", "pending", "final"}

(* A review as the server has it: ids are not handed out twice. *)
Stored == [status : Present \cup {"unborn", "gone"}, text : Texts]

(* A review as the page has it. *)
Review == [id : Reviews, status : Present, text : Texts]

ASSUME ReviewWorkspaceAssumption ==
  /\ MaxActs \in Nat
  /\ Blank \in Texts
  /\ None \notin Reviews \cup Texts \cup Review

(* The values load depends on: capabilities, dirty and selectedReviewId. *)
Dependencies == [capable : 0..3, dirty : BOOLEAN, id : Reviews \cup {None}]

(* by: who started it.  asked: the requests that have no answer so far.    *)
Load == [by : {"effect", "reload", "timer", "call"}, of : Dependencies,
         asked : SUBSET {"list", "review"}, aborted : BOOLEAN,
         list : SUBSET Review, review : Review \cup {None}]

Kinds == {"save", "confirm", "reject", "clear", "upload", "other"}

Call == [kind : Kinds, id : Reviews \cup {None}, text : Texts \cup {None},
         of : Dependencies, step : {"sent", "created", "answered", "error"},
         answer : Review \cup {None}]

-----------------------------------------------------------------------------
(* Helpers *)

Exists(r) == server[r].status \in Present

OnServer(r) == [id |-> r, status |-> server[r].status, text |-> server[r].text]

Deps == [capable |-> capable, dirty |-> dirty,
         id |-> IF selected = None THEN None ELSE selected.id]

Rendered == Deps = shown

Act == acts < MaxActs /\ acts' = acts + 1

NewLoad(by, of) ==
  [by |-> by, of |-> of, aborted |-> FALSE,
   asked |-> IF of.id = None THEN {"list"} ELSE {"list", "review"},
   list |-> {}, review |-> None]

(* A load that finds polling.current set returns at once. *)
Loading(by, of) == IF load = None THEN NewLoad(by, of) ELSE load

(* The effect of load once its dependencies have changed: the last load is *)
(* aborted, and a forced one starts unless that one is still in progress.  *)
Effect(of) ==
  /\ shown' = of
  /\ load' = IF of = shown THEN load
             ELSE IF load = None THEN NewLoad("effect", of)
             ELSE [load EXCEPT !.aborted = TRUE]

Forced(l) == l.by \in {"effect", "reload"}

(* mergeReviewsByPolling *)
Merge(current, next, edited) ==
  IF current # None /\ edited /\ current.id = next.id
  THEN [current EXCEPT !.status = next.status] ELSE next

Conflicting(current, next, edited) ==
  /\ current # None /\ edited /\ current.id = next.id
  /\ next.status = "final" /\ current.status # "final"

Init ==
  /\ acts = 0
  /\ server \in [Reviews -> [status : {"unborn", "pending"}, text : {Blank}]]
  /\ capable = 0
  /\ list = {}
  /\ selected = None
  /\ form = None
  /\ dirty = FALSE
  /\ conflict = FALSE
  /\ shown = Deps
  /\ load = NewLoad("effect", Deps)
  /\ calls = [c \in Calls |-> None]

-----------------------------------------------------------------------------
(* The server, as far as others change it: OCR, expiry, the extension,     *)
(* another page.                                                           *)

Moves ==
  {<<"unborn", "processing">>, <<"processing", "pending">>,
   <<"processing", "final">>, <<"pending", "pending">>,
   <<"pending", "final">>} \cup (Present \X {"gone"})

ServerChange(r) ==
  /\ Act
  /\ \E s \in Stored :
       /\ <<server[r].status, s.status>> \in Moves
       /\ server' = [server EXCEPT ![r] = s]
  /\ UNCHANGED <<capable, page, shown, load, calls>>

-----------------------------------------------------------------------------
(* Loads *)

(* React renders an update that came from an answer. *)
Render ==
  /\ ~Rendered
  /\ Effect(Deps)
  /\ UNCHANGED <<acts, server, capable, page, calls>>

(* The timer of a visible page, two seconds after it was set.  Bound: new  *)
(* capabilities are rendered by then, or each tick could fetch others.     *)
Tick ==
  /\ shown.capable = capable
  /\ load = None
  /\ load' = NewLoad("timer", shown)
  /\ UNCHANGED <<acts, server, capable, page, shown, calls>>

Awaits(what) == load # None /\ what \in load.asked

ListAnswered ==
  /\ Awaits("list") /\ ~load.aborted
  /\ load' = [load EXCEPT !.asked = @ \ {"list"},
                          !.list = {OnServer(r) : r \in {s \in Reviews : Exists(s)}}]
  /\ UNCHANGED <<acts, server, capable, page, shown, calls>>

ReviewAnswered ==
  /\ Awaits("review") /\ ~load.aborted
  /\ Exists(load.of.id)
  /\ load' = [load EXCEPT !.asked = @ \ {"review"},
                          !.review = OnServer(load.of.id)]
  /\ UNCHANGED <<acts, server, capable, page, shown, calls>>

(* Wrong: an aborted load leaves polling.current set. *)
AbortKeepsPolling == FALSE /\ UNCHANGED vars

(* An abort that finds one of the two requests unanswered ends the load. *)
Aborted ==
  /\ load # None
  /\ load.asked # {} /\ load.aborted
  /\ load' = None
  /\ UNCHANGED <<acts, server, capable, page, shown, calls>>

(* The selected review has gone (404), and with it the whole load. *)
ReviewGone ==
  /\ Awaits("review") /\ ~load.aborted
  /\ ~Exists(load.of.id)
  /\ load' = None
  /\ UNCHANGED <<acts, server, capable, page, shown, calls>>

(* A request fails, that for the capabilities included, which no abort     *)
(* reaches.                                                                *)
LoadFails ==
  /\ load # None
  /\ (load.asked # {} /\ ~load.aborted) \/ load.of.capable = 0
  /\ Act
  /\ load' = None
  /\ UNCHANGED <<server, capable, page, shown, calls>>

(* Capabilities that differ from those the page has or was rendered with.  *)
NewObject == CHOOSE n \in 1..3 : n \notin {capable, shown.capable}

(* Wrong: every load sets the form. *)
SetsFormAlways(l) == TRUE

SetsForm(l) == ~l.of.dirty \/ Forced(l)

(* The extension status has come, has failed or was aborted, which is all  *)
(* the same to the load: it sets the page's state.  A load that was made   *)
(* without capabilities brings a new object, another one sets its own.     *)
ApplyLoad ==
  LET next   == load.review
      edited == ~SetsForm(load)
  IN
  /\ load # None
  /\ load.asked = {}
  /\ capable' = IF load.of.capable = 0 THEN NewObject ELSE load.of.capable
  /\ list' = load.list
  /\ IF next = None
     THEN UNCHANGED <<selected, form, dirty, conflict>>
     ELSE /\ selected' = Merge(selected, next, edited)
          /\ form' = IF edited THEN form ELSE next.text
          /\ dirty' = (edited /\ dirty)
          /\ conflict' = (edited /\ (conflict \/ Conflicting(selected, next, edited)))
  /\ load' = None
  /\ UNCHANGED <<acts, server, shown, calls>>

LoadStep ==
  \/ ListAnswered \/ ReviewAnswered
  \/ Aborted \/ ReviewGone
  \/ ApplyLoad

-----------------------------------------------------------------------------
(* The reviewer *)

(* selectReview, from the queue *)
Select(review) ==
  /\ Rendered /\ Act
  /\ review \in list
  /\ selected' = review
  /\ form' = review.text
  /\ dirty' = FALSE
  /\ conflict' = FALSE
  /\ Effect([shown EXCEPT !.dirty = FALSE, !.id = review.id])
  /\ UNCHANGED <<server, capable, list, calls>>

CanEdit == selected # None /\ selected.status = "pending" /\ form # None

(* updateForm *)
Type(text) ==
  /\ Rendered /\ Act
  /\ CanEdit
  /\ form' = text
  /\ dirty' = TRUE
  /\ Effect([shown EXCEPT !.dirty = TRUE])
  /\ UNCHANGED <<server, capable, list, selected, conflict, calls>>

(* The reload button. *)
Reload ==
  /\ Rendered /\ Act
  /\ selected # None /\ form # None
  /\ load' = Loading("reload", shown)
  /\ UNCHANGED <<server, capable, page, shown, calls>>

(* A button that sends a request; "other" stands for those of the bridge   *)
(* panel.                                                                  *)
Send(c, kind) ==
  /\ Rendered /\ Act
  /\ calls[c] = None
  /\ kind \in {"save", "confirm", "reject"} => CanEdit
  /\ kind = "confirm" => ~conflict
  /\ kind = "upload" => \A d \in Calls : calls[d] # None => calls[d].kind # "upload"
  /\ calls' = [calls EXCEPT ![c] =
                 [kind |-> kind, text |-> form, of |-> shown, step |-> "sent",
                  id |-> shown.id, answer |-> None]]
  /\ UNCHANGED <<server, capable, page, shown, load>>

ReviewerActs ==
  \/ \E review \in list : Select(review)
  \/ \E text \in Texts : Type(text)
  \/ Reload
  \/ \E c \in Calls, kind \in Kinds : Send(c, kind)

-----------------------------------------------------------------------------
(* The requests *)

Sent(c, kinds) == calls[c] # None /\ calls[c].step = "sent" /\ calls[c].kind \in kinds

Answered(c, review) == [calls[c] EXCEPT !.step = "answered", !.answer = review]

(* What the server makes of a review that is pending. *)
Outcome(call) ==
  CASE call.kind = "save"    -> [status |-> "pending", text |-> call.text]
    [] call.kind = "confirm" -> [status |-> "final", text |-> call.text]
    [] call.kind = "reject"  -> [status |-> "final", text |-> server[call.id].text]

(* save, confirm, reject: the review is pending, or the request fails. *)
ServeReview(c) ==
  LET r == calls[c].id IN
  /\ Sent(c, {"save", "confirm", "reject"})
  /\ IF server[r].status = "pending"
     THEN /\ server' = [server EXCEPT ![r] = Outcome(calls[c])]
          /\ calls' = [calls EXCEPT ![c] =
                         Answered(c, [id |-> r, status |-> server'[r].status,
                                      text |-> server'[r].text])]
     ELSE /\ calls' = [calls EXCEPT ![c].step = "error"]
          /\ UNCHANGED server
  /\ UNCHANGED <<acts, capable, page, shown, load>>

ServeClear(c) ==
  /\ Sent(c, {"clear"})
  /\ server' = [r \in Reviews |-> IF Exists(r) THEN [server[r] EXCEPT !.status = "gone"]
                                  ELSE server[r]]
  /\ calls' = [calls EXCEPT ![c] = Answered(c, None)]
  /\ UNCHANGED <<acts, capable, page, shown, load>>

ServeOther(c) ==
  /\ Sent(c, {"other"})
  /\ calls' = [calls EXCEPT ![c] = Answered(c, None)]
  /\ UNCHANGED <<acts, server, capable, page, shown, load>>

(* An upload makes a review or is refused ... *)
ServeUpload(c) ==
  /\ Sent(c, {"upload"})
  /\ \/ \E r \in Reviews :
          /\ server[r].status = "unborn"
          /\ server' = [server EXCEPT ![r] = [status |-> "processing", text |-> Blank]]
          /\ calls' = [calls EXCEPT ![c].step = "created", ![c].id = r]
     \/ /\ calls' = [calls EXCEPT ![c].step = "error"]
        /\ UNCHANGED server
  /\ UNCHANGED <<acts, capable, page, shown, load>>

(* ... and then asks for it. *)
ServeCreated(c) ==
  /\ calls[c] # None
  /\ calls[c].step = "created"
  /\ calls' = [calls EXCEPT ![c] =
                 IF Exists(calls[c].id) THEN Answered(c, OnServer(calls[c].id))
                 ELSE [@ EXCEPT !.step = "error"]]
  /\ UNCHANGED <<acts, server, capable, page, shown, load>>

(* The answer to save, confirm and upload replaces review and form, that   *)
(* to reject the review only, that to clear everything; then the load of   *)
(* the render in which the button was pressed.                             *)
Answer(c) ==
  LET call == calls[c] IN
  /\ call # None
  /\ call.step = "answered"
  /\ IF call.kind = "other" THEN UNCHANGED page
     ELSE /\ selected' = call.answer
          /\ form' = IF call.kind = "reject" THEN form
                     ELSE IF call.answer = None THEN None ELSE call.answer.text
          /\ dirty' = FALSE
          /\ list' = IF call.kind = "clear" THEN {} ELSE list
          /\ UNCHANGED conflict
  /\ load' = Loading("call", call.of)
  /\ calls' = [calls EXCEPT ![c] = None]
  /\ UNCHANGED <<acts, server, capable, shown>>

(* An error leaves the page as it is. *)
AnswerError(c) ==
  /\ calls[c] # None
  /\ calls[c].step = "error"
  /\ calls' = [calls EXCEPT ![c] = None]
  /\ UNCHANGED <<acts, server, capable, page, shown, load>>

(* The connection is lost, before or after the server has acted. *)
CallFails(c) ==
  /\ calls[c] # None
  /\ Act
  /\ calls' = [calls EXCEPT ![c] = None]
  /\ UNCHANGED <<server, capable, page, shown, load>>

CallStep(c) ==
  \/ ServeReview(c) \/ ServeClear(c) \/ ServeOther(c)
  \/ ServeUpload(c) \/ ServeCreated(c)
  \/ Answer(c) \/ AnswerError(c)

-----------------------------------------------------------------------------
Next ==
  \/ \E r \in Reviews : ServerChange(r)
  \/ Render \/ Tick \/ LoadStep \/ LoadFails
  \/ ReviewerActs
  \/ \E c \in Calls : CallStep(c) \/ CallFails(c)

Spec == Init /\ [][Next]_vars

(* React renders, the timer fires on a visible page, and what was sent is  *)
(* answered in the end.  Nothing is assumed of the reviewer or the others. *)
Fairness ==
  /\ WF_vars(Render)
  /\ WF_vars(Tick)
  /\ WF_vars(LoadStep)
  /\ \A c \in Calls : WF_vars(CallStep(c))

FairSpec == Spec /\ Fairness

-----------------------------------------------------------------------------
(* Properties *)

TypeOK ==
  /\ acts \in Nat
  /\ server \in [Reviews -> Stored]
  /\ capable \in 0..3
  /\ list \in SUBSET Review
  /\ selected \in Review \cup {None}
  /\ form \in Texts \cup {None}
  /\ dirty \in BOOLEAN
  /\ conflict \in BOOLEAN
  /\ shown \in Dependencies
  /\ load \in Load \cup {None}
  /\ calls \in [Calls -> Call \cup {None}]

(* Nothing under way will set the form: requests whose answers keep it and *)
(* load with the dirty flag as it is, and a load that knows of the edit or *)
(* that its abort is about to end.                                         *)
Settled ==
  /\ dirty /\ selected # None
  /\ capable # 0
  /\ Rendered
  /\ \A c \in Calls : calls[c] # None => calls[c].kind = "other" /\ calls[c].of = Deps
  /\ load # None => \/ load.of = Deps /\ ~Forced(load)
                    \/ load.aborted /\ load.asked # {}

(* A load waits for an answer to its first requests. *)
Interruptible ==
  /\ ~dirty /\ capable # 0
  /\ \A c \in Calls : calls[c] = None
  /\ load # None /\ load.asked # {}

(* Once settled, an edit is safe, whatever others do to the review and     *)
(* however often the page polls, fails to or has the bridge answer; and an *)
(* edit that interrupts a load is settled at once.  Other edits need not   *)
(* be: one that finds no load in progress starts a forced load, to which   *)
(* it is lost (DirtyLoadsKeepEdits), and one that finds a load past its    *)
(* abort is lost to that (StaleLoadsKeepEdits).                            *)
SettledEditsKept ==
  [][/\ Settled /\ ~ReviewerActs => Settled' /\ form' = form
     /\ \A text \in Texts : (Settled \/ Interruptible) /\ Type(text) => Settled'
     /\ \A c \in Calls : Settled /\ Send(c, "other") => Settled']_vars

(* In the end the page shows what the server has: the list, the status of  *)
(* the selected review, and its text unless it has unsaved edits.  A       *)
(* selected review that has gone keeps every load from succeeding.         *)
Current ==
  selected = None \/ Exists(selected.id) =>
    /\ list = {OnServer(r) : r \in {s \in Reviews : Exists(s)}}
    /\ selected # None =>
         /\ selected.status = server[selected.id].status
         /\ ~dirty => /\ selected.text = server[selected.id].text
                      /\ form = server[selected.id].text

Converges == <>[]Current

(* docs/screen-recognition-review-workflow.md: the page "does not          *)
(* overwrite dirty form fields with poll results".  So a load that started *)
(* with the form dirty keeps it, unless the reviewer asked for the reload. *)
DirtyLoadsKeepEdits ==
  [][ApplyLoad /\ dirty /\ load.of.dirty /\ load.by # "reload" => form' = form]_vars

(* And so does a load that started before the edit. *)
StaleLoadsKeepEdits ==
  [][ApplyLoad /\ dirty /\ ~load.of.dirty /\ load.by # "reload" => form' = form]_vars
=============================================================================
