------------------------ MODULE ReviewWorkspaceProofs ------------------------
(***************************************************************************)
(* Proofs about ReviewWorkspace, for any number of reviews, texts and      *)
(* requests in flight.                                                     *)
(***************************************************************************)
EXTENDS ReviewWorkspace, TLAPS

USE DEF Present

(* A load asks for the review that was selected, and carries that review. *)
LoadInv ==
  load # None =>
    /\ "review" \in load.asked => load.of.id \in Reviews
    /\ load.review # None => load.review.id = load.of.id

(* A request about a review names one, and a draft has a text. *)
Addressed(c) ==
  /\ calls[c].kind \in {"save", "confirm", "reject"} \/ calls[c].step = "created" =>
       calls[c].id \in Reviews
  /\ calls[c].kind \in {"save", "confirm"} => calls[c].text \in Texts

CallInv == \A c \in Calls : calls[c] # None => Addressed(c)

PageInv == TypeOK /\ LoadInv /\ CallInv

LEMMA DepsType == TypeOK => Deps \in Dependencies
<1> SUFFICES ASSUME TypeOK PROVE Deps \in Dependencies
  OBVIOUS
<1>1. selected # None => selected.id \in Reviews
  BY DEF TypeOK, Review
<1> QED
  BY <1>1 DEF TypeOK, Deps, Dependencies

LEMMA NewLoadType ==
  ASSUME NEW by \in {"effect", "reload", "timer", "call"},
         NEW of \in Dependencies
  PROVE  /\ NewLoad(by, of) \in Load
         /\ NewLoad(by, of).review = None
         /\ NewLoad(by, of).of = of
         /\ NewLoad(by, of).by = by
         /\ "review" \in NewLoad(by, of).asked => of.id \in Reviews
BY DEF NewLoad, Load, Dependencies

LEMMA OnServerType ==
  ASSUME TypeOK, NEW r \in Reviews, Exists(r)
  PROVE  OnServer(r) \in Review
<1>1. server[r] \in Stored
  BY DEF TypeOK
<1> QED
  BY <1>1 DEF Exists, OnServer, Review, Stored

(* The effect of load keeps its type, and the review a load carries. *)
LEMMA EffectType ==
  ASSUME PageInv, NEW of \in Dependencies, Effect(of)
  PROVE  /\ shown' \in Dependencies
         /\ load' \in Load \cup {None}
         /\ LoadInv'
<1>1. shown' = of
  BY DEF Effect
<1>2. CASE load' = load
  BY <1>1, <1>2 DEF PageInv, TypeOK, LoadInv
<1>3. CASE load' = NewLoad("effect", of)
  <2>1. load' \in Load /\ load'.review = None /\ load'.of = of
        /\ ("review" \in load'.asked => of.id \in Reviews)
    BY <1>3, NewLoadType
  <2> QED
    BY <1>1, <2>1 DEF LoadInv
<1>4. CASE load # None /\ load' = [load EXCEPT !.aborted = TRUE]
  <2>1. load \in Load
    BY <1>4 DEF PageInv, TypeOK
  <2>2. load' \in Load /\ load'.review = load.review /\ load'.of = load.of
        /\ load'.asked = load.asked
    BY <1>4, <2>1 DEF Load
  <2> QED
    BY <1>1, <1>4, <2>2 DEF PageInv, LoadInv
<1> QED
  BY <1>2, <1>3, <1>4 DEF Effect

LEMMA LoadingType ==
  ASSUME PageInv, NEW by \in {"effect", "reload", "timer", "call"},
         NEW of \in Dependencies, load' = Loading(by, of)
  PROVE  load' \in Load \cup {None} /\ LoadInv'
<1>1. CASE load = None
  <2>1. load' \in Load /\ load'.review = None /\ load'.of = of
        /\ ("review" \in load'.asked => of.id \in Reviews)
    BY <1>1, NewLoadType DEF Loading
  <2> QED
    BY <2>1 DEF LoadInv
<1>2. CASE load # None
  BY <1>2 DEF Loading, PageInv, TypeOK, LoadInv
<1> QED
  BY <1>1, <1>2

-----------------------------------------------------------------------------
(* Types *)

LEMMA PageInit == Init => PageInv
<1> SUFFICES ASSUME Init PROVE PageInv
  OBVIOUS
<1>1. server \in [Reviews -> Stored]
  BY ReviewWorkspaceAssumption DEF Init, Stored
<1>2. shown = [capable |-> 0, dirty |-> FALSE, id |-> None]
  BY DEF Init, Deps
<1>3. shown \in Dependencies /\ load = NewLoad("effect", shown)
  BY <1>2 DEF Init, Dependencies
<1>4. load \in Load /\ load.review = None /\ load.of = shown
      /\ ("review" \in load.asked => shown.id \in Reviews)
  BY <1>3, NewLoadType
<1>5. acts \in Nat /\ capable \in 0..3 /\ calls \in [Calls -> Call \cup {None}]
  BY DEF Init
<1>6. TypeOK
  BY <1>1, <1>3, <1>4, <1>5 DEF Init, TypeOK
<1> QED
  BY <1>4, <1>6 DEF Init, PageInv, LoadInv, CallInv

LEMMA PageStep == PageInv /\ [Next]_vars => PageInv'
<1> SUFFICES ASSUME PageInv, [Next]_vars PROVE PageInv'
  OBVIOUS
<1> USE DEF PageInv
<1>0. shown \in Dependencies /\ Deps \in Dependencies /\ acts \in Nat /\ acts + 1 \in Nat
  BY DepsType DEF TypeOK
<1>1. ASSUME NEW r \in Reviews, ServerChange(r) PROVE PageInv'
  BY <1>0, <1>1 DEF ServerChange, Act, page, TypeOK, LoadInv, CallInv, Addressed
<1>2. CASE Render
  BY <1>0, <1>2, EffectType DEF Render, page, TypeOK, CallInv, Addressed
<1>3. CASE Tick
  <2>1. load' \in Load /\ load'.review = None /\ load'.of = shown
        /\ ("review" \in load'.asked => shown.id \in Reviews)
    BY <1>0, <1>3, NewLoadType DEF Tick
  <2> QED
    BY <1>3, <2>1 DEF Tick, page, TypeOK, LoadInv, CallInv, Addressed
<1>4. CASE ListAnswered
  <2>1. load \in Load /\ {OnServer(r) : r \in {s \in Reviews : Exists(s)}} \in SUBSET Review
    BY <1>4, OnServerType DEF ListAnswered, Awaits, TypeOK
  <2>2. load' \in Load /\ load'.review = load.review /\ load'.of = load.of
        /\ load'.asked \subseteq load.asked
    BY <1>4, <2>1 DEF ListAnswered, Load
  <2> QED
    BY <1>4, <2>2 DEF ListAnswered, Awaits, page, TypeOK, LoadInv, CallInv, Addressed
<1>5. CASE ReviewAnswered
  <2> DEFINE r == load.of.id
  <2>1. load \in Load /\ r \in Reviews /\ Exists(r)
    BY <1>5 DEF ReviewAnswered, Awaits, TypeOK, LoadInv
  <2>2. OnServer(r) \in Review /\ OnServer(r).id = r
    BY <2>1, OnServerType DEF OnServer
  <2>3. load' \in Load /\ load'.review = OnServer(r) /\ load'.of = load.of
    BY <1>5, <2>1, <2>2 DEF ReviewAnswered, Load
  <2> QED
    BY <1>5, <2>1, <2>2, <2>3 DEF ReviewAnswered, page, TypeOK, LoadInv, CallInv, Addressed
<1>6. CASE Aborted \/ ReviewGone
  BY <1>6 DEF Aborted, ReviewGone, page, TypeOK, LoadInv, CallInv, Addressed
<1>7. CASE ApplyLoad
  <2>0. NewObject \in 0..3
    <3>1. \E n \in 1..3 : n \notin {capable, shown.capable}
      OBVIOUS
    <3> QED
      BY <3>1 DEF NewObject
  <2>1. load \in Load
    BY <1>7 DEF ApplyLoad, TypeOK
  <2>2. load.list \in SUBSET Review /\ load.review \in Review \cup {None}
    BY <2>1 DEF Load
  <2>6. capable' \in 0..3
    BY <1>7, <2>0, <2>1 DEF ApplyLoad, Load, Dependencies
  <2>3. load.review # None =>
          /\ Merge(selected, load.review, ~SetsForm(load)) \in Review
          /\ load.review.text \in Texts
    BY <2>2 DEF TypeOK, Merge, Review
  <2>4. Conflicting(selected, load.review, ~SetsForm(load)) \in BOOLEAN /\ SetsForm(load) \in BOOLEAN
    BY DEF Conflicting, SetsForm
  <2>5. /\ selected' \in Review \cup {None}
        /\ form' \in Texts \cup {None}
        /\ dirty' \in BOOLEAN
        /\ conflict' \in BOOLEAN
    BY <1>7, <2>3, <2>4 DEF ApplyLoad, TypeOK
  <2> QED
    BY <1>7, <2>2, <2>5, <2>6 DEF ApplyLoad, TypeOK, LoadInv, CallInv, Addressed
<1>8. CASE LoadFails
  BY <1>0, <1>8 DEF LoadFails, Act, page, TypeOK, LoadInv, CallInv, Addressed
<1>9. ASSUME NEW review \in list, Select(review) PROVE PageInv'
  <2>1. review \in Review /\ review.id \in Reviews /\ review.text \in Texts
    BY DEF TypeOK, Review
  <2>2. [shown EXCEPT !.dirty = FALSE, !.id = review.id] \in Dependencies
    BY <1>0, <2>1 DEF Dependencies
  <2>3. shown' \in Dependencies /\ load' \in Load \cup {None} /\ LoadInv'
    BY <1>9, <2>2, EffectType DEF Select
  <2> QED
    BY <1>0, <1>9, <2>1, <2>3 DEF Select, Act, TypeOK, CallInv, Addressed
<1>10. ASSUME NEW text \in Texts, Type(text) PROVE PageInv'
  <2>1. [shown EXCEPT !.dirty = TRUE] \in Dependencies
    BY <1>0 DEF Dependencies
  <2>2. shown' \in Dependencies /\ load' \in Load \cup {None} /\ LoadInv'
    BY <1>10, <2>1, EffectType DEF Type
  <2> QED
    BY <1>0, <1>10, <2>2 DEF Type, Act, TypeOK, CallInv, Addressed
<1>11. CASE Reload
  <2>1. load' \in Load \cup {None} /\ LoadInv'
    BY <1>0, <1>11, LoadingType DEF Reload
  <2> QED
    BY <1>0, <1>11, <2>1 DEF Reload, Act, page, TypeOK, CallInv, Addressed
<1>12. ASSUME NEW c \in Calls, NEW kind \in Kinds, Send(c, kind) PROVE PageInv'
  <2>1. [kind |-> kind, text |-> form, of |-> shown, step |-> "sent",
         id |-> shown.id, answer |-> None] \in Call
    BY <1>0 DEF Call, TypeOK, Dependencies
  <2>2. calls' \in [Calls -> Call \cup {None}]
    BY <1>12, <2>1 DEF Send, TypeOK
  <2>3. kind \in {"save", "confirm", "reject"} => shown.id \in Reviews /\ form \in Texts
    BY <1>12 DEF Send, CanEdit, Rendered, Deps, TypeOK, Review
  <2>4. CallInv'
    BY <1>12, <2>3 DEF Send, CallInv, Addressed, TypeOK
  <2> QED
    BY <1>0, <1>12, <2>2, <2>4 DEF Send, Act, page, TypeOK, LoadInv
<1>13. ASSUME NEW c \in Calls, CallStep(c) \/ CallFails(c) PROVE PageInv'
  <2>0. calls[c] # None /\ calls[c] \in Call /\ Addressed(c)
    BY <1>13 DEF CallStep, CallFails, ServeReview, ServeClear, ServeOther, ServeUpload,
                 ServeCreated, Answer, AnswerError, Sent, TypeOK, CallInv
  <2>1. \A review \in Review \cup {None} : Answered(c, review) \in Call
    BY <2>0 DEF Answered, Call
  <2>2. ASSUME NEW call \in Call \cup {None}, calls' = [calls EXCEPT ![c] = call],
               call # None /\ call.step = "created" => call.id \in Reviews,
               call # None => /\ call.kind = calls[c].kind /\ call.text = calls[c].text
                              /\ call.id = calls[c].id \/ call.kind = "upload"
        PROVE  calls' \in [Calls -> Call \cup {None}] /\ CallInv'
    <3>1. calls' \in [Calls -> Call \cup {None}] /\ calls'[c] = call
      BY <2>2 DEF TypeOK
    <3>2. ASSUME NEW d \in Calls, calls'[d] # None PROVE Addressed(d)'
      <4>1. CASE d = c
        BY <2>0, <2>2, <3>1, <3>2, <4>1 DEF Addressed
      <4>2. CASE d # c
        <5>1. calls'[d] = calls[d]
          BY <2>2, <4>2 DEF TypeOK
        <5> QED
          BY <3>2, <5>1 DEF CallInv, Addressed
      <4> QED
        BY <4>1, <4>2
    <3> QED
      BY <3>1, <3>2 DEF CallInv
  <2>3. ASSUME NEW call \in Call \cup {None}, calls' = [calls EXCEPT ![c] = call],
               call # None /\ call.step = "created" => call.id \in Reviews,
               call # None => /\ call.kind = calls[c].kind /\ call.text = calls[c].text
                              /\ call.id = calls[c].id \/ call.kind = "upload",
               server' \in [Reviews -> Stored], acts' \in Nat,
               UNCHANGED <<capable, page, shown, load>>
        PROVE  PageInv'
    <3>1. calls' \in [Calls -> Call \cup {None}] /\ CallInv'
      BY <2>2, <2>3
    <3> QED
      BY <2>3, <3>1 DEF page, TypeOK, LoadInv
  <2>4. [calls[c] EXCEPT !.step = "error"] \in Call
    BY <2>0 DEF Call
  <2>5. CASE ServeReview(c)
    <3> DEFINE r == calls[c].id
               s == Outcome(calls[c])
    <3>1. r \in Reviews /\ calls[c].kind \in {"save", "confirm", "reject"}
      BY <2>0, <2>5 DEF ServeReview, Sent, Addressed
    <3>2. CASE server[r].status = "pending"
      <4>1. s \in [status : Present, text : Texts]
        BY <2>0, <3>1 DEF Outcome, Addressed, TypeOK, Stored
      <4>2. /\ server' = [server EXCEPT ![r] = s]
            /\ server'[r] = s
            /\ server' \in [Reviews -> Stored]
        BY <2>5, <3>1, <3>2, <4>1 DEF ServeReview, TypeOK, Stored
      <4> DEFINE answer == [id |-> r, status |-> server'[r].status, text |-> server'[r].text]
      <4>3. answer \in Review
        BY <3>1, <4>1, <4>2 DEF Review
      <4>4. Answered(c, answer) \in Call
        BY <2>1, <4>3
      <4>5. calls' = [calls EXCEPT ![c] = Answered(c, answer)]
        BY <2>5, <3>2 DEF ServeReview
      <4>6. Answered(c, answer).step = "answered" /\ Answered(c, answer).kind = calls[c].kind
            /\ Answered(c, answer).text = calls[c].text /\ Answered(c, answer).id = calls[c].id
        BY <2>0 DEF Answered, Call
      <4> HIDE DEF answer
      <4> QED
        BY <2>3, <2>5, <4>2, <4>4, <4>5, <4>6 DEF ServeReview, TypeOK
    <3>3. CASE server[r].status # "pending"
      BY <2>0, <2>3, <2>4, <2>5, <3>3 DEF ServeReview, TypeOK, Call
    <3> QED
      BY <3>2, <3>3
  <2>6. CASE ServeClear(c)
    <3>1. server' \in [Reviews -> Stored]
      BY <2>6 DEF ServeClear, TypeOK, Stored
    <3>2. Answered(c, None) \in Call
      BY <2>1
    <3>3. /\ Answered(c, None).step = "answered" /\ Answered(c, None).kind = calls[c].kind
          /\ Answered(c, None).text = calls[c].text /\ Answered(c, None).id = calls[c].id
      BY <2>0 DEF Answered, Call
    <3> QED
      BY <2>3, <2>6, <3>1, <3>2, <3>3 DEF ServeClear, TypeOK
  <2>7. CASE ServeOther(c)
    <3>1. Answered(c, None) \in Call
      BY <2>1
    <3>2. /\ Answered(c, None).step = "answered" /\ Answered(c, None).kind = calls[c].kind
          /\ Answered(c, None).text = calls[c].text /\ Answered(c, None).id = calls[c].id
      BY <2>0 DEF Answered, Call
    <3> QED
      BY <2>3, <2>7, <3>1, <3>2 DEF ServeOther, TypeOK
  <2>8. CASE ServeUpload(c)
    <3>1. ASSUME NEW r \in Reviews,
                 server' = [server EXCEPT ![r] = [status |-> "processing", text |-> Blank]],
                 calls' = [calls EXCEPT ![c].step = "created", ![c].id = r]
          PROVE  PageInv'
      <4> DEFINE call == [calls[c] EXCEPT !.step = "created", !.id = r]
      <4>1. call \in Call /\ call.id = r /\ call.kind = "upload" /\ call.text = calls[c].text
            /\ calls[c].kind = "upload"
        BY <2>0, <2>8 DEF Call, ServeUpload, Sent
      <4>2. calls' = [calls EXCEPT ![c] = call]
        BY <2>0, <3>1 DEF TypeOK
      <4>3. server' \in [Reviews -> Stored]
        BY <3>1, ReviewWorkspaceAssumption DEF TypeOK, Stored
      <4> HIDE DEF call
      <4> QED
        BY <2>3, <2>8, <4>1, <4>2, <4>3 DEF ServeUpload, TypeOK
    <3>2. CASE /\ calls' = [calls EXCEPT ![c].step = "error"]
               /\ UNCHANGED server
      BY <2>0, <2>3, <2>4, <2>8, <3>2 DEF ServeUpload, TypeOK, Call
    <3> QED
      BY <2>8, <3>1, <3>2 DEF ServeUpload
  <2>9. CASE ServeCreated(c)
    <3>1. calls[c].id \in Reviews
      BY <2>0, <2>9 DEF ServeCreated, Addressed
    <3>2. CASE Exists(calls[c].id)
      <4> DEFINE call == Answered(c, OnServer(calls[c].id))
      <4>1. call \in Call
        BY <2>1, <3>1, <3>2, OnServerType
      <4>2. calls' = [calls EXCEPT ![c] = call]
        BY <2>9, <3>2 DEF ServeCreated
      <4>3. call.step = "answered" /\ call.kind = calls[c].kind /\ call.id = calls[c].id
            /\ call.text = calls[c].text
        BY <2>0 DEF Answered, Call
      <4> HIDE DEF call
      <4> QED
        BY <2>3, <2>9, <4>1, <4>2, <4>3 DEF ServeCreated, TypeOK
    <3>3. CASE ~Exists(calls[c].id)
      BY <2>0, <2>3, <2>4, <2>9, <3>3 DEF ServeCreated, TypeOK, Call
    <3> QED
      BY <3>2, <3>3
  <2>10. CASE Answer(c)
    <3>1. calls[c].of \in Dependencies /\ calls[c].answer \in Review \cup {None}
      BY <2>0 DEF Call
    <3>2. load' \in Load \cup {None} /\ LoadInv'
      BY <2>10, <3>1, LoadingType DEF Answer
    <3>3. calls' \in [Calls -> Call \cup {None}] /\ CallInv'
      BY <2>2, <2>10 DEF Answer
    <3>4. calls[c].answer # None => calls[c].answer.text \in Texts
      BY <3>1 DEF Review
    <3>5. /\ selected' \in Review \cup {None} /\ form' \in Texts \cup {None}
          /\ list' \in SUBSET Review /\ dirty' \in BOOLEAN /\ conflict' \in BOOLEAN
      BY <2>10, <3>1, <3>4 DEF Answer, page, TypeOK
    <3> QED
      BY <2>10, <3>2, <3>3, <3>5 DEF Answer, TypeOK
  <2>11. CASE AnswerError(c)
    BY <2>3, <2>11 DEF AnswerError, TypeOK
  <2>12. CASE CallFails(c)
    BY <1>0, <2>3, <2>12 DEF CallFails, Act, TypeOK
  <2> QED
    BY <1>13, <2>5, <2>6, <2>7, <2>8, <2>9, <2>10, <2>11, <2>12 DEF CallStep
<1>14. CASE UNCHANGED vars
  BY <1>14 DEF vars, page, TypeOK, LoadInv, CallInv, Addressed
<1> QED
  BY <1>1, <1>2, <1>3, <1>4, <1>5, <1>6, <1>7, <1>8, <1>9, <1>10, <1>11, <1>12,
     <1>13, <1>14 DEF Next, LoadStep, ReviewerActs

LEMMA PageInvariant == Spec => []PageInv
  BY PageInit, PageStep, PTL DEF Spec

-----------------------------------------------------------------------------
(* Theorems *)

(* The state of page, loads and requests keeps its types. *)
THEOREM WorkspaceTypes == Spec => []TypeOK
<1>1. PageInv => TypeOK
  BY DEF PageInv
<1> QED
  BY <1>1, PageInvariant, PTL

(* What a settled page asks of the load in progress. *)
Harmless(l) ==
  \/ l.of = Deps /\ ~Forced(l)
  \/ l.aborted /\ l.asked # {}

(* Steps that leave the page as it is, and its requests or less of them. *)
LEMMA StaysSettled ==
  ASSUME TypeOK, Settled, UNCHANGED <<capable, page, shown>>,
         load' # None => Harmless(load'),
         \A c \in Calls : calls'[c] # None =>
           /\ calls[c] # None
           /\ calls'[c].kind = calls[c].kind /\ calls'[c].of = calls[c].of
  PROVE  Settled' /\ form' = form
<1>1. Deps' = Deps
  BY DEF Deps, page
<1>2. dirty' /\ selected' # None /\ capable' # 0 /\ form' = form
  BY DEF Settled, page
<1>3. Rendered'
  BY <1>1 DEF Settled, Rendered
<1>4. \A c \in Calls : calls'[c] # None => calls'[c].kind = "other" /\ calls'[c].of = Deps'
  BY <1>1 DEF Settled
<1>5. load' # None => \/ load'.of = Deps' /\ ~Forced(load)'
                      \/ load'.aborted /\ load'.asked # {}
  BY <1>1 DEF Harmless, Forced
<1> QED
  BY <1>2, <1>3, <1>4, <1>5 DEF Settled

(* A settled edit is lost by nothing but an action of the reviewer,        *)
(* whatever the server, the other clients, the timers and the network do;  *)
(* an edit on top of it, an edit that interrupts a load and a request of   *)
(* the bridge panel leave the page settled.                                *)
THEOREM SettledEditsAreKept == Spec => SettledEditsKept
<1>1. PageInv /\ [Next]_vars /\ Settled /\ ~ReviewerActs => Settled' /\ form' = form
  <2> SUFFICES ASSUME PageInv, [Next]_vars, Settled, ~ReviewerActs
               PROVE  Settled' /\ form' = form
    OBVIOUS
  <2>0. TypeOK /\ (load # None => Harmless(load))
    BY DEF PageInv, Settled, Harmless
  <2>1. ASSUME NEW r \in Reviews, ServerChange(r) PROVE Settled' /\ form' = form
    BY <2>0, <2>1, StaysSettled DEF ServerChange
  <2>2. CASE Render
    BY <2>2 DEF Render, Settled
  <2>3. CASE Tick
    <3>1. load'.of = Deps /\ load'.by = "timer"
      BY <2>3 DEF Tick, NewLoad, Settled, Rendered
    <3>2. Harmless(load')
      BY <3>1 DEF Harmless, Forced
    <3> QED
      BY <2>0, <2>3, <3>2, StaysSettled DEF Tick
  <2>4. CASE ListAnswered \/ ReviewAnswered
    <3>1. load \in Load /\ load # None /\ ~load.aborted
      BY <2>4 DEF ListAnswered, ReviewAnswered, Awaits, PageInv, TypeOK
    <3>2. load'.of = load.of /\ load'.by = load.by
      BY <2>4, <3>1 DEF ListAnswered, ReviewAnswered, Load
    <3>3. Harmless(load')
      BY <2>0, <3>1, <3>2 DEF Harmless, Forced
    <3> QED
      BY <2>0, <2>4, <3>3, StaysSettled DEF ListAnswered, ReviewAnswered
  <2>5. CASE Aborted \/ ReviewGone \/ LoadFails
    BY <2>0, <2>5, StaysSettled DEF Aborted, ReviewGone, LoadFails
  <2>6. CASE ApplyLoad
    <3> USE DEF Settled, Rendered
    <3>1. load # None /\ load.of = Deps /\ ~SetsForm(load)
      BY <2>6 DEF ApplyLoad, SetsForm, Deps
    <3>2. load' = None /\ capable' = capable /\ UNCHANGED <<shown, calls>>
      BY <2>6, <3>1 DEF ApplyLoad, Deps
    <3>3. form' = form /\ dirty'
      BY <2>6, <3>1 DEF ApplyLoad
    <3>4. selected' # None /\ selected'.id = selected.id
      <4>1. CASE load.review = None
        BY <2>6, <4>1 DEF ApplyLoad
      <4>2. CASE load.review # None
        <5>1. load.review.id = selected.id
          BY <3>1, <4>2 DEF PageInv, LoadInv, Deps
        <5>2. selected \in Review
          BY DEF PageInv, TypeOK
        <5>3. selected' = [selected EXCEPT !.status = load.review.status]
          BY <2>6, <3>1, <4>2, <5>1 DEF ApplyLoad, Merge
        <5>4. load.review.status \in Present
          BY <3>1, <4>2 DEF PageInv, TypeOK, Load, Review
        <5>5. selected' \in Review /\ selected'.id = selected.id
          BY <5>2, <5>3, <5>4 DEF Review
        <5> QED
          BY <5>5, ReviewWorkspaceAssumption
      <4> QED
        BY <4>1, <4>2
    <3>5. Deps' = Deps
      BY <3>2, <3>3, <3>4 DEF Deps
    <3> QED
      BY <3>2, <3>3, <3>4, <3>5
  <2>7. ASSUME NEW c \in Calls, CallStep(c) \/ CallFails(c)
        PROVE  Settled' /\ form' = form
    <3>1. /\ calls[c] # None /\ calls[c] \in Call
          /\ calls[c].kind = "other" /\ calls[c].of = Deps
      BY <2>7 DEF CallStep, CallFails, ServeReview, ServeClear, ServeOther, ServeUpload,
                  ServeCreated, Answer, AnswerError, Sent, Settled, PageInv, TypeOK
    <3>2. ASSUME NEW call, calls' = [calls EXCEPT ![c] = call],
                 call # None => call.kind = calls[c].kind /\ call.of = calls[c].of,
                 UNCHANGED <<capable, page, shown>>, load' # None => Harmless(load')
          PROVE  Settled' /\ form' = form
      <4>1. ASSUME NEW d \in Calls, calls'[d] # None
            PROVE  /\ calls[d] # None
                   /\ calls'[d].kind = calls[d].kind /\ calls'[d].of = calls[d].of
        <5>1. calls'[d] = IF d = c THEN call ELSE calls[d]
          BY <2>0, <3>2 DEF TypeOK
        <5> QED
          BY <3>1, <3>2, <4>1, <5>1
      <4> QED
        BY <2>0, <3>2, <4>1, StaysSettled
    <3>3. \A review : /\ Answered(c, review).kind = calls[c].kind
                      /\ Answered(c, review).of = calls[c].of
      BY <3>1 DEF Answered, Call
    <3>4. CASE ServeOther(c)
      BY <2>0, <3>2, <3>3, <3>4 DEF ServeOther
    <3>5. CASE ServeCreated(c)
      <4> DEFINE call == IF Exists(calls[c].id) THEN Answered(c, OnServer(calls[c].id))
                         ELSE [calls[c] EXCEPT !.step = "error"]
      <4>1. calls' = [calls EXCEPT ![c] = call]
        BY <3>5 DEF ServeCreated
      <4>2. call.kind = calls[c].kind /\ call.of = calls[c].of
        BY <3>1, <3>3 DEF Call
      <4> HIDE DEF call
      <4> QED
        BY <2>0, <3>2, <3>5, <4>1, <4>2 DEF ServeCreated
    <3>6. CASE Answer(c)
      <4>1. UNCHANGED page /\ load' = Loading("call", Deps) /\ calls' = [calls EXCEPT ![c] = None]
        BY <3>1, <3>6 DEF Answer
      <4>2. CASE load = None
        <5>1. load'.of = Deps /\ load'.by = "call"
          BY <4>1, <4>2 DEF Loading, NewLoad
        <5>2. Harmless(load')
          BY <5>1 DEF Harmless, Forced
        <5> QED
          BY <3>2, <3>6, <4>1, <5>2 DEF Answer
      <4>3. CASE load # None
        BY <2>0, <3>2, <3>6, <4>1, <4>3 DEF Answer, Loading
      <4> QED
        BY <4>2, <4>3
    <3>7. CASE AnswerError(c) \/ CallFails(c)
      BY <2>0, <3>2, <3>7 DEF AnswerError, CallFails
    <3> QED
      BY <2>7, <3>1, <3>4, <3>5, <3>6, <3>7
      DEF CallStep, ServeReview, ServeClear, ServeUpload, Sent
  <2>8. CASE UNCHANGED vars
    BY <2>0, <2>8, StaysSettled DEF vars
  <2> QED
    BY <2>1, <2>2, <2>3, <2>4, <2>5, <2>6, <2>7, <2>8 DEF Next, LoadStep
<1>2. ASSUME PageInv, NEW text \in Texts, Settled \/ Interruptible, Type(text)
      PROVE  Settled'
  <2>1. /\ selected # None /\ capable # 0 /\ Rendered
        /\ UNCHANGED <<capable, selected, calls>> /\ dirty'
        /\ shown' = [shown EXCEPT !.dirty = TRUE]
    BY <1>2 DEF Type, Effect, CanEdit, Settled, Interruptible
  <2>2. Deps' = [Deps EXCEPT !.dirty = TRUE] /\ Deps' = shown'
    <3> DEFINE id == IF selected = None THEN None ELSE selected.id
    <3>1. dirty' = TRUE
      BY <1>2 DEF Type
    <3>2. Deps = [capable |-> capable, dirty |-> dirty, id |-> id] /\ shown = Deps
      BY <2>1 DEF Deps, Rendered
    <3>3. Deps' = [capable |-> capable, dirty |-> TRUE, id |-> id]
      BY <2>1, <3>1 DEF Deps
    <3> HIDE DEF id
    <3>4. shown \in Dependencies
      BY <1>2 DEF PageInv, TypeOK
    <3>5. /\ shown' \in Dependencies /\ shown'.dirty = TRUE
          /\ shown'.capable = shown.capable /\ shown'.id = shown.id
      BY <2>1, <3>4 DEF Dependencies
    <3>6. shown' = [capable |-> shown'.capable, dirty |-> shown'.dirty, id |-> shown'.id]
      BY <3>5 DEF Dependencies
    <3>7. shown.capable = capable /\ shown.id = id
      BY <3>2
    <3>8. shown' = [capable |-> capable, dirty |-> TRUE, id |-> id]
      BY <3>5, <3>6, <3>7
    <3> QED
      BY <2>1, <3>2, <3>3, <3>8
  <2>3. CASE Settled
    <3>1. Deps' = Deps /\ shown' = shown
      BY <2>1, <2>2, <2>3 DEF Settled, Deps, Rendered
    <3>2. load' = load
      BY <1>2, <2>1, <3>1 DEF Type, Effect
    <3> QED
      BY <2>1, <2>2, <2>3, <3>1, <3>2 DEF Settled, Rendered, Forced
  <2>4. CASE Interruptible
    <3>1. [shown EXCEPT !.dirty = TRUE] # shown
      BY <2>1, <2>4 DEF Interruptible, Rendered, Deps
    <3>2. load # None /\ load.asked # {} /\ load \in Load
      BY <1>2, <2>4 DEF Interruptible, PageInv, TypeOK
    <3>3. load' = [load EXCEPT !.aborted = TRUE]
      BY <1>2, <3>1, <3>2 DEF Type, Effect
    <3>4. load'.aborted /\ load'.asked # {}
      BY <3>2, <3>3 DEF Load
    <3>5. \A c \in Calls : calls'[c] = None
      BY <2>1, <2>4 DEF Interruptible
    <3> QED
      BY <2>1, <2>2, <3>4, <3>5 DEF Settled, Rendered
  <2> QED
    BY <1>2, <2>3, <2>4
<1>3. ASSUME PageInv, NEW c \in Calls, Settled, Send(c, "other")
      PROVE  Settled'
  <2>1. /\ UNCHANGED <<capable, page, shown, load>>
        /\ calls' = [calls EXCEPT ![c] =
                       [kind |-> "other", text |-> form, of |-> shown, step |-> "sent",
                        id |-> shown.id, answer |-> None]]
    BY <1>3 DEF Send
  <2>2. Deps' = Deps /\ shown = Deps
    BY <1>3, <2>1 DEF Deps, page, Settled, Rendered
  <2>3. ASSUME NEW d \in Calls, calls'[d] # None
        PROVE  calls'[d].kind = "other" /\ calls'[d].of = Deps
    BY <1>3, <2>1, <2>2, <2>3 DEF PageInv, TypeOK, Settled
  <2> QED
    BY <1>3, <2>1, <2>2, <2>3 DEF Settled, Rendered, Forced, page
<1>4. PageInv /\ [Next]_vars =>
        /\ Settled /\ ~ReviewerActs => Settled' /\ form' = form
        /\ \A text \in Texts : (Settled \/ Interruptible) /\ Type(text) => Settled'
        /\ \A c \in Calls : Settled /\ Send(c, "other") => Settled'
  BY <1>1, <1>2, <1>3
<1> QED
  BY <1>4, PageInvariant, PTL DEF Spec, SettledEditsKept
=============================================================================
