-------------------------- MODULE ReviewDraftProofs --------------------------
(***************************************************************************)
(* Proofs about ReviewDraft for every set of names, keys, items and times: *)
(* a manual identity is one the reviewer typed, a selected one excludes    *)
(* it, a moved observed_at is marked as the reviewer's, and what is        *)
(* confirmed without edits is what OCR read.                               *)
(***************************************************************************)
EXTENDS ReviewDraft, TLAPS

(* What a draft's provenance is worth while the review is undecided.       *)
Provenance ==
  /\ draft.key = typed.key
  /\ draft.nameSource \in Explicit => draft.name = typed.name
  /\ draft.at \in Moved => draft.atSource = "user_edited"

Undecided == status \in {"processing", "pending_review"}

IdentityInv ==
  /\ TypeOK
  /\ Undecided => candidate = None /\ Provenance
  /\ status = "processing" => draft = NewDraft
  /\ ManualIdentityIsTyped
  /\ OneIdentityMode
  /\ MovedTimeIsMarked
  /\ UneditedIsAsRead

(* A request leaves a well typed draft whose provenance is still true of   *)
(* what the reviewer typed, now that this request is among it.             *)
LEMMA PatchKeeps ==
  ASSUME TypeOK, Provenance, NEW request \in Requests, NEW source \in Explicit
  PROVE  LET d == Patch(draft, request, source)
             t == Typed(request)
         IN /\ d \in Draft
            /\ t \in [key : Keys \cup {None}, name : Names \cup {None}]
            /\ d.key = t.key
            /\ d.nameSource \in Explicit => d.name = t.name
            /\ d.at \in Moved => d.atSource = "user_edited"
<1> DEFINE d == Patch(draft, request, source)
           t == Typed(request)
<1>1. /\ request.item \in ItemIds \cup {None, Unset}
      /\ request.key \in Keys \cup {None, Unset}
      /\ request.name \in Names \cup {None, Unset}
      /\ request.price \in Prices \cup {None, Unset}
      /\ request.at \in Moved \cup {Created, None, Unset}
  BY DEF Requests, Field
<1>2. /\ draft.item \in ItemIds \cup {None}
      /\ draft.key \in Keys \cup {None}
      /\ draft.name \in Names \cup {None}
      /\ draft.keySource \in Sources \cup {None}
      /\ draft.nameSource \in Sources \cup {None}
      /\ draft.price \in Prices \cup {None}
      /\ draft.at \in Moved \cup {Created, None}
      /\ draft.atSource \in TimeSources
  BY DEF TypeOK, Draft
<1>3. /\ d.item = Value(request.item, draft.item)
      /\ d.key = Value(request.key, draft.key)
      /\ d.name = Value(request.name, draft.name)
      /\ d.keySource = UpdatedSource(request.key, draft.keySource, source)
      /\ d.nameSource = UpdatedSource(request.name, draft.nameSource, source)
      /\ d.price = Value(request.price, draft.price)
      /\ d.at = UpdatedTime(request, draft)
      /\ d.atSource = UpdatedTimeSource(request, draft)
  BY DEF Patch
<1>4. d \in Draft
  <2>1. Value(request.item, draft.item) \in ItemIds \cup {None}
    BY <1>1, <1>2 DEF Value
  <2>2. Value(request.key, draft.key) \in Keys \cup {None}
    BY <1>1, <1>2 DEF Value
  <2>3. Value(request.name, draft.name) \in Names \cup {None}
    BY <1>1, <1>2 DEF Value
  <2>4. UpdatedSource(request.key, draft.keySource, source) \in Sources \cup {None}
    BY <1>2 DEF UpdatedSource, Sources
  <2>5. UpdatedSource(request.name, draft.nameSource, source) \in Sources \cup {None}
    BY <1>2 DEF UpdatedSource, Sources
  <2>6. Value(request.price, draft.price) \in Prices \cup {None}
    BY <1>1, <1>2 DEF Value
  <2>7. UpdatedTime(request, draft) \in Moved \cup {Created, None}
    BY <1>1, <1>2 DEF UpdatedTime
  <2>8. UpdatedTimeSource(request, draft) \in TimeSources
    BY <1>2 DEF UpdatedTimeSource, TimeSources
  <2> QED
    BY <2>1, <2>2, <2>3, <2>4, <2>5, <2>6, <2>7, <2>8 DEF Patch, Draft
<1>5. /\ t \in [key : Keys \cup {None}, name : Names \cup {None}]
      /\ t.key = Value(request.key, typed.key)
      /\ t.name = Value(request.name, typed.name)
  BY <1>1 DEF Typed, Value, TypeOK
<1>6. d.key = t.key
  BY <1>3, <1>5 DEF Value, Provenance
<1>7. d.nameSource \in Explicit => d.name = t.name
  BY <1>3, <1>5, ReviewDraftAssumption DEF Value, UpdatedSource, Provenance, Explicit
<1>8. d.at \in Moved => d.atSource = "user_edited"
  BY <1>3, ReviewDraftAssumption DEF UpdatedTime, UpdatedTimeSource, Provenance
<1> HIDE DEF d, t
<1> QED
  BY <1>4, <1>5, <1>6, <1>7, <1>8 DEF d, t

(* What Canonical does to a draft that Outcome accepts. *)
LEMMA AcceptedDraft ==
  ASSUME NEW d \in Draft, Outcome(d) = "confirmed"
  PROVE  LET final == Canonical(d)
         IN /\ final \in Draft
            /\ final.item = d.item /\ final.price = d.price
            /\ final.at = d.at /\ final.atSource = d.atSource
            /\ final.key \in Keys /\ final.name \in Names
            /\ final.price \in Prices /\ final.at \in Moved \cup {Created}
            /\ d.item = None => final = d /\ ManualIdentity(d)
            /\ d.item # None => d.key = None
            /\ Identity(d) = [item |-> final.item, key |-> final.key, name |-> final.name]
<1>1. d.price # None /\ d.at # None
  BY DEF Outcome
<1>2. d.price \in Prices /\ d.at \in Moved \cup {Created}
  BY <1>1 DEF Draft
<1>3. CASE d.item = None
  <2>1. ManualIdentity(d) /\ Canonical(d) = d
    BY <1>3 DEF Outcome, Canonical
  <2>2. d.key \in Keys /\ d.name \in Names
    BY <2>1 DEF Draft, ManualIdentity
  <2>3. Identity(d) = [item |-> d.item, key |-> d.key, name |-> d.name]
    BY <1>3 DEF Identity
  <2> QED
    BY <1>2, <1>3, <2>1, <2>2, <2>3
<1>4. CASE d.item # None
  <2>1. d.item \in DOMAIN Items /\ d.key = None
    BY <1>4 DEF Outcome
  <2>2. Items[d.item] \in [key : Keys, name : Names]
    BY <2>1, ReviewDraftAssumption
  <2>3. Identity(d) = [item |-> d.item, key |-> Items[d.item].key,
                       name |-> Items[d.item].name]
    BY <1>4 DEF Identity
  <2>4. Canonical(d) = [d EXCEPT !.key = Items[d.item].key,
                                 !.name = Items[d.item].name,
                                 !.keySource = "canonical_item",
                                 !.nameSource = "canonical_item"]
    BY <1>4, <2>3 DEF Canonical
  <2>5. /\ Canonical(d).key = Items[d.item].key
        /\ Canonical(d).name = Items[d.item].name
        /\ Canonical(d).item = d.item /\ Canonical(d).price = d.price
        /\ Canonical(d).at = d.at /\ Canonical(d).atSource = d.atSource
        /\ Canonical(d) \in Draft
    <3>1. Items[d.item].key \in Keys /\ Items[d.item].name \in Names
      BY <2>2
    <3>2. "canonical_item" \in Sources
      BY DEF Sources
    <3> QED
      BY <2>4, <3>1, <3>2 DEF Draft
  <2>6. Identity(d) = [item |-> Canonical(d).item, key |-> Canonical(d).key,
                       name |-> Canonical(d).name]
    BY <2>3, <2>5
  <2> QED
    BY <1>2, <1>4, <2>1, <2>2, <2>5, <2>6
<1> QED
  BY <1>3, <1>4

LEMMA IdentityInit == Init => IdentityInv
BY ReviewDraftAssumption
   DEF Init, IdentityInv, TypeOK, Undecided, Provenance, NewDraft, Draft, Candidate,
       OcrResults, TimeSources, ManualIdentityIsTyped,
       OneIdentityMode, MovedTimeIsMarked, UneditedIsAsRead, Explicit

LEMMA RecognizeKeeps == IdentityInv /\ Recognize => IdentityInv'
<1> SUFFICES ASSUME IdentityInv, Recognize PROVE IdentityInv'
  OBVIOUS
<1>1. /\ status' = "pending_review"
      /\ candidate' = None /\ candidate = None
      /\ typed' = typed
      /\ ocr' \in OcrResults
      /\ draft = NewDraft
      /\ draft.key = typed.key
  BY DEF IdentityInv, Undecided, Recognize, Provenance
<1>2. ocr'.name \in Names \cup {None} /\ ocr'.price \in Prices \cup {None}
  BY <1>1 DEF OcrResults
<1>3. /\ draft'.item = None /\ draft'.key = None /\ draft'.keySource = None
      /\ draft'.name = ocr'.name /\ draft'.price = ocr'.price
      /\ draft'.nameSource \in {"ocr_initial", None}
      /\ draft'.at = Created
      /\ draft'.atSource = "review_created_default"
      /\ draft' \in Draft
  <2>1. PICK source \in {"ocr_initial", None} :
          draft' = [draft EXCEPT !.name = ocr'.name, !.price = ocr'.price,
                                 !.nameSource = source]
    BY <1>1 DEF Recognize, NewDraft
  <2>2. draft' = [item |-> None, key |-> None, name |-> ocr'.name,
                  keySource |-> None, nameSource |-> source,
                  price |-> ocr'.price, at |-> Created,
                  atSource |-> "review_created_default"]
    BY <1>1, <2>1 DEF NewDraft
  <2>3. source \in Sources \cup {None}
    BY <2>1 DEF Sources
  <2>4. draft' \in Draft
    BY <1>2, <2>2, <2>3 DEF Draft, TimeSources
  <2> QED
    BY <2>2, <2>4
<1>4. Provenance'
  <2>1. draft'.key = typed'.key
    BY <1>1, <1>3 DEF NewDraft
  <2> QED
    BY <2>1, <1>3, ReviewDraftAssumption DEF Provenance, Explicit
<1>5. TypeOK'
  BY <1>1, <1>3 DEF IdentityInv, TypeOK
<1> QED
  BY <1>1, <1>4, <1>5 DEF IdentityInv, Undecided, ManualIdentityIsTyped,
     OneIdentityMode, MovedTimeIsMarked, UneditedIsAsRead

LEMMA PatchStepKeeps == IdentityInv /\ PatchDraft => IdentityInv'
<1> SUFFICES ASSUME IdentityInv, PatchDraft PROVE IdentityInv'
  OBVIOUS
<1>1. PICK request \in Requests :
        /\ draft' = Patch(draft, request, "user_draft")
        /\ typed' = Typed(request)
  BY DEF PatchDraft
<1>2. /\ status = "pending_review" /\ status' = status
      /\ ocr' = ocr /\ candidate' = candidate /\ candidate = None
      /\ TypeOK /\ Provenance
  BY DEF PatchDraft, IdentityInv, Undecided
<1>3. "user_draft" \in Explicit
  BY DEF Explicit
<1>4. /\ draft' \in Draft
      /\ typed' \in [key : Keys \cup {None}, name : Names \cup {None}]
      /\ Provenance'
  BY <1>1, <1>2, <1>3, PatchKeeps DEF Provenance
<1> QED
  BY <1>2, <1>4 DEF IdentityInv, TypeOK, Undecided, ManualIdentityIsTyped,
     OneIdentityMode, MovedTimeIsMarked, UneditedIsAsRead

LEMMA ConfirmKeeps == IdentityInv /\ Confirm => IdentityInv'
<1> SUFFICES ASSUME IdentityInv, Confirm PROVE IdentityInv'
  OBVIOUS
<1>1. PICK request \in Requests :
        LET d == Patch(draft, request, "confirm_request")
            final == Canonical(d)
        IN /\ answer' = Outcome(d)
           /\ IF Outcome(d) = "confirmed"
              THEN /\ status' = IF Edited(final) = {} THEN "confirmed"
                                ELSE "confirmed_with_edits"
                   /\ draft' = final
                   /\ candidate' = [item |-> Identity(d).item, key |-> Identity(d).key,
                                    name |-> Identity(d).name, price |-> final.price,
                                    at |-> final.at, atSource |-> final.atSource,
                                    edited |-> Edited(final)]
                   /\ typed' = Typed(request)
              ELSE UNCHANGED <<status, draft, candidate, typed>>
  BY DEF Confirm
<1> DEFINE d == Patch(draft, request, "confirm_request")
           final == Canonical(d)
<1>2. /\ status = "pending_review" /\ ocr' = ocr
      /\ TypeOK /\ Provenance
  BY DEF Confirm, IdentityInv, Undecided
<1>3. CASE Outcome(d) # "confirmed"
  BY <1>1, <1>2, <1>3 DEF IdentityInv, TypeOK, Undecided, Provenance,
     ManualIdentityIsTyped, OneIdentityMode, MovedTimeIsMarked,
     UneditedIsAsRead
<1>4. CASE Outcome(d) = "confirmed"
  <2>1. /\ d \in Draft
        /\ Typed(request) \in [key : Keys \cup {None}, name : Names \cup {None}]
        /\ d.key = Typed(request).key
        /\ d.nameSource \in Explicit => d.name = Typed(request).name
        /\ d.at \in Moved => d.atSource = "user_edited"
    BY <1>2, PatchKeeps DEF Explicit
  <2>2. /\ final \in Draft
        /\ final.item = d.item /\ final.price = d.price
        /\ final.at = d.at /\ final.atSource = d.atSource
        /\ final.key \in Keys /\ final.name \in Names
        /\ final.price \in Prices /\ final.at \in Moved \cup {Created}
        /\ d.item = None => final = d /\ ManualIdentity(d)
        /\ d.item # None => d.key = None
        /\ Identity(d) = [item |-> final.item, key |-> final.key, name |-> final.name]
    BY <1>4, <2>1, AcceptedDraft
  <2>3. Edited(final) \subseteq {"item_name", "price", "observed_at"}
        /\ (final.at \in Moved => "observed_at" \in Edited(final))
    BY ReviewDraftAssumption DEF Edited
  <2>4. /\ status' \in {"confirmed", "confirmed_with_edits"}
        /\ draft' = final
        /\ typed' = Typed(request)
        /\ candidate' = [item |-> final.item, key |-> final.key,
                         name |-> final.name, price |-> final.price,
                         at |-> final.at, atSource |-> final.atSource,
                         edited |-> Edited(final)]
    <3>1. /\ Identity(d).item = final.item /\ Identity(d).key = final.key
          /\ Identity(d).name = final.name
      BY <2>2
    <3> QED
      BY <1>1, <1>4, <3>1
  <2>5. candidate' \in Candidate
    <3>1. final.item \in ItemIds \cup {None} /\ final.atSource \in TimeSources
      BY <2>2 DEF Draft
    <3> QED
      BY <2>2, <2>3, <2>4, <3>1 DEF Candidate
  <2>6. TypeOK'
    BY <1>2, <2>1, <2>2, <2>4, <2>5 DEF TypeOK
  <2> HIDE DEF d, final
  <2>7. ManualIdentityIsTyped'
    BY <2>1, <2>2, <2>4 DEF ManualIdentityIsTyped, ManualIdentity
  <2>8. OneIdentityMode'
    BY <2>1, <2>2, <2>4 DEF OneIdentityMode
  <2>9. MovedTimeIsMarked'
    BY <2>1, <2>2, <2>3, <2>4 DEF MovedTimeIsMarked
  <2>10. UneditedIsAsRead'
    <3>1. status' = "confirmed" => Edited(final) = {}
      BY <1>1, <1>4 DEF d, final
    <3>2. Edited(final) = {} => final.name = ocr.name /\ final.price = ocr.price
      BY DEF Edited
    <3>3. Edited(final) = {} => final.at = Created
      BY <2>2, <2>3
    <3> QED
      BY <1>2, <2>4, <3>1, <3>2, <3>3 DEF UneditedIsAsRead
  <2> QED
    BY <2>4, <2>6, <2>7, <2>8, <2>9, <2>10 DEF IdentityInv, Undecided
<1> QED
  BY <1>3, <1>4

LEMMA IdentityStep == IdentityInv /\ [Next]_vars => IdentityInv'
<1>1. IdentityInv /\ UNCHANGED vars => IdentityInv'
  BY DEF IdentityInv, TypeOK, Undecided, Provenance, ManualIdentityIsTyped,
     OneIdentityMode, MovedTimeIsMarked, UneditedIsAsRead, vars
<1> QED
  BY <1>1, RecognizeKeeps, PatchStepKeeps, ConfirmKeeps DEF Next, Done

(* The inductive invariant, from which the theorems follow.                *)
LEMMA IdentityInvariant == Spec => []IdentityInv
  BY IdentityInit, IdentityStep, PTL DEF Spec

(* However requests and OCR alternate, a candidate that names no item of   *)
(* the database carries the key and the name the reviewer typed last.      *)
THEOREM ManualIdentityCorrect == Spec => []ManualIdentityIsTyped
<1>1. IdentityInv => ManualIdentityIsTyped
  BY DEF IdentityInv
<1> QED
  BY <1>1, IdentityInvariant, PTL

(* However requests send and withdraw items and keys, nothing is confirmed *)
(* for a selected item with a typed key in force.                          *)
THEOREM OneIdentityCorrect == Spec => []OneIdentityMode
<1>1. IdentityInv => OneIdentityMode
  BY DEF IdentityInv
<1> QED
  BY <1>1, IdentityInvariant, PTL

(* A moved observed_at never passes for the default one. *)
THEOREM MovedTimeCorrect == Spec => []MovedTimeIsMarked
<1>1. IdentityInv => MovedTimeIsMarked
  BY DEF IdentityInv
<1> QED
  BY <1>1, IdentityInvariant, PTL

(* A candidate that counts as unedited is what OCR read, at the suggested  *)
(* time, whichever way its identity was given.                             *)
THEOREM UneditedCorrect == Spec => []UneditedIsAsRead
<1>1. IdentityInv => UneditedIsAsRead
  BY DEF IdentityInv
<1> QED
  BY <1>1, IdentityInvariant, PTL

(* Type correctness of the draft, its sources and the candidate. *)
THEOREM DraftTypes == Spec => []TypeOK
<1>1. IdentityInv => TypeOK
  BY DEF IdentityInv
<1> QED
  BY <1>1, IdentityInvariant, PTL
=============================================================================
