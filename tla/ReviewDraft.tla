----------------------------- MODULE ReviewDraft -----------------------------
(***************************************************************************)
(* How the draft of one review becomes a confirmed candidate: what OCR     *)
(* puts in it, what PATCH and confirm requests change (patch_review_draft),*)
(* how the item is identified and what confirmation demands                *)
(* (confirm_review), and the provenance the draft records for the identity *)
(* fields and for observed_at.                                             *)
(*                                                                         *)
(* One reviewer, whose requests come one at a time: requests that overlap  *)
(* are in ReviewStore.  The two prices and the two quantities are one      *)
(* field, price, which must be present; a name or a key that is blank      *)
(* counts as null, as _blank_to_none makes it.                             *)
(***************************************************************************)
EXTENDS Naturals

CONSTANTS
  Names,     \* item names
  Keys,      \* item keys
  ItemIds,   \* ids a request may select
  Items,     \* the items of the database: [known ids -> [key, name]]
  Prices,
  Moved,     \* values of observed_at other than the suggested one
  Created,   \* suggested_observed_at, the time the review was created
  None       \* null

ASSUME ReviewDraftAssumption ==
  /\ None \notin Names \cup Keys \cup ItemIds \cup Prices \cup Moved \cup {Created}
  /\ None \notin {"user_draft", "confirm_request"}
  /\ Created \notin Moved
  /\ DOMAIN Items \subseteq ItemIds
  /\ \A i \in DOMAIN Items : Items[i] \in [key : Keys, name : Names]

VARIABLES
  status,     \* the review's status
  ocr,        \* ocr_candidate: what OCR read
  draft,      \* the draft
  candidate,  \* the confirmed candidate
  answer,     \* how the last confirm request ended
  typed       \* the key and name the reviewer sent last

vars == <<status, ocr, draft, candidate, answer, typed>>

-----------------------------------------------------------------------------
(* Data *)

Explicit == {"user_draft", "confirm_request"}
Sources  == Explicit \cup {"ocr_initial", "canonical_item"}
TimeSources == {"review_created_default", "user_edited"}

Draft ==
  [item : ItemIds \cup {None}, key : Keys \cup {None}, name : Names \cup {None},
   keySource : Sources \cup {None}, nameSource : Sources \cup {None},
   price : Prices \cup {None},
   at : Moved \cup {Created, None}, atSource : TimeSources]

Candidate ==
  [item : ItemIds \cup {None}, key : Keys, name : Names, price : Prices,
   at : Moved \cup {Created}, atSource : TimeSources,
   edited : SUBSET {"item_name", "price", "observed_at"}]

(* A field of a request: what it sets the field to, or Unset when the      *)
(* request leaves it out (model_fields_set).                               *)
Unset == "unset"
Field(S) == S \cup {None, Unset}

Requests ==
  [item : Field(ItemIds), key : Field(Keys), name : Field(Names),
   price : Field(Prices), at : Field(Moved \cup {Created})]

OcrResults == [name : Names \cup {None}, price : Prices \cup {None}]

NewDraft ==
  [item |-> None, key |-> None, name |-> None,
   keySource |-> None, nameSource |-> None, price |-> None,
   at |-> Created, atSource |-> "review_created_default"]

Init ==
  /\ status = "processing"
  /\ ocr = [name |-> None, price |-> None]
  /\ draft = NewDraft
  /\ candidate = None
  /\ answer = "none"
  /\ typed = [key |-> None, name |-> None]

-----------------------------------------------------------------------------
(* patch_review_draft *)

(* _field_value *)
Value(field, fallback) == IF field = Unset THEN fallback ELSE field

(* Wrong: a field gets the source of the request also when the request     *)
(* leaves it out.                                                          *)
SourceWhenSet(field, fallback, source) ==
  IF Value(field, fallback) = None THEN None ELSE source

(* _updated_identity_source *)
UpdatedSource(field, fallback, source) ==
  IF field = Unset THEN fallback
  ELSE IF field = None THEN None ELSE source

(* Wrong: a request that leaves observed_at out makes its source the       *)
(* default again.                                                          *)
TimeSourceForgotten(request, old) ==
  IF request.at \in Moved THEN "user_edited" ELSE "review_created_default"

(* observed_source: only a value other than the suggested one makes the    *)
(* source user_edited, and nothing makes it the default again.             *)
UpdatedTimeSource(request, old) ==
  IF request.at \in Moved THEN "user_edited" ELSE old.atSource

(* observed_at: a request that leaves it out restores a null one. *)
UpdatedTime(request, old) ==
  IF request.at # Unset THEN request.at
  ELSE IF old.at = None THEN Created ELSE old.at

Patch(old, request, source) ==
  [item       |-> Value(request.item, old.item),
   key        |-> Value(request.key, old.key),
   name       |-> Value(request.name, old.name),
   keySource  |-> UpdatedSource(request.key, old.keySource, source),
   nameSource |-> UpdatedSource(request.name, old.nameSource, source),
   price      |-> Value(request.price, old.price),
   at         |-> UpdatedTime(request, old),
   atSource   |-> UpdatedTimeSource(request, old)]

(* History: what the reviewer last put in the two manual identity fields. *)
Typed(request) ==
  [key  |-> Value(request.key, typed.key),
   name |-> Value(request.name, typed.name)]

-----------------------------------------------------------------------------
(* confirm_review *)

(* _has_explicit_manual_identity *)
ManualIdentity(d) ==
  /\ d.key # None
  /\ d.name # None
  /\ d.keySource \in Explicit
  /\ d.nameSource \in Explicit

(* Wrong: a selected item prevails over a key that was sent. *)
OutcomeSelectedPrevails(d) ==
  IF d.item # None /\ d.item \notin DOMAIN Items THEN "item_not_found"
  ELSE IF d.item = None /\ ~ManualIdentity(d) THEN "item_identity_required"
  ELSE IF d.price = None THEN "invalid_price_string"
  ELSE IF d.at = None THEN "assertion"
  ELSE "confirmed"

(* How a confirm request ends: _resolve_identity, _validate_confirm_values *)
(* and the assertions of make_candidate, in this order.                    *)
Outcome(d) ==
  IF d.item # None /\ d.key # None THEN "item_identity_conflict"
  ELSE IF d.item # None /\ d.item \notin DOMAIN Items THEN "item_not_found"
  ELSE IF d.item = None /\ ~ManualIdentity(d) THEN "item_identity_required"
  ELSE IF d.price = None THEN "invalid_price_string"
  ELSE IF d.at = None THEN "assertion"
  ELSE "confirmed"

(* What _resolve_identity returns: the selected item's row, or the manual  *)
(* identity of the draft.                                                  *)
Identity(d) ==
  IF d.item = None THEN [item |-> None, key |-> d.key, name |-> d.name]
  ELSE [item |-> d.item, key |-> Items[d.item].key, name |-> Items[d.item].name]

(* Wrong: the name the draft holds is kept for a selected item. *)
CanonicalKeepsName(d) ==
  IF d.item = None THEN d
  ELSE [d EXCEPT !.key = Identity(d).key,
                 !.keySource = "canonical_item",
                 !.nameSource = "canonical_item"]

(* _apply_canonical_identity, when an item is selected. *)
Canonical(d) ==
  IF d.item = None THEN d
  ELSE [d EXCEPT !.key = Identity(d).key,
                 !.name = Identity(d).name,
                 !.keySource = "canonical_item",
                 !.nameSource = "canonical_item"]

(* compute_edited_fields *)
Edited(d) ==
  {f \in {"item_name", "price", "observed_at"} :
     CASE f = "item_name"   -> d.name # ocr.name
       [] f = "price"       -> d.price # ocr.price
       [] f = "observed_at" -> d.at \notin {Created, None}}

-----------------------------------------------------------------------------
(* Actions *)

(* mark_recognized: _draft_from_ocr puts what OCR read in the draft; a     *)
(* name it read is marked as OCR's.                                        *)
Recognize ==
  /\ status = "processing"
  /\ status' = "pending_review"
  /\ ocr' \in OcrResults
  /\ draft' = [draft EXCEPT !.name  = ocr'.name,
                            !.price = ocr'.price,
                            !.nameSource = IF ocr'.name # None
                                           THEN "ocr_initial" ELSE @]
  /\ UNCHANGED <<candidate, answer, typed>>

(* PATCH of a pending review *)
PatchDraft ==
  /\ status = "pending_review"
  /\ \E request \in Requests :
       /\ draft' = Patch(draft, request, "user_draft")
       /\ typed' = Typed(request)
  /\ UNCHANGED <<status, ocr, candidate, answer>>

(* Confirm of a pending review: on any error the stored draft stays as it  *)
(* was.  The candidate takes its identity from _resolve_identity and the   *)
(* rest from the draft (make_candidate).                                   *)
Confirm ==
  /\ status = "pending_review"
  /\ \E request \in Requests :
       LET d == Patch(draft, request, "confirm_request")
           final == Canonical(d)
       IN
       /\ answer' = Outcome(d)
       /\ IF Outcome(d) = "confirmed"
          THEN /\ status' = IF Edited(final) = {} THEN "confirmed"
                            ELSE "confirmed_with_edits"
               /\ draft' = final
               /\ candidate' = [item |-> Identity(d).item, key |-> Identity(d).key,
                                name |-> Identity(d).name, price |-> final.price,
                                at |-> final.at, atSource |-> final.atSource,
                                edited |-> Edited(final)]
               /\ typed' = Typed(request)
          ELSE UNCHANGED <<status, draft, candidate, typed>>
  /\ UNCHANGED ocr

(* The review is decided: nothing else happens to it. *)
Done ==
  /\ status \in {"confirmed", "confirmed_with_edits"}
  /\ UNCHANGED vars

Next == Recognize \/ PatchDraft \/ Confirm \/ Done

Spec == Init /\ [][Next]_vars

-----------------------------------------------------------------------------
(* Properties *)

TypeOK ==
  /\ status \in {"processing", "pending_review", "confirmed",
                 "confirmed_with_edits"}
  /\ ocr \in OcrResults
  /\ draft \in Draft
  /\ candidate \in Candidate \cup {None}
  /\ typed \in [key : Keys \cup {None}, name : Names \cup {None}]

(* "OCR names are only reference evidence": a candidate that names no item *)
(* of the database carries a key and a name that the reviewer sent, and    *)
(* the last ones sent, also when OCR had read the same or another name and *)
(* however many requests set other fields.                                 *)
ManualIdentityIsTyped ==
  candidate # None /\ candidate.item = None =>
    candidate.key = typed.key /\ candidate.name = typed.name

(* "Choose an existing item or provide a manual identity, not both": over  *)
(* however many requests the two were sent, nothing is confirmed for a     *)
(* selected item while a key the reviewer sent is in force.                *)
OneIdentityMode ==
  candidate # None /\ candidate.item # None => typed.key = None

(* An observed_at that is not the suggested one is always marked as the    *)
(* reviewer's, and listed among the edited fields.                         *)
MovedTimeIsMarked ==
  candidate # None /\ candidate.at # Created =>
    candidate.atSource = "user_edited" /\ "observed_at" \in candidate.edited

(* A candidate confirmed without edits has OCR's name and price and the    *)
(* suggested time, whichever way its identity was given: the edits are     *)
(* looked for in the draft, the candidate's name is the identity's.        *)
UneditedIsAsRead ==
  status = "confirmed" =>
    /\ candidate.name = ocr.name
    /\ candidate.price = ocr.price
    /\ candidate.at = Created

(* make_candidate asserts that the draft has an observed_at: confirmation  *)
(* never fails on that assertion.                                          *)
AssertionHolds == answer # "assertion"
=============================================================================
