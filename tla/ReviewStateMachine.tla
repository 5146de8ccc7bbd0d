------------------------- MODULE ReviewStateMachine -------------------------
(***************************************************************************)
(* What the local review store promises about the life of one review: the  *)
(* statuses of ReviewStatus and the transitions the review workflow allows.*)
(* Any number of reviews may move in one step, since one call of the store *)
(* may expire or evict several records besides the one it is about.        *)
(***************************************************************************)
CONSTANT Reviews        \* the review ids, each handed out at most once

VARIABLE status         \* status[r], with the two ends the API does not name

(* The members of ReviewStatus. *)
Decided == {"confirmed", "confirmed_with_edits", "rejected"}
Live    == {"processing", "pending_review"}
Statuses == Live \cup Decided \cup {"unreadable", "failed", "expired"}

(* A review that is no longer live. *)
Final == Statuses \ Live

(* "unborn": the id was never handed out.  "gone": deleted, cleared or     *)
(* evicted.  A review may go from any status, but nothing leaves "gone".   *)
Allowed ==
  {<<"unborn", "processing">>,
   <<"processing", "pending_review">>,
   <<"processing", "unreadable">>,
   <<"processing", "failed">>,
   <<"processing", "expired">>,
   <<"pending_review", "unreadable">>,
   <<"pending_review", "expired">>}
  \cup ({"pending_review"} \X Decided)
  \cup (Statuses \X {"gone"})

Init == status = [r \in Reviews |-> "unborn"]

Move(r) == status'[r] = status[r] \/ <<status[r], status'[r]>> \in Allowed

Next ==
  /\ status' \in [Reviews -> Statuses \cup {"unborn", "gone"}]
  /\ \A r \in Reviews : Move(r)

Spec == Init /\ [][Next]_status
=============================================================================
