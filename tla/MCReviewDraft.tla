---------------------------- MODULE MCReviewDraft ----------------------------
(* A database of one item, and an id that no item has. *)
EXTENDS ReviewDraft

CONSTANTS key1, name1, name2, item1, item2

MCItems == [i \in {item1} |-> [key |-> key1, name |-> name2]]
=============================================================================
