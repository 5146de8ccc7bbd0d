---------------------------- MODULE MCReviewStore ----------------------------
(* Finite instances of ReviewStore for TLC. *)
EXTENDS ReviewStore, TLC

Symmetry == Permutations(Reviews) \cup Permutations(Editors)
              \cup Permutations(Confirmers)
=============================================================================
