---------------------------- MODULE MCTokenBucket ----------------------------
(* Finite instances of TokenBucket for TLC. *)
EXTENDS TokenBucket, TLC

Symmetry == Permutations(Clients) \cup Permutations(Uploads)
=============================================================================
