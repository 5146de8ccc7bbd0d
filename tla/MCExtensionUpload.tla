-------------------------- MODULE MCExtensionUpload --------------------------
(* Finite instances of ExtensionUpload for TLC. *)
EXTENDS ExtensionUpload, TLC

Symmetry == Permutations(Uploads) \cup Permutations(Pairings) \cup Permutations(Captures)
=============================================================================
