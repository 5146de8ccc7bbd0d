---------------------------- MODULE MCPairingStore ----------------------------
(* Finite instances of PairingStore for TLC. *)
EXTENDS PairingStore, TLC

Symmetry == Permutations(Codes) \cup Permutations(Pairings) \cup Permutations(Calls)
=============================================================================
