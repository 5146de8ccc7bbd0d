-------------------------- MODULE MCReviewWorkspace --------------------------
(* Finite instances of ReviewWorkspace for TLC. *)
EXTENDS ReviewWorkspace, TLC

CONSTANTS r1, r2, a, b, c1
=============================================================================
