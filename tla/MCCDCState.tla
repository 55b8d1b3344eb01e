----------------------------- MODULE MCCDCState -----------------------------
(* An instance of CDCState for TLC: two processes. *)
EXTENDS CDCState

CONSTANTS p1, p2
=============================================================================
