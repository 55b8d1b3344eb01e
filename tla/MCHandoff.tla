----------------------------- MODULE MCHandoff ------------------------------
(* Instances of Handoff for TLC: the subscription table and another one. *)
EXTENDS Handoff

CONSTANTS dels, cand

MCEntitySeq == <<dels, cand>>
=============================================================================
