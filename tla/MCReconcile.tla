----------------------------- MODULE MCReconcile -----------------------------
(* Instances of Reconcile for TLC: the subscription table and another one. *)
EXTENDS Reconcile

CONSTANTS dels, cand

MCEntitySeq == <<dels, cand>>
=============================================================================
