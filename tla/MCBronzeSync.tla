---------------------------- MODULE MCBronzeSync ----------------------------
(* Instances of BronzeSync for TLC. *)
EXTENDS BronzeSync

CONSTANTS r1, cand

MCOne == <<cand>>
MCSelOne == {{cand}}
=============================================================================
