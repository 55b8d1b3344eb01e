------------------------------ MODULE MCRunner ------------------------------
(* Instances of Runner for TLC. *)
EXTENDS Runner, TLC

CONSTANTS r1, r2, cand, note

(* A critical and a non-critical table, all tables or only the critical    *)
(* one's schedule group.                                                   *)
MCEntitySeq == <<cand, note>>
MCCritical == {cand}
MCSelections == {{cand, note}, {cand}}
MCAllTables == {{cand, note}}

MCSymmetry == Permutations({r1, r2})
=============================================================================
