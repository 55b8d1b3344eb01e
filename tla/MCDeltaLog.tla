----------------------------- MODULE MCDeltaLog -----------------------------
(* An instance of DeltaLog for TLC: an append, a merge of two keys, one of *)
(* one of them, and an append and a merge with no rows.                    *)
EXTENDS DeltaLog

CONSTANTS a, m, n, e, f, k1, k2

MCKind == [w \in {a, m, n, e, f} |-> IF w \in {a, e} THEN "append" ELSE "merge"]
MCKeys == [w \in {a, m, n, e, f} |->
    CASE w = a -> {k1} [] w = m -> {k1, k2} [] w = n -> {k2} [] OTHER -> {}]
MCGroups == {{a, m, n, e}, {a, m, f}}
=============================================================================
