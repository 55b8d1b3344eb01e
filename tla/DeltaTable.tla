----------------------------- MODULE DeltaTable -----------------------------
(***************************************************************************)
(* What the OneLake destination promises about concurrent writes to one    *)
(* Delta table: each append or merge takes effect atomically, on top of    *)
(* everything that took effect before it, and a write that reports success *)
(* has taken effect.  It takes effect once, unless it never heard of the   *)
(* first time: a merge repeated then replaces its own rows, but an append  *)
(* finds its rows still there and adds none, or, if a merge has rewritten  *)
(* the table in between, adds each of them two-fold.  A row is counted as  *)
(* often as a reader of the table is handed it.                            *)
(***************************************************************************)
EXTENDS Naturals

CONSTANTS
    Writers,   \* write operations, one per ingestr invocation
    Kind,      \* Writers -> {"append", "merge"}
    KeysOf     \* Writers -> the primary keys of the rows it writes

VARIABLES
    rows,      \* how many copies of each row the table holds
    applied, result,
    unsure,    \* applied, but the writer was told that it is not
    again      \* applied a second time

tableVars == <<rows, applied, result, unsure, again>>

Row == [key : UNION {KeysOf[w] : w \in Writers}, by : Writers]
RowsOf(w) == {[key |-> k, by |-> w] : k \in KeysOf[w]}

(* An append adds its rows; a merge replaces the rows with a matching key. *)
Added(old, w, copies) == [x \in Row |-> old[x] + IF x \in RowsOf(w) THEN copies ELSE 0]
Replaced(old, w) ==
    [x \in Row |-> IF x \in RowsOf(w) THEN 1
                   ELSE IF x.key \in KeysOf[w] THEN 0 ELSE old[x]]

TableInit ==
    /\ rows = [x \in Row |-> 0]
    /\ applied = {}
    /\ result = [w \in Writers |-> "none"]
    /\ unsure = {} /\ again = {}

First(w) ==
    /\ w \notin applied /\ unsure' \in {unsure, unsure \cup {w}} /\ again' = again
    /\ rows' = IF Kind[w] = "append" THEN Added(rows, w, 1) ELSE Replaced(rows, w)

Second(w) ==
    /\ w \in unsure \ again /\ unsure' = unsure /\ again' = again \cup {w}
    /\ rows' \in IF Kind[w] = "append" THEN {Added(rows, w, 0), Added(rows, w, 2)}
                 ELSE {Replaced(rows, w)}

Apply(w) ==
    /\ result[w] = "none"
    /\ applied' = applied \cup {w}
    /\ result' \in {[result EXCEPT ![w] = x] : x \in {"none", "ok", "error"}}
    /\ First(w) \/ Second(w)
    /\ \A x \in RowsOf(w) : rows'[x] > 0

(* Reporting success needs the effect, unless there was nothing to write. *)
Report(w) ==
    /\ result[w] = "none"
    /\ \/ result' = [result EXCEPT ![w] = "error"]
       \/ /\ w \in applied \/ KeysOf[w] = {}
          /\ result' = [result EXCEPT ![w] = "ok"]
    /\ UNCHANGED <<rows, applied, unsure, again>>

TableNext == \E w \in Writers : Apply(w) \/ Report(w)

TableSpec == TableInit /\ [][TableNext]_tableVars
=============================================================================
