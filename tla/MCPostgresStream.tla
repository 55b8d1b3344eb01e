------------------------- MODULE MCPostgresStream --------------------------
(* Instances of PostgresStream for TLC: a transaction of two rows and one  *)
(* of one row over an old table and a late one.                            *)
EXTENDS PostgresStream

CONSTANTS big, small, orders, items

MCTxs == {big, small}
MCTables == {orders, items}

Row(x, t) == [kind |-> "row", tx |-> x, table |-> t]
End(kind, x) == [kind |-> kind, tx |-> x]

Wal(x, s) == [log |-> x, streamed |-> s]

(* small commits within big; the commits are adjacent; big aborts.         *)
Within == <<Row(big, orders), Row(small, orders), End("commit", small),
            Row(big, items), End("commit", big)>>
Adjacent == <<Row(small, items), Row(big, orders), End("commit", big), End("commit", small)>>
Aborted == <<Row(big, items), Row(small, orders), End("abort", big), End("commit", small)>>

MCWals == {Wal(Within, {big}), Wal(Adjacent, {}), Wal(Aborted, {big})}
=============================================================================
