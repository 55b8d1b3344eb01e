---------------------------- MODULE MCStreaming ----------------------------
(* Instances of Streaming for TLC: a table with a key and one without, a   *)
(* key written twice, a truncate of either table between two rows.         *)
EXTENDS Streaming

CONSTANTS orders, events

MCTables == {orders, events}

Put(t, k) == [table |-> t, key |-> k, op |-> "put"]
Truncate(t) == [table |-> t, key |-> 0, op |-> "truncate"]

MCLogs == {
    <<Put(orders, 1), Put(events, 1), Truncate(orders), Put(orders, 2)>>,
    <<Put(events, 1), Truncate(events), Put(events, 2)>>,
    <<Put(events, 1), Put(orders, 1), Put(events, 2), Put(orders, 1)>> }
=============================================================================
