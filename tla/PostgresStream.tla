--------------------------- MODULE PostgresStream ---------------------------
(***************************************************************************)
(* The PostgreSQL change-data-capture source in streaming mode, several    *)
(* tables over one replication slot: walsender, receiver, decoder, batch   *)
(* accumulator, the results channel, and the pipeline that makes batches   *)
(* durable and confirms the slot.                                          *)
(*                                                                         *)
(* LSNs number the records of the log, from 1; a record ends where the     *)
(* next begins.  A row is named by the LSN of its record, so rows have an  *)
(* order, and what the code keeps in a slice is a set here.  The walsender *)
(* reads a log that is fixed from the start, at its own pace, which is as  *)
(* good as a log that grows; a message is received when it is decoded.  A  *)
(* transaction is sent when its commit is read, except those in streamed,  *)
(* whose rows are sent as they are read (protocol version 2).  The flush   *)
(* loop of the pipeline is reduced to write, persist and confirm; module   *)
(* Streaming has its details.                                              *)
(***************************************************************************)
EXTENDS Integers, FiniteSets, SequencesExt

CONSTANTS
    Tables,      \* the tables of the publication
    LateTables,  \* those created after the stream began
    Keyless,     \* those without a primary key
    Txs,         \* the transactions
    Wals,        \* the logs to consider, each with the large transactions
                 \* that are streamed in progress
    Chunk,       \* defaultCommittedDrainChanges
    Threshold,   \* rows of a table that make the accumulator emit it
    Capacity,    \* the results channel: what one step sends is put there at
                 \* once, when fewer than these are left
    MaxCrashes   \* bound on crashes

(* A log ends transactions with a commit or an abort, no record of a       *)
(* transaction comes after its end, and one without rows is not in it.     *)
IsLog(w) ==
    LET kind(i) == w.log[i].kind
        tx(i) == w.log[i].tx
    IN  /\ w.log = [i \in 1..Len(w.log) |-> w.log[i]] /\ Len(w.log) \in Nat
        /\ w.streamed \subseteq Txs
        /\ \A i \in 1..Len(w.log) :
              /\ tx(i) \in Txs
              /\ \/ kind(i) = "row" /\ w.log[i].table \in Tables
                 \/ kind(i) \in {"commit", "abort"} /\ \E j \in 1..(i - 1) : tx(j) = tx(i)
              /\ \A j \in 1..(i - 1) : tx(j) = tx(i) => kind(j) = "row"

ASSUME PostgresAssumption ==
    /\ IsFiniteSet(Tables) /\ "none" \notin Tables
    /\ LateTables \subseteq Tables /\ Keyless \subseteq Tables
    /\ \A w \in Wals : IsLog(w)
    /\ {Chunk, Threshold, Capacity} \subseteq Nat \ {0} /\ MaxCrashes \in Nat

VARIABLES
    wal, final,                 \* the log, and the commit LSN of each transaction (0: none)
    streamed,                   \* the transactions streamed in progress
    slot,                       \* confirmed_flush_lsn
    head,                       \* the end of the log, as far as anything was read
    checkpoint, snapPos,        \* this run's state in the destination (0: none)
    knownComplete,              \* what the run found complete when it began
    durable,                    \* rows in the destination
    up, start,                  \* the stream is up; the LSN replication started from
    sent, part,                 \* the walsender: the last record it is through with; what it
                                \* sent of the next transaction, 0 for its begin
    d,                          \* the decoder
    known,                      \* the tables the stream covers
    processed, boundary,        \* per-table filter; snapshotBoundaries
    touched,                    \* tables of the transaction being drained, not filtered
    accum,                      \* the accumulator: rows per table
    lastIdle,                   \* lastIdleToken
    results,                    \* the channel
    pstep, held, token, snaps,  \* pipeline: step, buffered rows, last token, snapshot tokens
    confirmed,                  \* streamPosition
    crashes

logVars == <<wal, final, streamed>>
serverVars == <<logVars, slot, head>>
storeVars == <<checkpoint, snapPos, knownComplete, durable>>
readerVars == <<up, start, sent, part, d, known, processed, boundary, touched, accum, lastIdle>>
pipeVars == <<pstep, held, token, snaps, confirmed>>
vars == <<serverVars, storeVars, readerVars, results, pipeVars, crashes>>

Max2(a, b) == IF a > b THEN a ELSE b
Lsns == 1..Len(wal)

RowsOf(x) == {i \in Lsns : wal[i].kind = "row" /\ wal[i].tx = x}
TableOf(r) == wal[r].table
FinalOf(r) == final[wal[r].tx]

(* The records for which nothing is sent: all of transactions that were    *)
(* committed before the start, and of one that is sent at its commit       *)
(* everything before that.                                                 *)
Silent(i) ==
    LET x == wal[i].tx
    IN  IF x \in streamed THEN final[x] # 0 /\ final[x] < start
        ELSE wal[i].kind # "commit" \/ i < start
Unsent == {i \in Lsns : i > sent /\ ~Silent(i)}

(* The messages for the record at i, in the order in which they are sent:  *)
(* at is the position (of a commit, its end), lsn the commit LSN.          *)
Message(kind, at, lsn, x) == [kind |-> kind, at |-> at, lsn |-> lsn, tx |-> x]
Sent(i) ==
    LET x == wal[i].tx
        left == RowsOf(x) \ part
    IN  CASE x \in streamed ->
                 Message(wal[i].kind, IF wal[i].kind = "commit" THEN i + 1 ELSE i, i, x)
          [] x \notin streamed /\ part = {} -> Message("begin", Min(RowsOf(x)), i, x)
          [] x \notin streamed /\ part # {} /\ left # {} -> Message("row", Min(left), i, x)
          [] x \notin streamed /\ part # {} /\ left = {} -> Message("commit", i + 1, i, x)
NextOfStream == IF Unsent = {} THEN {} ELSE {Sent(Min(Unsent))}

----------------------------------------------------------------------------
(* Positions. *)
NewDecoder(s) == [pending |-> {}, cur |-> 0, committed |-> {}, committedLSN |-> 0,
                  buf |-> [x \in Txs |-> {}], pos |-> s]

(* PendingLowWater: the lowest LSN of a change the decoder has not handed  *)
(* over: of a transaction in flight or being drained its commit LSN, of a  *)
(* streamed one its first row.                                             *)
PendingLowWater(dd) ==
    (IF dd.pending # {} THEN {dd.cur} ELSE {})
    \cup (IF dd.committed # {} THEN {dd.committedLSN} ELSE {})
    \cup {Min(dd.buf[x]) : x \in {y \in Txs : dd.buf[y] # {}}}

(* The accumulator keeps of a table its rows and the commit LSN of the     *)
(* first of them, until the table is emitted.                              *)
NoRows == [t \in Tables |-> [rows |-> {}, first |-> 0]]
Add(a, rows, lsn) ==
    [rows |-> a.rows \cup rows, first |-> IF a.rows = {} /\ rows # {} THEN lsn ELSE a.first]
Filled(acc) == {t \in Tables : acc[t].rows # {}}
minPendingLSN(acc) == {acc[t].first : t \in Filled(acc)}

(* Mutant of safeCommitLSN: the accumulator is forgotten. *)
safeCommitLSNOfDecoder(dd, acc) ==
    LET low == PendingLowWater(dd)
    IN  IF low = {} THEN dd.pos ELSE Min(low) - 1

(* Mutant of safeCommitLSN: the position after what is pending. *)
safeCommitLSNAfter(dd, acc) ==
    LET low == PendingLowWater(dd) \cup minPendingLSN(acc)
    IN  IF low = {} THEN dd.pos + 1 ELSE Min(low)

safeCommitLSN(dd, acc) ==
    LET low == PendingLowWater(dd) \cup minPendingLSN(acc)
    IN  IF low = {} THEN dd.pos ELSE Min(low) - 1

(* Mutant of ShouldFilterChange: a snapshot is taken to hold the           *)
(* transaction at its own LSN.                                             *)
ShouldFilterChangeAtBoundary(t, lsn) == processed[t] # 0 /\ lsn <= processed[t]

(* A change is dropped if it is older than what was processed of its       *)
(* table; at equality only for a table without a key, and not right after  *)
(* a snapshot.                                                             *)
ShouldFilterChange(t, lsn) ==
    /\ processed[t] # 0
    /\ \/ lsn < processed[t]
       \/ lsn = processed[t] /\ ~boundary[t] /\ t \in Keyless

(* The position a table resumes from, 0 if it has no state. *)
ResumeLSN(t) == IF snapPos[t] = 0 THEN 0 ELSE Max2(checkpoint, snapPos[t])

(* The replicator begins at s with an empty decoder and accumulator. *)
StartReplication(s) ==
    /\ start' = s
    /\ sent' = 0 /\ part' = {}
    /\ d' = NewDecoder(s)
    /\ touched' = {}
    /\ accum' = NoRows
    /\ lastIdle' = 0

(* Nothing has run yet. *)
Init ==
    /\ \E w \in Wals : wal = w.log /\ streamed = w.streamed
    /\ final = [x \in Txs |-> Max({0} \cup {i \in Lsns : wal[i].kind = "commit" /\ wal[i].tx = x})]
    /\ slot = 1 /\ head = 1
    /\ checkpoint = 0 /\ snapPos = [t \in Tables |-> 0] /\ knownComplete = snapPos
    /\ durable = {}
    /\ up = FALSE /\ start = 1 /\ sent = 0 /\ part = {} /\ d = NewDecoder(1)
    /\ known = Tables \ LateTables
    /\ processed = snapPos /\ boundary = [t \in Tables |-> FALSE]
    /\ touched = {} /\ accum = NoRows /\ lastIdle = 0
    /\ results = <<>>
    /\ pstep = "run" /\ held = {} /\ token = 0 /\ snaps = snapPos
    /\ confirmed = 0
    /\ crashes = 0

----------------------------------------------------------------------------
(* Decoding. *)

(* Mutant of DecodeStreamed: an abort is taken for a commit. *)
DecodeStreamedKept(m, dd) ==
    IF m.kind = "row" THEN [dd EXCEPT !.buf[m.tx] = @ \cup {m.at}]
    ELSE [dd EXCEPT !.buf[m.tx] = {}, !.committed = d.buf[m.tx], !.committedLSN = m.lsn]

(* Decode: what a message does to the decoder.  Every change of a          *)
(* transaction is stamped with its commit LSN when it is drained.          *)
DecodeStreamed(m, dd) ==
    CASE m.kind = "row"    -> [dd EXCEPT !.buf[m.tx] = @ \cup {m.at}]
      [] m.kind = "commit" -> [dd EXCEPT !.buf[m.tx] = {},
                                         !.committed = d.buf[m.tx], !.committedLSN = m.lsn]
      [] m.kind = "abort"  -> [dd EXCEPT !.buf[m.tx] = {}]

DecodeWhole(m, dd) ==
    CASE m.kind = "begin"  -> [dd EXCEPT !.pending = {}, !.cur = m.lsn]
      [] m.kind = "row"    -> [dd EXCEPT !.pending = @ \cup {m.at}]
      [] m.kind = "commit" -> [dd EXCEPT !.pending = {},
                                         !.committed = d.pending, !.committedLSN = d.cur]

Decode(m) ==
    LET dd == [d EXCEPT !.pos = Max2(@, m.at)]
    IN  IF m.kind = "row" /\ TableOf(m.at) \notin known THEN dd
        ELSE IF m.tx \in streamed THEN DecodeStreamed(m, dd) ELSE DecodeWhole(m, dd)

(* A result: rows of a table, after truncating it if fresh; a position; or *)
(* the snapshot position at of tables ts.                                  *)
Emptied(acc, ts) == [t \in Tables |-> IF t \in ts THEN NoRows[t] ELSE acc[t]]
Result(t, rows, fresh, tok, ts, at) ==
    [table |-> t, rows |-> rows, fresh |-> fresh, token |-> tok, snaps |-> ts, at |-> at]

(* The channel takes the rows of each table of order, with the position    *)
(* that is safe once they have left the accumulator.                       *)
Emit(acc, dd, order) ==
    [k \in DOMAIN order |->
        Result(order[k], acc[order[k]].rows, FALSE,
               safeCommitLSN(dd, Emptied(acc, {order[j] : j \in 1..k})), {}, 0)]
Room == Len(results) < Capacity

(* One turn of the loop in streamChanges, from the decoder dd: drain a     *)
(* chunk of the committed transaction, filter it, add it to the            *)
(* accumulator, emit the tables that have enough rows.                     *)
Turn(dd) ==
    LET drained == {r \in dd.committed : Cardinality({q \in dd.committed : q <= r}) <= Chunk}
        kept == {r \in drained : ~ShouldFilterChange(TableOf(r), dd.committedLSN)}
        complete == drained = dd.committed
        after == [dd EXCEPT !.committed = @ \ drained]
        seen == touched \cup {TableOf(r) : r \in kept}
        acc == [t \in Tables |-> Add(accum[t], {r \in kept : TableOf(r) = t}, dd.committedLSN)]
        ready == {t \in Tables : Cardinality(acc[t].rows) >= Threshold}
    IN  /\ ready # {} => Room
        /\ d' = after
        /\ touched' = IF complete THEN {} ELSE seen
        /\ processed' = [t \in Tables |-> IF complete /\ t \in seen
                                          THEN Max2(processed[t], dd.committedLSN) ELSE processed[t]]
        /\ boundary' = [t \in Tables |-> boundary[t] /\ ~(complete /\ t \in seen)]
        /\ accum' = Emptied(acc, ready)
        /\ \E order \in SetToSeqs(ready) : results' = results \o Emit(acc, after, order)

(* NextChanges takes the rest of a committed transaction first... *)
DrainCommitted ==
    /\ up /\ d.committed # {}
    /\ Turn(d)
    /\ UNCHANGED <<serverVars, storeVars, up, start, sent, part, known, lastIdle, pipeVars, crashes>>

(* ... and then the next message. *)
NextMessage ==
    /\ up /\ d.committed = {}
    /\ \E m \in NextOfStream :
          LET inside == m.tx \notin streamed /\ m.kind # "commit"
          IN  /\ sent' = IF inside THEN sent ELSE m.lsn
              /\ part' = IF ~inside THEN {} ELSE IF m.kind = "begin" THEN {0} ELSE part \cup {m.at}
              /\ head' = Max2(head, m.lsn + 1)
              /\ Turn(Decode(m))
    /\ UNCHANGED <<logVars, slot, storeVars, up, start, known, lastIdle, pipeVars, crashes>>

(* Mutant of Idle: only what is accumulated is emitted. *)
IdleWithoutToken ==
    /\ up /\ d.committed = {}
    /\ LET full == Filled(accum)
       IN  full # {} /\ Room
           /\ \E order \in SetToSeqs(full) : results' = results \o Emit(accum, d, order)
    /\ accum' = NoRows
    /\ UNCHANGED <<serverVars, storeVars, up, start, sent, part, d, known, processed, boundary,
                   touched, lastIdle, pipeVars, crashes>>

(* Nothing to decode yet: flushAll, then a bare token if the safe position *)
(* moved past the last bare one.                                           *)
Idle ==
    /\ up /\ d.committed = {}
    /\ LET full == Filled(accum)
           safe == safeCommitLSN(d, NoRows)
           bare == IF safe > lastIdle THEN <<Result("none", {}, FALSE, safe, {}, 0)>> ELSE <<>>
       IN  /\ full # {} \/ bare # <<>>
           /\ Room
           /\ \E order \in SetToSeqs(full) : results' = results \o Emit(accum, d, order) \o bare
           /\ lastIdle' = Max2(lastIdle, safe)
    /\ accum' = NoRows
    /\ UNCHANGED <<serverVars, storeVars, up, start, sent, part, d, known, processed, boundary,
                   touched, pipeVars, crashes>>

----------------------------------------------------------------------------
(* Snapshots of late tables, restarts. *)

(* Where a new slot may begin: the end of the log as it is now.  Between   *)
(* two commits one point is as good as another.                            *)
Points == {s \in head..(Len(wal) + 1) : s = head \/ wal[s - 1].kind = "commit"}

(* snapshotTable for each table, with the snapshot of a slot created at s: *)
(* truncate and rows, without a token, then the position of them all.      *)
Snapshots(ts, s, tok) ==
    LET rows(t) == {r \in Lsns : /\ wal[r].kind = "row" /\ TableOf(r) = t
                                 /\ FinalOf(r) # 0 /\ FinalOf(r) < s}
        order == SetToSeq(ts)
    IN  IF ts = {} THEN <<>>
        ELSE [k \in DOMAIN order |-> Result(order[k], rows(order[k]), TRUE, 0, {}, 0)]
             \o <<Result("none", {}, FALSE, tok, ts, s)>>

(* detectTableChanges finds the late tables while nothing is pending, and  *)
(* rebuildStream emits what is accumulated, backfills and starts again     *)
(* from the slot.                                                          *)
Discover ==
    /\ up /\ known # Tables /\ PendingLowWater(d) = {}
    /\ known' = Tables
    /\ \E s \in Points :
          LET full == Filled(accum)
              late == Tables \ known
          IN  /\ Room
              /\ head' = s
              /\ \E order \in SetToSeqs(full) :
                    results' = results \o Emit(accum, d, order) \o Snapshots(late, s, 0)
              /\ processed' = [t \in Tables |-> IF t \in late THEN s ELSE processed[t]]
              /\ boundary' = [t \in Tables |-> boundary[t] \/ t \in late]
    /\ StartReplication(slot)
    /\ UNCHANGED <<logVars, slot, storeVars, up, pipeVars, crashes>>

(* The process dies, or the pipeline gives up: what was not made durable   *)
(* is gone.                                                                *)
Crash ==
    /\ up /\ crashes < MaxCrashes
    /\ crashes' = crashes + 1
    /\ up' = FALSE
    /\ results' = <<>>
    /\ StartReplication(slot)
    /\ pstep' = "run" /\ held' = {} /\ token' = 0 /\ snaps' = [t \in Tables |-> 0]
    /\ confirmed' = 0
    /\ UNCHANGED <<serverVars, storeVars, known, processed, boundary>>

(* A new run begins: a table resumes if the last run left it complete, and *)
(* BeginRun starts with nothing complete.  Read goes on from the smallest  *)
(* resume position, but the server never goes back before the slot; a      *)
(* table without state is backfilled first.                                *)
BeginRun ==
    /\ ~up /\ up' = TRUE
    /\ known' \in {known, Tables}
    /\ knownComplete' = snapPos
    /\ snapPos' = [t \in Tables |-> 0] /\ checkpoint' = 0
    /\ UNCHANGED <<logVars, durable, pipeVars, crashes>>

Resumable == {t \in Tables : snapPos[t] # 0}

Restart ==
    /\ BeginRun
    /\ Resumable # {}
    /\ \E s \in Points :
          LET late == known' \ Resumable
          IN  /\ head' = s
              /\ results' = Snapshots(late, s, 0)
              /\ processed' = [t \in Tables |-> IF t \in late THEN s ELSE ResumeLSN(t)]
              /\ boundary' = [t \in Tables |-> t \in late]
    /\ slot' = slot
    /\ StartReplication(Max2(slot, Min({ResumeLSN(t) : t \in Resumable})))

(* executeSnapshot: with no state at all the slot is made anew. *)
Reinitialize ==
    /\ BeginRun
    /\ Resumable = {}
    /\ \E s \in Points :
          /\ head' = s /\ slot' = s
          /\ results' = Snapshots(known', s, s)
          /\ processed' = [t \in Tables |-> IF t \in known' THEN s ELSE 0]
          /\ boundary' = [t \in Tables |-> t \in known']
          /\ StartReplication(s)

----------------------------------------------------------------------------
(* The pipeline. *)

(* The flush loop buffers a result and keeps the newest token.  It flushes *)
(* before a truncate, and at once after a snapshot token.                  *)
Buffer ==
    /\ up /\ pstep = "run" /\ results # <<>>
    /\ \A t \in Tables : snaps[t] = 0
    /\ LET r == Head(results)
       IN  /\ r.fresh => held = {} /\ token = 0
           /\ durable' = IF r.fresh THEN {x \in durable : TableOf(x) # r.table} ELSE durable
           /\ held' = held \cup r.rows
           /\ token' = IF r.token # 0 THEN r.token ELSE token
           /\ snaps' = [t \in Tables |-> IF t \in r.snaps THEN r.at ELSE snaps[t]]
    /\ results' = Tail(results)
    /\ UNCHANGED <<serverVars, checkpoint, snapPos, knownComplete, readerVars, pstep, confirmed, crashes>>

(* flush: write and merge ... *)
Flush ==
    /\ up /\ pstep = "run"
    /\ held # {} \/ token # 0 \/ \E t \in Tables : snaps[t] # 0
    /\ durable' = durable \cup held
    /\ held' = {}
    /\ pstep' = "persist"
    /\ UNCHANGED <<serverVars, checkpoint, snapPos, knownComplete, readerVars, results, token, snaps, confirmed, crashes>>

(* ... then the destination's state: the position, the tables just         *)
(* snapshotted, and those known complete, which move to the position ...   *)
Persist ==
    /\ up /\ pstep = "persist"
    /\ checkpoint' = Max2(checkpoint, token)
    /\ snapPos' = [t \in Tables |->
           Max2(snapPos[t], CASE snaps[t] # 0 -> snaps[t]
                              [] snaps[t] = 0 /\ knownComplete[t] # 0 ->
                                     IF token # 0 THEN token ELSE knownComplete[t]
                              [] OTHER -> 0)]
    /\ knownComplete' = [t \in Tables |-> 0]
    /\ snaps' = knownComplete'
    /\ pstep' = "commit"
    /\ UNCHANGED <<serverVars, durable, readerVars, results, held, token, confirmed, crashes>>

(* Mutant of CommitStream: the position of the newest batch in the channel *)
(* is confirmed.                                                           *)
CommitStreamReceived ==
    /\ up /\ pstep = "commit"
    /\ confirmed' = Max2(confirmed, d.pos)
    /\ token' = 0
    /\ pstep' = "run"
    /\ UNCHANGED <<serverVars, storeVars, readerVars, results, held, snaps, crashes>>

(* ... then CommitStream, which only ever moves the position forward. *)
CommitStream ==
    /\ up /\ pstep = "commit"
    /\ confirmed' = Max2(confirmed, token)
    /\ token' = 0
    /\ pstep' = "run"
    /\ UNCHANGED <<serverVars, storeVars, readerVars, results, held, snaps, crashes>>

(* The receiver's standby status: the slot moves to the confirmed          *)
(* position, or stays where replication started.                           *)
SendStatus ==
    /\ up
    /\ slot' = Max2(slot, IF confirmed = 0 THEN start ELSE confirmed)
    /\ slot' # slot
    /\ UNCHANGED <<logVars, head, storeVars, readerVars, results, pipeVars, crashes>>

Reader == DrainCommitted \/ NextMessage \/ Idle
Begin == Restart \/ Reinitialize
Pipeline == Buffer \/ Flush \/ Persist \/ CommitStream

Next == Reader \/ Discover \/ Crash \/ Begin \/ Pipeline \/ SendStatus

Spec == Init /\ [][Next]_vars

(* Every goroutine keeps going; the flush timer fires, since the channel   *)
(* runs empty in the end; a supervisor starts the process again.           *)
FairSpec ==
    /\ Spec
    /\ WF_vars(Reader) /\ WF_vars(Discover) /\ WF_vars(Begin)
    /\ WF_vars(Pipeline) /\ WF_vars(SendStatus)

----------------------------------------------------------------------------
(* The shape of the variables. *)
TypeOK ==
    /\ slot \in 1..(Len(wal) + 1) /\ head \in 1..(Len(wal) + 1)
    /\ checkpoint \in Nat /\ {snapPos, knownComplete} \subseteq [Tables -> Nat]
    /\ durable \subseteq Lsns /\ held \subseteq Lsns
    /\ sent \in 0..Len(wal)
    /\ processed \in [Tables -> Nat] /\ boundary \in [Tables -> BOOLEAN]
    /\ Len(results) <= Capacity + Cardinality(Tables) + 1

Committed(t) == {r \in Lsns : wal[r].kind = "row" /\ TableOf(r) = t /\ FinalOf(r) # 0}

(* Wherever the stream dies, with transactions interleaved, streamed in    *)
(* progress, half drained or half emitted, and a second time before the    *)
(* new run has persisted anything: of a table that would resume, what the  *)
(* slot has released or the resume would skip is in the destination.  At   *)
(* the resume position itself a table is read again (ingest.md: "This      *)
(* gives at-least-once delivery").                                         *)
SkipsNothing(t) ==
    \A r \in Committed(t) : FinalOf(r) < Max2(slot, ResumeLSN(t)) => r \in durable
NothingSkipped == \A t \in Resumable : SkipsNothing(t)

(* source.go: a CommitToken "acknowledges everything emitted up to and     *)
(* including the batch that carried it".  Whatever is committed before a   *)
(* token in the channel is durable, buffered, or in the channel up to      *)
(* there, for every table that has its snapshot.                           *)
EmittedUpTo(k) == durable \cup held \cup UNION {results[j].rows : j \in 1..k}
Based(t) == snapPos[t] # 0 \/ knownComplete[t] # 0 \/ snaps[t] # 0
TokensCover(t) ==
    \A k \in DOMAIN results :
        Based(t) \/ (\E j \in 1..k : t \in results[j].snaps) =>
            \A r \in Committed(t) : FinalOf(r) < results[k].token => r \in EmittedUpTo(k)
TokenCoversEmitted == \A t \in Tables : TokensCover(t)

(* A change of an aborted transaction, streamed before its end was known,  *)
(* never leaves the decoder.                                               *)
AbortedNeverEmitted == \A r \in EmittedUpTo(Len(results)) : FinalOf(r) # 0

(* Every committed row arrives, also those of tables that appear late. *)
RowsArrive == <>[](\A t \in Tables : Committed(t) \subseteq durable)

(* The slot follows the stream: in the end it retains nothing that is      *)
(* committed (emitIdleCommitToken: "Without it, ... retained WAL and       *)
(* replica lag grow without bound").                                       *)
SlotCatchesUp == <>[](\A i \in Lsns : wal[i].kind = "commit" => slot > i)
=============================================================================
