----------------------------- MODULE Streaming ------------------------------
(***************************************************************************)
(* The flush loop of a streaming run with destination-managed state: what  *)
(* it buffers, when it flushes, how a flush writes, merges, persists and   *)
(* commits, truncates, and how it ends: by error, crash or shutdown.       *)
(*                                                                         *)
(* The source is any change-data-capture source: it reads a log in order   *)
(* and says with a token that everything up to a position was sent.  A row *)
(* is named by its position in the log.  A table holds the rows that are   *)
(* visible in it; a merge keeps the newer of two rows of one key (the      *)
(* merge is guarded by _cdc_lsn), a keyless table keeps every row.  The    *)
(* lease checks between the steps are in module CDCState.                  *)
(***************************************************************************)
EXTENDS Integers, FiniteSets, SequencesExt

CONSTANTS
    Tables,
    Keyless,      \* tables without a primary key: appended to, no staging table
    Logs,         \* the logs to consider
    FlushRecords, \* buffered rows that make the loop flush
    ChanSize,     \* bound on the records channel
    MaxFaults     \* bound on errors, crashes and cancellations

ASSUME StreamingAssumption ==
    /\ IsFiniteSet(Tables) /\ Keyless \subseteq Tables
    /\ Logs \subseteq Seq([table : Tables, key : Nat, op : {"put", "truncate"}])
    /\ {FlushRecords, ChanSize} \subseteq Nat \ {0} /\ MaxFaults \in Nat

VARIABLES
    log, head,                  \* records [table, key, op]; how many are seen to exist
    next, processed, acked,     \* source: last record sent, filter, committed position
    channel, closed,            \* the records channel
    dest, staging,              \* rows of a table, of its staging table
    complete, checkpoint,       \* this run's state in the destination (0: none)
    knownComplete,              \* what this run found complete
    pc, cont,                   \* the loop's step, and what follows a flush
    step, rows,                 \* of a flush: per table its step and its rows
    pending, due,               \* buffered rows; the loop must flush next
    lastToken, tokenDirty,      \* newest position, and whether it is uncommitted
    pendingState,               \* position and snapshot positions to persist
    pendingTruncates,           \* tables truncated by the log
    cancelled, faults,
    twice, loose                \* history: rows appended twice; a position behind its rows

sourceVars == <<log, head, next, processed, acked, channel, closed>>
stateVars == <<complete, checkpoint, knownComplete>>
destVars == <<dest, staging, twice, loose>>
flushVars == <<step, rows>>
bufferVars == <<pending, due, lastToken, tokenDirty, pendingState, pendingTruncates>>
envVars == <<cancelled, faults>>
vars == <<sourceVars, stateVars, destVars, pc, cont, flushVars, bufferVars, envVars>>

Max2(a, b) == IF a > b THEN a ELSE b
Lsns == 1..Len(log)
None == [t \in Tables |-> {}]
Zero == [t \in Tables |-> 0]
NoState == [pos |-> 0, snaps |-> Zero]

Puts(t) == {i \in Lsns : log[i].table = t /\ log[i].op = "put"}
Truncates(t) == {i \in Lsns : log[i].table = t /\ log[i].op = "truncate"}

(* The newest row of each key. *)
Upsert(t, old, new) ==
    LET all == old \cup new
    IN  IF t \in Keyless THEN all
        ELSE {i \in all : ~\E j \in all : log[j].key = log[i].key /\ j > i}

(* The content of t after the first n records. *)
Replay(t, n) ==
    LET cut == Max({0} \cup {i \in Truncates(t) : i <= n})
    IN  Upsert(t, {}, {i \in Puts(t) : cut < i /\ i <= n})

(* The position a table resumes from. *)
ResumePosition(t) == IF complete[t] = 0 THEN 0 ELSE Max2(checkpoint, complete[t])
Resumable == {t \in Tables : complete[t] # 0}

(* A result: rows of table, after truncating it for a snapshot or by the   *)
(* log; a position; or the snapshot position at of the tables snaps.  Of a *)
(* record of the log at is its position, which the loop does not look at.  *)
Result(t, rs, trunc, tok, ts, at) ==
    [table |-> t, rows |-> rs, trunc |-> trunc, token |-> tok, snaps |-> ts, at |-> at]

(* snapshotTable for each table of ts, then the position of them all. *)
Snapshots(ts, s, tok) ==
    LET order == SetToSeq(ts)
    IN  IF ts = {} THEN <<>>
        ELSE [k \in DOMAIN order |-> Result(order[k], Replay(order[k], s), "snapshot", 0, {}, 0)]
             \o <<Result("none", {}, "no", tok, ts, s)>>

Buffered == \E t \in Tables : pending[t] # {}
Count(p) == Cardinality(UNION {p[t] : t \in Tables})

NoSteps == [t \in Tables |-> "none"]

Init ==
    /\ log \in Logs
    /\ head = 0 /\ next = 0 /\ processed = Zero /\ acked = 0 /\ channel = <<>> /\ closed = TRUE
    /\ dest = None /\ staging = None
    /\ complete = Zero /\ checkpoint = 0 /\ knownComplete = Zero
    /\ pc = "down" /\ cont = "run"
    /\ step = NoSteps /\ rows = None
    /\ pending = None /\ due = FALSE /\ lastToken = 0 /\ tokenDirty = FALSE
    /\ pendingState = NoState /\ pendingTruncates = {}
    /\ cancelled = FALSE /\ faults = 0
    /\ twice = {} /\ loose = {}

(* releasePending, newFlushLoop: nothing buffered, no flush. *)
Discard ==
    /\ step' = NoSteps /\ rows' = None
    /\ pending' = None /\ due' = FALSE /\ lastToken' = 0 /\ tokenDirty' = FALSE
    /\ pendingState' = NoState /\ pendingTruncates' = {}

----------------------------------------------------------------------------
(* The source. *)

(* A run begins: tables that the last run left complete resume, BeginRun   *)
(* starts with none complete, staging tables are made anew.  With nothing  *)
(* to resume the source takes a snapshot of all tables, at a position of   *)
(* its choice; else of those that cannot resume, and it goes on from the   *)
(* smallest resume position.                                               *)
StartRun ==
    /\ pc \in {"down", "done"}
    /\ pc' = "run" /\ closed' = FALSE /\ cancelled' = FALSE
    /\ knownComplete' = complete /\ complete' = Zero /\ checkpoint' = 0
    /\ staging' = None
    /\ \E s \in head..Len(log) :
          /\ head' = s
          /\ processed' = [t \in Tables |-> IF t \in Resumable THEN ResumePosition(t) ELSE s]
          /\ channel' = Snapshots(Tables \ Resumable, s, IF Resumable = {} THEN s ELSE 0)
          /\ next' = IF Resumable = {} THEN s
                     ELSE Max2(acked, Min({ResumePosition(t) : t \in Resumable}))
          /\ acked' = IF Resumable = {} THEN s ELSE acked
    /\ Discard
    /\ UNCHANGED <<log, dest, cont, faults, twice, loose>>

(* The next record, unless its table is past it already, with or without a *)
(* token; the token may lag behind.                                        *)
Send ==
    /\ ~closed /\ Len(channel) < ChanSize /\ next < Len(log)
    /\ next' = next + 1 /\ head' = Max2(head, next')
    /\ \E tok \in {0, next, next'} :
          LET r == log[next']
              skip == next' <= processed[r.table]
              res == Result(r.table, IF r.op = "put" THEN {next'} ELSE {},
                            IF r.op = "put" THEN "no" ELSE "log", tok, {}, next')
          IN  channel' = IF skip THEN channel ELSE Append(channel, res)
    /\ UNCHANGED <<log, processed, acked, closed, destVars, stateVars, pc, cont, flushVars,
                   bufferVars, envVars>>

(* All is sent and taken, and the position is not committed yet: a bare    *)
(* token.                                                                  *)
SendToken ==
    /\ ~closed /\ channel = <<>> /\ next = Len(log) /\ lastToken < next /\ acked < next
    /\ channel' = <<Result("none", {}, "no", next, {}, 0)>>
    /\ UNCHANGED <<log, head, next, processed, acked, closed, destVars, stateVars, pc, cont, flushVars,
                   bufferVars, envVars>>

(* After a cancellation the source closes the channel. *)
SourceEnds ==
    /\ cancelled /\ ~closed
    /\ closed' = TRUE
    /\ UNCHANGED <<log, head, next, processed, acked, channel, destVars, stateVars, pc, cont, flushVars,
                   bufferVars, envVars>>

----------------------------------------------------------------------------
(* The loop. *)

(* buffer: keep the newest token, note snapshots, complete the tables      *)
(* truncated by the log at the next position.  A full buffer or a snapshot *)
(* is flushed at once.                                                     *)
BufferResult(r) ==
    LET p == IF r.rows = {} THEN pending ELSE [pending EXCEPT ![r.table] = @ \cup r.rows]
        cut == pendingTruncates \cup (IF r.trunc = "log" THEN {r.table} ELSE {})
    IN  /\ pending' = p
        /\ due' = (r.snaps # {} \/ (pc # "drain" /\ Count(p) >= FlushRecords))
        /\ tokenDirty' = (tokenDirty \/ r.token # 0 \/ r.snaps # {})
        /\ lastToken' = IF r.token # 0 THEN r.token ELSE lastToken
        /\ pendingTruncates' = IF r.token # 0 THEN {} ELSE cut
        /\ pendingState' =
              [pos   |-> IF r.token # 0 THEN r.token ELSE pendingState.pos,
               snaps |-> [t \in Tables |-> CASE t \in cut /\ r.token # 0 -> r.token
                                             [] t \in r.snaps -> r.at
                                             [] OTHER -> pendingState.snaps[t]]]

Taking == pc \in {"run", "drain"} /\ ~due /\ channel # <<>>

Receive ==
    /\ Taking /\ Head(channel).trunc = "no"
    /\ channel' = Tail(channel)
    /\ BufferResult(Head(channel))
    /\ UNCHANGED <<log, head, next, processed, acked, closed, destVars, stateVars, pc, cont, flushVars, envVars>>

(* A truncate, when all before it is flushed.  Of a record of the log: the *)
(* table's snapshot is invalidated first ...                               *)
InvalidateTruncated ==
    /\ Taking /\ Head(channel).trunc = "log" /\ ~Buffered /\ ~tokenDirty
    /\ LET t == Head(channel).table
       IN  /\ complete' = [complete EXCEPT ![t] = 0]
           /\ knownComplete' = [knownComplete EXCEPT ![t] = 0]
    /\ pc' = "truncate" /\ cont' = pc
    /\ UNCHANGED <<sourceVars, checkpoint, destVars, flushVars, bufferVars, envVars>>

(* ... then the table is truncated. *)
ApplyTruncate ==
    /\ \/ pc = "truncate" /\ pc' = cont
       \/ /\ Taking /\ Head(channel).trunc = "snapshot" /\ ~Buffered /\ ~tokenDirty
          /\ pc' = pc
    /\ channel' = Tail(channel)
    /\ LET r == Head(channel)
       IN  /\ dest' = [dest EXCEPT ![r.table] = {}]
           /\ twice' = twice \ {r.table} /\ loose' = loose \ {r.table}
           /\ BufferResult(r)
    /\ UNCHANGED <<log, head, next, processed, acked, closed, staging, stateVars, cont, flushVars, envVars>>

(* flush begins: by the ticker or a full buffer, before a truncate, after  *)
(* a snapshot, at the end.  A keyless table without a fresh snapshot is to *)
(* be invalidated, if there is a position to complete it with again.       *)
BeginFlush ==
    /\ Buffered \/ tokenDirty
    /\ \/ pc = "run" /\ cont' = "run"
       \/ /\ pc = "drain" /\ cont' = "drain"
          /\ due \/ (Taking /\ Head(channel).trunc # "no")
       \/ pc = "final" /\ cont' = "done"
    /\ pc' = "flush"
    /\ rows' = pending /\ pending' = None /\ due' = FALSE
    /\ step' = [t \in Tables |->
           CASE pending[t] = {} -> "none"
             [] pending[t] # {} /\ t \notin Keyless -> "write"
             [] pending[t] # {} /\ t \in Keyless ->
                    IF pendingState.pos # 0 /\ pendingState.snaps[t] = 0
                    THEN "invalidate" ELSE "append"]
    /\ UNCHANGED <<sourceVars, stateVars, destVars, lastToken, tokenDirty, pendingState,
                   pendingTruncates, envVars>>

(* Mutant of InvalidateKeyless: the marker is left as it was. *)
InvalidateKeylessLater(t) ==
    /\ pc = "flush" /\ step[t] = "invalidate"
    /\ pendingState' = [pendingState EXCEPT !.snaps[t] = pendingState.pos]
    /\ step' = [step EXCEPT ![t] = "append"]
    /\ UNCHANGED <<sourceVars, stateVars, destVars, pc, cont, rows, pending, due, lastToken,
                   tokenDirty, pendingTruncates, envVars>>

(* All keyless tables are invalidated before any table is written; they    *)
(* are complete again at the position of this flush.                       *)
InvalidateKeyless(t) ==
    /\ pc = "flush" /\ step[t] = "invalidate"
    /\ complete' = [complete EXCEPT ![t] = 0]
    /\ knownComplete' = [knownComplete EXCEPT ![t] = 0]
    /\ pendingState' = [pendingState EXCEPT !.snaps[t] = pendingState.pos]
    /\ step' = [step EXCEPT ![t] = "append"]
    /\ UNCHANGED <<sourceVars, checkpoint, destVars, pc, cont, rows, pending, due, lastToken,
                   tokenDirty, pendingTruncates, envVars>>

(* flushOne: without a staging table the rows are written to the table ... *)
Writing(t, s) == pc = "flush" /\ step[t] = s /\ \A u \in Tables : step[u] # "invalidate"

AppendRows(t) ==
    /\ Writing(t, "append")
    /\ dest' = [dest EXCEPT ![t] = Upsert(t, @, rows[t])]
    /\ twice' = IF dest[t] \cap rows[t] = {} THEN twice ELSE twice \cup {t}
    /\ loose' = IF Max(rows[t]) <= pendingState.snaps[t] THEN loose ELSE loose \cup {t}
    /\ step' = [step EXCEPT ![t] = "none"]
    /\ UNCHANGED <<sourceVars, stateVars, staging, pc, cont, rows, bufferVars, envVars>>

(* ... else to the staging table, ... *)
WriteStaging(t) ==
    /\ Writing(t, "write")
    /\ staging' = [staging EXCEPT ![t] = @ \cup rows[t]]
    /\ step' = [step EXCEPT ![t] = "merge"]
    /\ UNCHANGED <<sourceVars, stateVars, dest, twice, loose, pc, cont, rows, bufferVars, envVars>>

(* ... which is merged ... *)
MergeStaging(t) ==
    /\ Writing(t, "merge")
    /\ dest' = [dest EXCEPT ![t] = Upsert(t, @, staging[t])]
    /\ step' = [step EXCEPT ![t] = "reset"]
    /\ UNCHANGED <<sourceVars, stateVars, staging, twice, loose, pc, cont, rows, bufferVars, envVars>>

(* Mutant of ResetStaging: the rows stay in the staging table. *)
ResetStagingNot(t) ==
    /\ Writing(t, "reset")
    /\ step' = [step EXCEPT ![t] = "none"]
    /\ UNCHANGED <<sourceVars, stateVars, destVars, pc, cont, rows, bufferVars, envVars>>

(* ... and emptied. *)
ResetStaging(t) ==
    /\ Writing(t, "reset")
    /\ staging' = [staging EXCEPT ![t] = {}]
    /\ step' = [step EXCEPT ![t] = "none"]
    /\ UNCHANGED <<sourceVars, stateVars, dest, twice, loose, pc, cont, rows, bufferVars, envVars>>

(* Mutant of Written: the first table that is done stands for all. *)
WrittenOne == pc = "flush" /\ \E t \in Tables : step[t] = "none"

Written == pc = "flush" /\ \A t \in Tables : step[t] = "none"

(* Every table is flushed, and no position has come: the cycle ends. *)
EndCycle ==
    /\ Written /\ ~tokenDirty
    /\ pc' = cont
    /\ UNCHANGED <<sourceVars, stateVars, destVars, cont, flushVars, bufferVars, envVars>>

(* StateManager.Persist: fresh snapshots, and the tables known complete,   *)
(* which move to the position.  Within a run the larger position counts.   *)
Persist ==
    /\ Written /\ tokenDirty
    /\ LET at(t) == CASE pendingState.snaps[t] # 0 -> pendingState.snaps[t]
                      [] pendingState.snaps[t] = 0 /\ knownComplete[t] # 0 ->
                             IF pendingState.pos # 0 THEN pendingState.pos ELSE knownComplete[t]
                      [] OTHER -> 0
       IN  /\ complete' = [t \in Tables |-> Max2(complete[t], at(t))]
           /\ loose' = loose \cup {t \in Tables : complete'[t] < knownComplete[t]}
    /\ checkpoint' = Max2(checkpoint, pendingState.pos)
    /\ pc' = "commit"
    /\ knownComplete' = Zero
    /\ UNCHANGED <<sourceVars, dest, staging, twice, cont, flushVars, bufferVars, envVars>>

(* Mutant of CommitStream: the position after the token is committed. *)
CommitStreamNext ==
    /\ pc = "commit"
    /\ acked' = Max2(acked, lastToken + 1)
    /\ tokenDirty' = FALSE /\ pendingState' = NoState
    /\ pc' = cont
    /\ UNCHANGED <<log, head, next, processed, channel, closed, stateVars, destVars, cont, flushVars,
                   pending, due, lastToken, pendingTruncates, envVars>>

(* Committer.CommitStream with the newest token. *)
CommitStream ==
    /\ pc = "commit"
    /\ acked' = Max2(acked, lastToken)
    /\ tokenDirty' = FALSE /\ pendingState' = NoState
    /\ pc' = cont
    /\ UNCHANGED <<log, head, next, processed, channel, closed, stateVars, destVars, cont, flushVars,
                   pending, due, lastToken, pendingTruncates, envVars>>

----------------------------------------------------------------------------
(* How it ends. *)
Cancel ==
    /\ pc \notin {"down", "done"} /\ ~cancelled /\ faults < MaxFaults
    /\ cancelled' = TRUE /\ faults' = faults + 1
    /\ UNCHANGED <<sourceVars, stateVars, destVars, pc, cont, flushVars, bufferVars>>

(* Mutant of Shutdown: a drain ends without a final flush. *)
ShutdownAtOnce ==
    /\ ~due
    /\ \/ pc = "run" /\ cancelled /\ pc' = "drain"
       \/ pc = "drain" /\ pc' = "done"
    /\ UNCHANGED <<sourceVars, stateVars, destVars, cont, flushVars, bufferVars, envVars>>

(* shutdown: drain until the source closes the channel or the deadline. *)
Shutdown ==
    /\ ~due
    /\ \/ pc = "run" /\ cancelled /\ pc' = "drain"
       \/ pc = "drain" /\ pc' = "final"
       \/ pc = "run" /\ closed /\ channel = <<>> /\ pc' = "final"
       \/ pc = "final" /\ ~Buffered /\ ~tokenDirty /\ pc' = "done"
    /\ UNCHANGED <<sourceVars, stateVars, destVars, cont, flushVars, bufferVars, envVars>>

(* A step fails, the source reports an error, or the process dies: nothing *)
(* more is flushed.  A cancellation fails a flush that is under way.       *)
Fail ==
    /\ pc \notin {"down", "done"}
    /\ \/ faults < MaxFaults /\ faults' = faults + 1
       \/ /\ cancelled /\ pc \in {"flush", "commit", "truncate"} /\ cont = "run"
          /\ faults' = faults
    /\ pc' = "down" /\ channel' = <<>> /\ closed' = TRUE
    /\ Discard
    /\ UNCHANGED <<log, head, next, processed, acked, stateVars, destVars, cont, cancelled>>

FlushTable(t) ==
    InvalidateKeyless(t) \/ AppendRows(t) \/ WriteStaging(t) \/ MergeStaging(t) \/ ResetStaging(t)
Source == StartRun \/ Send \/ SendToken \/ SourceEnds
Loop ==
    \/ Receive \/ InvalidateTruncated \/ ApplyTruncate \/ BeginFlush
    \/ \E t \in Tables : FlushTable(t)
    \/ EndCycle \/ Persist \/ CommitStream \/ Shutdown

Next == Source \/ Loop \/ Cancel \/ Fail
Spec == Init /\ [][Next]_vars

(* The source keeps sending, the loop keeps going, and a supervisor starts *)
(* a run that ended again.                                                 *)
FairSpec == Spec /\ WF_vars(Source) /\ WF_vars(Loop)

----------------------------------------------------------------------------
(* The shape of the variables. *)
TypeOK ==
    /\ next \in 0..Len(log) /\ acked \in 0..Len(log) /\ lastToken \in 0..Len(log)
    /\ {dest, staging, pending, rows} \subseteq [Tables -> SUBSET Lsns]
    /\ {complete, knownComplete, processed} \subseteq [Tables -> 0..Len(log)]
    /\ checkpoint \in 0..Len(log) /\ pendingState.pos \in 0..Len(log)
    /\ pc \in {"down", "run", "truncate", "flush", "commit", "drain", "final", "done"}
    /\ \A t \in Tables : step[t] # "none" => pc = "flush"

(* What a table becomes when the log is sent again from p. *)
Redelivered(t, p) ==
    IF \E i \in Truncates(t) : i > p THEN Replay(t, Len(log))
    ELSE Upsert(t, dest[t], {i \in Puts(t) : i > p})

(* flush: "a crash before commit re-delivers from the last committed       *)
(* position and the merge is idempotent".  Whenever the run dies, within a *)
(* flush of several tables, between a truncate and its completion, or with *)
(* a token that lags behind the rows: of every table that would resume, to *)
(* send the log again from where the source and the state are restores it  *)
(* exactly.                                                                *)
ResumeRestores ==
    \A t \in Resumable :
        Redelivered(t, Max2(acked, ResumePosition(t))) = Replay(t, Len(log))

(* A row of a keyless table is there twice only if a flush had no position *)
(* up to the rows it appended, or a position went back: a crash alone,     *)
(* between the append and the new snapshot marker, never doubles it.       *)
DoubledOnlyIfLoose == twice \subseteq loose

(* A run that ends well has flushed what it buffered and committed the     *)
(* newest token, however the drain ended.                                  *)
StopLeavesNothing == pc = "done" => ~Buffered /\ acked >= lastToken /\ ~tokenDirty

(* Whatever fails, in the end every table is the log's. *)
TablesFollowLog == <>[](\A t \in Tables : dest[t] = Replay(t, Len(log)))
=============================================================================
