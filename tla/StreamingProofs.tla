-------------------------- MODULE StreamingProofs ---------------------------
(***************************************************************************)
(* Theorems about Streaming, for every log, set of tables, buffer size and *)
(* number of faults.                                                       *)
(***************************************************************************)
EXTENDS Streaming, FiniteSetTheorems, FunctionTheorems, SequenceTheorems,
        WellFoundedInduction, TLAPS

Positions == 0..Len(log)
LoopSteps == {"down", "run", "truncate", "flush", "commit", "drain", "final", "done"}
FlushSteps == {"none", "invalidate", "append", "write", "merge", "reset"}
Results == [table : Tables \cup {"none"}, rows : SUBSET Lsns, trunc : {"no", "log", "snapshot"},
            token : Positions, snaps : SUBSET Tables, at : Positions]

(* What the steps keep, beside the types: a position that is not committed *)
(* is marked as such, nothing is buffered behind the last flush, and a     *)
(* truncate that began still has its result at hand.                       *)
Shape ==
    /\ log \in Logs
    /\ head \in Positions /\ next \in Positions /\ acked \in Positions
    /\ lastToken \in Positions /\ checkpoint \in Positions
    /\ channel \in Seq(Results)
    /\ dest \in [Tables -> SUBSET Lsns] /\ staging \in [Tables -> SUBSET Lsns]
    /\ pending \in [Tables -> SUBSET Lsns] /\ rows \in [Tables -> SUBSET Lsns]
    /\ complete \in [Tables -> Positions] /\ knownComplete \in [Tables -> Positions]
    /\ processed \in [Tables -> Positions]
    /\ pendingState \in [pos : Positions, snaps : [Tables -> Positions]]
    /\ step \in [Tables -> FlushSteps]
Steps ==
    /\ pc \in LoopSteps /\ cont \in {"run", "drain", "done"}
    /\ \A t \in Tables : step[t] # "none" => pc = "flush"
    /\ pc = "truncate" => cont # "done" /\ channel # <<>>
Tokens ==
    /\ ~tokenDirty => acked >= lastToken
    /\ pc \in {"flush", "commit"} /\ cont = "done" => ~Buffered
    /\ pc = "done" => ~Buffered /\ ~tokenDirty
StreamInv == Shape /\ Steps /\ Tokens

----------------------------------------------------------------------------
(* A log is a sequence, and its positions are numbers. *)
LEMMA LogShape ==
    ASSUME log \in Logs
    PROVE  /\ Len(log) \in Nat
           /\ \A i \in Lsns : log[i] \in [table : Tables, key : Nat, op : {"put", "truncate"}]
           /\ Positions \subseteq Nat /\ Lsns \subseteq Positions /\ 0 \in Positions
<1> DEFINE Row == [table : Tables, key : Nat, op : {"put", "truncate"}]
<1>1. log \in Seq(Row)
  BY StreamingAssumption
<1> HIDE DEF Row
<1>2. Len(log) \in Nat /\ \A i \in 1..Len(log) : log[i] \in Row
  BY <1>1, LenProperties, ElementOfSeq
<1> QED
  BY <1>2 DEF Lsns, Positions, Row

(* The least of a set of numbers is in it, and below the others. *)
LEMMA MinInSet ==
    ASSUME NEW S \in SUBSET Nat, S # {}
    PROVE  Min(S) \in S /\ \A y \in S : Min(S) <= y
<1> DEFINE Less == OpToRel(<, Nat)
<1>0. IsWellFoundedOn(Less, Nat)
  BY NatLessThanWellFounded
<1> HIDE DEF Less
<1>1. \E x \in S : \A y \in S : ~(<<y, x>> \in Less)
  BY <1>0, WFMin
<1>2. \E x \in S : \A y \in S : x <= y
  <2>1. PICK x \in S : \A y \in S : ~(<<y, x>> \in Less)
    BY <1>1
  <2>2. \A y \in S : <<y, x>> \in Nat \X Nat
    OBVIOUS
  <2>3. \A y \in S : ~(y < x)
    BY <2>1, <2>2 DEF Less, OpToRel
  <2>4. \A y \in S : x <= y
    BY <2>3
  <2> QED
    BY <2>4
<1> QED
  BY <1>2 DEF Min

(* A finite set can be listed. *)
LEMMA ListOfSet ==
    ASSUME NEW S, IsFiniteSet(S)
    PROVE  SetToSeq(S) \in Seq(S)
<1>1. /\ Cardinality(S) \in Nat
      /\ ExistsBijection(1..Cardinality(S), S)
  BY FS_CardinalityType
<1>2. \E f \in [1..Cardinality(S) -> S] : IsInjective(f)
  BY <1>1 DEF ExistsBijection, Bijection, Injection
<1>3. SetToSeq(S) \in [1..Cardinality(S) -> S]
  BY <1>2 DEF SetToSeq
<1> QED
  BY <1>1, <1>3

(* The larger of two positions. *)
LEMMA Larger ==
    ASSUME log \in Logs, NEW a \in Positions, NEW b \in Positions
    PROVE  Max2(a, b) \in Positions /\ Max2(a, b) >= a /\ Max2(a, b) >= b
BY LogShape DEF Max2

(* What a merge leaves and what a replay gives are rows of the log. *)
LEMMA RowsOfLog ==
    ASSUME NEW t \in Tables, NEW old \in SUBSET Lsns, NEW new \in SUBSET Lsns, NEW n
    PROVE  /\ Upsert(t, old, new) \in SUBSET Lsns
           /\ Replay(t, n) \in SUBSET Lsns
<1>1. ASSUME NEW a \in SUBSET Lsns, NEW b \in SUBSET Lsns PROVE Upsert(t, a, b) \in SUBSET Lsns
  BY <1>1 DEF Upsert
<1>2. \A c : {i \in Puts(t) : c < i /\ i <= n} \in SUBSET Lsns
  BY DEF Puts
<1> QED
  BY <1>1, <1>2 DEF Replay

(* A table resumes from a position. *)
LEMMA Resumes ==
    ASSUME Shape, NEW t \in Tables
    PROVE  ResumePosition(t) \in Positions
BY Larger, LogShape DEF Shape, ResumePosition

(* What a source sends for its snapshots. *)
LEMMA SnapshotResults ==
    ASSUME log \in Logs, NEW ts \in SUBSET Tables, NEW s \in Positions, NEW tok \in Positions
    PROVE  Snapshots(ts, s, tok) \in Seq(Results)
<1> DEFINE order == SetToSeq(ts)
           first == [k \in DOMAIN order |-> Result(order[k], Replay(order[k], s), "snapshot", 0, {}, 0)]
           mark == Result("none", {}, "no", tok, ts, s)
<1>1. order \in Seq(ts)
  BY ListOfSet, FS_Subset, StreamingAssumption
<1>2. \A k \in DOMAIN order : order[k] \in Tables
  BY <1>1
<1>3. \A k \in DOMAIN order :
          Result(order[k], Replay(order[k], s), "snapshot", 0, {}, 0) \in Results
  <2>1. \A k \in DOMAIN order : Replay(order[k], s) \in SUBSET Lsns
    BY <1>2, RowsOfLog
  <2> QED
    BY <1>2, <2>1, LogShape DEF Result, Results
<1>4. first \in Seq(Results)
  <2>1. DOMAIN order = 1..Len(order) /\ Len(order) \in Nat
    BY <1>1
  <2> QED
    BY <1>3, <2>1
<1>5. <<mark>> \in Seq(Results)
  BY LogShape DEF Result, Results
<1>6. first \o <<mark>> \in Seq(Results)
  BY <1>4, <1>5
<1> QED
  BY <1>6, EmptySeq DEF Snapshots

----------------------------------------------------------------------------
(* The initial state satisfies the invariant. *)
LEMMA StreamInit == ASSUME Init PROVE StreamInv
<1> USE LogShape DEF Init
<1>1. Shape
  BY EmptySeq DEF Shape, None, Zero, NoState, NoSteps, FlushSteps
<1>2. Steps
  BY DEF Steps, LoopSteps, NoSteps
<1>3. Tokens
  BY DEF Tokens
<1> QED
  BY <1>1, <1>2, <1>3 DEF StreamInv

(* A log that stays makes the positions and the results stay. *)
LEMMA SameLog ==
    ASSUME UNCHANGED log
    PROVE  Positions' = Positions /\ Lsns' = Lsns /\ Results' = Results
BY DEF Positions, Lsns, Results

(* Discard leaves nothing buffered and no token.                           *)
LEMMA NothingBuffered ==
    ASSUME log \in Logs, Discard
    PROVE  /\ step' = [t \in Tables |-> "none"] /\ step' \in [Tables -> FlushSteps]
           /\ rows' \in [Tables -> SUBSET Lsns] /\ pending' \in [Tables -> SUBSET Lsns]
           /\ pendingState' \in [pos : Positions, snaps : [Tables -> Positions]]
           /\ lastToken' = 0 /\ lastToken' \in Positions
BY LogShape DEF Discard, None, Zero, NoState, NoSteps, FlushSteps

(* A run begins with positions, from a snapshot or from where tables       *)
(* resume.                                                                 *)
LEMMA StartRunStep == ASSUME StreamInv, StartRun PROVE StreamInv'
<1>0. UNCHANGED <<log, dest, cont>> /\ pc' = "run" /\ staging' = None
      /\ knownComplete' = complete /\ complete' = Zero /\ checkpoint' = 0 /\ Discard
  BY DEF StartRun
<1>s. Shape /\ log \in Logs
  BY DEF StreamInv, Shape
<1>l. Positions' = Positions /\ Lsns' = Lsns /\ Results' = Results
  BY <1>0, SameLog
<1>1. PICK s \in head..Len(log) :
          /\ head' = s
          /\ processed' = [t \in Tables |-> IF t \in Resumable THEN ResumePosition(t) ELSE s]
          /\ channel' = Snapshots(Tables \ Resumable, s, IF Resumable = {} THEN s ELSE 0)
          /\ next' = IF Resumable = {} THEN s
                     ELSE Max2(acked, Min({ResumePosition(t) : t \in Resumable}))
          /\ acked' = IF Resumable = {} THEN s ELSE acked
  BY DEF StartRun
<1>2. s \in Positions
  BY <1>s, LogShape DEF Shape, Positions
<1>3. processed' \in [Tables -> Positions]
  BY <1>1, <1>2, <1>s, Resumes
<1>4. channel' \in Seq(Results)
  BY <1>1, <1>2, <1>s, LogShape, SnapshotResults
<1>5. next' \in Positions
  <2> DEFINE S == {ResumePosition(t) : t \in Resumable}
  <2>1. CASE Resumable = {}
    BY <2>1, <1>1, <1>2
  <2>2. CASE Resumable # {}
    <3>1. S \in SUBSET Positions /\ S # {}
      BY <2>2, <1>s, Resumes DEF Resumable
    <3> HIDE DEF S
    <3>2. Min(S) \in Positions
      BY <3>1, <1>s, LogShape, MinInSet
    <3>3. next' = Max2(acked, Min(S))
      BY <2>2, <1>1 DEF S
    <3> QED
      BY <3>2, <3>3, <1>s, Larger DEF Shape
  <2> QED
    BY <2>1, <2>2
<1>6. acked' \in Positions
  BY <1>1, <1>2, <1>s DEF Shape
<1>7. Shape'
  BY <1>0, <1>s, <1>l, <1>1, <1>2, <1>3, <1>4, <1>5, <1>6, NothingBuffered, LogShape
     DEF Shape, None, Zero
<1>8. Steps'
  BY <1>0, <1>s, NothingBuffered DEF StreamInv, Steps, LoopSteps
<1>9. Tokens'
  BY <1>0, <1>s, <1>6, NothingBuffered, LogShape DEF Tokens
<1> QED
  BY <1>7, <1>8, <1>9 DEF StreamInv

(* The source moves on in the log and sends tokens that are positions. *)
LEMMA SourceStep ==
    ASSUME StreamInv, Send \/ SendToken \/ SourceEnds
    PROVE  StreamInv'
<1>u. /\ UNCHANGED <<log, processed, acked>>
      /\ UNCHANGED <<destVars, stateVars, pc, cont, flushVars, bufferVars>>
  BY DEF Send, SendToken, SourceEnds
<1>s. Shape /\ log \in Logs
  BY DEF StreamInv, Shape
<1>l. Positions' = Positions /\ Lsns' = Lsns /\ Results' = Results
  BY <1>u, SameLog
<1>1. head' \in Positions /\ next' \in Positions /\ channel' \in Seq(Results)
      /\ (channel # <<>> => channel' # <<>>)
  <2>1. CASE Send
    <3>1. next' = next + 1 /\ next < Len(log) /\ head' = Max2(head, next')
      BY <2>1 DEF Send
    <3>2. next' \in Positions /\ next' \in Lsns
      BY <3>1, <1>s, LogShape DEF Shape, Positions, Lsns
    <3>3. head' \in Positions
      BY <3>1, <3>2, <1>s, Larger DEF Shape
    <3>4. log[next'] \in [table : Tables, key : Nat, op : {"put", "truncate"}]
      BY <3>2, <1>s, LogShape
    <3>5. PICK tok \in {0, next, next'} :
              LET r == log[next']
                  res == Result(r.table, IF r.op = "put" THEN {next'} ELSE {},
                                IF r.op = "put" THEN "no" ELSE "log", tok, {}, next')
              IN  channel' \in {channel, Append(channel, res)}
      BY <2>1 DEF Send
    <3> DEFINE r == log[next']
               res == Result(r.table, IF r.op = "put" THEN {next'} ELSE {},
                             IF r.op = "put" THEN "no" ELSE "log", tok, {}, next')
    <3>6. tok \in Positions
      BY <3>2, <1>s, LogShape DEF Shape
    <3>7. res \in Results
      BY <3>2, <3>4, <3>6, <1>s, LogShape DEF Result, Results
    <3>8. channel' = channel \/ channel' = Append(channel, res)
      BY <3>5
    <3> HIDE DEF res
    <3>9. channel' \in Seq(Results) /\ (channel # <<>> => channel' # <<>>)
      <4>1. channel \in Seq(Results)
        BY <1>s DEF Shape
      <4>2. Append(channel, res) \in Seq(Results) /\ Append(channel, res) # <<>>
        BY <3>7, <4>1, AppendProperties
      <4> QED
        BY <3>8, <4>1, <4>2
    <3> QED
      BY <3>2, <3>3, <3>9
  <2>2. CASE SendToken
    <3> DEFINE res == Result("none", {}, "no", next, {}, 0)
    <3>1. res \in Results
      BY <1>s, LogShape DEF Shape, Result, Results
    <3>2. channel' = <<res>> /\ UNCHANGED <<head, next>>
      BY <2>2 DEF SendToken
    <3> HIDE DEF res
    <3>3. channel' \in Seq(Results) /\ channel' # <<>>
      BY <3>1, <3>2
    <3> QED
      BY <3>2, <3>3, <1>s DEF Shape
  <2>3. CASE SourceEnds
    BY <2>3, <1>s DEF SourceEnds, Shape
  <2> QED
    BY <2>1, <2>2, <2>3
<1>2. Shape'
  BY <1>u, <1>s, <1>l, <1>1 DEF Shape, destVars, stateVars, flushVars, bufferVars
<1>3. Steps'
  BY <1>u, <1>1 DEF StreamInv, Steps, flushVars
<1>4. Tokens'
  BY <1>u DEF StreamInv, Tokens, Buffered, bufferVars
<1> QED
  BY <1>2, <1>3, <1>4 DEF StreamInv

----------------------------------------------------------------------------
(* The oldest result of the channel, and those behind it. *)
LEMMA Oldest ==
    ASSUME Shape, channel # <<>>
    PROVE  Head(channel) \in Results /\ Tail(channel) \in Seq(Results)
BY HeadTailProperties DEF Shape

(* A result is buffered by its type, and a position it brings is marked as *)
(* not committed.                                                          *)
LEMMA BufferStep ==
    ASSUME StreamInv, NEW r \in Results, BufferResult(r)
    PROVE  /\ pending' \in [Tables -> SUBSET Lsns]
           /\ lastToken' \in Positions
           /\ pendingState' \in [pos : Positions, snaps : [Tables -> Positions]]
           /\ ~tokenDirty' => acked >= lastToken'
<1>s. Shape /\ log \in Logs
  BY DEF StreamInv, Shape
<1>r. r.rows \in SUBSET Lsns /\ r.token \in Positions /\ r.at \in Positions
  BY DEF Results
<1>1. pending' \in [Tables -> SUBSET Lsns]
  <2>1. pending' = IF r.rows = {} THEN pending ELSE [pending EXCEPT ![r.table] = @ \cup r.rows]
    BY DEF BufferResult
  <2> QED
    BY <2>1, <1>s, <1>r DEF Shape
<1>2. lastToken' \in Positions
  BY <1>s, <1>r DEF BufferResult, Shape
<1>3. pendingState' \in [pos : Positions, snaps : [Tables -> Positions]]
  <2> DEFINE cut == pendingTruncates \cup (IF r.trunc = "log" THEN {r.table} ELSE {})
             p == IF r.token # 0 THEN r.token ELSE pendingState.pos
             m == [t \in Tables |-> CASE t \in cut /\ r.token # 0 -> r.token
                                      [] t \in r.snaps -> r.at
                                      [] OTHER -> pendingState.snaps[t]]
  <2>1. pendingState' = [pos |-> p, snaps |-> m]
    BY DEF BufferResult
  <2>2. pendingState.pos \in Positions /\ pendingState.snaps \in [Tables -> Positions]
    BY <1>s DEF Shape
  <2>3. \A t \in Tables : m[t] \in Positions
    BY <2>2, <1>r
  <2>4. p \in Positions /\ m \in [Tables -> Positions]
    BY <2>2, <2>3, <1>r
  <2> QED
    BY <2>1, <2>4
<1>4. ~tokenDirty' => acked >= lastToken'
  BY DEF BufferResult, StreamInv, Tokens
<1> QED
  BY <1>1, <1>2, <1>3, <1>4

(* A result is taken from the channel, or a truncate begins or is made. *)
LEMMA TakeStep ==
    ASSUME StreamInv, Receive \/ InvalidateTruncated \/ ApplyTruncate
    PROVE  StreamInv'
<1>s. Shape /\ log \in Logs
  BY DEF StreamInv, Shape
<1>u. UNCHANGED <<log, head, next, processed, acked, staging, checkpoint, step, rows>>
  BY DEF Receive, InvalidateTruncated, ApplyTruncate, sourceVars, stateVars, destVars, flushVars
<1>l. Positions' = Positions /\ Lsns' = Lsns /\ Results' = Results
  BY <1>u, SameLog
<1>1. CASE Receive
  <2>1. channel # <<>> /\ channel' = Tail(channel) /\ BufferResult(Head(channel))
        /\ UNCHANGED <<dest, complete, knownComplete, pc, cont>> /\ pc \in {"run", "drain"}
    BY <1>1 DEF Receive, Taking, destVars, stateVars
  <2>2. Head(channel) \in Results /\ channel' \in Seq(Results)
    BY <2>1, <1>s, Oldest
  <2>3. Shape'
    BY <2>1, <2>2, <1>u, <1>s, <1>l, BufferStep DEF Shape
  <2>4. Steps'
    BY <2>1, <1>u DEF StreamInv, Steps
  <2>5. Tokens'
    BY <2>1, <2>2, <1>u, BufferStep DEF Tokens
  <2> QED
    BY <2>3, <2>4, <2>5 DEF StreamInv
<1>2. CASE InvalidateTruncated
  <2>1. /\ pc \in {"run", "drain"} /\ channel # <<>> /\ pc' = "truncate" /\ cont' = pc
        /\ UNCHANGED <<channel, dest, pending, lastToken, tokenDirty, pendingState>>
        /\ complete' = [complete EXCEPT ![Head(channel).table] = 0]
        /\ knownComplete' = [knownComplete EXCEPT ![Head(channel).table] = 0]
    BY <1>2 DEF InvalidateTruncated, Taking, sourceVars, destVars, bufferVars
  <2>2. Shape'
    BY <2>1, <1>u, <1>s, <1>l, LogShape DEF Shape
  <2>3. Steps'
    BY <2>1, <1>u DEF StreamInv, Steps, LoopSteps
  <2>4. Tokens'
    BY <2>1, <1>u DEF StreamInv, Tokens
  <2> QED
    BY <2>2, <2>3, <2>4 DEF StreamInv
<1>3. CASE ApplyTruncate
  <2>1. /\ channel' = Tail(channel) /\ BufferResult(Head(channel))
        /\ dest' = [dest EXCEPT ![Head(channel).table] = {}]
        /\ UNCHANGED <<complete, knownComplete, cont>>
    BY <1>3 DEF ApplyTruncate, stateVars
  <2>2. channel # <<>> /\ pc' \in {"run", "drain"} /\ pc \in {"run", "drain", "truncate"}
    BY <1>3 DEF ApplyTruncate, Taking, StreamInv, Steps
  <2>3. Head(channel) \in Results /\ channel' \in Seq(Results)
    BY <2>1, <2>2, <1>s, Oldest
  <2>4. Shape'
    BY <2>1, <2>3, <1>u, <1>s, <1>l, BufferStep DEF Shape
  <2>5. Steps'
    BY <2>1, <2>2, <1>u DEF StreamInv, Steps, LoopSteps
  <2>6. Tokens'
    BY <2>1, <2>2, <2>3, <1>u, BufferStep DEF Tokens
  <2> QED
    BY <2>4, <2>5, <2>6 DEF StreamInv
<1> QED
  BY <1>1, <1>2, <1>3

(* A flush takes all that is buffered. *)
LEMMA BeginFlushStep == ASSUME StreamInv, BeginFlush PROVE StreamInv'
<1>s. Shape /\ log \in Logs
  BY DEF StreamInv, Shape
<1>u. /\ UNCHANGED <<log, head, next, processed, acked, channel>>
      /\ UNCHANGED <<dest, staging, complete, checkpoint, knownComplete>>
      /\ UNCHANGED <<lastToken, tokenDirty, pendingState>>
  BY DEF BeginFlush, sourceVars, stateVars, destVars
<1>l. Positions' = Positions /\ Lsns' = Lsns /\ Results' = Results
  BY <1>u, SameLog
<1>1. /\ pc' = "flush" /\ cont' \in {"run", "drain", "done"}
      /\ rows' = pending /\ pending' = [t \in Tables |-> {}]
  BY DEF BeginFlush, None
<1>2. step' \in [Tables -> FlushSteps]
  <2>1. \A t \in Tables : pending[t] # {} => t \in Keyless \/ t \notin Keyless
    OBVIOUS
  <2> QED
    BY <2>1 DEF BeginFlush, FlushSteps
<1>3. Shape'
  BY <1>1, <1>2, <1>u, <1>s, <1>l DEF Shape
<1>4. Steps'
  BY <1>1, <1>2 DEF Steps, LoopSteps
<1>5. Tokens'
  BY <1>1, <1>u DEF StreamInv, Tokens, Buffered
<1> QED
  BY <1>3, <1>4, <1>5 DEF StreamInv

(* A step of one table within a flush. *)
LEMMA FlushTableStep == ASSUME StreamInv, NEW t \in Tables, FlushTable(t) PROVE StreamInv'
<1>s. Shape /\ log \in Logs
  BY DEF StreamInv, Shape
<1>u. /\ UNCHANGED <<log, head, next, processed, acked, channel>>
      /\ UNCHANGED <<checkpoint, pc, cont, rows, pending, lastToken, tokenDirty>>
      /\ pc = "flush"
  BY DEF FlushTable, InvalidateKeyless, AppendRows, WriteStaging, MergeStaging, ResetStaging, Writing,
         sourceVars, stateVars, bufferVars
<1>l. Positions' = Positions /\ Lsns' = Lsns /\ Results' = Results
  BY <1>u, SameLog
<1>1. step' \in [Tables -> FlushSteps]
  BY <1>s DEF Shape, FlushSteps, FlushTable, InvalidateKeyless, AppendRows, WriteStaging,
              MergeStaging, ResetStaging
<1>2. dest' \in [Tables -> SUBSET Lsns] /\ staging' \in [Tables -> SUBSET Lsns]
  <2>1. CASE InvalidateKeyless(t)
    BY <2>1, <1>s DEF InvalidateKeyless, destVars, Shape
  <2>2. CASE AppendRows(t)
    <3>1. Upsert(t, dest[t], rows[t]) \in SUBSET Lsns
      BY <1>s, RowsOfLog DEF Shape
    <3> QED
      BY <2>2, <3>1, <1>s DEF AppendRows, Shape
  <2>3. CASE WriteStaging(t)
    BY <2>3, <1>s DEF WriteStaging, Shape
  <2>4. CASE MergeStaging(t)
    <3>1. Upsert(t, dest[t], staging[t]) \in SUBSET Lsns
      BY <1>s, RowsOfLog DEF Shape
    <3> QED
      BY <2>4, <3>1, <1>s DEF MergeStaging, Shape
  <2>5. CASE ResetStaging(t)
    BY <2>5, <1>s DEF ResetStaging, Shape
  <2> QED
    BY <2>1, <2>2, <2>3, <2>4, <2>5 DEF FlushTable
<1>3. /\ complete' \in [Tables -> Positions] /\ knownComplete' \in [Tables -> Positions]
      /\ pendingState' \in [pos : Positions, snaps : [Tables -> Positions]]
  <2>1. CASE InvalidateKeyless(t)
    BY <2>1, <1>s, LogShape DEF InvalidateKeyless, Shape
  <2>2. CASE ~InvalidateKeyless(t)
    BY <2>2, <1>s DEF FlushTable, AppendRows, WriteStaging, MergeStaging, ResetStaging, Shape,
                      stateVars, bufferVars
  <2> QED
    BY <2>1, <2>2
<1>4. Shape'
  BY <1>1, <1>2, <1>3, <1>u, <1>s, <1>l DEF Shape
<1>5. Steps'
  BY <1>u DEF StreamInv, Steps
<1>6. Tokens'
  BY <1>u DEF StreamInv, Tokens, Buffered
<1> QED
  BY <1>4, <1>5, <1>6 DEF StreamInv

(* The end of a cycle, what is persisted and what is committed. *)
LEMMA EndCycleStep == ASSUME StreamInv, EndCycle PROVE StreamInv'
<1>u. /\ UNCHANGED <<log, head, next, processed, acked, channel, dest, staging>>
      /\ UNCHANGED <<complete, checkpoint, knownComplete, cont, step, rows>>
      /\ UNCHANGED <<pending, lastToken, tokenDirty, pendingState>>
      /\ pc = "flush" /\ pc' = cont /\ ~tokenDirty /\ \A t \in Tables : step[t] = "none"
  BY DEF EndCycle, Written, sourceVars, stateVars, destVars, flushVars, bufferVars
<1>l. Positions' = Positions /\ Lsns' = Lsns /\ Results' = Results
  BY <1>u, SameLog
<1>1. Shape'
  BY <1>u, <1>l DEF StreamInv, Shape
<1>2. Steps'
  BY <1>u DEF StreamInv, Steps, LoopSteps
<1>3. Tokens'
  BY <1>u DEF StreamInv, Steps, Tokens, Buffered
<1> QED
  BY <1>1, <1>2, <1>3 DEF StreamInv

(* What is persisted are positions: the larger of two that are. *)
LEMMA PersistStep == ASSUME StreamInv, Persist PROVE StreamInv'
<1>s. Shape /\ log \in Logs
  BY DEF StreamInv, Shape
<1>u. /\ UNCHANGED <<log, head, next, processed, acked, channel, dest, staging>>
      /\ UNCHANGED <<cont, step, rows, pending, lastToken, tokenDirty, pendingState>>
      /\ pc = "flush" /\ pc' = "commit" /\ \A t \in Tables : step[t] = "none"
  BY DEF Persist, Written, sourceVars, flushVars, bufferVars
<1>l. Positions' = Positions /\ Lsns' = Lsns /\ Results' = Results
  BY <1>u, SameLog
<1> DEFINE at(t) == CASE pendingState.snaps[t] # 0 -> pendingState.snaps[t]
                      [] pendingState.snaps[t] = 0 /\ knownComplete[t] # 0 ->
                             IF pendingState.pos # 0 THEN pendingState.pos ELSE knownComplete[t]
                      [] OTHER -> 0
<1>1. \A t \in Tables : at(t) \in Positions /\ complete[t] \in Positions
  BY <1>s, LogShape DEF Shape
<1>2. complete' = [t \in Tables |-> Max2(complete[t], at(t))]
  BY DEF Persist
<1> HIDE DEF at
<1>3. complete' \in [Tables -> Positions]
  <2>1. \A t \in Tables : Max2(complete[t], at(t)) \in Positions
    BY <1>1, <1>s, Larger
  <2> QED
    BY <1>2, <2>1
<1>4. knownComplete' \in [Tables -> Positions]
  BY <1>s, LogShape DEF Persist, Zero
<1>5. checkpoint' \in Positions
  BY <1>s, Larger DEF Persist, Shape
<1>6. Shape'
  BY <1>3, <1>4, <1>5, <1>u, <1>s, <1>l DEF Shape
<1>7. Steps'
  BY <1>u DEF StreamInv, Steps, LoopSteps
<1>8. Tokens'
  BY <1>u DEF StreamInv, Tokens, Buffered
<1> QED
  BY <1>6, <1>7, <1>8 DEF StreamInv

(* The committed position covers the newest token. *)
LEMMA CommitStep == ASSUME StreamInv, CommitStream PROVE StreamInv'
<1>s. Shape /\ log \in Logs
  BY DEF StreamInv, Shape
<1>u. /\ UNCHANGED <<log, head, next, processed, channel, dest, staging>>
      /\ UNCHANGED <<complete, checkpoint, knownComplete, cont, step, rows>>
      /\ UNCHANGED <<pending, lastToken>>
      /\ pc = "commit" /\ pc' = cont /\ acked' = Max2(acked, lastToken)
      /\ ~tokenDirty' /\ pendingState' = NoState
  BY DEF CommitStream, stateVars, destVars, flushVars
<1>l. Positions' = Positions /\ Lsns' = Lsns /\ Results' = Results
  BY <1>u, SameLog
<1>1. acked' \in Positions /\ acked' >= lastToken'
  BY <1>s, <1>u, Larger DEF Shape
<1>2. Shape'
  BY <1>1, <1>u, <1>s, <1>l, LogShape DEF Shape, NoState, Zero
<1>3. Steps'
  BY <1>u DEF StreamInv, Steps, LoopSteps
<1>4. Tokens'
  BY <1>1, <1>u DEF StreamInv, Steps, Tokens, Buffered
<1> QED
  BY <1>2, <1>3, <1>4 DEF StreamInv

(* A cancellation, and the steps of a shutdown: the last one is taken when *)
(* nothing is buffered and no position is open.                            *)
LEMMA ShutdownStep == ASSUME StreamInv, Cancel \/ Shutdown PROVE StreamInv'
<1>u. /\ UNCHANGED <<log, head, next, processed, acked, channel, dest, staging>>
      /\ UNCHANGED <<complete, checkpoint, knownComplete, cont, step, rows>>
      /\ UNCHANGED <<pending, lastToken, tokenDirty, pendingState>>
  BY DEF Cancel, Shutdown, sourceVars, stateVars, destVars, flushVars, bufferVars
<1>l. Positions' = Positions /\ Lsns' = Lsns /\ Results' = Results
  BY <1>u, SameLog
<1>1. \/ pc' = pc
      \/ pc # "flush" /\ pc' \in {"drain", "final"}
      \/ pc # "flush" /\ pc' = "done" /\ ~Buffered /\ ~tokenDirty
  BY DEF Cancel, Shutdown
<1>2. Shape'
  BY <1>u, <1>l DEF StreamInv, Shape
<1>3. Steps'
  BY <1>1, <1>u DEF StreamInv, Steps, LoopSteps
<1>4. Tokens'
  BY <1>1, <1>u DEF StreamInv, Tokens, Buffered
<1> QED
  BY <1>2, <1>3, <1>4 DEF StreamInv

(* A failure drops what is buffered and the channel. *)
LEMMA FailStep == ASSUME StreamInv, Fail PROVE StreamInv'
<1>s. Shape /\ log \in Logs
  BY DEF StreamInv, Shape
<1>u. /\ UNCHANGED <<log, head, next, processed, acked, dest, staging>>
      /\ UNCHANGED <<complete, checkpoint, knownComplete, cont>>
      /\ pc' = "down" /\ channel' = <<>> /\ Discard
  BY DEF Fail, stateVars, destVars
<1>l. Positions' = Positions /\ Lsns' = Lsns /\ Results' = Results
  BY <1>u, SameLog
<1>1. Shape'
  BY <1>u, <1>l, <1>s, NothingBuffered, EmptySeq DEF Shape
<1>2. Steps'
  BY <1>u, <1>s, NothingBuffered DEF StreamInv, Steps, LoopSteps
<1>3. Tokens'
  BY <1>u, <1>s, NothingBuffered, LogShape DEF Tokens, Shape
<1> QED
  BY <1>1, <1>2, <1>3 DEF StreamInv

(* A step that changes nothing. *)
LEMMA StutterStep == ASSUME StreamInv, UNCHANGED vars PROVE StreamInv'
<1>u. /\ UNCHANGED <<log, head, next, processed, acked, channel, dest, staging>>
      /\ UNCHANGED <<complete, checkpoint, knownComplete, pc, cont, step, rows>>
      /\ UNCHANGED <<pending, lastToken, tokenDirty, pendingState>>
  BY DEF vars, sourceVars, stateVars, destVars, flushVars, bufferVars
<1>l. Positions' = Positions /\ Lsns' = Lsns /\ Results' = Results
  BY <1>u, SameLog
<1>1. Shape'
  BY <1>u, <1>l DEF StreamInv, Shape
<1>2. Steps' /\ Tokens'
  BY <1>u DEF StreamInv, Steps, Tokens, Buffered
<1> QED
  BY <1>1, <1>2 DEF StreamInv

(* Every step keeps the invariant. *)
LEMMA StreamNext == ASSUME StreamInv, [Next]_vars PROVE StreamInv'
<1>1. CASE Source
  BY <1>1, StartRunStep, SourceStep DEF Source
<1>2. CASE Loop
  BY <1>2, TakeStep, BeginFlushStep, FlushTableStep, EndCycleStep, PersistStep, CommitStep,
     ShutdownStep DEF Loop
<1>3. CASE Cancel
  BY <1>3, ShutdownStep
<1>4. CASE Fail
  BY <1>4, FailStep
<1>5. CASE UNCHANGED vars
  BY <1>5, StutterStep
<1> QED
  BY <1>1, <1>2, <1>3, <1>4, <1>5 DEF Next

(* The invariant holds in every state. *)
LEMMA StreamInvariance == Spec => []StreamInv
<1>1. Init => StreamInv
  BY StreamInit
<1>2. StreamInv /\ [Next]_vars => StreamInv'
  BY StreamNext
<1> QED
  BY <1>1, <1>2, PTL DEF Spec

(* The variables keep their types: no position is ever beyond the log.     *)
(* About the arithmetic of flushLoop.buffer, Persist and CommitStream.     *)
THEOREM StreamTypeCorrect == Spec => []TypeOK
<1>1. StreamInv => TypeOK
  BY DEF StreamInv, Shape, Steps, LoopSteps, TypeOK, Positions
<1> QED
  BY <1>1, StreamInvariance, PTL

(* A run that ends well has flushed what it buffered and committed the     *)
(* newest token, for every way and moment a drain can end.  About          *)
(* flushLoop.shutdown, and the order of flush, persist and commit.         *)
THEOREM StopComplete == Spec => []StopLeavesNothing
<1>1. StreamInv => StopLeavesNothing
  BY DEF StreamInv, Tokens, StopLeavesNothing
<1> QED
  BY <1>1, StreamInvariance, PTL

----------------------------------------------------------------------------
(* What resuming needs.  A table is looked at against the rows that a log  *)
(* leaves in it: those behind its last truncate, and of each key one that  *)
(* is newer will do as well.                                               *)

(* The rows and the truncates of a table in a log, and the rows behind     *)
(* every truncate.                                                         *)
PutsIn(lg, t) == {i \in 1..Len(lg) : lg[i].table = t /\ lg[i].op = "put"}
TruncatesIn(lg, t) == {i \in 1..Len(lg) : lg[i].table = t /\ lg[i].op = "truncate"}
Live(lg, t) == {i \in PutsIn(lg, t) : \A u \in TruncatesIn(lg, t) : u < i}

(* No truncate of the table comes after p. *)
Past(lg, t, p) == \A u \in TruncatesIn(lg, t) : u <= p

(* The rows S have row i, or, of a table with a key, a newer row of it. *)
Covers(lg, t, S, i) ==
    i \in S \/ (t \notin Keyless /\ \E j \in S : j > i /\ lg[j].key = lg[i].key)

(* To send the log again from p to a table with the rows S restores it: no *)
(* row is stale, and none up to p is missing.  If a truncate comes after p *)
(* the rows do not matter.                                                 *)
Restores(lg, t, S, p) ==
    Past(lg, t, p) => S \subseteq Live(lg, t) /\ \A i \in Live(lg, t) : i <= p => Covers(lg, t, S, i)

(* A result empties the table; no result of the channel does; none behind  *)
(* the k-th does.                                                          *)
Cuts(r, t) == r.table = t /\ r.trunc # "no"
Uncut(ch, t) == \A k \in DOMAIN ch : ~Cuts(ch[k], t)
Behind(ch, t, k) == \A j \in DOMAIN ch : j > k => ~Cuts(ch[j], t)

(* The rows of the channel that the table will have: those behind the last *)
(* truncate in the channel; and what they come to, the rows of that        *)
(* truncate (a snapshot) or else those the run has.                        *)
Arriving(ch, t) ==
    UNION {ch[k].rows : k \in {k \in DOMAIN ch : ch[k].table = t /\ ch[k].trunc = "no" /\ Behind(ch, t, k)}}
Base(ch, t, have) ==
    IF Uncut(ch, t) THEN have
    ELSE UNION {ch[k].rows : k \in {k \in DOMAIN ch : Cuts(ch[k], t) /\ Behind(ch, t, k)}}

(* The run follows the log of the table up to b: together, what it has and *)
(* what arrives are live rows, and no live row up to b is missing.         *)
Follows(lg, ch, t, b, have) ==
    /\ Past(lg, t, b) => Arriving(ch, t) \cup Base(ch, t, have) \subseteq Live(lg, t)
    /\ \A i \in Live(lg, t) : i <= b => i \in Arriving(ch, t) \/ Covers(lg, t, Base(ch, t, have), i)

(* A result of Send, and what the source's results say: a record is one of *)
(* the log beyond the table's own position, its token does not lead it; a  *)
(* snapshot's position is that of its tables.                              *)
IsRecord(r) == r.snaps = {} /\ r.at # 0
ResultOK(lg, n, pr, r) ==
    /\ r.token <= n
    /\ IsRecord(r) =>
          /\ r.table \in Tables /\ lg[r.at].table = r.table
          /\ pr[r.table] < r.at /\ r.token <= r.at /\ r.at <= n /\ r.at <= Len(lg)
          /\ \/ r.trunc = "no" /\ r.rows = {r.at} /\ lg[r.at].op = "put"
             \/ r.trunc = "log" /\ r.rows = {} /\ lg[r.at].op = "truncate"
    /\ ~IsRecord(r) => r.trunc # "log" /\ (r.trunc = "no" => r.rows = {})
    /\ r.trunc = "snapshot" => r.snaps = {} /\ r.token = 0
    /\ \A t \in r.snaps : r.at = pr[t]

(* The channel is in order: no token and no record of later ones is before *)
(* a record, and snapshots come first.                                     *)
IsSnapshot(r) == r.trunc = "snapshot" \/ r.snaps # {}
Ordered(ch) ==
    \A k \in DOMAIN ch : \A j \in DOMAIN ch : j < k =>
        /\ IsRecord(ch[k]) => ch[j].token < ch[k].at /\ (IsRecord(ch[j]) => ch[j].at < ch[k].at)
        /\ IsSnapshot(ch[k]) => ch[j].trunc = "snapshot"

(* A snapshot of the table, or its position, is still to come. *)
Fresh(ch, t) ==
    \E k \in DOMAIN ch : t \in ch[k].snaps \/ (ch[k].table = t /\ ch[k].trunc = "snapshot")

(* No record of the table up to q is still to come. *)
Before(ch, t, q) == \A k \in DOMAIN ch : IsRecord(ch[k]) /\ ch[k].table = t => q < ch[k].at

(* A run is under way; how far the source is with a table; the rows that a *)
(* flush has still to bring, and all rows that the run has for a table.    *)
Active == pc \notin {"down", "done"}
Bound(t) == Max2(next, processed[t])
InFlight(t) == CASE step[t] \in {"invalidate", "append", "write"} -> rows[t]
                 [] step[t] = "merge" -> staging[t]
                 [] OTHER -> {}
Have(t) == dest[t] \cup pending[t] \cup InFlight(t)

(* The positions that are claimed, or will be: of all tables, of one. *)
Globals == {acked, checkpoint, pendingState.pos, lastToken}
Claims(t) == {complete[t], knownComplete[t], pendingState.snaps[t]}

ChannelOK ==
    /\ \A k \in DOMAIN channel : ResultOK(log, next, processed, channel[k])
    /\ Ordered(channel)

(* No claim is ahead of the source, or of a record that is still to come;  *)
(* of a table whose snapshot is still to come nothing is claimed, and      *)
(* neither a position nor a truncate of the log was taken.                 *)
ClaimsOK ==
    /\ next <= head /\ \A q \in Globals : q <= next
    /\ \A t \in Tables : processed[t] <= head
    /\ \A t \in Tables : \A q \in Globals \cup Claims(t) : q <= Bound(t) /\ Before(channel, t, q)
    /\ \A t \in Tables : Fresh(channel, t) => \A q \in Claims(t) : q = 0
    /\ pendingState.pos # 0 \/ pendingTruncates # {} => \A t \in Tables : ~Fresh(channel, t)

(* Staging tables are empty outside a merge; nothing is buffered while a   *)
(* flush or a truncate is under way.                                       *)
FlushOK ==
    /\ \A t \in Tables : staging[t] # {} => step[t] \in {"merge", "reset"}
    /\ pc \in {"flush", "commit", "truncate"} => ~Buffered
    /\ pc = "truncate" => Head(channel).trunc = "log"

TablesOK == \A t \in Tables : Follows(log, channel, t, Bound(t), Have(t))

(* Whatever is claimed of a table that would resume, its rows restore it   *)
(* from there; and the log was seen that far.                              *)
Certified ==
    \A t \in Tables : complete[t] # 0 =>
        \A q \in {acked, checkpoint, complete[t]} : Restores(log, t, dest[t], q)
Heads == acked <= head /\ checkpoint <= head /\ \A t \in Tables : complete[t] <= head

(* The invariant of resuming.  ResumeRestores alone says nothing of rows   *)
(* that are buffered or in the channel, which the next flush may claim.    *)
ResumeInv ==
    /\ Heads /\ Certified
    /\ Active => ChannelOK /\ ClaimsOK /\ FlushOK /\ TablesOK

----------------------------------------------------------------------------
(* A log is a sequence of records. *)
LEMMA LogData ==
    ASSUME NEW lg \in Logs
    PROVE  /\ Len(lg) \in Nat
           /\ \A i \in 1..Len(lg) : lg[i] \in [table : Tables, key : Nat, op : {"put", "truncate"}]
<1> DEFINE Row == [table : Tables, key : Nat, op : {"put", "truncate"}]
<1>1. lg \in Seq(Row)
  BY StreamingAssumption
<1> HIDE DEF Row
<1>2. Len(lg) \in Nat /\ \A i \in 1..Len(lg) : lg[i] \in Row
  BY <1>1, LenProperties, ElementOfSeq
<1> QED
  BY <1>2 DEF Row

(* The greatest of a bounded set of numbers is in it. *)
LEMMA MaxInSet ==
    ASSUME NEW n \in Nat, NEW S \in SUBSET (0..n), S # {}
    PROVE  Max(S) \in S /\ \A x \in S : x <= Max(S)
<1> DEFINE T == {n - x : x \in S}
<1>0. \A x \in S : x \in Nat /\ n - x \in Nat
  OBVIOUS
<1>1. T \in SUBSET Nat /\ T # {}
  BY <1>0
<1>2. Min(T) \in T /\ \A y \in T : Min(T) <= y
  BY <1>1, MinInSet
<1>3. PICK m \in S : n - m = Min(T)
  BY <1>2
<1>4. \A x \in S : n - x \in T
  OBVIOUS
<1>5. \A x \in S : m >= x
  <2>1. \A x \in S : n - m <= n - x
    BY <1>2, <1>3, <1>4
  <2>2. m \in Int /\ \A x \in S : x \in Int
    BY <1>0, <1>3
  <2> HIDE DEF T
  <2> QED
    BY <2>1, <2>2
<1>6. \E x \in S : \A y \in S : x >= y
  BY <1>5
<1> QED
  BY <1>6 DEF Max

(* The rows of a table that a log leaves. *)
LEMMA LiveRows ==
    ASSUME NEW lg \in Logs, NEW t
    PROVE  /\ Live(lg, t) \in SUBSET (1..Len(lg))
           /\ \A p, q : q \in Int /\ p \in Int /\ p <= q /\ Past(lg, t, p) => Past(lg, t, q)
           /\ \A p \in Int : \A i : Past(lg, t, p) /\ i \in PutsIn(lg, t) /\ i > p => i \in Live(lg, t)
<1>1. Len(lg) \in Nat
  BY LogData
<1>2. Live(lg, t) \in SUBSET (1..Len(lg))
  BY DEF Live, PutsIn
<1>3. TruncatesIn(lg, t) \in SUBSET (1..Len(lg)) /\ PutsIn(lg, t) \in SUBSET (1..Len(lg))
  BY DEF TruncatesIn, PutsIn
<1>4. ASSUME NEW p \in Int, NEW q \in Int, p <= q, Past(lg, t, p) PROVE Past(lg, t, q)
  BY <1>1, <1>3, <1>4 DEF Past
<1>5. ASSUME NEW p \in Int, NEW i \in PutsIn(lg, t), Past(lg, t, p), i > p PROVE i \in Live(lg, t)
  BY <1>1, <1>3, <1>5 DEF Past, Live
<1> QED
  BY <1>2, <1>4, <1>5

(* To cover is transitive, and more rows cover more. *)
LEMMA CoversMore ==
    ASSUME NEW lg \in Logs, NEW t, NEW A \in SUBSET (1..Len(lg)), NEW B \in SUBSET (1..Len(lg)),
           \A i \in A : Covers(lg, t, B, i)
    PROVE  \A i \in 1..Len(lg) : Covers(lg, t, A, i) => Covers(lg, t, B, i)
<1>1. Len(lg) \in Nat
  BY LogData
<1>2. ASSUME NEW i \in 1..Len(lg), Covers(lg, t, A, i) PROVE Covers(lg, t, B, i)
  <2>1. CASE i \in A
    BY <2>1
  <2>2. CASE i \notin A
    <3>1. PICK j \in A : t \notin Keyless /\ j > i /\ lg[j].key = lg[i].key
      BY <1>2, <2>2 DEF Covers
    <3>2. Covers(lg, t, B, j)
      BY <3>1
    <3>3. CASE j \in B
      BY <3>1, <3>3 DEF Covers
    <3>4. CASE j \notin B
      <4>1. PICK k \in B : k > j /\ lg[k].key = lg[j].key
        BY <3>2, <3>4 DEF Covers
      <4>2. k > i /\ lg[k].key = lg[i].key
        BY <3>1, <4>1, <1>1
      <4> QED
        BY <3>1, <4>2 DEF Covers
    <3> QED
      BY <3>3, <3>4
  <2> QED
    BY <2>1, <2>2
<1> QED
  BY <1>2

(* The newest rows of each key: a merge keeps rows of its operands, and    *)
(* one that covers each of them.                                           *)
LEMMA UpsertCovers ==
    ASSUME log \in Logs, NEW t, NEW old \in SUBSET Lsns, NEW new \in SUBSET Lsns
    PROVE  /\ Upsert(t, old, new) \subseteq old \cup new
           /\ \A i \in old \cup new : Covers(log, t, Upsert(t, old, new), i)
<1> DEFINE all == old \cup new
<1>1. Len(log) \in Nat /\ all \in SUBSET (1..Len(log))
  BY LogData DEF Lsns
<1>2. Upsert(t, old, new) \subseteq all
  BY DEF Upsert
<1>3. ASSUME NEW i \in all PROVE Covers(log, t, Upsert(t, old, new), i)
  <2>1. CASE t \in Keyless
    BY <2>1 DEF Upsert, Covers
  <2>2. CASE t \notin Keyless
    <3> DEFINE S == {j \in all : log[j].key = log[i].key}
    <3>1. S \in SUBSET (0..Len(log)) /\ i \in S
      BY <1>1
    <3> HIDE DEF S
    <3>2. Max(S) \in S /\ \A x \in S : x <= Max(S)
      BY <3>1, <1>1, MaxInSet
    <3>3. PICK m : m = Max(S)
      OBVIOUS
    <3>4. m \in all /\ log[m].key = log[i].key /\ m >= i
      BY <3>1, <3>2, <3>3, <1>1 DEF S
    <3>5. ASSUME NEW j \in all, log[j].key = log[m].key PROVE ~(j > m)
      <4>1. j \in S /\ j \in 1..Len(log) /\ m \in 1..Len(log)
        BY <3>4, <3>5, <1>1 DEF S
      <4>2. j <= m
        BY <3>2, <3>3, <4>1
      <4> QED
        BY <4>1, <4>2, <1>1
    <3>6. m \in Upsert(t, old, new)
      BY <2>2, <3>4, <3>5 DEF Upsert
    <3>7. m = i \/ m > i
      BY <3>4, <1>1
    <3> QED
      BY <2>2, <3>4, <3>6, <3>7 DEF Covers
  <2> QED
    BY <2>1, <2>2
<1> QED
  BY <1>2, <1>3

(* What is known of a log of the specification, in its own terms. *)
LEMMA LogTerms ==
    ASSUME log \in Logs
    PROVE  /\ Len(log) \in Nat /\ Lsns = 1..Len(log) /\ Positions = 0..Len(log)
           /\ \A t : Puts(t) = PutsIn(log, t) /\ Truncates(t) = TruncatesIn(log, t)
           /\ \A t : PutsIn(log, t) \in SUBSET (1..Len(log)) /\ TruncatesIn(log, t) \in SUBSET (1..Len(log))
BY LogData DEF Lsns, Positions, Puts, Truncates, PutsIn, TruncatesIn

(* A replay of the first records restores the table up to there. *)
LEMMA ReplayRestores ==
    ASSUME log \in Logs, NEW t, NEW n \in Positions
    PROVE  Restores(log, t, Replay(t, n), n)
<1> DEFINE C == {0} \cup {i \in Truncates(t) : i <= n}
           cut == Max(C)
           S == {i \in Puts(t) : cut < i /\ i <= n}
<1>1. /\ Len(log) \in Nat /\ Lsns = 1..Len(log) /\ n \in 0..Len(log)
      /\ Puts(t) = PutsIn(log, t) /\ Truncates(t) = TruncatesIn(log, t)
      /\ PutsIn(log, t) \in SUBSET Lsns /\ TruncatesIn(log, t) \in SUBSET Lsns
  BY LogTerms
<1>2. C \in SUBSET (0..Len(log)) /\ C # {}
  BY <1>1
<1>3. cut \in C /\ \A x \in C : x <= cut
  <2> HIDE DEF C
  <2> QED
    BY <1>1, <1>2, MaxInSet
<1>4. cut \in Int
  BY <1>1, <1>2, <1>3
<1>5. Replay(t, n) = Upsert(t, {}, S)
  BY DEF Replay
<1> HIDE DEF cut
<1>6. S \in SUBSET Lsns
  BY <1>1
<1>7. Replay(t, n) \subseteq S /\ \A i \in S : Covers(log, t, Replay(t, n), i)
  <2> HIDE DEF S
  <2> QED
    BY <1>5, <1>6, UpsertCovers
<1>8. ASSUME Past(log, t, n) PROVE S \subseteq Live(log, t)
  <2>1. ASSUME NEW i \in S, NEW u \in TruncatesIn(log, t) PROVE u < i
    <3>1. u \in C
      BY <1>1, <1>8 DEF Past
    <3>2. u <= cut /\ cut < i /\ u \in Int /\ i \in Int
      BY <1>1, <1>3, <3>1
    <3> QED
      BY <3>2, <1>4
  <2> QED
    BY <1>1, <2>1 DEF Live
<1>9. ASSUME NEW i \in Live(log, t), i <= n PROVE i \in S
  <2>1. i \in PutsIn(log, t) /\ \A u \in TruncatesIn(log, t) : u < i
    BY DEF Live
  <2>2. cut < i
    BY <1>1, <1>3, <2>1
  <2> QED
    BY <1>1, <1>9, <2>1, <2>2
<1> QED
  BY <1>7, <1>8, <1>9 DEF Restores

(* Rows that restore a table up to a position: to send the log again from  *)
(* there gives what the whole log gives.                                   *)
LEMMA RestoredExactly ==
    ASSUME Shape, NEW t \in Tables, NEW p \in Positions, Restores(log, t, dest[t], p)
    PROVE  Redelivered(t, p) = Replay(t, Len(log))
<1>1. /\ Len(log) \in Nat /\ Lsns = 1..Len(log) /\ p \in 0..Len(log)
      /\ Puts(t) = PutsIn(log, t) /\ Truncates(t) = TruncatesIn(log, t)
      /\ PutsIn(log, t) \in SUBSET Lsns /\ TruncatesIn(log, t) \in SUBSET Lsns
      /\ log \in Logs /\ dest[t] \in SUBSET Lsns
  BY LogTerms DEF Shape
<1>2. CASE \E i \in Truncates(t) : i > p
  BY <1>2 DEF Redelivered
<1>3. CASE ~\E i \in Truncates(t) : i > p
  <2> DEFINE late == {i \in Puts(t) : i > p}
             all == dest[t] \cup late
             C == {0} \cup {i \in Truncates(t) : i <= Len(log)}
             S == {i \in Puts(t) : Max(C) < i /\ i <= Len(log)}
  <2>1. Past(log, t, p)
    BY <1>1, <1>3 DEF Past
  <2>2. dest[t] \subseteq Live(log, t) /\ \A i \in Live(log, t) : i <= p => Covers(log, t, dest[t], i)
    BY <2>1 DEF Restores
  <2>3. late \subseteq Live(log, t)
    BY <1>1, <2>1, LiveRows
  <2>4. Live(log, t) \subseteq Lsns
    BY <1>1, LiveRows
  <2>5. S = Live(log, t)
    <3>1. C \in SUBSET (0..Len(log)) /\ C # {}
      BY <1>1
    <3>2. Max(C) \in C /\ \A x \in C : x <= Max(C)
      <4> HIDE DEF C
      <4> QED
        BY <1>1, <3>1, MaxInSet
    <3>3. PICK m : m = Max(C)
      OBVIOUS
    <3>4. m \in Int /\ (m = 0 \/ m \in TruncatesIn(log, t)) /\ \A u \in TruncatesIn(log, t) : u <= m
      BY <1>1, <3>1, <3>2, <3>3
    <3>5. \A i \in PutsIn(log, t) : m < i <=> \A u \in TruncatesIn(log, t) : u < i
      BY <1>1, <3>4
    <3> HIDE DEF C
    <3>6. S = {i \in PutsIn(log, t) : m < i}
      BY <1>1, <3>3
    <3> QED
      BY <3>5, <3>6 DEF Live
  <2>6. Redelivered(t, p) = Upsert(t, dest[t], late) /\ Replay(t, Len(log)) = Upsert(t, {}, S)
    BY <1>3 DEF Redelivered, Replay
  <2>7. \A i \in Live(log, t) : i > p => i \in all
    <3>1. Live(log, t) \subseteq Puts(t)
      BY <1>1 DEF Live
    <3> QED
      BY <3>1
  <2>8. all \subseteq Live(log, t)
    BY <2>2, <2>3
  <2>9. \A i \in Live(log, t) : Covers(log, t, all, i)
    <3>1. ASSUME NEW i \in Live(log, t), i <= p PROVE Covers(log, t, all, i)
      <4>1. Covers(log, t, dest[t], i)
        BY <2>2, <3>1
      <4> QED
        BY <4>1 DEF Covers
    <3>2. ASSUME NEW i \in Live(log, t), i > p PROVE Covers(log, t, all, i)
      BY <2>7, <3>2 DEF Covers
    <3>3. \A i \in Live(log, t) : i <= p \/ i > p
      BY <1>1, <2>4
    <3> QED
      BY <3>1, <3>2, <3>3
  <2> HIDE DEF all, late, S, C
  <2>10. dest[t] \cup late = all
    BY DEF all
  <2>11. CASE t \in Keyless
    <3>1. all = Live(log, t)
      BY <2>8, <2>9, <2>11 DEF Covers
    <3> QED
      BY <2>5, <2>6, <2>10, <2>11, <3>1 DEF Upsert
  <2>12. CASE t \notin Keyless
    <3>1. Redelivered(t, p) = {i \in all : ~\E j \in all : log[j].key = log[i].key /\ j > i}
      BY <2>6, <2>10, <2>12 DEF Upsert
    <3>2. Replay(t, Len(log)) =
              {i \in Live(log, t) : ~\E j \in Live(log, t) : log[j].key = log[i].key /\ j > i}
      BY <2>5, <2>6, <2>12 DEF Upsert
    <3>3. ASSUME NEW i \in all, ~\E j \in all : log[j].key = log[i].key /\ j > i,
                 NEW j \in Live(log, t), log[j].key = log[i].key, j > i
          PROVE  FALSE
      <4>1. Covers(log, t, all, j)
        BY <2>9
      <4>2. PICK k \in all : k >= j /\ log[k].key = log[j].key
        <5>1. j \in Int
          BY <1>1, <2>4
        <5>2. CASE j \in all
          BY <5>1, <5>2
        <5>3. CASE j \notin all
          <6>1. PICK k \in all : k > j /\ log[k].key = log[j].key
            BY <4>1, <5>3 DEF Covers
          <6>2. k \in Int
            BY <1>1, <2>4, <2>8
          <6> QED
            BY <5>1, <6>1, <6>2
        <5> QED
          BY <5>2, <5>3
      <4>3. i \in Int /\ j \in Int /\ k \in Int
        BY <1>1, <2>4, <2>8
      <4> QED
        BY <3>3, <4>2, <4>3
    <3>4. ASSUME NEW i \in Live(log, t), ~\E j \in Live(log, t) : log[j].key = log[i].key /\ j > i
          PROVE  i \in all
      <4>1. Covers(log, t, all, i)
        BY <2>9
      <4> QED
        BY <4>1, <3>4, <2>8 DEF Covers
    <3> QED
      BY <3>1, <3>2, <3>3, <3>4, <2>8
  <2> QED
    BY <2>11, <2>12
<1> QED
  BY <1>2, <1>3

----------------------------------------------------------------------------
(* What a row of the channel, or of its last truncate, is. *)
LEMMA ChannelRows ==
    ASSUME NEW ch, NEW t
    PROVE  /\ \A i : i \in Arriving(ch, t) <=>
                  \E k \in DOMAIN ch : ch[k].table = t /\ ch[k].trunc = "no" /\ Behind(ch, t, k)
                                       /\ i \in ch[k].rows
           /\ \A have : Uncut(ch, t) => Base(ch, t, have) = have
           /\ \A have, i : ~Uncut(ch, t) =>
                  (i \in Base(ch, t, have) <=>
                      \E k \in DOMAIN ch : Cuts(ch[k], t) /\ Behind(ch, t, k) /\ i \in ch[k].rows)
BY DEF Arriving, Base

(* A table that keeps what covers its rows follows the log as before. *)
LEMMA FollowsLess ==
    ASSUME NEW lg \in Logs, NEW ch, NEW t, NEW b,
           NEW A \in SUBSET (1..Len(lg)), NEW B \in SUBSET A,
           \A i \in A : Covers(lg, t, B, i), Follows(lg, ch, t, b, A)
    PROVE  Follows(lg, ch, t, b, B)
<1>1. CASE Uncut(ch, t)
  <2>1. Base(ch, t, A) = A /\ Base(ch, t, B) = B
    BY <1>1 DEF Base
  <2>2. Live(lg, t) \subseteq 1..Len(lg)
    BY LiveRows
  <2>3. \A i \in Live(lg, t) : Covers(lg, t, A, i) => Covers(lg, t, B, i)
    BY <2>2, CoversMore
  <2> QED
    BY <2>1, <2>3 DEF Follows
<1>2. CASE ~Uncut(ch, t)
  BY <1>2 DEF Base, Follows
<1> QED
  BY <1>1, <1>2

(* A channel without its oldest result. *)
LEMMA TailRows ==
    ASSUME NEW R, NEW ch \in Seq(R), ch # <<>>
    PROVE  /\ Tail(ch) \in Seq(R) /\ Head(ch) = ch[1] /\ 1 \in DOMAIN ch /\ Head(ch) \in R
           /\ \A k \in DOMAIN Tail(ch) : k \in Nat \ {0} /\ k + 1 \in DOMAIN ch /\ Tail(ch)[k] = ch[k + 1]
           /\ \A k \in DOMAIN ch : k = 1 \/ (k > 1 /\ k - 1 \in DOMAIN Tail(ch) /\ Tail(ch)[k - 1] = ch[k])
           /\ DOMAIN ch \subseteq Nat \ {0}
BY HeadTailProperties

(* The rows of the channel without its oldest result: those of the result  *)
(* are the table's then, if no truncate follows.                           *)
LEMMA TakenRows ==
    ASSUME NEW R, NEW ch \in Seq(R), ch # <<>>, NEW t, NEW A
    PROVE  LET B == (IF Cuts(Head(ch), t) THEN {} ELSE A)
                    \cup (IF Head(ch).table = t THEN Head(ch).rows ELSE {})
           IN  /\ Arriving(Tail(ch), t) \subseteq Arriving(ch, t)
               /\ Arriving(ch, t) \subseteq Arriving(Tail(ch), t) \cup Base(Tail(ch), t, B)
               /\ Base(ch, t, A) \subseteq Base(Tail(ch), t, B)
               /\ Base(Tail(ch), t, B) \subseteq Arriving(ch, t) \cup Base(ch, t, A)
<1> DEFINE h == Head(ch)
           tl == Tail(ch)
           B == (IF Cuts(h, t) THEN {} ELSE A) \cup (IF h.table = t THEN h.rows ELSE {})
<1>1. /\ h = ch[1] /\ 1 \in DOMAIN ch
      /\ \A k \in DOMAIN tl : k \in Nat \ {0} /\ k + 1 \in DOMAIN ch /\ tl[k] = ch[k + 1]
      /\ \A k \in DOMAIN ch : k = 1 \/ (k > 1 /\ k - 1 \in DOMAIN tl /\ tl[k - 1] = ch[k])
      /\ DOMAIN ch \subseteq Nat \ {0}
  BY TailRows
<1> HIDE DEF h, tl
<1>2. Uncut(ch, t) <=> ~Cuts(h, t) /\ Uncut(tl, t)
  BY <1>1 DEF Uncut
<1>3. Behind(ch, t, 1) <=> Uncut(tl, t)
  <2>1. Uncut(tl, t) <=> \A k \in DOMAIN ch : k > 1 => ~Cuts(ch[k], t)
    BY <1>1 DEF Uncut
  <2> QED
    BY <2>1 DEF Behind
<1>4. \A k \in DOMAIN tl : Behind(tl, t, k) <=> Behind(ch, t, k + 1)
  <2>1. ASSUME NEW k \in DOMAIN tl, Behind(tl, t, k) PROVE Behind(ch, t, k + 1)
    <3>1. ASSUME NEW j \in DOMAIN ch, j > k + 1 PROVE ~Cuts(ch[j], t)
      <4>1. j - 1 \in DOMAIN tl /\ tl[j - 1] = ch[j] /\ j - 1 > k
        BY <1>1, <3>1
      <4> QED
        BY <4>1, <2>1 DEF Behind
    <3> QED
      BY <3>1 DEF Behind
  <2>2. ASSUME NEW k \in DOMAIN tl, Behind(ch, t, k + 1) PROVE Behind(tl, t, k)
    <3>1. ASSUME NEW j \in DOMAIN tl, j > k PROVE ~Cuts(tl[j], t)
      <4>1. j + 1 \in DOMAIN ch /\ tl[j] = ch[j + 1] /\ j + 1 > k + 1
        BY <1>1, <3>1
      <4> QED
        BY <4>1, <2>2 DEF Behind
    <3> QED
      BY <3>1 DEF Behind
  <2> QED
    BY <2>1, <2>2
<1>5. \A i : i \in Arriving(tl, t) => i \in Arriving(ch, t)
  <2>1. ASSUME NEW i \in Arriving(tl, t) PROVE i \in Arriving(ch, t)
    <3>1. PICK k \in DOMAIN tl : tl[k].table = t /\ tl[k].trunc = "no" /\ Behind(tl, t, k) /\ i \in tl[k].rows
      BY ChannelRows
    <3>2. k + 1 \in DOMAIN ch /\ tl[k] = ch[k + 1] /\ Behind(ch, t, k + 1)
      BY <1>1, <1>4, <3>1
    <3> QED
      BY <3>1, <3>2, ChannelRows
  <2> QED
    BY <2>1
<1>6. \A i : i \in Arriving(ch, t) =>
        \/ i \in Arriving(tl, t)
        \/ h.table = t /\ h.trunc = "no" /\ Uncut(tl, t) /\ i \in h.rows
  <2>1. ASSUME NEW i \in Arriving(ch, t), i \notin Arriving(tl, t)
        PROVE  h.table = t /\ h.trunc = "no" /\ Uncut(tl, t) /\ i \in h.rows
    <3>1. PICK k \in DOMAIN ch : ch[k].table = t /\ ch[k].trunc = "no" /\ Behind(ch, t, k) /\ i \in ch[k].rows
      BY ChannelRows
    <3>2. CASE k = 1
      BY <3>1, <3>2, <1>1, <1>3
    <3>3. CASE k # 1
      <4>1. k - 1 \in DOMAIN tl /\ tl[k - 1] = ch[k] /\ (k - 1) + 1 = k
        BY <1>1, <3>3
      <4>2. Behind(tl, t, k - 1)
        BY <1>4, <3>1, <4>1
      <4> QED
        BY <2>1, <3>1, <4>1, <4>2, ChannelRows
    <3> QED
      BY <3>2, <3>3
  <2> QED
    BY <2>1
<1>7. ASSUME h.table = t, h.trunc = "no", Uncut(tl, t), NEW i \in h.rows
      PROVE  i \in Arriving(ch, t)
  BY <1>1, <1>3, <1>7, ChannelRows
<1>8. CASE Uncut(tl, t)
  <2>1. Base(tl, t, B) = B
    BY <1>8, ChannelRows
  <2>2. CASE Cuts(h, t)
    <3>1. B = h.rows
      BY <2>2 DEF Cuts
    <3>2. ~Uncut(ch, t) /\ h.trunc # "no"
      BY <1>2, <2>2 DEF Cuts
    <3>3. ASSUME NEW i PROVE i \in Base(ch, t, A) <=> i \in h.rows
      <4>1. i \in Base(ch, t, A) <=> \E k \in DOMAIN ch : Cuts(ch[k], t) /\ Behind(ch, t, k) /\ i \in ch[k].rows
        BY <3>2, ChannelRows
      <4>2. \A k \in DOMAIN ch : Cuts(ch[k], t) => k = 1
        BY <1>1, <1>8 DEF Uncut
      <4>3. Cuts(ch[1], t) /\ Behind(ch, t, 1)
        BY <1>1, <1>3, <1>8, <2>2
      <4> QED
        BY <1>1, <4>1, <4>2, <4>3
    <3> QED
      BY <1>5, <1>6, <2>1, <3>1, <3>2, <3>3 DEF h, tl
  <2>3. CASE ~Cuts(h, t)
    <3>1. Base(ch, t, A) = A
      BY <1>2, <1>8, <2>3, ChannelRows
    <3>2. B = A \cup (IF h.table = t THEN h.rows ELSE {})
      BY <2>3
    <3>3. h.table = t => h.trunc = "no"
      BY <2>3 DEF Cuts
    <3> QED
      BY <1>5, <1>6, <1>7, <1>8, <2>1, <3>1, <3>2, <3>3 DEF h, tl
  <2> QED
    BY <2>2, <2>3
<1>9. CASE ~Uncut(tl, t)
  <2>1. ~Uncut(ch, t)
    BY <1>2, <1>9
  <2>2. ASSUME NEW i \in Base(ch, t, A) PROVE i \in Base(tl, t, B)
    <3>1. PICK k \in DOMAIN ch : Cuts(ch[k], t) /\ Behind(ch, t, k) /\ i \in ch[k].rows
      BY <2>1, ChannelRows
    <3>2. k # 1
      BY <1>3, <1>9, <3>1
    <3>3. k - 1 \in DOMAIN tl /\ tl[k - 1] = ch[k] /\ (k - 1) + 1 = k
      BY <1>1, <3>2
    <3>4. Behind(tl, t, k - 1)
      BY <1>4, <3>1, <3>3
    <3> QED
      BY <1>9, <3>1, <3>3, <3>4, ChannelRows
  <2>3. ASSUME NEW i \in Base(tl, t, B) PROVE i \in Base(ch, t, A)
    <3>1. PICK k \in DOMAIN tl : Cuts(tl[k], t) /\ Behind(tl, t, k) /\ i \in tl[k].rows
      BY <1>9, ChannelRows
    <3>2. k + 1 \in DOMAIN ch /\ tl[k] = ch[k + 1] /\ Behind(ch, t, k + 1)
      BY <1>1, <1>4, <3>1
    <3> QED
      BY <2>1, <3>1, <3>2, ChannelRows
  <2> QED
    BY <1>5, <1>6, <1>9, <2>2, <2>3 DEF h, tl
<1> QED
  BY <1>8, <1>9

(* To take a result, truncate by it and add its rows keeps a table         *)
(* following the log.                                                      *)
LEMMA FollowsTake ==
    ASSUME NEW lg, NEW R, NEW ch \in Seq(R), ch # <<>>, NEW t, NEW b, NEW A, NEW B,
           B = (IF Cuts(Head(ch), t) THEN {} ELSE A)
               \cup (IF Head(ch).table = t THEN Head(ch).rows ELSE {}),
           Follows(lg, ch, t, b, A)
    PROVE  Follows(lg, Tail(ch), t, b, B)
<1>1. /\ Arriving(Tail(ch), t) \subseteq Arriving(ch, t)
      /\ Arriving(ch, t) \subseteq Arriving(Tail(ch), t) \cup Base(Tail(ch), t, B)
      /\ Base(ch, t, A) \subseteq Base(Tail(ch), t, B)
      /\ Base(Tail(ch), t, B) \subseteq Arriving(ch, t) \cup Base(ch, t, A)
  BY TakenRows
<1>2. ASSUME NEW i, Covers(lg, t, Base(ch, t, A), i) PROVE Covers(lg, t, Base(Tail(ch), t, B), i)
  BY <1>1, <1>2 DEF Covers
<1>3. ASSUME NEW i \in Arriving(ch, t)
      PROVE  i \in Arriving(Tail(ch), t) \/ Covers(lg, t, Base(Tail(ch), t, B), i)
  BY <1>1 DEF Covers
<1>4. Past(lg, t, b) => Arriving(Tail(ch), t) \cup Base(Tail(ch), t, B) \subseteq Live(lg, t)
  BY <1>1 DEF Follows
<1> QED
  BY <1>2, <1>3, <1>4 DEF Follows

(* The rows of a channel that got one more result. *)
LEMMA AddedRows ==
    ASSUME NEW R, NEW ch \in Seq(R), NEW r \in R, NEW t, NEW A
    PROVE  LET ap == Append(ch, r)
           IN  /\ ~Cuts(r, t) => /\ Base(ap, t, A) = Base(ch, t, A)
                                 /\ \A i : i \in Arriving(ap, t) <=>
                                        i \in Arriving(ch, t) \/ (r.table = t /\ i \in r.rows)
               /\ Cuts(r, t) /\ r.rows = {} => Base(ap, t, A) = {} /\ Arriving(ap, t) = {}
<1> DEFINE ap == Append(ch, r)
           n == Len(ch)
<1>1. /\ n \in Nat /\ DOMAIN ch = 1..n /\ DOMAIN ap = 1..(n + 1) /\ ap[n + 1] = r
      /\ \A k \in 1..n : ap[k] = ch[k]
  BY AppendProperties, LenProperties
<1> HIDE DEF ap, n
<1>2. CASE ~Cuts(r, t)
  <2>1. Uncut(ap, t) <=> Uncut(ch, t)
    BY <1>1, <1>2 DEF Uncut
  <2>2. \A k \in DOMAIN ch : k \in DOMAIN ap /\ ap[k] = ch[k] /\ (Behind(ap, t, k) <=> Behind(ch, t, k))
    <3>1. ASSUME NEW k \in DOMAIN ch PROVE Behind(ap, t, k) <=> Behind(ch, t, k)
      <4>1. \A j \in DOMAIN ap : (j \in DOMAIN ch /\ ap[j] = ch[j]) \/ ap[j] = r
        BY <1>1
      <4>2. \A j \in DOMAIN ch : j \in DOMAIN ap /\ ap[j] = ch[j]
        BY <1>1
      <4> QED
        BY <4>1, <4>2, <1>2 DEF Behind
    <3> QED
      BY <1>1, <3>1
  <2>3. Behind(ap, t, n + 1) /\ n + 1 \in DOMAIN ap
    BY <1>1 DEF Behind
  <2>4. \A k \in DOMAIN ap : k \in DOMAIN ch \/ (k = n + 1 /\ ap[k] = r)
    BY <1>1
  <2>5. Base(ap, t, A) = Base(ch, t, A)
    <3>1. CASE Uncut(ch, t)
      BY <2>1, <3>1, ChannelRows
    <3>2. CASE ~Uncut(ch, t)
      <4>1. \A i : i \in Base(ap, t, A) <=>
                  \E k \in DOMAIN ap : Cuts(ap[k], t) /\ Behind(ap, t, k) /\ i \in ap[k].rows
        BY <2>1, <3>2, ChannelRows
      <4>2. \A i : i \in Base(ch, t, A) <=>
                  \E k \in DOMAIN ch : Cuts(ch[k], t) /\ Behind(ch, t, k) /\ i \in ch[k].rows
        BY <3>2, ChannelRows
      <4>3. \A i : i \in Base(ap, t, A) <=> i \in Base(ch, t, A)
        BY <4>1, <4>2, <2>2, <2>4, <1>2
      <4>4. Base(ap, t, A) = UNION {ap[k].rows : k \in {k \in DOMAIN ap : Cuts(ap[k], t) /\ Behind(ap, t, k)}}
            /\ Base(ch, t, A) = UNION {ch[k].rows : k \in {k \in DOMAIN ch : Cuts(ch[k], t) /\ Behind(ch, t, k)}}
        BY <2>1, <3>2 DEF Base
      <4> QED
        BY <4>3, <4>4
    <3> QED
      BY <3>1, <3>2
  <2>6. \A i : i \in Arriving(ap, t) <=> i \in Arriving(ch, t) \/ (r.table = t /\ i \in r.rows)
    <3>1. r.table = t => r.trunc = "no"
      BY <1>2 DEF Cuts
    <3>2. \A i : i \in Arriving(ap, t) <=>
              \E k \in DOMAIN ap : ap[k].table = t /\ ap[k].trunc = "no" /\ Behind(ap, t, k) /\ i \in ap[k].rows
      BY ChannelRows
    <3>3. \A i : i \in Arriving(ch, t) <=>
              \E k \in DOMAIN ch : ch[k].table = t /\ ch[k].trunc = "no" /\ Behind(ch, t, k) /\ i \in ch[k].rows
      BY ChannelRows
    <3> QED
      BY <1>1, <2>2, <2>3, <2>4, <3>1, <3>2, <3>3
  <2> QED
    BY <1>2, <2>5, <2>6 DEF ap
<1>3. CASE Cuts(r, t) /\ r.rows = {}
  <2>1. ~Uncut(ap, t)
    BY <1>1, <1>3 DEF Uncut
  <2>2. \A k \in DOMAIN ap : Behind(ap, t, k) => k = n + 1
    BY <1>1, <1>3 DEF Behind
  <2>3. ASSUME NEW k \in DOMAIN ap, Behind(ap, t, k) PROVE ap[k].rows = {} /\ ap[k].trunc # "no"
    BY <1>1, <1>3, <2>2, <2>3 DEF Cuts
  <2>4. Arriving(ap, t) = {}
    BY <2>3 DEF Arriving
  <2>5. Base(ap, t, A) = {}
    BY <2>1, <2>3 DEF Base
  <2> QED
    BY <1>3, <2>4, <2>5 DEF ap
<1> QED
  BY <1>2, <1>3 DEF ap

(* The source goes past a record of another table, or of the table's own   *)
(* that the table has already.                                             *)
LEMMA FollowsPassed ==
    ASSUME NEW lg \in Logs, NEW ch, NEW t, NEW A, NEW n \in Nat, n < Len(lg), NEW p \in Nat,
           lg[n + 1].table # t \/ n + 1 <= p,
           Follows(lg, ch, t, Max2(n, p), A)
    PROVE  Follows(lg, ch, t, Max2(n + 1, p), A)
<1>1. Len(lg) \in Nat /\ Live(lg, t) \subseteq 1..Len(lg) /\ TruncatesIn(lg, t) \subseteq 1..Len(lg)
  BY LogData, LiveRows DEF TruncatesIn
<1>2. CASE n + 1 <= p
  <2>1. Max2(n + 1, p) = p /\ Max2(n, p) = p
    BY <1>2 DEF Max2
  <2> QED
    BY <2>1
<1>3. CASE n + 1 > p /\ lg[n + 1].table # t
  <2>1. Max2(n + 1, p) = n + 1 /\ Max2(n, p) = n
    BY <1>3 DEF Max2
  <2>2. n + 1 \notin Live(lg, t) /\ n + 1 \notin TruncatesIn(lg, t)
    BY <1>3 DEF Live, PutsIn, TruncatesIn
  <2>3. Past(lg, t, n + 1) => Past(lg, t, n)
    BY <1>1, <2>2 DEF Past
  <2>4. \A i \in Live(lg, t) : i <= n + 1 => i <= n
    BY <1>1, <2>2
  <2> QED
    BY <2>1, <2>3, <2>4 DEF Follows
<1> QED
  BY <1>2, <1>3

(* The source sends a record of the table. *)
LEMMA FollowsSend ==
    ASSUME NEW lg \in Logs, NEW R, NEW ch \in Seq(R), NEW t, NEW A, NEW n \in Nat, n < Len(lg),
           NEW p \in Nat, p <= n, lg[n + 1].table = t, NEW r \in R, r.table = t,
           \/ r.trunc = "no" /\ r.rows = {n + 1} /\ lg[n + 1].op = "put"
           \/ r.trunc = "log" /\ r.rows = {} /\ lg[n + 1].op = "truncate",
           Follows(lg, ch, t, Max2(n, p), A)
    PROVE  Follows(lg, Append(ch, r), t, Max2(n + 1, p), A)
<1>1. /\ Len(lg) \in Nat /\ Live(lg, t) \subseteq 1..Len(lg) /\ TruncatesIn(lg, t) \subseteq 1..Len(lg)
      /\ PutsIn(lg, t) \subseteq 1..Len(lg) /\ n + 1 \in 1..Len(lg)
  BY LogData, LiveRows DEF TruncatesIn, PutsIn
<1>2. Max2(n + 1, p) = n + 1 /\ Max2(n, p) = n
  BY DEF Max2
<1>3. CASE r.trunc = "no"
  <2>1. r.rows = {n + 1} /\ lg[n + 1].op = "put" /\ ~Cuts(r, t)
    BY <1>3 DEF Cuts
  <2>2. n + 1 \in PutsIn(lg, t) /\ n + 1 \notin TruncatesIn(lg, t)
    BY <1>1, <2>1 DEF PutsIn, TruncatesIn
  <2>3. /\ Base(Append(ch, r), t, A) = Base(ch, t, A)
        /\ \A i : i \in Arriving(Append(ch, r), t) <=> i \in Arriving(ch, t) \/ i = n + 1
    <3>1. /\ Base(Append(ch, r), t, A) = Base(ch, t, A)
          /\ \A i : i \in Arriving(Append(ch, r), t) <=>
                  i \in Arriving(ch, t) \/ (r.table = t /\ i \in r.rows)
      <4>1. ~Cuts(r, t)
        BY <2>1
      <4> QED
        BY ZenonT(60), <4>1, AddedRows
    <3>2. \A i : i \in r.rows <=> i = n + 1
      BY <2>1
    <3> QED
      BY <3>1, <3>2
  <2>4. Past(lg, t, n + 1) => Past(lg, t, n) /\ n + 1 \in Live(lg, t)
    BY <1>1, <2>2 DEF Past, Live
  <2>5. \A i \in Live(lg, t) : i <= n + 1 => i <= n \/ i = n + 1
    BY <1>1
  <2> QED
    BY <1>2, <2>3, <2>4, <2>5 DEF Follows
<1>4. CASE r.trunc # "no"
  <2>1. r.rows = {} /\ lg[n + 1].op = "truncate" /\ Cuts(r, t)
    BY <1>4 DEF Cuts
  <2>2. n + 1 \in TruncatesIn(lg, t)
    BY <1>1, <2>1 DEF TruncatesIn
  <2>3. Base(Append(ch, r), t, A) = {} /\ Arriving(Append(ch, r), t) = {}
    BY <2>1, AddedRows
  <2>4. \A i \in Live(lg, t) : ~(i <= n + 1)
    BY <1>1, <2>2 DEF Live
  <2> QED
    BY <1>2, <2>3, <2>4 DEF Follows
<1> QED
  BY <1>3, <1>4

(* A result of another table changes nothing for a table. *)
LEMMA FollowsOther ==
    ASSUME NEW lg, NEW R, NEW ch \in Seq(R), NEW t, NEW A, NEW b, NEW r \in R,
           r.table # t \/ (r.trunc = "no" /\ r.rows = {}),
           Follows(lg, ch, t, b, A)
    PROVE  Follows(lg, Append(ch, r), t, b, A)
<1>1. ~Cuts(r, t) /\ \A i : ~(r.table = t /\ i \in r.rows)
  BY DEF Cuts
<1>2. /\ Base(Append(ch, r), t, A) = Base(ch, t, A)
      /\ \A i : i \in Arriving(Append(ch, r), t) <=> i \in Arriving(ch, t)
  BY <1>1, AddedRows
<1> QED
  BY <1>2 DEF Follows

(* A row that the log leaves is behind every truncate. *)
LEMMA LivePast ==
    ASSUME NEW lg \in Logs, NEW t, NEW b \in Int, NEW i \in Live(lg, t), i <= b
    PROVE  Past(lg, t, b)
<1>1. Len(lg) \in Nat /\ Live(lg, t) \subseteq 1..Len(lg) /\ TruncatesIn(lg, t) \subseteq 1..Len(lg)
  BY LogData, LiveRows DEF TruncatesIn
<1> QED
  BY <1>1 DEF Live, Past

(* A channel that has nothing for a table. *)
LEMMA FollowsQuiet ==
    ASSUME NEW lg \in Logs, NEW ch, NEW t, NEW A, NEW b \in Int,
           \A k \in DOMAIN ch : ch[k].table = t => ch[k].trunc = "no" /\ ch[k].rows = {}
    PROVE  Restores(lg, t, A, b) <=> Follows(lg, ch, t, b, A)
<1>1. Uncut(ch, t)
  BY DEF Uncut, Cuts
<1>2. Base(ch, t, A) = A
  BY <1>1 DEF Base
<1>3. Arriving(ch, t) = {}
  <2>1. \A i : i \notin Arriving(ch, t)
    BY ChannelRows
  <2> QED
    BY <2>1
<1>4. \A i \in Live(lg, t) : i <= b => Past(lg, t, b)
  BY LivePast
<1> QED
  BY <1>2, <1>3, <1>4 DEF Follows, Restores

(* A channel with a snapshot of a table and nothing else for it. *)
LEMMA FollowsSnapshot ==
    ASSUME NEW lg \in Logs, NEW ch, NEW t, NEW A, NEW S, NEW b \in Int, NEW k \in DOMAIN ch, Cuts(ch[k], t), ch[k].rows = S,
           \A j \in DOMAIN ch : j # k /\ ch[j].table = t => ch[j].trunc = "no" /\ ch[j].rows = {},
           DOMAIN ch \subseteq Int,
           Restores(lg, t, S, b)
    PROVE  Follows(lg, ch, t, b, A)
<1>1. ~Uncut(ch, t)
  BY DEF Uncut
<1>2. \A j \in DOMAIN ch : Cuts(ch[j], t) => j = k
  BY DEF Cuts
<1>3. Behind(ch, t, k)
  BY <1>2 DEF Behind
<1>4. \A i : i \in Base(ch, t, A) <=> i \in S
  BY <1>1, <1>2, <1>3, ChannelRows
<1>5. Arriving(ch, t) = {}
  <2>1. \A i : i \notin Arriving(ch, t)
    BY ChannelRows DEF Cuts
  <2> QED
    BY <2>1
<1>6. Past(lg, t, b) => Arriving(ch, t) \cup Base(ch, t, A) \subseteq Live(lg, t)
  BY <1>4, <1>5 DEF Restores
<1>7. ASSUME NEW i \in Live(lg, t), i <= b PROVE Covers(lg, t, Base(ch, t, A), i)
  BY <1>4, <1>7, LivePast DEF Restores, Covers
<1> QED
  BY <1>6, <1>7 DEF Follows

----------------------------------------------------------------------------
(* A position that is claimed for a table, before every record of it that  *)
(* is under way: no truncate is under way that it does not know.           *)
LEMMA ClaimUncut ==
    ASSUME Shape, ChannelOK, NEW t \in Tables, NEW q \in Positions,
           Before(channel, t, q), ~Fresh(channel, t), Past(log, t, q)
    PROVE  Uncut(channel, t)
<1>1. Len(log) \in Nat /\ Positions = 0..Len(log)
  BY LogTerms DEF Shape
<1>2. ASSUME NEW k \in DOMAIN channel, Cuts(channel[k], t) PROVE FALSE
  <2> DEFINE r == channel[k]
  <2>1. r \in Results /\ ResultOK(log, next, processed, r)
    BY DEF Shape, ChannelOK
  <2>2. r.table = t /\ r.trunc = "log"
    BY <1>2, <2>1 DEF Cuts, Fresh, Results
  <2>3. IsRecord(r) /\ r.at \in 1..Len(log) /\ log[r.at].table = t /\ log[r.at].op = "truncate"
    BY <1>1, <2>1, <2>2 DEF ResultOK, IsRecord, Results
  <2>4. r.at \in TruncatesIn(log, t) /\ q < r.at
    BY <2>2, <2>3 DEF TruncatesIn, Before
  <2> QED
    BY <1>1, <2>3, <2>4 DEF Past
<1> QED
  BY <1>2 DEF Uncut

(* What is claimed of a table is so: the rows it has restore it up to the  *)
(* position.                                                               *)
LEMMA ClaimHolds ==
    ASSUME Shape, ChannelOK, NEW t \in Tables, NEW A, NEW b \in Positions, NEW q \in Positions, q <= b,
           Before(channel, t, q), ~Fresh(channel, t), Follows(log, channel, t, b, A)
    PROVE  Restores(log, t, A, q)
<1>1. Len(log) \in Nat /\ Positions = 0..Len(log) /\ log \in Logs /\ Live(log, t) \in SUBSET (1..Len(log))
  BY LogTerms, LiveRows DEF Shape
<1>2. SUFFICES ASSUME Past(log, t, q)
               PROVE  A \subseteq Live(log, t) /\ \A i \in Live(log, t) : i <= q => Covers(log, t, A, i)
  BY DEF Restores
<1>3. Base(channel, t, A) = A
  BY <1>2, ClaimUncut DEF Base
<1>4. Past(log, t, b)
  <2>1. TruncatesIn(log, t) \subseteq 1..Len(log)
    BY DEF TruncatesIn
  <2>2. \A u \in TruncatesIn(log, t) : u <= q
    BY <1>2 DEF Past
  <2>3. \A u \in TruncatesIn(log, t) : u <= b
    BY <1>1, <2>1, <2>2
  <2> QED
    BY <2>3 DEF Past
<1>5. ASSUME NEW i \in Live(log, t), i <= q PROVE i \notin Arriving(channel, t)
  <2> SUFFICES ASSUME i \in Arriving(channel, t) PROVE FALSE
    OBVIOUS
  <2>1. PICK k \in DOMAIN channel : channel[k].table = t /\ channel[k].trunc = "no" /\ i \in channel[k].rows
    BY ChannelRows
  <2> DEFINE r == channel[k]
  <2>2. r \in Results /\ ResultOK(log, next, processed, r)
    BY DEF Shape, ChannelOK
  <2>3. IsRecord(r) /\ i = r.at
    BY <2>1, <2>2 DEF ResultOK
  <2>4. q < r.at
    BY <2>1, <2>3 DEF Before
  <2> QED
    BY <1>1, <1>5, <2>3, <2>4
<1>6. ASSUME NEW i \in Live(log, t), i <= q PROVE Covers(log, t, A, i)
  <2>1. i <= b
    BY <1>1, <1>6
  <2> QED
    BY <1>3, <1>5, <1>6, <2>1 DEF Follows
<1> QED
  BY <1>3, <1>4, <1>6 DEF Follows

----------------------------------------------------------------------------
(* ResumeInv holds initially. *)
LEMMA ResumeInit == ASSUME Init PROVE ResumeInv
BY LogTerms DEF Init, ResumeInv, Heads, Certified, Active, Zero

(* A step that leaves what is sent, held, claimed and flushed.             *)
LEMMA ResumeSame ==
    ASSUME ResumeInv,
           UNCHANGED <<log, head, next, processed, acked, channel, dest, staging>>,
           UNCHANGED <<complete, checkpoint, knownComplete, step, rows>>,
           UNCHANGED <<pending, lastToken, pendingState, pendingTruncates>>,
           Active' => Active, pc' \in {"flush", "commit", "truncate"} => pc' = pc
    PROVE  ResumeInv'
<1>1. Heads' /\ Certified'
  BY DEF ResumeInv, Heads, Certified
<1>2. ASSUME Active' PROVE ChannelOK' /\ ClaimsOK' /\ FlushOK' /\ TablesOK'
  <2>1. ChannelOK /\ ClaimsOK /\ FlushOK /\ TablesOK
    BY <1>2 DEF ResumeInv
  <2>2. ChannelOK'
    BY <2>1 DEF ChannelOK
  <2>3. ClaimsOK'
    BY <2>1 DEF ClaimsOK, Globals, Claims, Bound
  <2>4. FlushOK'
    BY <2>1 DEF FlushOK, Buffered
  <2>5. TablesOK'
    BY <2>1 DEF TablesOK, Bound, Have, InFlight
  <2> QED
    BY <2>2, <2>3, <2>4, <2>5
<1> QED
  BY <1>1, <1>2 DEF ResumeInv

(* The steps of which nothing is seen: a cancellation, a shutdown, the end *)
(* of a cycle, the end of the source, and no step.                         *)
LEMMA ResumeIdle ==
    ASSUME StreamInv, ResumeInv, SourceEnds \/ Cancel \/ Shutdown \/ EndCycle \/ UNCHANGED vars
    PROVE  ResumeInv'
<1>1. /\ UNCHANGED <<log, head, next, processed, acked, channel, dest, staging>>
      /\ UNCHANGED <<complete, checkpoint, knownComplete, step, rows>>
      /\ UNCHANGED <<pending, lastToken, pendingState, pendingTruncates>>
  BY DEF SourceEnds, Cancel, Shutdown, EndCycle, vars, sourceVars, stateVars, destVars, flushVars, bufferVars
<1>2. Active' => Active
  BY DEF SourceEnds, Cancel, Shutdown, EndCycle, Written, vars, Active
<1>3. pc' \in {"flush", "commit", "truncate"} => pc' = pc
  BY DEF SourceEnds, Cancel, Shutdown, EndCycle, vars, StreamInv, Steps
<1> QED
  BY <1>1, <1>2, <1>3, ResumeSame

(* A failure leaves the tables and what is claimed of them. *)
LEMMA ResumeFail == ASSUME ResumeInv, Fail PROVE ResumeInv'
<1>1. UNCHANGED <<log, head, acked, dest, complete, checkpoint>> /\ pc' = "down"
  BY DEF Fail, stateVars, destVars
<1> QED
  BY <1>1 DEF ResumeInv, Heads, Certified, Active

(* The positions of the specification are numbers up to the log's end. *)
LEMMA ClaimTypes ==
    ASSUME Shape, NEW t \in Tables
    PROVE  /\ log \in Logs /\ Len(log) \in Nat /\ Positions = 0..Len(log) /\ Bound(t) \in Positions
           /\ next <= Bound(t) /\ processed[t] <= Bound(t)
           /\ acked \in Positions /\ checkpoint \in Positions /\ lastToken \in Positions
           /\ next \in Positions /\ head \in Positions
           /\ pendingState.pos \in Positions /\ pendingState.snaps[t] \in Positions
           /\ complete[t] \in Positions /\ knownComplete[t] \in Positions /\ processed[t] \in Positions
           /\ \A q \in Globals \cup Claims(t) : q \in Positions
<1>1. /\ log \in Logs /\ next \in Positions /\ processed[t] \in Positions
      /\ acked \in Positions /\ checkpoint \in Positions /\ lastToken \in Positions /\ head \in Positions
      /\ pendingState.pos \in Positions /\ pendingState.snaps[t] \in Positions
      /\ complete[t] \in Positions /\ knownComplete[t] \in Positions
  BY DEF Shape
<1>2. Len(log) \in Nat /\ Positions = 0..Len(log)
  BY <1>1, LogTerms
<1>3. Bound(t) \in Positions /\ next <= Bound(t) /\ processed[t] <= Bound(t)
  BY <1>1, <1>2 DEF Bound, Max2
<1> QED
  BY <1>1, <1>2, <1>3 DEF Globals, Claims

(* Position 0 claims nothing. *)
LEMMA NothingClaimed ==
    ASSUME Shape, NEW t \in Tables
    PROVE  0 <= Bound(t) /\ 0 <= next /\ 0 <= head /\ Before(channel, t, 0)
<1>1. 0 <= Bound(t) /\ 0 <= next /\ 0 <= head
  BY ClaimTypes
<1>2. \A k \in DOMAIN channel : channel[k] \in Results
  BY DEF Shape
<1>3. \A k \in DOMAIN channel : channel[k].at \in Nat
  BY <1>2, LogTerms DEF Shape, Results
<1> QED
  BY <1>1, <1>3 DEF Before, IsRecord

(* All that is claimed of a table for which nothing is held back is so. *)
LEMMA ClaimRestores ==
    ASSUME Shape, ResumeInv, Active, NEW t \in Tables, pending[t] = {}, InFlight(t) = {},
           ~Fresh(channel, t), NEW q \in Globals \cup Claims(t)
    PROVE  Restores(log, t, dest[t], q)
<1>1. ChannelOK /\ ClaimsOK /\ TablesOK
  BY DEF ResumeInv
<1>2. q \in Positions /\ Bound(t) \in Positions
  BY ClaimTypes
<1>3. q <= Bound(t) /\ Before(channel, t, q)
  BY <1>1 DEF ClaimsOK
<1>4. Have(t) = dest[t]
  BY DEF Have
<1>5. Follows(log, channel, t, Bound(t), dest[t])
  BY <1>1, <1>4 DEF TablesOK
<1> QED
  BY <1>1, <1>2, <1>3, <1>5, ClaimHolds

(* What is persisted was claimed, and every table has what was buffered. *)
LEMMA ResumePersist == ASSUME StreamInv, ResumeInv, Persist PROVE ResumeInv'
<1>u. /\ UNCHANGED <<log, head, next, processed, acked, channel, dest, staging>>
      /\ UNCHANGED <<step, rows, pending, lastToken, pendingState, pendingTruncates>>
      /\ pc = "flush" /\ pc' = "commit" /\ knownComplete' = Zero
      /\ checkpoint' = Max2(checkpoint, pendingState.pos)
  BY DEF Persist, Written, sourceVars, flushVars, bufferVars
<1>s. Shape /\ Active /\ ChannelOK /\ ClaimsOK /\ FlushOK /\ TablesOK /\ Heads /\ Certified
  BY <1>u DEF StreamInv, ResumeInv, Active
<1>1. \A t \in Tables : step[t] = "none" /\ pending[t] = {} /\ InFlight(t) = {}
  BY <1>u, <1>s DEF Persist, Written, InFlight, FlushOK, Buffered
<1>2. ASSUME NEW t \in Tables
      PROVE  complete'[t] \in Claims(t) \cup {pendingState.pos}
             /\ (pendingState.snaps[t] = 0 /\ knownComplete[t] = 0 => complete'[t] = complete[t])
  <2> DEFINE at == CASE pendingState.snaps[t] # 0 -> pendingState.snaps[t]
                     [] pendingState.snaps[t] = 0 /\ knownComplete[t] # 0 ->
                            IF pendingState.pos # 0 THEN pendingState.pos ELSE knownComplete[t]
                     [] OTHER -> 0
  <2>1. complete'[t] = Max2(complete[t], at)
    BY DEF Persist
  <2>2. at \in {pendingState.snaps[t], pendingState.pos, knownComplete[t], 0}
    OBVIOUS
  <2>3. complete[t] \in Nat
    BY <1>s, ClaimTypes
  <2>4. complete'[t] = complete[t] \/ (complete'[t] = at /\ at # 0)
    BY <2>1, <2>2, <2>3, <1>s, ClaimTypes DEF Max2
  <2>5. pendingState.snaps[t] = 0 /\ knownComplete[t] = 0 => at = 0
    OBVIOUS
  <2> HIDE DEF at
  <2> QED
    BY <2>2, <2>4, <2>5 DEF Claims
<1>3. checkpoint' \in {checkpoint, pendingState.pos}
  BY <1>u DEF Max2
<1>4. \A q \in Globals' : q \in Globals
  BY <1>u, <1>3 DEF Globals
<1>5. \A t \in Tables : \A q \in Claims(t)' : q \in Claims(t) \cup Globals \cup {0}
  BY <1>u, <1>2 DEF Claims, Globals, Zero
<1>6. ASSUME NEW t \in Tables PROVE \A q \in Globals' \cup Claims(t)' : q \in Claims(t) \cup Globals \cup {0}
  BY <1>4, <1>5
<1>7. Heads'
  <2>1. \A q \in Globals : q <= head
    BY <1>s, ClaimTypes DEF ClaimsOK, Globals, Shape, Positions
  <2>2. checkpoint' \in Globals /\ acked \in Globals
    BY <1>3 DEF Globals
  <2>3. ASSUME NEW t \in Tables PROVE complete'[t] <= head
    <3>1. complete'[t] \in Claims(t) \cup Globals
      BY <1>2 DEF Globals
    <3>2. \A q \in Claims(t) : q <= Bound(t)
      BY <1>s DEF ClaimsOK
    <3>3. Bound(t) <= head
      BY <1>s DEF ClaimsOK, Bound, Max2
    <3>4. \A q \in Claims(t) : q <= head
      BY <3>2, <3>3, <1>s, ClaimTypes
    <3> QED
      BY <2>1, <3>1, <3>4
  <2> QED
    BY <1>u, <2>1, <2>2, <2>3 DEF Heads
<1>8. Certified'
  <2>1. ASSUME NEW t \in Tables, complete'[t] # 0, NEW q \in {acked, checkpoint', complete'[t]}
        PROVE  Restores(log, t, dest[t], q)
    <3>1. ~Fresh(channel, t)
      <4>1. Fresh(channel, t) => pendingState.snaps[t] = 0 /\ knownComplete[t] = 0 /\ complete[t] = 0
        BY <1>s DEF ClaimsOK, Claims
      <4> QED
        BY <4>1, <1>2, <2>1
    <3>2. q \in Globals \cup Claims(t)
      BY <1>2, <1>3 DEF Globals
    <3> QED
      BY <1>1, <1>s, <3>1, <3>2, ClaimRestores
  <2> QED
    BY <1>u, <2>1 DEF Certified
<1>9. ChannelOK' /\ FlushOK' /\ TablesOK'
  BY <1>u, <1>s DEF ChannelOK, FlushOK, TablesOK, Bound, Have, InFlight, Buffered
<1>10. ClaimsOK'
  <2>1. \A q \in Globals' : q <= next
    BY <1>4, <1>s DEF ClaimsOK
  <2>2. ASSUME NEW t \in Tables, NEW q \in Globals' \cup Claims(t)'
        PROVE  q <= Bound(t) /\ Before(channel, t, q)
    <3>1. CASE q \in Claims(t) \cup Globals
      BY <3>1, <1>s DEF ClaimsOK
    <3>2. CASE q = 0
      BY <3>2, <1>s, NothingClaimed
    <3> QED
      BY <1>6, <3>1, <3>2
  <2>3. ASSUME NEW t \in Tables, Fresh(channel, t) PROVE \A q \in Claims(t)' : q = 0
    <3>1. pendingState.snaps[t] = 0 /\ knownComplete[t] = 0 /\ complete[t] = 0
      BY <2>3, <1>s DEF ClaimsOK, Claims
    <3> QED
      BY <3>1, <1>2, <1>u DEF Claims, Zero
  <2> QED
    BY <1>u, <1>s, <2>1, <2>2, <2>3 DEF ClaimsOK, Bound
<1> QED
  BY <1>7, <1>8, <1>9, <1>10 DEF ResumeInv

(* What is committed was claimed, and then less is. *)
LEMMA ResumeCommit == ASSUME StreamInv, ResumeInv, CommitStream PROVE ResumeInv'
<1>u. /\ UNCHANGED <<log, head, next, processed, channel, dest, staging>>
      /\ UNCHANGED <<complete, checkpoint, knownComplete, step, rows, pending, lastToken, pendingTruncates>>
      /\ pc = "commit" /\ pc' = cont /\ acked' = Max2(acked, lastToken) /\ pendingState' = NoState
  BY DEF CommitStream, stateVars, destVars, flushVars
<1>s. Shape /\ Steps /\ Active /\ ChannelOK /\ ClaimsOK /\ FlushOK /\ TablesOK /\ Heads /\ Certified
  BY <1>u DEF StreamInv, ResumeInv, Active
<1>1. \A t \in Tables : pending[t] = {} /\ InFlight(t) = {}
  BY <1>u, <1>s DEF Steps, InFlight, FlushOK, Buffered
<1>2. acked' \in {acked, lastToken} /\ acked' \in Globals
  BY <1>u DEF Max2, Globals
<1>3. \A t \in Tables : \A q \in Globals' \cup Claims(t)' : q \in Globals \cup Claims(t) \cup {0}
  BY <1>u, <1>2 DEF Globals, Claims, NoState, Zero
<1>4. Heads'
  <2>1. acked' <= next /\ next <= head
    BY <1>2, <1>s DEF ClaimsOK
  <2>2. acked' \in Nat /\ next \in Nat /\ head \in Nat
    BY <1>2, <1>s, LogTerms DEF Shape
  <2> QED
    BY <1>u, <1>s, <2>1, <2>2 DEF Heads
<1>5. Certified'
  <2>1. ASSUME NEW t \in Tables, complete[t] # 0 PROVE Restores(log, t, dest[t], acked')
    <3>1. ~Fresh(channel, t)
      BY <2>1, <1>s DEF ClaimsOK, Claims
    <3> QED
      BY <1>1, <1>2, <1>s, <3>1, ClaimRestores
  <2> QED
    BY <1>u, <1>s, <2>1 DEF Certified
<1>6. ChannelOK' /\ FlushOK' /\ TablesOK'
  <2>1. cont \notin {"flush", "commit", "truncate"}
    BY <1>s DEF Steps
  <2> QED
    BY <1>u, <1>s, <2>1 DEF ChannelOK, FlushOK, TablesOK, Bound, Have, InFlight
<1>7. ClaimsOK'
  <2>1. \A q \in Globals' : q <= next
    <3>1. \A q \in Globals' : q \in Globals \cup {0}
      BY <1>u, <1>2 DEF Globals, NoState
    <3>2. 0 <= next
      BY <1>s, LogTerms DEF Shape
    <3> QED
      BY <3>1, <3>2, <1>s DEF ClaimsOK
  <2>2. \A t \in Tables : \A q \in Globals' \cup Claims(t)' : q <= Bound(t) /\ Before(channel, t, q)
    BY <1>3, <1>s, NothingClaimed DEF ClaimsOK
  <2>3. \A t \in Tables : Fresh(channel, t) => \A q \in Claims(t)' : q = 0
    BY <1>u, <1>s DEF ClaimsOK, Claims, NoState, Zero
  <2>4. pendingState'.pos = 0
    BY <1>u DEF NoState
  <2> QED
    BY <1>u, <1>s, <2>1, <2>2, <2>3, <2>4 DEF ClaimsOK, Bound
<1> QED
  BY <1>4, <1>5, <1>6, <1>7 DEF ResumeInv

(* A flush holds what was buffered. *)
LEMMA ResumeBeginFlush == ASSUME StreamInv, ResumeInv, BeginFlush PROVE ResumeInv'
<1>u. /\ UNCHANGED <<log, head, next, processed, acked, channel, dest, staging>>
      /\ UNCHANGED <<complete, checkpoint, knownComplete, lastToken, pendingState, pendingTruncates>>
      /\ pc \in {"run", "drain", "final"} /\ pc' = "flush" /\ rows' = pending /\ pending' = None
  BY DEF BeginFlush, sourceVars, stateVars, destVars
<1>s. Shape /\ Steps /\ Active /\ ChannelOK /\ ClaimsOK /\ FlushOK /\ TablesOK /\ Heads /\ Certified
  BY <1>u DEF StreamInv, ResumeInv, Active
<1>1. ASSUME NEW t \in Tables PROVE Have(t)' = Have(t)
  <2>1. step[t] = "none"
    BY <1>u, <1>s DEF Steps
  <2>2. step'[t] \in {"invalidate", "append", "write"} \/ (step'[t] = "none" /\ pending[t] = {})
    BY DEF BeginFlush
  <2>3. Have(t) = dest[t] \cup pending[t]
    BY <2>1 DEF Have, InFlight
  <2>4. Have(t)' = dest[t] \cup InFlight(t)'
    BY <1>u DEF Have, None
  <2>5. InFlight(t)' = pending[t]
    BY <1>u, <2>2 DEF InFlight
  <2> QED
    BY <2>3, <2>4, <2>5
<1>2. TablesOK'
  BY <1>u, <1>s, <1>1 DEF TablesOK, Bound
<1>3. FlushOK'
  <2>1. \A t \in Tables : staging[t] = {}
    BY <1>u, <1>s DEF Steps, FlushOK
  <2> QED
    BY <1>u, <2>1 DEF FlushOK, Buffered, None
<1>4. ChannelOK' /\ ClaimsOK' /\ Heads' /\ Certified'
  BY <1>u, <1>s DEF ChannelOK, ClaimsOK, Heads, Certified, Globals, Claims, Bound
<1> QED
  BY <1>2, <1>3, <1>4 DEF ResumeInv

(* What a merge leaves restores what its operands restored. *)
LEMMA RestoresLess ==
    ASSUME NEW lg \in Logs, NEW t, NEW q, NEW A \in SUBSET (1..Len(lg)), NEW B \in SUBSET A,
           \A i \in A : Covers(lg, t, B, i), Restores(lg, t, A, q)
    PROVE  Restores(lg, t, B, q)
<1>1. Live(lg, t) \subseteq 1..Len(lg)
  BY LiveRows
<1>2. \A i \in Live(lg, t) : Covers(lg, t, A, i) => Covers(lg, t, B, i)
  BY <1>1, CoversMore
<1> QED
  BY <1>2 DEF Restores

(* The rows that a flush holds for a table are merged into it. *)
LEMMA ResumeMerge ==
    ASSUME StreamInv, ResumeInv, NEW t \in Tables, pc = "flush", pc' = "flush",
           UNCHANGED <<log, head, next, processed, acked, channel, staging>>,
           UNCHANGED <<complete, checkpoint, knownComplete, rows>>,
           UNCHANGED <<pending, lastToken, pendingState, pendingTruncates>>,
           dest' = [dest EXCEPT ![t] = Upsert(t, dest[t], InFlight(t))],
           \E s \in {"none", "reset"} : step' = [step EXCEPT ![t] = s] /\ (staging[t] # {} => s = "reset")
    PROVE  ResumeInv'
<1>s. Shape /\ Active /\ ChannelOK /\ ClaimsOK /\ FlushOK /\ TablesOK /\ Heads /\ Certified
  BY DEF StreamInv, ResumeInv, Active
<1>1. PICK s \in {"none", "reset"} : step' = [step EXCEPT ![t] = s] /\ (staging[t] # {} => s = "reset")
  OBVIOUS
<1>2. /\ log \in Logs /\ Lsns = 1..Len(log) /\ dest[t] \in SUBSET Lsns /\ InFlight(t) \in SUBSET Lsns
      /\ pending[t] = {}
  BY <1>s, LogTerms DEF Shape, InFlight, FlushOK, Buffered
<1> DEFINE B == Upsert(t, dest[t], InFlight(t))
<1>3. Have(t) = dest[t] \cup InFlight(t) /\ Have(t) \in SUBSET (1..Len(log))
  BY <1>2 DEF Have
<1>4. B \in SUBSET Have(t) /\ \A i \in Have(t) : Covers(log, t, B, i)
  <2>1. B \subseteq dest[t] \cup InFlight(t) /\ \A i \in dest[t] \cup InFlight(t) : Covers(log, t, B, i)
    BY <1>2, UpsertCovers
  <2> QED
    BY <1>3, <2>1
<1>5. dest'[t] = B /\ \A u \in Tables : u # t => dest'[u] = dest[u]
  BY <1>s DEF Shape
<1> HIDE DEF B
<1>6. \A u \in Tables : u # t => Have(u)' = Have(u)
  <2>1. \A u \in Tables : u # t => step'[u] = step[u]
    BY <1>1, <1>s DEF Shape
  <2> QED
    BY <1>5, <2>1 DEF Have, InFlight
<1>7. Have(t)' = B
  <2>1. step'[t] \in {"none", "reset"}
    BY <1>1, <1>s DEF Shape
  <2> QED
    BY <1>2, <1>5, <2>1 DEF Have, InFlight
<1>8. TablesOK'
  <2>1. ASSUME NEW u \in Tables PROVE Follows(log, channel, u, Bound(u), Have(u)')
    <3>1. Follows(log, channel, u, Bound(u), Have(u))
      BY <1>s DEF TablesOK
    <3>2. CASE u = t
      BY <3>1, <3>2, <1>2, <1>3, <1>4, <1>7, FollowsLess
    <3>3. CASE u # t
      BY <3>1, <3>3, <1>6
    <3> QED
      BY <3>2, <3>3
  <2> QED
    BY <2>1 DEF TablesOK, Bound
<1>9. Certified'
  <2>1. ASSUME complete[t] # 0, NEW q \in {acked, checkpoint, complete[t]} PROVE Restores(log, t, B, q)
    <3>1. ~Fresh(channel, t)
      BY <2>1, <1>s DEF ClaimsOK, Claims
    <3>2. q \in Positions /\ Bound(t) \in Positions /\ q <= Bound(t) /\ Before(channel, t, q)
      <4>1. q \in Globals \cup Claims(t)
        BY DEF Globals, Claims
      <4> QED
        BY <4>1, <1>s, ClaimTypes DEF ClaimsOK
    <3>3. Restores(log, t, Have(t), q)
      <4>1. Follows(log, channel, t, Bound(t), Have(t))
        BY <1>s DEF TablesOK
      <4> QED
        BY <4>1, <3>1, <3>2, <1>s, ClaimHolds
    <3> QED
      BY <3>3, <1>2, <1>3, <1>4, RestoresLess
  <2> QED
    BY <1>5, <1>s, <2>1 DEF Certified
<1>10. FlushOK'
  <2>1. \A u \in Tables : u # t => step'[u] = step[u]
    BY <1>1, <1>s DEF Shape
  <2>2. step'[t] = s
    BY <1>1, <1>s DEF Shape
  <2> QED
    BY <1>1, <1>s, <2>1, <2>2 DEF FlushOK, Buffered
<1>11. ChannelOK' /\ ClaimsOK' /\ Heads'
  BY <1>s DEF ChannelOK, ClaimsOK, Heads, Globals, Claims, Bound
<1> QED
  BY <1>8, <1>9, <1>10, <1>11 DEF ResumeInv

(* A step of a flush that moves the rows it holds to the staging table, or *)
(* drops those that are merged.                                            *)
LEMMA ResumeStage ==
    ASSUME StreamInv, ResumeInv, NEW t \in Tables, WriteStaging(t) \/ ResetStaging(t)
    PROVE  ResumeInv'
<1>u. /\ UNCHANGED <<log, head, next, processed, acked, channel, dest>>
      /\ UNCHANGED <<complete, checkpoint, knownComplete, rows>>
      /\ UNCHANGED <<pending, lastToken, pendingState, pendingTruncates>>
      /\ pc = "flush" /\ pc' = pc
  BY DEF WriteStaging, ResetStaging, Writing, sourceVars, stateVars, bufferVars
<1>s. Shape /\ Active /\ ChannelOK /\ ClaimsOK /\ FlushOK /\ TablesOK /\ Heads /\ Certified
  BY <1>u DEF StreamInv, ResumeInv, Active
<1>1. \A u \in Tables : u # t => step'[u] = step[u] /\ staging'[u] = staging[u]
  BY <1>s DEF WriteStaging, ResetStaging, Shape
<1>2. CASE WriteStaging(t)
  <2>1. step[t] = "write" /\ step'[t] = "merge" /\ staging'[t] = staging[t] \cup rows[t]
    BY <1>2, <1>s DEF WriteStaging, Writing, Shape
  <2>2. staging[t] = {}
    BY <2>1, <1>s DEF FlushOK
  <2> QED
    BY <1>1, <1>u, <1>s, <2>1, <2>2
       DEF ResumeInv, ChannelOK, ClaimsOK, FlushOK, TablesOK, Heads, Certified, Globals, Claims, Bound, Have,
           InFlight, Buffered
<1>3. CASE ResetStaging(t)
  <2>1. step[t] = "reset" /\ step'[t] = "none" /\ staging'[t] = {}
    BY <1>3, <1>s DEF ResetStaging, Writing, Shape
  <2> QED
    BY <1>1, <1>u, <1>s, <2>1
       DEF ResumeInv, ChannelOK, ClaimsOK, FlushOK, TablesOK, Heads, Certified, Globals, Claims, Bound, Have,
           InFlight, Buffered
<1> QED
  BY <1>2, <1>3

(* A keyless table that is invalidated is claimed to the position of the   *)
(* flush, which is claimed already.                                        *)
LEMMA ResumeInvalidate ==
    ASSUME StreamInv, ResumeInv, NEW t \in Tables, InvalidateKeyless(t)
    PROVE  ResumeInv'
<1>u. /\ UNCHANGED <<log, head, next, processed, acked, channel, dest, staging>>
      /\ UNCHANGED <<checkpoint, rows, pending, lastToken, pendingTruncates>>
      /\ pc = "flush" /\ pc' = pc
      /\ pendingState' = [pendingState EXCEPT !.snaps[t] = pendingState.pos]
  BY DEF InvalidateKeyless, sourceVars, destVars
<1>s. Shape /\ Active /\ ChannelOK /\ ClaimsOK /\ FlushOK /\ TablesOK /\ Heads /\ Certified
  BY <1>u DEF StreamInv, ResumeInv, Active
<1>1. /\ \A u \in Tables : u # t => step'[u] = step[u] /\ complete'[u] = complete[u]
                                    /\ knownComplete'[u] = knownComplete[u]
                                    /\ pendingState'.snaps[u] = pendingState.snaps[u]
      /\ step[t] = "invalidate" /\ step'[t] = "append" /\ complete'[t] = 0 /\ knownComplete'[t] = 0
      /\ pendingState'.snaps[t] = pendingState.pos /\ pendingState'.pos = pendingState.pos
  BY <1>s DEF InvalidateKeyless, Shape
<1>2. \A u \in Tables : Have(u)' = Have(u) /\ Bound(u)' = Bound(u)
  BY <1>1, <1>u DEF Have, InFlight, Bound
<1>3. ChannelOK' /\ TablesOK'
  BY <1>2, <1>u, <1>s DEF ChannelOK, TablesOK
<1>4. FlushOK'
  BY <1>1, <1>u, <1>s DEF FlushOK, Buffered
<1>5. Heads' /\ Certified'
  <2>1. 0 <= head
    BY <1>s, NothingClaimed
  <2>2. \A u \in Tables : complete'[u] = 0 \/ complete'[u] = complete[u]
    BY <1>1
  <2> QED
    BY <2>1, <2>2, <1>u, <1>s DEF Heads, Certified
<1>6. ClaimsOK'
  <2>1. Globals' = Globals
    BY <1>1, <1>u DEF Globals
  <2>2. \A u \in Tables : \A q \in Claims(u)' : q \in Claims(u) \cup Globals \cup {0}
    BY <1>1 DEF Claims, Globals
  <2>3. \A u \in Tables : \A q \in Globals' \cup Claims(u)' : q <= Bound(u) /\ Before(channel, u, q)
    BY <2>1, <2>2, <1>s, NothingClaimed DEF ClaimsOK
  <2>4. ASSUME NEW u \in Tables, Fresh(channel, u) PROVE \A q \in Claims(u)' : q = 0
    <3>1. pendingState.pos = 0 /\ \A q \in Claims(u) : q = 0
      BY <2>4, <1>s DEF ClaimsOK
    <3> QED
      BY <3>1, <1>1 DEF Claims
  <2> QED
    BY <1>1, <1>2, <1>u, <1>s, <2>1, <2>3, <2>4 DEF ClaimsOK
<1> QED
  BY <1>3, <1>4, <1>5, <1>6 DEF ResumeInv

(* The steps of one table in a flush. *)
LEMMA ResumeFlushTable ==
    ASSUME StreamInv, ResumeInv, NEW t \in Tables, FlushTable(t)
    PROVE  ResumeInv'
<1>s. Shape /\ log \in Logs
  BY DEF StreamInv, Shape
<1>1. CASE AppendRows(t)
  <2>1. /\ UNCHANGED <<log, head, next, processed, acked, channel, staging>>
        /\ UNCHANGED <<complete, checkpoint, knownComplete, rows>>
        /\ UNCHANGED <<pending, lastToken, pendingState, pendingTruncates>>
        /\ pc = "flush" /\ pc' = "flush" /\ step[t] = "append"
        /\ dest' = [dest EXCEPT ![t] = Upsert(t, dest[t], rows[t])] /\ step' = [step EXCEPT ![t] = "none"]
    BY <1>1 DEF AppendRows, Writing, sourceVars, stateVars, bufferVars
  <2>2. InFlight(t) = rows[t]
    BY <2>1 DEF InFlight
  <2>3. staging[t] = {}
    BY <2>1 DEF ResumeInv, Active, FlushOK
  <2> QED
    BY <2>1, <2>2, <2>3, ResumeMerge
<1>2. CASE MergeStaging(t)
  <2>1. /\ UNCHANGED <<log, head, next, processed, acked, channel, staging>>
        /\ UNCHANGED <<complete, checkpoint, knownComplete, rows>>
        /\ UNCHANGED <<pending, lastToken, pendingState, pendingTruncates>>
        /\ pc = "flush" /\ pc' = "flush" /\ step[t] = "merge"
        /\ dest' = [dest EXCEPT ![t] = Upsert(t, dest[t], staging[t])] /\ step' = [step EXCEPT ![t] = "reset"]
    BY <1>2 DEF MergeStaging, Writing, sourceVars, stateVars, bufferVars
  <2>2. InFlight(t) = staging[t]
    BY <2>1 DEF InFlight
  <2> QED
    BY <2>1, <2>2, ResumeMerge
<1> QED
  BY <1>1, <1>2, ResumeStage, ResumeInvalidate DEF FlushTable

(* The channel without its oldest result. *)
LEMMA TakenChannel ==
    ASSUME Shape, ChannelOK, channel # <<>>
    PROVE  LET h == Head(channel)
               tl == Tail(channel)
           IN  /\ h \in Results /\ ResultOK(log, next, processed, h) /\ h = channel[1] /\ 1 \in DOMAIN channel
               /\ \A k \in DOMAIN tl : ResultOK(log, next, processed, tl[k])
               /\ Ordered(tl)
               /\ \A t, q : Before(channel, t, q) => Before(tl, t, q)
               /\ \A t \in Tables : Before(tl, t, h.token)
               /\ \A t \in h.snaps : Before(tl, t, h.at)
               /\ \A t : Fresh(tl, t) => Fresh(channel, t) /\ h.trunc = "snapshot"
<1> DEFINE h == Head(channel)
           tl == Tail(channel)
<1>1. /\ h = channel[1] /\ 1 \in DOMAIN channel /\ h \in Results
      /\ \A k \in DOMAIN tl : k \in Nat \ {0} /\ k + 1 \in DOMAIN channel /\ tl[k] = channel[k + 1]
      /\ DOMAIN channel \subseteq Nat \ {0}
  BY TailRows DEF Shape
<1> HIDE DEF h, tl
<1>2. \A k \in DOMAIN channel : ResultOK(log, next, processed, channel[k])
  BY DEF ChannelOK
<1>3. ResultOK(log, next, processed, h) /\ \A k \in DOMAIN tl : ResultOK(log, next, processed, tl[k])
  BY <1>1, <1>2
<1>4. Ordered(tl)
  <2>1. ASSUME NEW k \in DOMAIN tl, NEW j \in DOMAIN tl, j < k
        PROVE  /\ IsRecord(tl[k]) => tl[j].token < tl[k].at /\ (IsRecord(tl[j]) => tl[j].at < tl[k].at)
               /\ IsSnapshot(tl[k]) => tl[j].trunc = "snapshot"
    <3>1. k + 1 \in DOMAIN channel /\ j + 1 \in DOMAIN channel /\ j + 1 < k + 1
          /\ tl[k] = channel[k + 1] /\ tl[j] = channel[j + 1]
      BY <1>1, <2>1
    <3> QED
      BY <3>1 DEF ChannelOK, Ordered
  <2> QED
    BY <2>1 DEF Ordered
<1>5. \A t, q : Before(channel, t, q) => Before(tl, t, q)
  BY <1>1 DEF Before
<1>6. ASSUME NEW k \in DOMAIN tl
      PROVE  /\ IsRecord(tl[k]) => h.token < tl[k].at
             /\ IsSnapshot(tl[k]) => h.trunc = "snapshot"
  <2>1. k + 1 \in DOMAIN channel /\ 1 < k + 1 /\ tl[k] = channel[k + 1]
    BY <1>1
  <2> QED
    BY <2>1, <1>1 DEF ChannelOK, Ordered
<1>7. \A t \in Tables : Before(tl, t, h.token)
  BY <1>6 DEF Before
<1>8. \A t \in h.snaps : Before(tl, t, h.at)
  BY <1>3 DEF Before, ResultOK
<1>9. \A t : Fresh(tl, t) => Fresh(channel, t) /\ h.trunc = "snapshot"
  BY <1>1, <1>6 DEF Fresh, IsSnapshot
<1> QED
  BY <1>1, <1>3, <1>4, <1>5, <1>7, <1>8, <1>9 DEF h, tl

(* To buffer a result claims its token, and the position of a snapshot.    *)
LEMMA TakenClaims ==
    ASSUME Shape, ChannelOK, ClaimsOK, channel # <<>>, BufferResult(Head(channel)),
           channel' = Tail(channel),
           UNCHANGED <<log, head, next, processed, acked, complete, checkpoint, knownComplete>>
    PROVE  ChannelOK' /\ ClaimsOK'
<1> DEFINE h == Head(channel)
<1>1. /\ h \in Results /\ ResultOK(log, next, processed, h)
      /\ \A k \in DOMAIN channel' : ResultOK(log, next, processed, channel'[k])
      /\ Ordered(channel')
      /\ \A t, q : Before(channel, t, q) => Before(channel', t, q)
      /\ \A t \in Tables : Before(channel', t, h.token)
      /\ \A t \in h.snaps : Before(channel', t, h.at)
      /\ \A t : Fresh(channel', t) => Fresh(channel, t) /\ h.trunc = "snapshot"
  BY TakenChannel
<1> DEFINE cut == pendingTruncates \cup (IF h.trunc = "log" THEN {h.table} ELSE {})
<1>2. /\ lastToken' \in {h.token, lastToken}
      /\ pendingTruncates' = IF h.token # 0 THEN {} ELSE cut
      /\ pendingState'.pos = IF h.token # 0 THEN h.token ELSE pendingState.pos
      /\ \A t \in Tables : pendingState'.snaps[t] = CASE t \in cut /\ h.token # 0 -> h.token
                                                      [] t \in h.snaps -> h.at
                                                      [] OTHER -> pendingState.snaps[t]
  BY DEF BufferResult
<1> HIDE DEF h
<1>3. ChannelOK'
  BY <1>1 DEF ChannelOK
<1>4. h.token <= next
  BY <1>1 DEF ResultOK
<1>5. \A q \in Globals' : q \in Globals \cup {h.token}
  BY <1>2 DEF Globals
<1>6. \A t \in Tables : \A q \in Claims(t)' :
          q \in Claims(t) \cup {h.token} \/ (t \in h.snaps /\ q = h.at)
  BY <1>2 DEF Claims
<1>7. \A q \in Globals' : q <= next
  BY <1>4, <1>5 DEF ClaimsOK
<1>8. ASSUME NEW t \in Tables, NEW q \in Globals' \cup Claims(t)'
      PROVE  q <= Bound(t) /\ Before(channel', t, q)
  <2>1. CASE q \in Globals \cup Claims(t)
    BY <2>1, <1>1 DEF ClaimsOK
  <2>2. CASE q = h.token
    <3>1. h.token \in Nat /\ next \in Nat /\ Bound(t) \in Nat /\ next <= Bound(t)
      BY <1>1, ClaimTypes DEF Results
    <3>2. h.token <= Bound(t)
      BY <3>1, <1>4
    <3> QED
      BY <2>2, <3>2, <1>1
  <2>3. CASE t \in h.snaps /\ q = h.at
    <3>1. h.at = processed[t]
      BY <2>3, <1>1 DEF ResultOK
    <3>2. processed[t] <= Bound(t)
      BY ClaimTypes
    <3> QED
      BY <2>3, <3>1, <3>2, <1>1
  <2> QED
    BY <1>5, <1>6, <1>8, <2>1, <2>2, <2>3
<1>9. ASSUME NEW t \in Tables, Fresh(channel', t)
      PROVE  /\ \A q \in Claims(t)' : q = 0
             /\ pendingState'.pos = 0 /\ pendingTruncates' = {}
  <2>1. Fresh(channel, t) /\ h.trunc = "snapshot" /\ h.snaps = {} /\ h.token = 0
    BY <1>1, <1>9 DEF ResultOK
  <2>2. pendingState.pos = 0 /\ pendingTruncates = {} /\ \A q \in Claims(t) : q = 0
    BY <2>1 DEF ClaimsOK
  <2> QED
    BY <2>1, <2>2, <1>2 DEF Claims
<1>10. ClaimsOK'
  BY <1>7, <1>8, <1>9 DEF ClaimsOK, Bound
<1> QED
  BY <1>3, <1>10

(* A table has the result that is taken for it, after a truncate only that. *)
LEMMA TakenTables ==
    ASSUME Shape, TablesOK, channel # <<>>, BufferResult(Head(channel)), channel' = Tail(channel),
           UNCHANGED <<log, next, processed>>,
           \A t \in Tables : InFlight(t) = {} /\ InFlight(t)' = {},
           \A t \in Tables : dest'[t] = IF Cuts(Head(channel), t) THEN {} ELSE dest[t],
           \A t \in Tables : Cuts(Head(channel), t) => pending[t] = {}
    PROVE  TablesOK'
<1> DEFINE h == Head(channel)
<1>1. ASSUME NEW t \in Tables
      PROVE  Have(t)' = (IF Cuts(h, t) THEN {} ELSE Have(t)) \cup (IF h.table = t THEN h.rows ELSE {})
  <2>1. pending'[t] = pending[t] \cup (IF h.table = t THEN h.rows ELSE {})
    BY DEF BufferResult, Shape
  <2> HIDE DEF h
  <2> QED
    BY <2>1 DEF Have, h
<1>2. ASSUME NEW t \in Tables PROVE Follows(log, channel', t, Bound(t), Have(t)')
  <2>1. Follows(log, channel, t, Bound(t), Have(t)) /\ channel \in Seq(Results)
    BY DEF TablesOK, Shape
  <2> QED
    BY <1>1, <2>1, FollowsTake
<1> QED
  BY <1>2 DEF TablesOK, Bound

(* A result is taken. *)
LEMMA ResumeReceive == ASSUME StreamInv, ResumeInv, Receive PROVE ResumeInv'
<1>u. /\ UNCHANGED <<log, head, next, processed, acked, dest, staging, complete, checkpoint>>
      /\ UNCHANGED <<knownComplete, step, rows>>
      /\ pc \in {"run", "drain"} /\ pc' = pc /\ channel # <<>> /\ channel' = Tail(channel)
      /\ BufferResult(Head(channel)) /\ Head(channel).trunc = "no"
  BY DEF Receive, Taking, stateVars, destVars, flushVars
<1>s. Shape /\ Steps /\ Active /\ ChannelOK /\ ClaimsOK /\ FlushOK /\ TablesOK /\ Heads /\ Certified
  BY <1>u DEF StreamInv, ResumeInv, Active
<1>1. \A t \in Tables : InFlight(t) = {} /\ InFlight(t)' = {} /\ ~Cuts(Head(channel), t)
  BY <1>u, <1>s DEF Steps, InFlight, Cuts
<1>2. ChannelOK' /\ ClaimsOK'
  BY <1>u, <1>s, TakenClaims
<1>3. TablesOK'
  BY <1>1, <1>u, <1>s, TakenTables
<1>4. FlushOK' /\ Heads' /\ Certified'
  BY <1>u, <1>s DEF FlushOK, Heads, Certified
<1> QED
  BY <1>2, <1>3, <1>4 DEF ResumeInv

(* A truncate is made: what was claimed of the table is from before it, or *)
(* nothing was.                                                            *)
LEMMA ResumeApplyTruncate == ASSUME StreamInv, ResumeInv, ApplyTruncate PROVE ResumeInv'
<1>u. /\ UNCHANGED <<log, head, next, processed, acked, staging, complete, checkpoint>>
      /\ UNCHANGED <<knownComplete, step, rows>>
      /\ channel' = Tail(channel) /\ BufferResult(Head(channel))
      /\ dest' = [dest EXCEPT ![Head(channel).table] = {}]
  BY DEF ApplyTruncate, stateVars, flushVars
<1>p. /\ pc \in {"run", "drain", "truncate"} /\ channel # <<>> /\ pc' \in {"run", "drain"}
      /\ Head(channel).trunc # "no" /\ ~Buffered
  BY DEF ApplyTruncate, Taking, StreamInv, Steps, ResumeInv, Active, FlushOK
<1>s. Shape /\ Steps /\ Active /\ ChannelOK /\ ClaimsOK /\ FlushOK /\ TablesOK /\ Heads /\ Certified
  BY <1>p DEF StreamInv, ResumeInv, Active
<1>1. \A t \in Tables : InFlight(t) = {} /\ InFlight(t)' = {} /\ pending[t] = {}
  BY <1>u, <1>p, <1>s DEF Steps, InFlight, Buffered
<1>2. \A t \in Tables : /\ dest'[t] = IF Cuts(Head(channel), t) THEN {} ELSE dest[t]
                        /\ Cuts(Head(channel), t) <=> t = Head(channel).table
  BY <1>u, <1>p, <1>s DEF Cuts, Shape
<1>3. ChannelOK' /\ ClaimsOK'
  BY <1>u, <1>p, <1>s, TakenClaims
<1>4. TablesOK'
  BY <1>1, <1>2, <1>u, <1>p, <1>s, TakenTables
<1>5. FlushOK' /\ Heads'
  BY <1>u, <1>p, <1>s DEF FlushOK, Heads
<1>6. Certified'
  <2>1. ASSUME NEW t \in Tables, t = Head(channel).table, complete[t] # 0,
               NEW q \in {acked, checkpoint, complete[t]}
        PROVE  ~Past(log, t, q)
    <3> DEFINE h == Head(channel)
    <3>1. h \in Results /\ ResultOK(log, next, processed, h) /\ h = channel[1] /\ 1 \in DOMAIN channel
      BY <1>p, <1>s, TakenChannel
    <3>2. ~Fresh(channel, t)
      BY <2>1, <1>s DEF ClaimsOK, Claims
    <3>3. h.trunc = "log"
      BY <1>p, <2>1, <3>1, <3>2 DEF Fresh, Results
    <3>4. /\ log \in Logs /\ Len(log) \in Nat /\ IsRecord(h) /\ h.at \in 1..Len(log)
          /\ log[h.at].table = t /\ log[h.at].op = "truncate"
      <4>1. log \in Logs /\ Len(log) \in Nat /\ h.at \in 0..Len(log)
        BY <1>s, <3>1, LogTerms DEF Results, Shape
      <4>2. IsRecord(h) /\ h.table = t
        BY <2>1, <3>1, <3>3 DEF ResultOK
      <4>3. h.at # 0 /\ log[h.at].table = t /\ log[h.at].op = "truncate"
        BY <3>1, <3>3, <4>2 DEF ResultOK, IsRecord
      <4> QED
        BY <4>1, <4>2, <4>3
    <3>5. q < h.at /\ q \in Positions
      <4>1. q \in Globals \cup Claims(t)
        BY <2>1 DEF Globals, Claims
      <4>2. Before(channel, t, q) /\ q \in Positions
        BY <4>1, <1>s, ClaimTypes DEF ClaimsOK
      <4> QED
        BY <4>2, <2>1, <3>1, <3>4 DEF Before
    <3>6. h.at \in TruncatesIn(log, t) /\ q \in Int
      BY <3>4, <3>5, LogTerms DEF TruncatesIn
    <3> HIDE DEF h
    <3> QED
      BY <3>4, <3>5, <3>6 DEF Past
  <2>2. ASSUME NEW t \in Tables, complete[t] # 0, NEW q \in {acked, checkpoint, complete[t]}
        PROVE  Restores(log, t, dest'[t], q)
    <3>1. CASE t = Head(channel).table
      BY <2>1, <2>2, <3>1 DEF Restores
    <3>2. CASE t # Head(channel).table
      BY <2>2, <3>2, <1>2, <1>s DEF Certified
    <3> QED
      BY <3>1, <3>2
  <2> QED
    BY <1>u, <2>2 DEF Certified
<1> QED
  BY <1>3, <1>4, <1>5, <1>6 DEF ResumeInv

(* A truncate begins: less is claimed of the table. *)
LEMMA ResumeInvalidateTruncated == ASSUME StreamInv, ResumeInv, InvalidateTruncated PROVE ResumeInv'
<1>u. /\ UNCHANGED <<log, head, next, processed, acked, channel, dest, staging>>
      /\ UNCHANGED <<checkpoint, step, rows, pending, lastToken, pendingState, pendingTruncates>>
      /\ pc \in {"run", "drain"} /\ pc' = "truncate" /\ ~Buffered /\ Head(channel).trunc = "log"
  BY DEF InvalidateTruncated, Taking, sourceVars, destVars, flushVars, bufferVars
<1>s. Shape /\ Active /\ ChannelOK /\ ClaimsOK /\ FlushOK /\ TablesOK /\ Heads /\ Certified
  BY <1>u DEF StreamInv, ResumeInv, Active
<1>1. \A t \in Tables : /\ complete'[t] \in {complete[t], 0}
                        /\ knownComplete'[t] \in {knownComplete[t], 0}
  BY <1>s DEF InvalidateTruncated, Shape
<1>2. ChannelOK' /\ TablesOK' /\ FlushOK'
  BY <1>u, <1>s DEF ChannelOK, TablesOK, FlushOK, Bound, Have, InFlight, Buffered
<1>3. Heads' /\ Certified'
  <2>1. \A t \in Tables : 0 <= head
    BY <1>s, NothingClaimed
  <2>2. \A t \in Tables : complete'[t] <= head
    BY <1>1, <1>s, <2>1 DEF Heads
  <2>3. \A t \in Tables : complete'[t] # 0 => complete[t] # 0 /\ complete'[t] = complete[t]
    BY <1>1
  <2> QED
    BY <1>u, <1>s, <2>2, <2>3 DEF Heads, Certified
<1>4. ClaimsOK'
  <2>1. Globals' = Globals /\ \A t \in Tables : \A q \in Claims(t)' : q \in Claims(t) \cup {0}
    BY <1>u, <1>1 DEF Globals, Claims
  <2>2. \A t \in Tables : \A q \in Globals' \cup Claims(t)' : q <= Bound(t) /\ Before(channel, t, q)
    BY <2>1, <1>s, NothingClaimed DEF ClaimsOK
  <2>3. \A t \in Tables : Fresh(channel, t) => \A q \in Claims(t)' : q = 0
    BY <2>1, <1>s DEF ClaimsOK
  <2> QED
    BY <1>u, <1>s, <2>1, <2>2, <2>3 DEF ClaimsOK, Bound
<1> QED
  BY <1>2, <1>3, <1>4 DEF ResumeInv

(* A result that was sent stays one when the source goes on. *)
LEMMA ResultLater ==
    ASSUME Shape, NEW r \in Results, NEW n \in Positions, next <= n, ResultOK(log, next, processed, r)
    PROVE  ResultOK(log, n, processed, r)
<1>1. next \in Nat /\ n \in Nat /\ r.token \in Nat /\ r.at \in Nat
  BY LogTerms DEF Shape, Results
<1>2. r.token <= n /\ (r.at <= next => r.at <= n)
  BY <1>1 DEF ResultOK
<1> QED
  BY <1>2 DEF ResultOK

(* A result is sent behind the others: no snapshot, and no record before   *)
(* one that was sent.                                                      *)
LEMMA SentResult ==
    ASSUME Shape, ChannelOK, NEW r \in Results, NEW n \in Positions, next <= n,
           ResultOK(log, n, processed, r), IsRecord(r) => next < r.at, r.snaps = {}, r.trunc # "snapshot"
    PROVE  LET ap == Append(channel, r)
           IN  /\ \A k \in DOMAIN ap : ResultOK(log, n, processed, ap[k])
               /\ Ordered(ap)
               /\ \A t : Fresh(ap, t) => Fresh(channel, t)
               /\ \A t, q : Before(channel, t, q) /\ (IsRecord(r) /\ r.table = t => q < r.at)
                            => Before(ap, t, q)
<1> DEFINE ap == Append(channel, r)
           m == Len(channel)
<1>1. /\ m \in Nat /\ DOMAIN channel = 1..m /\ DOMAIN ap = 1..(m + 1) /\ ap[m + 1] = r
      /\ \A k \in 1..m : ap[k] = channel[k] /\ channel[k] \in Results
  BY AppendProperties, LenProperties DEF Shape
<1> HIDE DEF ap, m
<1>2. \A k \in DOMAIN ap : (k \in DOMAIN channel /\ ap[k] = channel[k]) \/ (k = m + 1 /\ ap[k] = r)
  BY <1>1
<1>3. \A k \in DOMAIN ap : ResultOK(log, n, processed, ap[k])
  BY <1>1, <1>2, ResultLater DEF ChannelOK
<1>4. ASSUME NEW k \in DOMAIN ap, NEW j \in DOMAIN ap, j < k
      PROVE  /\ IsRecord(ap[k]) => ap[j].token < ap[k].at /\ (IsRecord(ap[j]) => ap[j].at < ap[k].at)
             /\ IsSnapshot(ap[k]) => ap[j].trunc = "snapshot"
  <2>1. j \in DOMAIN channel /\ ap[j] = channel[j]
    BY <1>1, <1>4
  <2>2. CASE k \in DOMAIN channel /\ ap[k] = channel[k]
    BY <2>1, <2>2, <1>4 DEF ChannelOK, Ordered
  <2>3. CASE k = m + 1 /\ ap[k] = r
    <3>1. ResultOK(log, next, processed, ap[j]) /\ ap[j] \in Results
      BY <1>1, <2>1 DEF ChannelOK
    <3>2. ap[j].token <= next /\ (IsRecord(ap[j]) => ap[j].at <= next)
      BY <3>1 DEF ResultOK
    <3>3. next \in Nat /\ ap[j].token \in Nat /\ ap[j].at \in Nat /\ r.at \in Nat
      BY <3>1, LogTerms DEF Shape, Results
    <3>4. ~IsSnapshot(r)
      BY DEF IsSnapshot
    <3> QED
      BY <2>3, <3>2, <3>3, <3>4
  <2> QED
    BY <1>2, <2>2, <2>3
<1>5. Ordered(ap)
  BY <1>4 DEF Ordered
<1>6. \A t : Fresh(ap, t) => Fresh(channel, t)
  BY <1>2 DEF Fresh
<1>7. \A t, q : Before(channel, t, q) /\ (IsRecord(r) /\ r.table = t => q < r.at) => Before(ap, t, q)
  BY <1>2 DEF Before
<1> QED
  BY <1>3, <1>5, <1>6, <1>7 DEF ap

(* The next record is sent, or passed by. *)
LEMMA ResumeSend == ASSUME StreamInv, ResumeInv, Send PROVE ResumeInv'
<1>u. /\ UNCHANGED <<log, processed, acked, dest, staging, complete, checkpoint, knownComplete>>
      /\ UNCHANGED <<step, rows, pending, lastToken, pendingState, pendingTruncates, pc>>
      /\ next < Len(log) /\ next' = next + 1 /\ head' = Max2(head, next') /\ ~closed
  BY DEF Send, destVars, stateVars, flushVars, bufferVars
<1>s. Shape /\ Heads /\ Certified /\ (Active => ChannelOK /\ ClaimsOK /\ FlushOK /\ TablesOK)
  BY DEF StreamInv, ResumeInv
<1>t. /\ log \in Logs /\ Len(log) \in Nat /\ Positions = 0..Len(log) /\ Lsns = 1..Len(log)
      /\ next \in Nat /\ head \in Nat /\ next + 1 \in Positions /\ next + 1 \in Lsns
      /\ log[next + 1] \in [table : Tables, key : Nat, op : {"put", "truncate"}]
  BY SMTT(40), <1>s, <1>u, LogTerms, LogData DEF Shape
<1>h. head' \in Nat /\ head <= head' /\ next' <= head'
  BY <1>u, <1>t DEF Max2
<1>1. Heads' /\ Certified'
  <2>1. \A t \in Tables : complete[t] \in Nat
    BY <1>s, <1>t, ClaimTypes
  <2>2. acked \in Nat /\ checkpoint \in Nat
    BY <1>s, LogTerms DEF Shape
  <2> QED
    BY <1>u, <1>s, <1>t, <1>h, <2>1, <2>2 DEF Heads, Certified
<1>2. ASSUME Active PROVE ChannelOK' /\ ClaimsOK' /\ FlushOK' /\ TablesOK'
  <2>s. ChannelOK /\ ClaimsOK /\ FlushOK /\ TablesOK
    BY <1>2, <1>s
  <2> DEFINE r == log[next + 1]
  <2>1. PICK tok \in {0, next, next + 1} :
            LET res == Result(r.table, IF r.op = "put" THEN {next + 1} ELSE {},
                              IF r.op = "put" THEN "no" ELSE "log", tok, {}, next + 1)
            IN  channel' = IF next + 1 <= processed[r.table] THEN channel ELSE Append(channel, res)
    BY <1>u DEF Send
  <2> DEFINE res == Result(r.table, IF r.op = "put" THEN {next + 1} ELSE {},
                           IF r.op = "put" THEN "no" ELSE "log", tok, {}, next + 1)
  <2>2. /\ \A t \in Tables : Bound(t) \in Nat /\ processed[t] \in Nat /\ Bound(t)' \in Nat
                              /\ Bound(t) = Max2(next, processed[t]) /\ Bound(t)' = Max2(next + 1, processed[t])
                              /\ Bound(t) <= Bound(t)'
    BY <1>u, <1>s, <1>t, ClaimTypes DEF Bound, Max2
  <2>3. /\ Globals' = Globals /\ \A q \in Globals : q \in Nat
        /\ \A t \in Tables : Claims(t)' = Claims(t) /\ \A q \in Globals \cup Claims(t) : q \in Nat
    <3>1. \A q \in Globals : q \in Nat
      BY <1>s, LogTerms DEF Globals, Shape
    <3> QED
      BY <3>1, <1>u, <1>s, <1>t, ClaimTypes DEF Globals, Claims
  <2>4. \A t \in Tables : Have(t)' = Have(t)
    BY <1>u DEF Have, InFlight
  <2>5. FlushOK'
    <3>1. pc = "truncate" => Head(channel') = Head(channel)
      <4>1. CASE channel' = channel
        BY <4>1
      <4>2. CASE channel' = Append(channel, res)
        <5>1. pc = "truncate" => channel # <<>>
          BY DEF StreamInv, Steps
        <5> HIDE DEF res
        <5>2. channel \in Seq(Results)
          BY <1>s DEF Shape
        <5>3. channel # <<>> => Append(channel, res)[1] = channel[1] /\ Len(channel) > 0
          BY <5>2
        <5> QED
          BY <4>2, <5>1, <5>2, <5>3
      <4> QED
        BY <2>1, <4>1, <4>2
    <3> QED
      BY <1>u, <2>s, <3>1 DEF FlushOK, Buffered
  <2>6. CASE next + 1 <= processed[r.table]
    <3>1. channel' = channel
      BY <2>1, <2>6
    <3>2. ChannelOK'
      <4>1. \A k \in DOMAIN channel : channel[k] \in Results /\ ResultOK(log, next, processed, channel[k])
        BY <1>s, <2>s DEF ChannelOK, Shape
      <4>2. \A k \in DOMAIN channel : ResultOK(log, next + 1, processed, channel[k])
        BY <4>1, <1>s, <1>t, ResultLater
      <4> QED
        BY <3>1, <4>2, <1>u, <2>s DEF ChannelOK
    <3>3. ClaimsOK'
      <4>1. \A q \in Globals' : q <= next'
        BY <1>u, <1>t, <2>s, <2>3 DEF ClaimsOK
      <4>2. \A t \in Tables : processed[t] <= head'
        BY <1>h, <1>t, <2>s, <2>2 DEF ClaimsOK
      <4>3. \A t \in Tables : \A q \in Globals \cup Claims(t) : q <= Bound(t)'
        BY <2>s, <2>2, <2>3 DEF ClaimsOK
      <4> QED
        BY <3>1, <4>1, <4>2, <4>3, <1>u, <1>h, <2>s, <2>3 DEF ClaimsOK
    <3>4. TablesOK'
      <4>1. ASSUME NEW t \in Tables PROVE Follows(log, channel, t, Bound(t)', Have(t))
        <5>1. Follows(log, channel, t, Max2(next, processed[t]), Have(t))
          BY <2>s, <2>2 DEF TablesOK
        <5>2. r.table # t \/ next + 1 <= processed[t]
          BY <2>6
        <5> QED
          BY <5>1, <5>2, <1>u, <1>t, <2>2, FollowsPassed
      <4> QED
        BY <4>1, <3>1, <1>u, <2>4 DEF TablesOK
    <3> QED
      BY <2>5, <3>2, <3>3, <3>4
  <2>7. CASE ~(next + 1 <= processed[r.table])
    <3>1. channel' = Append(channel, res) /\ r.table \in Tables /\ r.op \in {"put", "truncate"}
      BY <2>1, <2>7, <1>t
    <3>2. /\ res.table = r.table /\ res.token = tok /\ res.snaps = {} /\ res.at = next + 1
          /\ res.trunc # "snapshot" /\ res \in Results
          /\ \/ res.trunc = "no" /\ res.rows = {next + 1} /\ r.op = "put"
             \/ res.trunc = "log" /\ res.rows = {} /\ r.op = "truncate"
      <4>1. tok \in Positions
        BY <1>t
      <4> QED
        BY <3>1, <4>1, <1>t DEF Result, Results
    <3> HIDE DEF res
    <3>3. ResultOK(log, next + 1, processed, res) /\ IsRecord(res) /\ next < res.at
      <4>1. tok <= next + 1 /\ processed[r.table] < next + 1
        BY <1>t, <2>2, <2>7, <3>1
      <4> QED
        BY <3>1, <3>2, <4>1, <1>t, <1>u DEF ResultOK, IsRecord
    <3>4. /\ \A k \in DOMAIN channel' : ResultOK(log, next + 1, processed, channel'[k])
          /\ Ordered(channel')
          /\ \A t : Fresh(channel', t) => Fresh(channel, t)
          /\ \A t, q : Before(channel, t, q) /\ (res.table = t => q < res.at) => Before(channel', t, q)
      BY <3>1, <3>2, <3>3, <1>s, <1>t, <2>s, SentResult
    <3>5. ChannelOK'
      BY <3>4, <1>u DEF ChannelOK
    <3>6. ClaimsOK'
      <4>1. \A q \in Globals' : q <= next'
        BY <1>u, <1>t, <2>s, <2>3 DEF ClaimsOK
      <4>2. \A t \in Tables : processed[t] <= head'
        BY <1>h, <1>t, <2>s, <2>2 DEF ClaimsOK
      <4>3. ASSUME NEW t \in Tables, NEW q \in Globals \cup Claims(t)
            PROVE  q <= Bound(t)' /\ Before(channel', t, q)
        <5>1. q <= Bound(t) /\ Before(channel, t, q) /\ q \in Nat
          BY <2>s, <2>3 DEF ClaimsOK
        <5>2. res.table = t => q < res.at
          <6>1. res.table = t => Bound(t) = next
            BY <3>2, <2>2, <2>7, <1>t DEF Max2
          <6> QED
            BY <6>1, <5>1, <3>2, <1>t
        <5> QED
          BY <5>1, <5>2, <2>2, <3>4
      <4> QED
        BY <3>4, <4>1, <4>2, <4>3, <1>u, <1>h, <2>s, <2>3 DEF ClaimsOK
    <3>7. TablesOK'
      <4>1. ASSUME NEW t \in Tables PROVE Follows(log, channel', t, Bound(t)', Have(t))
        <5>1. Follows(log, channel, t, Max2(next, processed[t]), Have(t))
          BY <2>s, <2>2 DEF TablesOK
        <5>2. channel \in Seq(Results)
          BY <1>s DEF Shape
        <5>3. CASE r.table = t
          <6>1. processed[t] <= next
            BY <5>3, <2>2, <2>7, <1>t, <3>1
          <6> QED
            BY SMTT(40), <5>1, <5>2, <5>3, <6>1, <3>1, <3>2, <1>t, <1>u, <2>2, FollowsSend
        <5>4. CASE r.table # t
          <6>1. Follows(log, channel, t, Max2(next + 1, processed[t]), Have(t))
            BY <5>1, <5>4, <1>t, <1>u, <2>2, FollowsPassed
          <6> QED
            BY <6>1, <5>2, <5>4, <3>1, <3>2, <2>2, FollowsOther
        <5> QED
          BY <5>3, <5>4
      <4> QED
        BY <4>1, <1>u, <2>4 DEF TablesOK
    <3> QED
      BY <2>5, <3>5, <3>6, <3>7
  <2> QED
    BY <2>6, <2>7
<1>3. Active' => Active
  BY <1>u DEF Active
<1> QED
  BY <1>1, <1>2, <1>3 DEF ResumeInv

(* A bare token is sent. *)
LEMMA ResumeSendToken == ASSUME StreamInv, ResumeInv, SendToken PROVE ResumeInv'
<1> DEFINE res == Result("none", {}, "no", next, {}, 0)
<1>u. /\ UNCHANGED <<log, head, next, processed, acked, dest, staging>>
      /\ UNCHANGED <<complete, checkpoint, knownComplete, step, rows>>
      /\ UNCHANGED <<pending, lastToken, pendingState, pendingTruncates, pc>>
      /\ channel = <<>> /\ channel' = <<res>>
  BY DEF SendToken, destVars, stateVars, flushVars, bufferVars
<1>s. Shape /\ Heads /\ Certified /\ (Active => ChannelOK /\ ClaimsOK /\ FlushOK /\ TablesOK)
  BY DEF StreamInv, ResumeInv
<1>1. /\ res.table = "none" /\ res.token = next /\ res.snaps = {} /\ res.at = 0
      /\ res.trunc = "no" /\ res.rows = {} /\ res \in Results
  BY <1>s, LogTerms DEF Result, Results, Shape
<1>2. channel \in Seq(Results) /\ next \in Positions /\ next <= next
  BY <1>s, LogTerms DEF Shape
<1> HIDE DEF res
<1>3. channel' = Append(channel, res)
  BY <1>1, <1>u
<1>4. ASSUME Active PROVE ChannelOK' /\ ClaimsOK' /\ FlushOK' /\ TablesOK'
  <2>s. ChannelOK /\ ClaimsOK /\ FlushOK /\ TablesOK
    BY <1>4, <1>s
  <2>1. ResultOK(log, next, processed, res) /\ ~IsRecord(res)
    BY <1>1, <1>2 DEF ResultOK, IsRecord
  <2>2. /\ \A k \in DOMAIN channel' : ResultOK(log, next, processed, channel'[k])
        /\ Ordered(channel')
        /\ \A t : Fresh(channel', t) => Fresh(channel, t)
        /\ \A t, q : Before(channel, t, q) => Before(channel', t, q)
    BY <1>1, <1>2, <1>3, <1>s, <2>s, <2>1, SentResult
  <2>3. Globals' = Globals /\ \A t \in Tables : Claims(t)' = Claims(t) /\ Bound(t)' = Bound(t) /\ Have(t)' = Have(t)
    BY <1>u DEF Globals, Claims, Bound, Have, InFlight
  <2>4. ChannelOK'
    BY <1>u, <2>2 DEF ChannelOK
  <2>5. ClaimsOK'
    BY <1>u, <2>s, <2>2, <2>3 DEF ClaimsOK
  <2>6. FlushOK'
    <3>1. pc # "truncate"
      BY <1>u DEF StreamInv, Steps
    <3> QED
      BY <3>1, <1>u, <2>s DEF FlushOK, Buffered
  <2>7. TablesOK'
    <3>1. ASSUME NEW t \in Tables PROVE Follows(log, channel', t, Bound(t), Have(t))
      <4>1. Follows(log, channel, t, Bound(t), Have(t))
        BY <2>s DEF TablesOK
      <4> QED
        BY <4>1, <1>1, <1>2, <1>3, FollowsOther
    <3> QED
      BY <3>1, <1>u, <2>3 DEF TablesOK
  <2> QED
    BY <2>4, <2>5, <2>6, <2>7
<1>5. Heads' /\ Certified' /\ (Active' => Active)
  BY <1>u, <1>s DEF Heads, Certified, Active
<1> QED
  BY <1>4, <1>5 DEF ResumeInv

(* The order in which a set is listed has every element once. *)
LEMMA ListOnce ==
    ASSUME NEW S, IsFiniteSet(S)
    PROVE  /\ SetToSeq(S) \in Seq(S)
           /\ \A x \in S : \E k \in DOMAIN SetToSeq(S) : SetToSeq(S)[k] = x
           /\ \A j, k \in DOMAIN SetToSeq(S) : SetToSeq(S)[j] = SetToSeq(S)[k] => j = k
<1> DEFINE f == SetToSeq(S)
           T == 1..Cardinality(S)
<1>1. /\ Cardinality(S) \in Nat
      /\ ExistsBijection(T, S)
  BY FS_CardinalityType
<1>2. \E g \in [T -> S] : IsInjective(g)
  BY <1>1 DEF ExistsBijection, Bijection, Injection
<1>3. f \in [T -> S] /\ IsInjective(f)
  BY <1>2 DEF SetToSeq
<1>4. IsFiniteSet(T) /\ Cardinality(T) = Cardinality(S)
  BY <1>1, FS_Interval
<1> HIDE DEF f, T
<1>5. f \in Injection(T, S)
  BY <1>3 DEF Injection
<1>6. f \in Surjection(T, S)
  BY <1>4, <1>5, FS_Injection
<1>7. \A x \in S : \E k \in T : f[k] = x
  BY <1>6 DEF Surjection
<1>8. DOMAIN f = T /\ \A j, k \in DOMAIN f : f[j] = f[k] => j = k
  BY <1>3 DEF IsInjective
<1> QED
  BY <1>1, <1>7, <1>8, ListOfSet DEF f

(* The snapshots of the tables ts at s, each table once, then the mark of  *)
(* them all.                                                               *)
Listing(ch, ts, s, tok) ==
    LET snap(t) == Result(t, Replay(t, s), "snapshot", 0, {}, 0)
        mark == Result("none", {}, "no", tok, ts, s)
    IN  /\ DOMAIN ch \subseteq Int
        /\ \A k \in DOMAIN ch : ts # {} /\ (ch[k] = mark \/ \E t \in ts : ch[k] = snap(t))
        /\ \A k \in DOMAIN ch : \A j \in DOMAIN ch : j < k => \E t \in ts : ch[j] = snap(t)
        /\ \A t \in ts : \E k \in DOMAIN ch :
              /\ ch[k] = snap(t)
              /\ \A j \in DOMAIN ch : j # k => ch[j] = mark \/ \E u \in ts \ {t} : ch[j] = snap(u)

(* What a source sends for its snapshots. *)
LEMMA SnapshotChannel ==
    ASSUME log \in Logs, NEW ts \in SUBSET Tables, NEW s \in Positions, NEW tok \in Positions
    PROVE  Listing(Snapshots(ts, s, tok), ts, s, tok)
<1> DEFINE ch == Snapshots(ts, s, tok)
           snap(t) == Result(t, Replay(t, s), "snapshot", 0, {}, 0)
           mark == Result("none", {}, "no", tok, ts, s)
           order == SetToSeq(ts)
           first == [k \in DOMAIN order |-> snap(order[k])]
           n == Len(order)
<1>1. CASE ts = {}
  <2>1. ch = <<>>
    BY <1>1 DEF Snapshots
  <2>2. DOMAIN ch = {}
    BY <2>1
  <2> HIDE DEF ch, snap, mark
  <2> QED
    BY <1>1, <2>2 DEF ch, Listing
<1>2. CASE ts # {}
  <2>1. ch = first \o <<mark>>
    BY <1>2 DEF Snapshots
  <2>2. IsFiniteSet(ts)
    BY FS_Subset, StreamingAssumption
  <2>3. /\ order \in Seq(ts) /\ n \in Nat /\ DOMAIN order = 1..n
        /\ \A t \in ts : \E k \in 1..n : order[k] = t
        /\ \A j, k \in 1..n : order[j] = order[k] => j = k
        /\ \A k \in 1..n : order[k] \in ts
    <3>1. order \in Seq(ts)
      BY <2>2, ListOnce
    <3>2. n \in Nat /\ DOMAIN order = 1..n /\ \A k \in 1..n : order[k] \in ts
      BY <3>1
    <3> QED
      BY <2>2, <3>1, <3>2, ListOnce
  <2>4. /\ DOMAIN ch = 1..(n + 1) /\ ch[n + 1] = mark
        /\ \A k \in 1..n : ch[k] = snap(order[k])
    <3>1. first \in Seq({snap(t) : t \in ts}) /\ Len(first) = n /\ \A k \in 1..n : first[k] = snap(order[k])
      <4> HIDE DEF snap, order, n
      <4>1. first = [k \in 1..n |-> snap(order[k])]
        BY <2>3
      <4> QED
        BY <4>1, <2>3
    <3>2. <<mark>> \in Seq({mark}) /\ Len(<<mark>>) = 1 /\ <<mark>>[1] = mark
      OBVIOUS
    <3> DEFINE U == {snap(t) : t \in ts} \cup {mark}
    <3>3. first \in Seq(U) /\ <<mark>> \in Seq(U)
      BY <3>1, <3>2
    <3> HIDE DEF ch, snap, mark, first, n, U
    <3>4. /\ Len(ch) = n + 1 /\ DOMAIN ch = 1..(n + 1)
          /\ \A k \in 1..n : ch[k] = first[k]
          /\ ch[n + 1] = mark
      BY <2>1, <2>3, <3>1, <3>2, <3>3, ConcatProperties
    <3> QED
      BY <3>1, <3>4
  <2> HIDE DEF ch, snap, mark, order, n, first
  <2>5. \A k \in DOMAIN ch : k \in 1..n \/ k = n + 1
    BY <2>3, <2>4
  <2>6. \A k \in DOMAIN ch : \A j \in DOMAIN ch : j < k => j \in 1..n
    BY <2>3, <2>4
  <2>7. ASSUME NEW t \in ts
        PROVE  \E k \in DOMAIN ch :
                   /\ ch[k] = snap(t)
                   /\ \A j \in DOMAIN ch : j # k => ch[j] = mark \/ \E u \in ts \ {t} : ch[j] = snap(u)
    <3>1. PICK k \in 1..n : order[k] = t
      BY <2>3
    <3>2. k \in DOMAIN ch /\ ch[k] = snap(t)
      BY <2>3, <2>4, <3>1
    <3>3. ASSUME NEW j \in DOMAIN ch, j # k PROVE ch[j] = mark \/ \E u \in ts \ {t} : ch[j] = snap(u)
      <4>1. CASE j = n + 1
        BY <4>1, <2>4
      <4>2. CASE j \in 1..n
        <5>1. order[j] \in ts \ {t} /\ ch[j] = snap(order[j])
          BY <2>3, <2>4, <3>1, <3>3, <4>2
        <5> QED
          BY <5>1
      <4> QED
        BY <2>5, <4>1, <4>2
    <3> QED
      BY <3>2, <3>3
  <2>8. \A k \in DOMAIN ch : ch[k] = mark \/ \E t \in ts : ch[k] = snap(t)
    BY <2>3, <2>4, <2>5
  <2>9. \A k \in DOMAIN ch : \A j \in DOMAIN ch : j < k => \E t \in ts : ch[j] = snap(t)
    BY <2>3, <2>4, <2>6
  <2>10. DOMAIN ch \subseteq Int
    BY <2>3, <2>4
  <2> QED
    BY <1>2, <2>7, <2>8, <2>9, <2>10 DEF ch, snap, mark, Listing
<1> QED
  BY <1>1, <1>2

(* A run begins: a table that resumes has what was claimed of it, which is *)
(* as far as the source passes records by or begins; the others get a      *)
(* snapshot.                                                               *)
LEMMA ResumeStartRun == ASSUME StreamInv, ResumeInv, StartRun PROVE ResumeInv'
<1>u. /\ UNCHANGED <<log, dest>>
      /\ pc' = "run" /\ staging' = None
      /\ knownComplete' = complete /\ complete' = Zero /\ checkpoint' = 0 /\ Discard
  BY DEF StartRun
<1>s. Shape /\ Heads /\ Certified
  BY DEF StreamInv, ResumeInv
<1>d. /\ step' = NoSteps /\ pending' = None /\ lastToken' = 0
      /\ pendingState' = NoState /\ pendingTruncates' = {}
  BY <1>u DEF Discard
<1>t. /\ log \in Logs /\ Len(log) \in Nat /\ Positions = 0..Len(log)
      /\ head \in Positions /\ acked \in Positions /\ checkpoint \in Positions
      /\ \A t \in Tables : complete[t] \in Positions
  BY <1>s, LogTerms DEF Shape
<1> DEFINE ts == Tables \ Resumable
           R(t) == ResumePosition(t)
<1>1. PICK s \in head..Len(log) :
          /\ head' = s
          /\ processed' = [t \in Tables |-> IF t \in Resumable THEN R(t) ELSE s]
          /\ channel' = Snapshots(ts, s, IF Resumable = {} THEN s ELSE 0)
          /\ next' = IF Resumable = {} THEN s ELSE Max2(acked, Min({R(t) : t \in Resumable}))
          /\ acked' = IF Resumable = {} THEN s ELSE acked
  BY DEF StartRun
<1> DEFINE tok == IF Resumable = {} THEN s ELSE 0
<1>2. s \in Positions /\ s \in Nat /\ head <= s /\ tok \in Positions /\ acked <= s /\ 0 <= s
  BY <1>1, <1>t, <1>s DEF Heads
<1>3. ASSUME NEW t \in Resumable
      PROVE  /\ t \in Tables /\ complete[t] # 0 /\ R(t) \in Nat /\ R(t) \in Positions
             /\ R(t) \in {checkpoint, complete[t]} /\ complete[t] <= R(t) /\ R(t) <= s
  <2>1. t \in Tables /\ complete[t] # 0
    BY DEF Resumable
  <2>2. R(t) \in {checkpoint, complete[t]} /\ complete[t] <= R(t)
    BY <2>1, <1>t DEF ResumePosition, Max2
  <2>3. checkpoint <= s /\ complete[t] <= s
    BY <2>1, <1>t, <1>2, <1>s DEF Heads
  <2> HIDE DEF R
  <2> QED
    BY <2>1, <2>2, <2>3, <1>t
<1>4. /\ next' \in Nat /\ acked' \in Nat /\ next' <= s /\ acked' <= next'
      /\ (Resumable = {} => next' = s)
      /\ \A t \in Resumable : next' \in {acked} \cup Nat /\ (next' = acked \/ next' <= R(t))
  <2>1. CASE Resumable = {}
    BY <2>1, <1>1, <1>2
  <2>2. CASE Resumable # {}
    <3> DEFINE S == {R(t) : t \in Resumable}
               m == Min(S)
    <3>1. S \in SUBSET Nat /\ S # {}
      BY <2>2, <1>3
    <3>2. m \in S /\ \A y \in S : m <= y
      <4> HIDE DEF S
      <4> QED
        BY <3>1, MinInSet
    <3>3. m \in Nat /\ m <= s /\ \A t \in Resumable : m <= R(t)
      BY <3>2, <1>3
    <3>4. next' = Max2(acked, m) /\ acked' = acked /\ acked \in Nat
      BY <2>2, <1>1, <1>t
    <3>5. (next' = acked /\ m <= acked) \/ (next' = m /\ acked <= m)
      <4>1. PICK l : l = m
        OBVIOUS
      <4>2. l \in Nat /\ next' = Max2(acked, l)
        BY <3>3, <3>4, <4>1
      <4>3. (next' = acked /\ l <= acked) \/ (next' = l /\ acked <= l)
        BY <3>4, <4>2 DEF Max2
      <4> QED
        BY <4>1, <4>3
    <3> HIDE DEF m
    <3> QED
      BY <2>2, <3>3, <3>4, <3>5, <1>2
  <2> QED
    BY <2>1, <2>2
<1>5. \A t \in Tables : /\ t \in Resumable => processed'[t] = R(t)
                        /\ t \notin Resumable => processed'[t] = s /\ complete[t] = 0
  BY <1>1 DEF Resumable
<1> HIDE DEF R
<1>6. ASSUME NEW t \in Tables
      PROVE  /\ Bound(t)' = Max2(next', processed'[t]) /\ processed'[t] \in Nat /\ processed'[t] <= s
             /\ next' <= Bound(t)' /\ processed'[t] <= Bound(t)' /\ complete[t] <= processed'[t]
  <2>1. processed'[t] \in Nat /\ processed'[t] <= s /\ complete[t] <= processed'[t]
    BY <1>2, <1>3, <1>5
  <2>2. Bound(t)' = Max2(next', processed'[t])
    BY DEF Bound
  <2> QED
    BY <2>1, <2>2, <1>4 DEF Max2
<1> DEFINE snap(t) == Result(t, Replay(t, s), "snapshot", 0, {}, 0)
           mark == Result("none", {}, "no", tok, ts, s)
           ch == channel'
<1>7. /\ DOMAIN ch \subseteq Int
      /\ \A k \in DOMAIN ch : ts # {} /\ (ch[k] = mark \/ \E t \in ts : ch[k] = snap(t))
      /\ \A k \in DOMAIN ch : \A j \in DOMAIN ch : j < k => \E t \in ts : ch[j] = snap(t)
      /\ \A t \in ts : \E k \in DOMAIN ch :
             /\ ch[k] = snap(t)
             /\ \A j \in DOMAIN ch : j # k => ch[j] = mark \/ \E u \in ts \ {t} : ch[j] = snap(u)
  <2>1. ts \in SUBSET Tables /\ ch = Snapshots(ts, s, tok)
    BY <1>1
  <2> HIDE DEF ts, tok, ch
  <2>2. tok \in Positions /\ s \in Positions /\ log \in Logs
    BY <1>2, <1>t
  <2>3. Listing(ch, ts, s, tok)
    BY <2>1, <2>2, SnapshotChannel
  <2> QED
    BY <2>3 DEF Listing
<1>8. /\ mark.table = "none" /\ mark.rows = {} /\ mark.trunc = "no" /\ mark.token = tok
      /\ mark.snaps = ts /\ mark.at = s
      /\ \A t : /\ snap(t).table = t /\ snap(t).rows = Replay(t, s) /\ snap(t).trunc = "snapshot"
                /\ snap(t).token = 0 /\ snap(t).snaps = {} /\ snap(t).at = 0
  BY DEF Result
<1> HIDE DEF snap, mark, ch
<1>9. \A k \in DOMAIN ch : ~IsRecord(ch[k])
  BY <1>7, <1>8 DEF IsRecord
<1>10. ChannelOK'
  <2>1. tok <= next'
    BY <1>4, <1>2
  <2>2. \A t \in ts : processed'[t] = s
    BY <1>5
  <2>3. ASSUME NEW k \in DOMAIN ch PROVE ResultOK(log, next', processed', ch[k])
    <3>1. CASE ch[k] = mark
      BY <3>1, <1>8, <1>9, <2>1, <2>2 DEF ResultOK
    <3>2. CASE \E t \in ts : ch[k] = snap(t)
      <4>1. PICK t \in ts : ch[k] = snap(t)
        BY <3>2
      <4> QED
        BY <4>1, <1>4, <1>8, <1>9 DEF ResultOK
    <3> QED
      BY <1>7, <3>1, <3>2
  <2>4. Ordered(ch)
    BY <1>7, <1>8, <1>9 DEF Ordered
  <2> QED
    BY <2>3, <2>4, <1>u DEF ChannelOK, ch
<1>11. ASSUME NEW t \in Tables, Fresh(ch, t) PROVE t \notin Resumable
  <2>1. PICK k \in DOMAIN ch : t \in ch[k].snaps \/ (ch[k].table = t /\ ch[k].trunc = "snapshot")
    BY <1>11 DEF Fresh
  <2> QED
    BY <2>1, <1>7, <1>8
<1>12. ClaimsOK'
  <2>1. \A q \in Globals' : q = acked' \/ q = 0
    BY <1>u, <1>d DEF Globals, NoState
  <2>2. \A t \in Tables : \A q \in Claims(t)' : q = complete[t] \/ q = 0
    BY <1>u, <1>d DEF Claims, NoState, Zero
  <2>3. \A q \in Globals' : q <= next'
    BY <2>1, <1>4
  <2>4. \A t, q : Before(ch, t, q)
    BY <1>9 DEF Before
  <2>5. ASSUME NEW t \in Tables, NEW q \in Globals' \cup Claims(t)' PROVE q <= Bound(t)'
    <3>1. Bound(t)' \in Nat
      BY <1>4, <1>6 DEF Max2
    <3>2. q = acked' \/ q = 0 \/ q = complete[t]
      BY <2>1, <2>2, <2>5
    <3>3. complete[t] \in Nat
      BY <1>t
    <3> QED
      BY <3>1, <3>2, <3>3, <1>4, <1>6
  <2>6. \A t \in Tables : Fresh(ch, t) => \A q \in Claims(t)' : q = 0
    BY <1>5, <1>11, <2>2
  <2>7. pendingState'.pos = 0
    BY <1>d DEF NoState
  <2> QED
    BY <2>3, <2>4, <2>5, <2>6, <2>7, <1>1, <1>d, <1>4, <1>6 DEF ClaimsOK, ch
<1>13. FlushOK'
  BY <1>u, <1>d DEF FlushOK, Buffered, None
<1>14. TablesOK'
  <2>1. ASSUME NEW t \in Tables PROVE Have(t)' = dest[t]
    BY <1>u, <1>d DEF Have, InFlight, None, NoSteps
  <2>2. ASSUME NEW t \in Resumable PROVE Follows(log, ch, t, Bound(t)', dest[t])
    <3>1. t \in Tables /\ complete[t] # 0 /\ R(t) \in Nat /\ R(t) \in {checkpoint, complete[t]}
          /\ processed'[t] = R(t)
      BY <1>3, <1>5
    <3>2. Bound(t)' \in {acked, R(t)}
      BY <3>1, <1>4, <1>6, <1>t DEF Max2
    <3>3. Restores(log, t, dest[t], Bound(t)')
      BY <3>1, <3>2, <1>s DEF Certified
    <3>4. \A k \in DOMAIN ch : ch[k].table = t => ch[k].trunc = "no" /\ ch[k].rows = {}
      BY <1>7, <1>8
    <3>5. Bound(t)' \in Int
      BY <3>1, <3>2, <1>t
    <3> QED
      BY <3>3, <3>4, <3>5, <1>t, FollowsQuiet
  <2>3. ASSUME NEW t \in ts PROVE Follows(log, ch, t, Bound(t)', dest[t])
    <3>1. Bound(t)' = s
      BY <1>2, <1>4, <1>5, <1>6 DEF Max2
    <3>2. Restores(log, t, Replay(t, s), s)
      BY <1>2, <1>t, ReplayRestores
    <3>3. PICK k \in DOMAIN ch : /\ ch[k] = snap(t)
                                 /\ \A j \in DOMAIN ch : j # k => ch[j] = mark \/ \E u \in ts \ {t} : ch[j] = snap(u)
      BY <1>7
    <3>4. Cuts(ch[k], t) /\ ch[k].rows = Replay(t, s)
      BY <3>3, <1>8 DEF Cuts
    <3>5. \A j \in DOMAIN ch : j # k /\ ch[j].table = t => ch[j].trunc = "no" /\ ch[j].rows = {}
      BY <3>3, <1>8
    <3>6. s \in Int
      BY <1>2
    <3> QED
      BY <3>1, <3>2, <3>4, <3>5, <3>6, <1>7, <1>t, FollowsSnapshot
  <2>4. ASSUME NEW t \in Tables PROVE Follows(log, ch, t, Bound(t)', dest[t])
    BY <2>2, <2>3
  <2> QED
    BY <2>1, <2>4, <1>u DEF TablesOK, ch
<1>15. Heads' /\ Certified'
  BY <1>1, <1>2, <1>4, <1>u DEF Heads, Certified, Zero
<1> QED
  BY <1>10, <1>12, <1>13, <1>14, <1>15 DEF ResumeInv

(* Every step keeps the invariant. *)
LEMMA ResumeNext == ASSUME StreamInv, ResumeInv, [Next]_vars PROVE ResumeInv'
<1>1. CASE Source
  BY <1>1, ResumeStartRun, ResumeSend, ResumeSendToken, ResumeIdle DEF Source
<1>2. CASE Loop
  BY <1>2, ResumeReceive, ResumeInvalidateTruncated, ResumeApplyTruncate, ResumeBeginFlush,
     ResumeFlushTable, ResumeIdle, ResumePersist, ResumeCommit DEF Loop
<1>3. CASE Cancel \/ UNCHANGED vars
  BY <1>3, ResumeIdle
<1>4. CASE Fail
  BY <1>4, ResumeFail
<1> QED
  BY <1>1, <1>2, <1>3, <1>4 DEF Next

(* The invariant holds in every state. *)
LEMMA ResumeInvariance == Spec => []ResumeInv
<1>1. Init => ResumeInv
  BY ResumeInit
<1>2. StreamInv /\ ResumeInv /\ [Next]_vars => ResumeInv'
  BY ResumeNext
<1> QED
  BY <1>1, <1>2, StreamInvariance, PTL DEF Spec

(* Of every table that would resume, to send the log again from where the  *)
(* source and the state are restores it exactly, whenever the run ends:    *)
(* for every log, buffer size and number of faults.  About the order of    *)
(* flush, Persist and CommitStream, the truncates of flushLoop, and where  *)
(* a source goes on from (ResumePosition).                                 *)
THEOREM ResumeExact == Spec => []ResumeRestores
<1>1. ASSUME StreamInv, ResumeInv PROVE ResumeRestores
  <2>1. ASSUME NEW t \in Resumable
        PROVE  Redelivered(t, Max2(acked, ResumePosition(t))) = Replay(t, Len(log))
    <3>s. Shape /\ t \in Tables /\ complete[t] # 0
      BY <1>1 DEF StreamInv, Resumable
    <3>1. Max2(acked, ResumePosition(t)) \in {acked, checkpoint, complete[t]}
      BY <3>s DEF ResumePosition, Max2
    <3>2. PICK p : p = Max2(acked, ResumePosition(t))
      OBVIOUS
    <3>3. p \in Positions
      BY <3>1, <3>2, <3>s, ClaimTypes
    <3>4. Restores(log, t, dest[t], p)
      BY <3>1, <3>2, <3>s, <1>1 DEF ResumeInv, Certified
    <3> QED
      BY <3>2, <3>3, <3>4, <3>s, RestoredExactly
  <2> QED
    BY <2>1 DEF ResumeRestores
<1> QED
  BY <1>1, StreamInvariance, ResumeInvariance, PTL

----------------------------------------------------------------------------
(* What keeps rows of a keyless table from being appended twice.           *)

(* The snapshot of t is still to come. *)
Shown(ch, t) == \E k \in DOMAIN ch : ch[k].table = t /\ ch[k].trunc = "snapshot"

(* Row i is behind what comes for t, up to the next truncate: up to b, and *)
(* before every record.                                                    *)
Under(ch, t, b, i) ==
    /\ Uncut(ch, t) => i <= b
    /\ \A k \in DOMAIN ch :
          IsRecord(ch[k]) /\ ch[k].table = t /\ (\A j \in DOMAIN ch : j <= k => ~Cuts(ch[j], t)) => i < ch[k].at

(* Only keyless tables are appended to, and not without rows. *)
KindsOK ==
    \A t \in Tables :
        /\ step[t] \in {"invalidate", "append"} => t \in Keyless /\ rows[t] # {}
        /\ step[t] \in {"write", "merge", "reset"} => t \notin Keyless

(* A snapshot position waits only for a table of which nothing is claimed  *)
(* (once it is persisted, it is the claim), no position waits without a    *)
(* token to commit, and of a table that was truncated nothing is claimed   *)
(* until a token completes it.                                             *)
MarksOK ==
    /\ \A t \in Tables : pendingState.snaps[t] # 0 =>
          IF pc = "commit" THEN complete[t] # 0 ELSE complete[t] = 0 /\ knownComplete[t] = 0
    /\ ~tokenDirty => pendingState = NoState
    /\ pendingTruncates # {} => ~tokenDirty
    /\ \A t \in pendingTruncates : complete[t] = 0 /\ knownComplete[t] = 0
    /\ pc = "truncate" => /\ ~tokenDirty /\ complete[Head(channel).table] = 0
                          /\ knownComplete[Head(channel).table] = 0

(* A snapshot has no row behind the position of its table. *)
SnapshotsOK ==
    \A k \in DOMAIN channel : channel[k].trunc = "snapshot" =>
        /\ channel[k].table \in Tables
        /\ \A i \in channel[k].rows : i <= processed[channel[k].table]

(* Nothing is claimed of a table, and it is not about to be emptied. *)
Bare(t) == complete[t] = 0 /\ knownComplete[t] = 0 /\ ~Shown(channel, t) /\ ~(pc = "truncate" /\ Head(channel).table = t)

(* The rows that are still to be flushed. *)
Held(t) == pending[t] \cup InFlight(t)

(* A table that is not loose has no row behind what this run found         *)
(* complete; its rows are older than those to be flushed, and these than   *)
(* what comes; and a table of which nothing is claimed is empty, but in a  *)
(* flush that will claim it, up to that claim.                             *)
Tight(t) ==
    /\ knownComplete[t] # 0 => \A i \in dest[t] : i <= knownComplete[t]
    /\ \A i \in Have(t) : Under(channel, t, Bound(t), i)
    /\ \A i \in dest[t], j \in Held(t) : i < j
    /\ Bare(t) => IF pc \in {"flush", "commit"}
                  THEN step[t] \notin {"invalidate", "append"} => \A i \in dest[t] : i <= pendingState.snaps[t]
                  ELSE dest[t] = {}

(* The invariant: a run would begin with tables that are not loose as      *)
(* Tight demands it.                                                       *)
DoubleInv ==
    /\ DoubledOnlyIfLoose
    /\ \A t \in Keyless \ loose : complete[t] # 0 => \A i \in dest[t] : i <= complete[t]
    /\ Active => KindsOK /\ MarksOK /\ SnapshotsOK /\ \A t \in Keyless \ loose : Tight(t)

(* DoubleInv holds initially. *)
LEMMA DoubleInit == ASSUME Init PROVE DoubleInv
<1>1. pc = "down" /\ twice = {} /\ loose = {} /\ complete = [t \in Tables |-> 0]
  BY DEF Init, Zero
<1>2. \A t \in Keyless : complete[t] = 0
  BY <1>1, StreamingAssumption
<1> QED
  BY <1>1, <1>2 DEF DoubleInv, DoubledOnlyIfLoose, Active

(* A failure leaves the tables and what is claimed of them. *)
LEMMA DoubleFail == ASSUME DoubleInv, Fail PROVE DoubleInv'
<1>1. UNCHANGED <<dest, twice, loose, complete>> /\ pc' = "down"
  BY DEF Fail, stateVars, destVars
<1> QED
  BY <1>1 DEF DoubleInv, DoubledOnlyIfLoose, Active

(* The rows of the tables are positions. *)
LEMMA RowTypes ==
    ASSUME Shape, NEW t \in Tables
    PROVE  /\ \A i \in Have(t) : i \in Nat \ {0}
           /\ \A i \in dest[t] : i \in Nat \ {0}
           /\ \A i \in Held(t) : i \in Nat \ {0}
           /\ \A i \in rows[t] : i \in Nat \ {0} /\ i \in 0..Len(log)
           /\ Have(t) = dest[t] \cup Held(t)
<1>1. Lsns = 1..Len(log) /\ Len(log) \in Nat
  BY LogTerms DEF Shape
<1>2. /\ dest[t] \in SUBSET Lsns /\ pending[t] \in SUBSET Lsns /\ rows[t] \in SUBSET Lsns
      /\ staging[t] \in SUBSET Lsns
  BY DEF Shape
<1>3. InFlight(t) \in SUBSET Lsns
  BY <1>2 DEF InFlight
<1> QED
  BY <1>1, <1>2, <1>3 DEF Have, Held

(* A cancellation, the steps of a shutdown, the end of the source, and no  *)
(* step.                                                                   *)
LEMMA DoubleIdle ==
    ASSUME StreamInv, DoubleInv, SourceEnds \/ Cancel \/ Shutdown \/ UNCHANGED vars
    PROVE  DoubleInv'
<1>1. /\ UNCHANGED <<log, head, next, processed, acked, channel, dest, staging, twice, loose>>
      /\ UNCHANGED <<complete, checkpoint, knownComplete, step, rows>>
      /\ UNCHANGED <<pending, lastToken, tokenDirty, pendingState, pendingTruncates>>
  BY DEF SourceEnds, Cancel, Shutdown, vars, sourceVars, stateVars, destVars, flushVars, bufferVars
<1>2. pc' = pc \/ (pc \in {"run", "drain", "final"} /\ pc' \in {"drain", "final", "done"})
  BY DEF SourceEnds, Cancel, Shutdown, vars
<1>3. DoubledOnlyIfLoose' /\ (Active' => Active)
  BY <1>1, <1>2 DEF DoubleInv, DoubledOnlyIfLoose, Active
<1>4. ASSUME Active PROVE KindsOK' /\ MarksOK' /\ SnapshotsOK' /\ \A t \in Keyless \ loose : Tight(t)'
  <2>1. KindsOK' /\ SnapshotsOK'
    BY <1>1, <1>4 DEF DoubleInv, KindsOK, SnapshotsOK
  <2>2. MarksOK'
    BY <1>1, <1>2, <1>4 DEF DoubleInv, MarksOK
  <2>3. ASSUME NEW t \in Keyless \ loose PROVE Tight(t)'
    <3>1. Tight(t)
      BY <1>4 DEF DoubleInv
    <3>2. Have(t)' = Have(t) /\ Held(t)' = Held(t) /\ Bound(t)' = Bound(t)
      BY <1>1 DEF Have, Held, InFlight, Bound
    <3>3. Bare(t)' <=> Bare(t)
      BY <1>1, <1>2 DEF Bare
    <3>4. pc' \in {"flush", "commit"} <=> pc \in {"flush", "commit"}
      BY <1>2
    <3> QED
      BY <1>1, <3>1, <3>2, <3>3, <3>4 DEF Tight
  <2> QED
    BY <2>1, <2>2, <2>3
<1> QED
  BY <1>1, <1>3, <1>4 DEF DoubleInv

(* A cycle ends without a position: no snapshot is claimed, and so a table *)
(* of which nothing is claimed is empty.                                   *)
LEMMA DoubleEndCycle == ASSUME StreamInv, DoubleInv, EndCycle PROVE DoubleInv'
<1>1. /\ UNCHANGED <<log, head, next, processed, acked, channel, dest, staging, twice, loose>>
      /\ UNCHANGED <<complete, checkpoint, knownComplete, step, rows>>
      /\ UNCHANGED <<pending, lastToken, tokenDirty, pendingState, pendingTruncates>>
      /\ pc = "flush" /\ pc' = cont /\ ~tokenDirty /\ \A t \in Tables : step[t] = "none"
  BY DEF EndCycle, Written, sourceVars, stateVars, destVars, flushVars, bufferVars
<1>s. /\ Shape /\ Active /\ cont \in {"run", "drain", "done"}
      /\ KindsOK /\ MarksOK /\ SnapshotsOK /\ Keyless \subseteq Tables
      /\ \A t \in Keyless \ loose : Tight(t)
  BY <1>1, StreamingAssumption DEF StreamInv, Steps, DoubleInv, Active
<1>2. KindsOK' /\ SnapshotsOK'
  BY <1>1, <1>s DEF KindsOK, SnapshotsOK
<1>3. MarksOK'
  BY <1>1, <1>s DEF MarksOK
<1>4. ASSUME NEW t \in Keyless \ loose PROVE Tight(t)'
  <2>1. Have(t)' = Have(t) /\ Held(t)' = Held(t) /\ Bound(t)' = Bound(t)
    BY <1>1 DEF Have, Held, InFlight, Bound
  <2>2. Bare(t)' <=> Bare(t)
    BY <1>1, <1>s DEF Bare
  <2>3. Bare(t) => dest[t] = {}
    <3>1. t \in Tables /\ pendingState.snaps[t] = 0
      BY <1>1, <1>s DEF MarksOK, NoState, Zero
    <3>2. Bare(t) => \A i \in dest[t] : i <= 0
      BY <1>1, <1>s, <3>1 DEF Tight
    <3>3. \A i \in dest[t] : ~(i <= 0)
      BY <1>s, <3>1, RowTypes
    <3> QED
      BY <3>2, <3>3
  <2>4. pc' \notin {"flush", "commit"}
    BY <1>1, <1>s
  <2> QED
    BY <1>1, <1>s, <2>1, <2>2, <2>3, <2>4 DEF Tight
<1>5. DoubledOnlyIfLoose'
  BY <1>1 DEF DoubleInv, DoubledOnlyIfLoose
<1> QED
  BY <1>1, <1>2, <1>3, <1>4, <1>5 DEF DoubleInv

(* A flush begins: the buffered rows are on their way.                     *)
LEMMA DoubleBeginFlush == ASSUME StreamInv, DoubleInv, BeginFlush PROVE DoubleInv'
<1>1. /\ UNCHANGED <<log, head, next, processed, acked, channel, dest, staging, twice, loose>>
      /\ UNCHANGED <<complete, checkpoint, knownComplete, tokenDirty, pendingState, pendingTruncates>>
      /\ pc \in {"run", "drain", "final"} /\ pc' = "flush" /\ rows' = pending /\ pending' = None
  BY DEF BeginFlush, sourceVars, stateVars, destVars
<1>s. /\ Shape /\ Active /\ Steps /\ KindsOK /\ MarksOK /\ SnapshotsOK /\ Keyless \subseteq Tables
      /\ \A t \in Keyless \ loose : Tight(t)
  BY <1>1, StreamingAssumption DEF StreamInv, DoubleInv, Active
<1>k. \A t \in Tables :
          /\ step[t] = "none"
          /\ \/ step'[t] = "none" /\ pending[t] = {}
             \/ step'[t] = "write" /\ t \notin Keyless
             \/ step'[t] \in {"invalidate", "append"} /\ t \in Keyless /\ pending[t] # {}
  BY <1>1, <1>s DEF BeginFlush, Steps
<1>2. KindsOK' /\ SnapshotsOK'
  BY <1>1, <1>k, <1>s DEF KindsOK, SnapshotsOK
<1>3. MarksOK'
  BY <1>1, <1>s DEF MarksOK
<1>4. ASSUME NEW t \in Keyless \ loose PROVE Tight(t)'
  <2>1. Held(t) = pending[t] /\ Held(t)' = pending[t]
    BY <1>1, <1>k, <1>s DEF Held, InFlight, None
  <2>2. Have(t)' = Have(t) /\ Bound(t)' = Bound(t)
    BY <1>1, <2>1 DEF Have, Held, Bound
  <2>3. Bare(t)' => dest[t] = {}
    BY <1>1, <1>s DEF Tight, Bare
  <2> QED
    BY <1>1, <1>s, <2>1, <2>2, <2>3 DEF Tight
<1>5. DoubledOnlyIfLoose'
  BY <1>1 DEF DoubleInv, DoubledOnlyIfLoose
<1> QED
  BY <1>1, <1>2, <1>3, <1>4, <1>5 DEF DoubleInv

(* A keyless table is invalidated: nothing is claimed of it until its rows *)
(* are appended.                                                           *)
LEMMA DoubleInvalidate ==
    ASSUME StreamInv, DoubleInv, NEW t \in Tables, InvalidateKeyless(t)
    PROVE  DoubleInv'
<1>1. /\ UNCHANGED <<log, head, next, processed, acked, channel, dest, staging, twice, loose>>
      /\ UNCHANGED <<checkpoint, rows, pending, lastToken, pendingTruncates, tokenDirty>>
      /\ pc = "flush" /\ pc' = pc
      /\ pendingState' = [pendingState EXCEPT !.snaps[t] = pendingState.pos]
  BY DEF InvalidateKeyless, sourceVars, destVars
<1>s. /\ Shape /\ Active /\ KindsOK /\ MarksOK /\ SnapshotsOK /\ Keyless \subseteq Tables
      /\ \A u \in Keyless \ loose : Tight(u)
  BY <1>1, StreamingAssumption DEF StreamInv, DoubleInv, Active
<1>2. /\ \A u \in Tables : u # t => step'[u] = step[u] /\ complete'[u] = complete[u]
                                    /\ knownComplete'[u] = knownComplete[u]
                                    /\ pendingState'.snaps[u] = pendingState.snaps[u]
      /\ step[t] = "invalidate" /\ step'[t] = "append" /\ complete'[t] = 0 /\ knownComplete'[t] = 0
      /\ pendingState'.snaps[t] = pendingState.pos /\ pendingState'.pos = pendingState.pos
  BY <1>s DEF InvalidateKeyless, Shape
<1>3. KindsOK' /\ SnapshotsOK'
  BY <1>1, <1>2, <1>s DEF KindsOK, SnapshotsOK
<1>4. MarksOK'
  <2>1. ASSUME ~tokenDirty PROVE pendingState' = NoState
    <3>1. pendingState = [pos |-> 0, snaps |-> [u \in Tables |-> 0]]
      BY <2>1, <1>s DEF MarksOK, NoState, Zero
    <3>2. pendingState' = [pos |-> 0, snaps |-> [[u \in Tables |-> 0] EXCEPT ![t] = 0]]
      BY <3>1, <1>1
    <3> QED
      BY <3>2 DEF NoState, Zero
  <2>2. \A u \in Tables : complete[u] = 0 /\ knownComplete[u] = 0 => complete'[u] = 0 /\ knownComplete'[u] = 0
    BY <1>2
  <2>4. \A u \in pendingTruncates : complete'[u] = 0 /\ knownComplete'[u] = 0
    BY <1>1, <1>2, <1>s DEF MarksOK, InvalidateKeyless, Shape
  <2> QED
    BY <1>1, <1>2, <1>s, <2>1, <2>4 DEF MarksOK
<1>5. ASSUME NEW u \in Keyless \ loose PROVE Tight(u)'
  <2>1. Held(u)' = Held(u) /\ Have(u)' = Have(u) /\ Bound(u)' = Bound(u)
    BY <1>1, <1>2, <1>s DEF Held, Have, InFlight, Bound
  <2>2. CASE u = t
    BY <1>1, <1>2, <1>s, <2>1, <2>2 DEF Tight
  <2>3. CASE u # t
    <3>1. Bare(u)' <=> Bare(u)
      BY <1>1, <1>2, <1>s, <2>3 DEF Bare
    <3> QED
      BY <1>1, <1>2, <1>s, <2>1, <2>3, <3>1 DEF Tight
  <2> QED
    BY <2>2, <2>3
<1>6. DoubledOnlyIfLoose'
  BY <1>1 DEF DoubleInv, DoubledOnlyIfLoose
<1>7. \A u \in Keyless \ loose' : complete'[u] # 0 => \A i \in dest'[u] : i <= complete'[u]
  BY <1>1, <1>2, <1>s DEF DoubleInv
<1> QED
  BY <1>1, <1>3, <1>4, <1>5, <1>6, <1>7 DEF DoubleInv

(* The steps of a table with a key leave the keyless tables alone.         *)
LEMMA DoubleStage ==
    ASSUME StreamInv, DoubleInv, NEW t \in Tables, WriteStaging(t) \/ MergeStaging(t) \/ ResetStaging(t)
    PROVE  DoubleInv'
<1>1. /\ UNCHANGED <<log, head, next, processed, acked, channel, twice, loose, rows>>
      /\ UNCHANGED <<complete, checkpoint, knownComplete, pending, tokenDirty, pendingState, pendingTruncates>>
      /\ pc = "flush" /\ pc' = pc /\ step[t] \in {"write", "merge", "reset"}
  BY DEF WriteStaging, MergeStaging, ResetStaging, Writing, sourceVars, stateVars, destVars, bufferVars
<1>s. /\ Shape /\ Active /\ KindsOK /\ MarksOK /\ SnapshotsOK /\ Keyless \subseteq Tables /\ t \notin Keyless
      /\ \A u \in Keyless \ loose : Tight(u)
  BY <1>1, StreamingAssumption DEF StreamInv, DoubleInv, Active, KindsOK
<1>2. /\ \A u \in Tables : u # t => step'[u] = step[u] /\ staging'[u] = staging[u] /\ dest'[u] = dest[u]
      /\ step'[t] \in {"none", "merge", "reset"}
  BY <1>s DEF WriteStaging, MergeStaging, ResetStaging, Shape
<1>3. KindsOK' /\ SnapshotsOK'
  BY <1>1, <1>2, <1>s DEF KindsOK, SnapshotsOK
<1>4. MarksOK'
  BY <1>1, <1>s DEF MarksOK
<1>5. ASSUME NEW u \in Keyless \ loose PROVE Tight(u)'
  <2>1. dest'[u] = dest[u] /\ step'[u] = step[u] /\ staging'[u] = staging[u]
    BY <1>2, <1>s
  <2>2. Held(u)' = Held(u) /\ Have(u)' = Have(u) /\ Bound(u)' = Bound(u) /\ (Bare(u)' <=> Bare(u))
    BY <1>1, <2>1 DEF Held, Have, InFlight, Bound, Bare
  <2> QED
    BY <1>1, <1>s, <2>1, <2>2 DEF Tight
<1>6. DoubledOnlyIfLoose'
  BY <1>1 DEF DoubleInv, DoubledOnlyIfLoose
<1>7. \A u \in Keyless \ loose' : complete'[u] # 0 => \A i \in dest'[u] : i <= complete'[u]
  BY <1>1, <1>2, <1>s DEF DoubleInv
<1> QED
  BY <1>1, <1>3, <1>4, <1>5, <1>6, <1>7 DEF DoubleInv

(* The rows of a flush are appended.  Unless the table gets loose there is *)
(* a snapshot position up to them, nothing is claimed of the table, and    *)
(* what it had before is older.                                            *)
LEMMA DoubleAppend ==
    ASSUME StreamInv, ResumeInv, DoubleInv, NEW t \in Tables, AppendRows(t)
    PROVE  DoubleInv'
<1>1. /\ UNCHANGED <<log, head, next, processed, acked, channel, rows, staging>>
      /\ UNCHANGED <<complete, checkpoint, knownComplete, pending, tokenDirty, pendingState, pendingTruncates>>
      /\ pc = "flush" /\ pc' = pc /\ step[t] = "append"
      /\ twice' = IF dest[t] \cap rows[t] = {} THEN twice ELSE twice \cup {t}
      /\ loose' = IF Max(rows[t]) <= pendingState.snaps[t] THEN loose ELSE loose \cup {t}
  BY DEF AppendRows, Writing, sourceVars, stateVars, bufferVars
<1>s. /\ Shape /\ Active /\ KindsOK /\ MarksOK /\ SnapshotsOK /\ Keyless \subseteq Tables
      /\ t \in Keyless /\ rows[t] # {} /\ twice \subseteq loose
      /\ \A u \in Keyless \ loose : Tight(u)
  BY <1>1, StreamingAssumption DEF StreamInv, DoubleInv, Active, KindsOK, DoubledOnlyIfLoose
<1>2. /\ \A u \in Tables : u # t => step'[u] = step[u] /\ dest'[u] = dest[u]
      /\ step'[t] = "none" /\ dest'[t] = dest[t] \cup rows[t]
  BY <1>s DEF AppendRows, Shape, Upsert
<1>3. KindsOK' /\ SnapshotsOK'
  BY <1>1, <1>2, <1>s DEF KindsOK, SnapshotsOK
<1>4. MarksOK'
  BY <1>1, <1>s DEF MarksOK
<1>5. ASSUME t \notin loose'
      PROVE  /\ \A i \in rows[t] : i <= pendingState.snaps[t]
             /\ complete[t] = 0 /\ knownComplete[t] = 0
             /\ \A i \in dest[t], j \in rows[t] : i < j
             /\ Tight(t)
  <2>1. Len(log) \in Nat /\ rows[t] \in SUBSET (0..Len(log)) /\ \A i \in rows[t] : i \in Nat \ {0}
    BY <1>s, LogTerms, RowTypes DEF Shape
  <2>2. Max(rows[t]) \in rows[t] /\ \A i \in rows[t] : i <= Max(rows[t])
    BY <2>1, <1>s, MaxInSet
  <2>3. PICK m : m = Max(rows[t])
    OBVIOUS
  <2>4. m <= pendingState.snaps[t] /\ t \notin loose
    BY <1>5, <1>1, <2>3
  <2>5. pendingState.snaps[t] \in Nat
    BY <1>s, LogShape DEF Shape
  <2>6. pendingState.snaps[t] # 0 /\ \A i \in rows[t] : i <= pendingState.snaps[t]
    BY <2>1, <2>2, <2>3, <2>4, <2>5
  <2>7. Tight(t) /\ rows[t] \subseteq Held(t)
    BY <1>s, <1>1, <2>4 DEF Held, InFlight
  <2>8. complete[t] = 0 /\ knownComplete[t] = 0
    BY <1>1, <1>s, <2>6 DEF MarksOK
  <2> QED
    BY <2>6, <2>7, <2>8 DEF Tight
<1>6. ASSUME NEW u \in Keyless \ loose' PROVE Tight(u)'
  <2>1. CASE u # t
    <3>1. Tight(u) /\ u \in Tables /\ dest'[u] = dest[u] /\ step'[u] = step[u]
      BY <1>1, <1>2, <1>s, <2>1
    <3>2. Held(u)' = Held(u) /\ Have(u)' = Have(u) /\ Bound(u)' = Bound(u) /\ (Bare(u)' <=> Bare(u))
      BY <1>1, <3>1 DEF Held, Have, InFlight, Bound, Bare
    <3> QED
      BY <1>1, <3>1, <3>2 DEF Tight
  <2>2. CASE u = t
    <3>1. pending[t] = {}
      BY <1>1, <1>s DEF ResumeInv, FlushOK, Buffered
    <3>2. Held(t)' = {} /\ Have(t)' = Have(t) /\ Bound(t)' = Bound(t)
      BY <1>1, <1>2, <3>1 DEF Held, Have, InFlight, Bound
    <3>3. \A i \in dest'[t] : i <= pendingState.snaps[t]
      <4>1. \A i \in dest[t] : i \in Int
        BY <1>s, RowTypes
      <4>2. \A i \in rows[t] : i \in Int
        BY <1>s, RowTypes
      <4>3. pendingState.snaps[t] \in Int
        BY <1>s, LogShape DEF Shape
      <4> QED
        BY <1>2, <1>5, <1>s, <2>2, <4>1, <4>2, <4>3
    <3> QED
      BY <1>1, <1>2, <1>5, <2>2, <3>2, <3>3 DEF Tight
  <2> QED
    BY <2>1, <2>2
<1>7. DoubledOnlyIfLoose'
  <2>1. CASE t \in loose'
    BY <1>1, <1>s, <2>1 DEF DoubledOnlyIfLoose
  <2>2. CASE t \notin loose'
    <3>1. dest[t] \cap rows[t] = {}
      <4>1. \A i \in rows[t] : i \in Int
        BY <1>s, RowTypes
      <4> QED
        BY <1>5, <2>2, <4>1
    <3> QED
      BY <1>1, <1>s, <3>1 DEF DoubledOnlyIfLoose
  <2> QED
    BY <2>1, <2>2
<1>8. \A u \in Keyless \ loose' : complete'[u] # 0 => \A i \in dest'[u] : i <= complete'[u]
  BY <1>1, <1>2, <1>5, <1>s DEF DoubleInv
<1> QED
  BY <1>1, <1>3, <1>4, <1>6, <1>7, <1>8 DEF DoubleInv

(* The state is persisted: a table of which nothing was claimed is claimed *)
(* to its snapshot position, which its rows do not pass.                   *)
LEMMA DoublePersist == ASSUME StreamInv, ResumeInv, DoubleInv, Persist PROVE DoubleInv'
<1> DEFINE at(t) == CASE pendingState.snaps[t] # 0 -> pendingState.snaps[t]
                      [] pendingState.snaps[t] = 0 /\ knownComplete[t] # 0 ->
                             IF pendingState.pos # 0 THEN pendingState.pos ELSE knownComplete[t]
                      [] OTHER -> 0
<1>1. /\ UNCHANGED <<log, head, next, processed, acked, channel, dest, staging, twice>>
      /\ UNCHANGED <<step, rows, pending, lastToken, tokenDirty, pendingState, pendingTruncates>>
      /\ pc = "flush" /\ pc' = "commit" /\ tokenDirty /\ \A t \in Tables : step[t] = "none"
      /\ knownComplete' = Zero
      /\ complete' = [t \in Tables |-> Max2(complete[t], at(t))]
      /\ loose' = loose \cup {t \in Tables : complete'[t] < knownComplete[t]}
  BY DEF Persist, Written, sourceVars, flushVars, bufferVars
<1>s. /\ Shape /\ Active /\ KindsOK /\ MarksOK /\ SnapshotsOK /\ Keyless \subseteq Tables
      /\ \A u \in Keyless \ loose : Tight(u)
  BY <1>1, StreamingAssumption DEF StreamInv, DoubleInv, Active
<1>t. /\ \A t \in Tables : complete[t] \in Nat /\ knownComplete[t] \in Nat /\ pendingState.snaps[t] \in Nat
      /\ pendingState.pos \in Nat
  BY <1>s, LogShape DEF Shape
<1>2. \A t \in Tables : /\ complete'[t] \in Nat /\ complete'[t] >= complete[t]
                        /\ pendingState.snaps[t] # 0 => complete'[t] >= pendingState.snaps[t] /\ complete'[t] # 0
                        /\ knownComplete[t] # 0 => complete'[t] # 0
                        /\ complete[t] = 0 /\ knownComplete[t] = 0 => complete'[t] = pendingState.snaps[t]
                        /\ knownComplete'[t] = 0
  BY <1>1, <1>t DEF Max2, Zero
<1> HIDE DEF at
<1>3. KindsOK' /\ SnapshotsOK'
  BY <1>1, <1>s DEF KindsOK, SnapshotsOK
<1>4. MarksOK'
  BY <1>1, <1>2, <1>s DEF MarksOK
<1>5. ASSUME NEW t \in Keyless \ loose' PROVE complete'[t] # 0 => \A i \in dest'[t] : i <= complete'[t]
  <2>1. t \in Tables /\ t \in Keyless \ loose /\ ~(complete'[t] < knownComplete[t]) /\ Tight(t)
    BY <1>1, <1>s
  <2>2. \A i \in dest[t] : i \in Nat
    BY <1>s, <2>1, RowTypes
  <2>3. CASE knownComplete[t] # 0
    <3>1. \A i \in dest[t] : i <= knownComplete[t]
      BY <2>1, <2>3 DEF Tight
    <3> QED
      BY <1>1, <1>2, <1>t, <2>1, <2>2, <3>1
  <2>4. CASE complete[t] # 0
    <3>1. \A i \in dest[t] : i <= complete[t]
      BY <2>1, <2>4 DEF DoubleInv
    <3> QED
      BY <1>1, <1>2, <1>t, <2>1, <2>2, <3>1
  <2>5. CASE complete[t] = 0 /\ knownComplete[t] = 0 /\ complete'[t] # 0
    <3>1. pendingState.snaps[t] # 0 /\ complete'[t] = pendingState.snaps[t]
      BY <1>2, <2>1, <2>5
    <3>2. ~Fresh(channel, t)
      BY <1>s, <2>1, <3>1 DEF ResumeInv, ClaimsOK, Claims
    <3>3. Bare(t)
      BY <1>1, <2>5, <3>2 DEF Bare, Shown, Fresh
    <3>4. \A i \in dest[t] : i <= pendingState.snaps[t]
      BY <1>1, <2>1, <3>3 DEF Tight
    <3> QED
      BY <1>1, <3>1, <3>4
  <2> QED
    BY <2>3, <2>4, <2>5
<1>6. ASSUME NEW t \in Keyless \ loose' PROVE Tight(t)'
  <2>1. t \in Tables /\ Tight(t)
    BY <1>1, <1>s
  <2>2. Held(t)' = Held(t) /\ Have(t)' = Have(t) /\ Bound(t)' = Bound(t)
    BY <1>1 DEF Held, Have, InFlight, Bound
  <2>3. Bare(t)' => Bare(t)
    <3>1. complete'[t] = 0 => complete[t] = 0 /\ knownComplete[t] = 0
      BY <1>2, <1>t, <2>1
    <3> QED
      BY <1>1, <3>1 DEF Bare
  <2> QED
    BY <1>1, <1>2, <2>1, <2>2, <2>3 DEF Tight
<1>7. DoubledOnlyIfLoose'
  BY <1>1 DEF DoubleInv, DoubledOnlyIfLoose
<1> QED
  BY <1>3, <1>4, <1>5, <1>6, <1>7 DEF DoubleInv

(* The position is committed, and with it every snapshot position is in    *)
(* the state.                                                              *)
LEMMA DoubleCommit == ASSUME StreamInv, ResumeInv, DoubleInv, CommitStream PROVE DoubleInv'
<1>1. /\ UNCHANGED <<log, head, next, processed, channel, dest, staging, twice, loose>>
      /\ UNCHANGED <<complete, checkpoint, knownComplete, step, rows, pending, pendingTruncates>>
      /\ pc = "commit" /\ pc' = cont /\ tokenDirty' = FALSE /\ pendingState' = NoState
  BY DEF CommitStream, stateVars, destVars, flushVars
<1>s. /\ Shape /\ Active /\ KindsOK /\ MarksOK /\ SnapshotsOK /\ Keyless \subseteq Tables
      /\ \A u \in Keyless \ loose : Tight(u)
      /\ cont \in {"run", "drain", "done"} /\ \A t \in Tables : step[t] = "none"
  BY <1>1, StreamingAssumption DEF StreamInv, Steps, DoubleInv, Active
<1>2. KindsOK' /\ SnapshotsOK'
  BY <1>1, <1>s DEF KindsOK, SnapshotsOK
<1>3. MarksOK'
  BY <1>1, <1>s DEF MarksOK, NoState, Zero
<1>4. ASSUME NEW t \in Keyless \ loose PROVE Tight(t)'
  <2>1. t \in Tables /\ Tight(t) /\ step[t] = "none" /\ \A i \in dest[t] : i \in Nat \ {0}
    BY <1>s, RowTypes
  <2>2. Held(t)' = Held(t) /\ Have(t)' = Have(t) /\ Bound(t)' = Bound(t)
    BY <1>1 DEF Held, Have, InFlight, Bound
  <2>3. Bare(t)' => Bare(t) /\ pendingState.snaps[t] = 0
    BY <1>1, <1>s, <2>1 DEF Bare, MarksOK
  <2>4. Bare(t)' => dest[t] = {}
    BY <1>1, <2>1, <2>3 DEF Tight
  <2> QED
    BY <1>1, <1>s, <2>1, <2>2, <2>4 DEF Tight
<1>5. DoubledOnlyIfLoose'
  BY <1>1 DEF DoubleInv, DoubledOnlyIfLoose
<1> QED
  BY <1>1, <1>2, <1>3, <1>4, <1>5 DEF DoubleInv

(* A row that is behind what comes stays so when the oldest result, which  *)
(* does not cut the table, is taken.                                       *)
LEMMA TakenUnder ==
    ASSUME NEW R, NEW ch \in Seq(R), ch # <<>>, NEW t, ~Cuts(Head(ch), t)
    PROVE  /\ \A b, i : Under(ch, t, b, i) => Under(Tail(ch), t, b, i)
           /\ \A b, i : Under(ch, t, b, i) /\ IsRecord(Head(ch)) /\ Head(ch).table = t => i < Head(ch).at
           /\ Shown(ch, t) => Shown(Tail(ch), t)
<1> DEFINE h == Head(ch)
           tl == Tail(ch)
<1>1. /\ h = ch[1] /\ 1 \in DOMAIN ch
      /\ \A k \in DOMAIN tl : k \in Nat \ {0} /\ k + 1 \in DOMAIN ch /\ tl[k] = ch[k + 1]
      /\ \A k \in DOMAIN ch : k \in Nat \ {0} /\ (k = 1 \/ (k - 1 \in DOMAIN tl /\ tl[k - 1] = ch[k]))
  BY TailRows
<1> HIDE DEF h, tl
<1>2. \A j \in DOMAIN ch : ~Cuts(ch[j], t) \/ (j - 1 \in DOMAIN tl /\ Cuts(tl[j - 1], t))
  BY <1>1 DEF h
<1>3. Uncut(tl, t) => Uncut(ch, t)
  BY <1>2 DEF Uncut
<1>4. ASSUME NEW b, NEW i, Under(ch, t, b, i) PROVE Under(tl, t, b, i)
  <2>1. ASSUME NEW k \in DOMAIN tl, IsRecord(tl[k]), tl[k].table = t,
               \A j \in DOMAIN tl : j <= k => ~Cuts(tl[j], t)
        PROVE  i < tl[k].at
    <3>1. k + 1 \in DOMAIN ch /\ tl[k] = ch[k + 1] /\ k \in Nat
      BY <1>1
    <3>2. ASSUME NEW j \in DOMAIN ch, j <= k + 1 PROVE ~Cuts(ch[j], t)
      <4>1. j \in Nat /\ j - 1 <= k
        BY <1>1, <3>1, <3>2
      <4> QED
        BY <4>1, <2>1, <1>2
    <3> QED
      BY <3>1, <3>2, <2>1, <1>4 DEF Under
  <2> QED
    BY <1>3, <1>4, <2>1 DEF Under
<1>5. ASSUME NEW b, NEW i, Under(ch, t, b, i), IsRecord(h), h.table = t PROVE i < h.at
  <2>1. \A j \in DOMAIN ch : j <= 1 => j = 1
    BY <1>1
  <2>2. \A j \in DOMAIN ch : j <= 1 => ~Cuts(ch[j], t)
    BY <2>1, <1>1 DEF h
  <2> QED
    BY <1>1, <1>5, <2>2 DEF Under
<1>6. Shown(ch, t) => Shown(tl, t)
  <2>1. h.table = t => h.trunc = "no"
    BY DEF h, Cuts
  <2> QED
    BY <1>1, <2>1 DEF Shown
<1> QED
  BY <1>4, <1>5, <1>6 DEF h, tl

(* A result of the tail of the channel is one of the channel.              *)
LEMMA TailShown ==
    ASSUME NEW R, NEW ch \in Seq(R), ch # <<>>
    PROVE  \A k \in DOMAIN Tail(ch) : \E j \in DOMAIN ch : Tail(ch)[k] = ch[j]
BY TailRows

(* A row that is behind what comes stays so when a later result is sent.   *)
LEMMA SentUnder ==
    ASSUME NEW R, NEW ch \in Seq(R), NEW r \in R, NEW t, NEW b \in Int, NEW c \in Int, b <= c,
           r.trunc # "snapshot", IsRecord(r) /\ r.table = t => r.at \in Int /\ b < r.at
    PROVE  /\ \A i \in Int : Under(ch, t, b, i) => Under(Append(ch, r), t, c, i)
           /\ Shown(Append(ch, r), t) <=> Shown(ch, t)
<1> DEFINE ap == Append(ch, r)
           m == Len(ch)
<1>1. /\ m \in Nat /\ DOMAIN ch = 1..m /\ DOMAIN ap = 1..(m + 1) /\ ap[m + 1] = r
      /\ \A k \in 1..m : ap[k] = ch[k]
  BY AppendProperties, LenProperties
<1> HIDE DEF ap, m
<1>2. /\ \A k \in DOMAIN ap : (k \in DOMAIN ch /\ ap[k] = ch[k]) \/ (k = m + 1 /\ ap[k] = r)
      /\ \A k \in DOMAIN ch : k \in DOMAIN ap /\ k \in Int /\ k <= m + 1 /\ ap[k] = ch[k]
      /\ m + 1 \in Int
  BY <1>1
<1>3. Uncut(ap, t) => Uncut(ch, t)
  BY <1>2 DEF Uncut
<1>4. ASSUME NEW i \in Int, Under(ch, t, b, i) PROVE Under(ap, t, c, i)
  <2>1. ASSUME NEW k \in DOMAIN ap, IsRecord(ap[k]), ap[k].table = t,
               \A j \in DOMAIN ap : j <= k => ~Cuts(ap[j], t)
        PROVE  i < ap[k].at
    <3>1. CASE k \in DOMAIN ch /\ ap[k] = ch[k]
      <4>1. \A j \in DOMAIN ch : j <= k => ~Cuts(ch[j], t)
        BY <1>2, <2>1
      <4> QED
        BY <2>1, <3>1, <4>1, <1>4 DEF Under
    <3>2. CASE k = m + 1 /\ ap[k] = r
      <4>1. Uncut(ch, t)
        BY <1>2, <2>1, <3>2 DEF Uncut
      <4>2. i <= b /\ b < r.at /\ r.at \in Int
        BY <1>4, <2>1, <3>2, <4>1 DEF Under
      <4> QED
        BY <3>2, <4>2
    <3> QED
      BY <1>2, <3>1, <3>2
  <2>2. Uncut(ap, t) => i <= c
    <3>1. Uncut(ap, t) => i <= b
      BY <1>3, <1>4 DEF Under
    <3> QED
      BY <3>1
  <2> QED
    BY <2>1, <2>2 DEF Under
<1>5. Shown(ap, t) <=> Shown(ch, t)
  BY <1>2 DEF Shown
<1> QED
  BY <1>4, <1>5 DEF ap

(* A run begins: a keyless table that is claimed has nothing behind the    *)
(* claim and goes on from there, the others get a snapshot.                *)
LEMMA DoubleStartRun == ASSUME StreamInv, ResumeInv, DoubleInv, StartRun PROVE DoubleInv'
<1>1. /\ UNCHANGED <<log, dest, twice, loose>>
      /\ pc' = "run" /\ staging' = None
      /\ knownComplete' = complete /\ complete' = Zero /\ Discard
  BY DEF StartRun
<1>d. /\ step' = NoSteps /\ pending' = None /\ tokenDirty' = FALSE
      /\ pendingState' = NoState /\ pendingTruncates' = {}
  BY <1>1 DEF Discard
<1>s. Shape /\ Heads /\ Shape' /\ Keyless \subseteq Tables /\ log \in Logs
  BY StartRunStep, StreamingAssumption DEF StreamInv, ResumeInv, Shape
<1> DEFINE ts == Tables \ Resumable
<1>2. PICK s \in head..Len(log) :
          /\ processed' = [t \in Tables |-> IF t \in Resumable THEN ResumePosition(t) ELSE s]
          /\ channel' = Snapshots(ts, s, IF Resumable = {} THEN s ELSE 0)
  BY DEF StartRun
<1> DEFINE tok == IF Resumable = {} THEN s ELSE 0
<1>3. s \in Positions /\ tok \in Positions /\ s \in Nat
  BY <1>2, <1>s, LogTerms DEF Shape
<1> DEFINE snap(t) == Result(t, Replay(t, s), "snapshot", 0, {}, 0)
           mark == Result("none", {}, "no", tok, ts, s)
           ch == channel'
<1>4. /\ \A k \in DOMAIN ch : ts # {} /\ (ch[k] = mark \/ \E t \in ts : ch[k] = snap(t))
      /\ \A t \in ts : \E k \in DOMAIN ch : ch[k] = snap(t)
  <2>1. ts \in SUBSET Tables /\ ch = Snapshots(ts, s, tok)
    BY <1>2
  <2> HIDE DEF ts, tok, ch
  <2>2. Listing(ch, ts, s, tok)
    BY <2>1, <1>3, <1>s, SnapshotChannel
  <2> QED
    BY <2>2 DEF Listing
<1>5. /\ mark.table = "none" /\ mark.trunc = "no" /\ mark.snaps = ts
      /\ \A t : /\ snap(t).table = t /\ snap(t).rows = Replay(t, s) /\ snap(t).trunc = "snapshot"
                /\ snap(t).snaps = {} /\ snap(t).at = 0
  BY DEF Result
<1> HIDE DEF snap, mark, ch, tok
<1>6. \A k \in DOMAIN ch : ~IsRecord(ch[k])
  BY <1>4, <1>5 DEF IsRecord
<1>7. \A t \in ts : Shown(ch, t) /\ ~Uncut(ch, t)
  BY <1>4, <1>5 DEF Shown, Uncut, Cuts
<1>8. \A t \in Tables : t \notin ts <=> complete[t] # 0
  BY DEF Resumable
<1>9. KindsOK' /\ MarksOK'
  BY <1>1, <1>d DEF KindsOK, MarksOK, NoSteps, NoState, Zero
<1>10. SnapshotsOK'
  <2>1. ASSUME NEW k \in DOMAIN ch, ch[k].trunc = "snapshot"
        PROVE  ch[k].table \in Tables /\ \A i \in ch[k].rows : i <= processed'[ch[k].table]
    <3>1. PICK t \in ts : ch[k] = snap(t)
      BY <1>4, <1>5, <2>1
    <3>2. t \in Tables /\ processed'[t] = s
      BY <1>2
    <3>3. \A i \in Replay(t, s) : i <= s
      BY DEF Replay, Upsert
    <3> QED
      BY <1>5, <3>1, <3>2, <3>3
  <2> QED
    BY <2>1 DEF SnapshotsOK, ch
<1>11. ASSUME NEW t \in Keyless \ loose PROVE Tight(t)'
  <2>1. t \in Tables /\ knownComplete'[t] = complete[t] /\ complete'[t] = 0
        /\ (complete[t] # 0 => \A i \in dest[t] : i <= complete[t])
    BY <1>1, <1>s DEF DoubleInv, Zero
  <2>2. Have(t)' = dest[t] /\ Held(t)' = {}
    BY <1>1, <1>d, <1>s DEF Have, Held, InFlight, None, NoSteps
  <2>3. ASSUME NEW i \in dest[t] PROVE Under(ch, t, Bound(t)', i)
    <3>1. CASE t \in ts
      BY <3>1, <1>6, <1>7 DEF Under
    <3>2. CASE t \notin ts
      <4>1. complete[t] # 0 /\ i <= complete[t] /\ processed'[t] = ResumePosition(t)
        BY <3>2, <2>1, <1>8, <1>2
      <4>2. i \in Nat /\ complete[t] \in Nat /\ checkpoint \in Nat /\ next' \in Nat
        <5>1. i \in Nat
          BY <2>1, <1>s, RowTypes
        <5>2. complete[t] \in Nat /\ checkpoint \in Nat
          BY <2>1, <1>s, LogShape DEF Shape
        <5>3. Positions' = Positions /\ next' \in Positions'
          BY <1>s, <1>1 DEF Positions, Shape
        <5>4. next' \in Nat
          BY <5>3, <1>s, LogShape
        <5> QED
          BY <5>1, <5>2, <5>4
      <4>3. processed'[t] \in Nat /\ i <= processed'[t]
        BY <4>1, <4>2 DEF ResumePosition, Max2
      <4>4. i <= Bound(t)'
        BY <4>2, <4>3 DEF Bound, Max2
      <4> QED
        BY <4>4, <1>6 DEF Under
    <3> QED
      BY <3>1, <3>2
  <2>4. ~Bare(t)'
    <3>1. CASE t \in ts
      BY <1>7, <3>1 DEF Bare, ch
    <3>2. CASE t \notin ts
      BY <1>8, <2>1, <3>2 DEF Bare
    <3> QED
      BY <3>1, <3>2
  <2> QED
    BY <1>1, <2>1, <2>2, <2>3, <2>4 DEF Tight, ch
<1>12. DoubledOnlyIfLoose'
  BY <1>1 DEF DoubleInv, DoubledOnlyIfLoose
<1>13. \A t \in Keyless \ loose' : complete'[t] = 0
  BY <1>1, <1>s DEF Zero
<1> QED
  BY <1>1, <1>9, <1>10, <1>11, <1>12, <1>13 DEF DoubleInv

(* A record or a token is sent: it is later than every row there is.       *)
LEMMA DoubleSend == ASSUME StreamInv, ResumeInv, DoubleInv, Send \/ SendToken PROVE DoubleInv'
<1>1. /\ UNCHANGED <<log, processed, acked, dest, staging, complete, checkpoint, knownComplete>>
      /\ UNCHANGED <<step, rows, pending, lastToken, tokenDirty, pendingState, pendingTruncates, pc>>
      /\ UNCHANGED <<twice, loose>> /\ (next' = next + 1 \/ next' = next)
  BY DEF Send, SendToken, destVars, stateVars, flushVars, bufferVars
<1>s. Shape /\ Keyless \subseteq Tables /\ (pc = "truncate" => channel # <<>>)
      /\ next \in Nat /\ channel \in Seq(Results)
  BY StreamingAssumption, LogShape DEF StreamInv, Shape, Steps
<1>t. \A t \in Tables : /\ Bound(t) \in Int /\ Bound(t)' \in Int /\ Bound(t) <= Bound(t)' /\ processed[t] \in Nat
                        /\ processed[t] <= next => Bound(t) = next
  <2>1. ASSUME NEW t \in Tables PROVE processed[t] \in Nat
    BY <1>s, LogShape DEF Shape
  <2>2. \A t \in Tables : Bound(t) = Max2(next, processed[t]) /\ Bound(t)' = Max2(next', processed[t])
    BY <1>1 DEF Bound
  <2> QED
    BY <1>1, <1>s, <2>1, <2>2 DEF Max2
<1>2. channel' = channel \/ \E r \in Results :
          /\ channel' = Append(channel, r)
          /\ r.trunc # "snapshot"
          /\ IsRecord(r) => r.table \in Tables /\ processed[r.table] <= next /\ next < r.at /\ r.at \in Int
  <2>1. CASE Send
    <3> DEFINE r == log[next + 1]
    <3>0. /\ Len(log) \in Nat /\ Positions = 0..Len(log) /\ Lsns = 1..Len(log)
          /\ next < Len(log) /\ next + 1 \in Positions /\ next + 1 \in Lsns /\ next \in Positions /\ 0 \in Positions
          /\ r \in [table : Tables, key : Nat, op : {"put", "truncate"}]
      <4>1. log \in Logs /\ next \in Positions /\ next < Len(log)
        BY <2>1, <1>s DEF Shape, Send
      <4>2. /\ Len(log) \in Nat /\ Positions = 0..Len(log) /\ Lsns = 1..Len(log)
            /\ \A i \in Lsns : log[i] \in [table : Tables, key : Nat, op : {"put", "truncate"}]
        BY <4>1, LogTerms, LogShape
      <4>3. next + 1 \in Lsns /\ next + 1 \in Positions /\ 0 \in Positions
        BY <1>s, <4>1, <4>2
      <4> QED
        BY <4>1, <4>2, <4>3
    <3>1. PICK tok \in {0, next, next + 1} :
            LET res == Result(r.table, IF r.op = "put" THEN {next + 1} ELSE {},
                              IF r.op = "put" THEN "no" ELSE "log", tok, {}, next + 1)
            IN  channel' = IF next + 1 <= processed[r.table] THEN channel ELSE Append(channel, res)
      BY <2>1 DEF Send
    <3> DEFINE res == Result(r.table, IF r.op = "put" THEN {next + 1} ELSE {},
                             IF r.op = "put" THEN "no" ELSE "log", tok, {}, next + 1)
    <3>2. res \in Results /\ res.table = r.table /\ res.at = next + 1 /\ res.trunc # "snapshot"
      BY <3>0 DEF Result, Results
    <3>3. ~(next + 1 <= processed[r.table]) => processed[r.table] <= next /\ next < next + 1
      BY <1>s, <1>t, <3>0
    <3> HIDE DEF res
    <3>4. CASE next + 1 <= processed[r.table]
      BY <3>1, <3>4
    <3>5. CASE ~(next + 1 <= processed[r.table])
      <4>1. channel' = Append(channel, res)
        BY <3>1, <3>5 DEF res
      <4>2. r.table \in Tables /\ next < res.at /\ res.at \in Int /\ processed[res.table] <= next
        BY <3>0, <3>2, <3>3, <3>5, <1>s
      <4> QED
        BY <4>1, <4>2, <3>2
    <3> QED
      BY <3>4, <3>5
  <2>2. CASE SendToken
    <3> DEFINE res == Result("none", {}, "no", next, {}, 0)
    <3>1. res \in Results /\ res.trunc = "no" /\ ~IsRecord(res)
      BY <1>s, LogShape DEF Result, Results, Shape, IsRecord
    <3>2. channel = <<>> /\ channel' = <<res>>
      BY <2>2 DEF SendToken
    <3> HIDE DEF res
    <3>3. channel' = Append(channel, res)
      BY <3>2
    <3> QED
      BY <3>1, <3>3
  <2> QED
    BY <2>1, <2>2
<1>3. ASSUME NEW t \in Tables
      PROVE  /\ \A i \in Int : Under(channel, t, Bound(t), i) => Under(channel', t, Bound(t)', i)
             /\ Shown(channel', t) <=> Shown(channel, t)
  <2>1. CASE channel' = channel
    <3>1. \A i \in Int : i <= Bound(t) => i <= Bound(t)'
      BY <1>t
    <3> QED
      BY <2>1, <3>1 DEF Under
  <2>2. CASE \E r \in Results :
          /\ channel' = Append(channel, r)
          /\ r.trunc # "snapshot"
          /\ IsRecord(r) => r.table \in Tables /\ processed[r.table] <= next /\ next < r.at /\ r.at \in Int
    <3>1. PICK r \in Results :
          /\ channel' = Append(channel, r)
          /\ r.trunc # "snapshot"
          /\ IsRecord(r) => r.table \in Tables /\ processed[r.table] <= next /\ next < r.at /\ r.at \in Int
      BY <2>2
    <3>2. IsRecord(r) /\ r.table = t => r.at \in Int /\ Bound(t) < r.at
      BY <3>1, <1>t
    <3> QED
      BY <3>1, <3>2, <1>s, <1>t, SentUnder
  <2> QED
    BY <1>2, <2>1, <2>2
<1>4. Active' => Active
  BY <1>1 DEF Active
<1>5. /\ pc = "truncate" => Head(channel') = Head(channel)
      /\ \A k \in DOMAIN channel' : channel'[k].trunc = "snapshot" => k \in DOMAIN channel /\ channel'[k] = channel[k]
  <2>1. CASE channel' = channel
    BY <2>1
  <2>2. CASE \E r \in Results : channel' = Append(channel, r) /\ r.trunc # "snapshot"
    <3>1. PICK r \in Results : channel' = Append(channel, r) /\ r.trunc # "snapshot"
      BY <2>2
    <3>2. /\ \A k \in DOMAIN channel' : (k \in DOMAIN channel /\ channel'[k] = channel[k]) \/ channel'[k] = r
          /\ channel # <<>> => channel'[1] = channel[1] /\ Len(channel) > 0 /\ channel' # <<>>
      BY <1>s, <3>1
    <3>3. channel # <<>> => Head(channel) = channel[1] /\ Head(channel') = channel'[1]
      BY <3>1
    <3> QED
      BY <1>s, <3>1, <3>2, <3>3
  <2> QED
    BY <1>2, <2>1, <2>2
<1>6. ASSUME Active PROVE KindsOK' /\ MarksOK' /\ SnapshotsOK' /\ \A t \in Keyless \ loose : Tight(t)'
  <2>s. KindsOK /\ MarksOK /\ SnapshotsOK /\ \A t \in Keyless \ loose : Tight(t)
    BY <1>6 DEF DoubleInv
  <2>1. KindsOK' /\ SnapshotsOK'
    BY <1>1, <1>5, <2>s DEF KindsOK, SnapshotsOK
  <2>2. MarksOK'
    BY <1>1, <1>5, <2>s DEF MarksOK
  <2>3. ASSUME NEW t \in Keyless \ loose PROVE Tight(t)'
    <3>1. t \in Tables /\ Tight(t)
      BY <1>s, <2>s
    <3>2. Have(t)' = Have(t) /\ Held(t)' = Held(t) /\ \A i \in Have(t) : i \in Int
      BY <1>1, <1>s, <3>1, RowTypes DEF Have, Held, InFlight
    <3>3. Bare(t)' <=> Bare(t)
      BY <1>1, <1>3, <1>5, <3>1 DEF Bare
    <3>4. \A i \in Have(t)' : Under(channel', t, Bound(t)', i)
      BY <1>3, <3>1, <3>2 DEF Tight
    <3> QED
      BY <1>1, <3>1, <3>2, <3>3, <3>4 DEF Tight
  <2> QED
    BY <2>1, <2>2, <2>3
<1> QED
  BY <1>1, <1>4, <1>6 DEF DoubleInv, DoubledOnlyIfLoose

(* A result that does not truncate is taken: its row is behind those of    *)
(* the table, a snapshot position is one of a table of which nothing is    *)
(* claimed.                                                                *)
LEMMA DoubleReceive == ASSUME StreamInv, ResumeInv, DoubleInv, Receive PROVE DoubleInv'
<1> DEFINE h == Head(channel)
<1>1. /\ UNCHANGED <<log, next, processed, dest, staging, complete, knownComplete, step, rows, twice, loose>>
      /\ pc \in {"run", "drain"} /\ pc' = pc /\ channel # <<>> /\ channel' = Tail(channel)
      /\ BufferResult(h) /\ h.trunc = "no"
  BY DEF Receive, Taking, stateVars, destVars, flushVars
<1>s. /\ Shape /\ Active /\ ChannelOK /\ ClaimsOK /\ KindsOK /\ MarksOK /\ SnapshotsOK
      /\ Keyless \subseteq Tables /\ channel \in Seq(Results)
      /\ \A t \in Tables : step[t] = "none"
      /\ \A t \in Keyless \ loose : Tight(t)
  BY <1>1, StreamingAssumption DEF StreamInv, Shape, Steps, ResumeInv, DoubleInv, Active
<1>2. /\ h \in Results /\ ResultOK(log, next, processed, h) /\ h = channel[1] /\ 1 \in DOMAIN channel
      /\ \A k \in DOMAIN channel' : ResultOK(log, next, processed, channel'[k])
      /\ \A t \in Tables : IsRecord(h) => Before(channel', t, h.at)
  <2>1. \A k \in DOMAIN channel' : k \in Nat \ {0} /\ k + 1 \in DOMAIN channel /\ channel'[k] = channel[k + 1]
    BY <1>1, <1>s, TailRows
  <2>2. h = channel[1] /\ 1 \in DOMAIN channel /\ h \in Results
    BY <1>1, <1>s, TailRows
  <2> HIDE DEF h
  <2>3. \A k \in DOMAIN channel' : IsRecord(h) /\ IsRecord(channel'[k]) => h.at < channel'[k].at
    <3>1. ASSUME NEW k \in DOMAIN channel' PROVE 1 \in DOMAIN channel /\ k + 1 \in DOMAIN channel /\ 1 < k + 1
      BY <2>1, <2>2
    <3> QED
      BY <2>1, <2>2, <3>1, <1>s DEF ChannelOK, Ordered
  <2> QED
    BY <2>1, <2>2, <2>3, <1>s DEF ChannelOK, Before
<1> DEFINE cut == pendingTruncates \cup (IF h.trunc = "log" THEN {h.table} ELSE {})
<1>c. cut = pendingTruncates
  BY <1>1
<1>b. /\ pending' = IF h.rows = {} THEN pending ELSE [pending EXCEPT ![h.table] = @ \cup h.rows]
      /\ tokenDirty' <=> (tokenDirty \/ h.token # 0 \/ h.snaps # {})
      /\ pendingTruncates' = IF h.token # 0 THEN {} ELSE pendingTruncates
      /\ pendingState' =
             [pos   |-> IF h.token # 0 THEN h.token ELSE pendingState.pos,
              snaps |-> [t \in Tables |-> CASE t \in pendingTruncates /\ h.token # 0 -> h.token
                                            [] t \in h.snaps -> h.at
                                            [] OTHER -> pendingState.snaps[t]]]
  <2>1. tokenDirty' <=> (tokenDirty \/ h.token # 0 \/ h.snaps # {})
    BY <1>1 DEF BufferResult
  <2>2. pending' = IF h.rows = {} THEN pending ELSE [pending EXCEPT ![h.table] = @ \cup h.rows]
    BY <1>1 DEF BufferResult
  <2>3. /\ pendingTruncates' = IF h.token # 0 THEN {} ELSE cut
        /\ pendingState' =
             [pos   |-> IF h.token # 0 THEN h.token ELSE pendingState.pos,
              snaps |-> [t \in Tables |-> CASE t \in cut /\ h.token # 0 -> h.token
                                            [] t \in h.snaps -> h.at
                                            [] OTHER -> pendingState.snaps[t]]]
    BY <1>1 DEF BufferResult
  <2> HIDE DEF cut
  <2> QED
    BY <1>c, <2>1, <2>2, <2>3
<1>u. \A t : ~Cuts(h, t)
  BY <1>1 DEF Cuts
<1> HIDE DEF h
<1>3. KindsOK'
  BY <1>1, <1>s DEF KindsOK
<1>4. SnapshotsOK'
  BY <1>1, <1>s, TailShown DEF SnapshotsOK
<1>f. \A t \in h.snaps : t \in Tables /\ Fresh(channel, t)
  BY <1>2 DEF Fresh, Results
<1>5. MarksOK'
  <2>1. ASSUME NEW t \in Tables, pendingState'.snaps[t] # 0 PROVE complete[t] = 0 /\ knownComplete[t] = 0
    <3>1. t \in pendingTruncates \/ t \in h.snaps \/ pendingState.snaps[t] # 0
      BY <1>b, <2>1
    <3> QED
      BY <3>1, <1>f, <1>1, <1>s DEF MarksOK, ClaimsOK, Claims
  <2>2. ASSUME ~tokenDirty' PROVE pendingState' = NoState
    <3>1. ~tokenDirty /\ h.token = 0 /\ h.snaps = {}
      BY <1>b, <2>2
    <3>2. pendingState = NoState
      BY <3>1, <1>s DEF MarksOK
    <3> QED
      BY <3>1, <3>2, <1>b DEF NoState, Zero
  <2>3. ASSUME pendingTruncates' # {} PROVE ~tokenDirty'
    <3>1. h.token = 0 /\ pendingTruncates # {} /\ ~tokenDirty
      BY <1>b, <1>s, <2>3 DEF MarksOK
    <3>2. h.snaps = {}
      BY <3>1, <1>f, <1>s DEF ClaimsOK
    <3> QED
      BY <3>1, <3>2, <1>b
  <2>4. \A t \in pendingTruncates' : complete[t] = 0 /\ knownComplete[t] = 0
    BY <1>b, <1>s DEF MarksOK
  <2> QED
    BY <2>1, <2>2, <2>3, <2>4, <1>1 DEF MarksOK
<1>6. ASSUME NEW t \in Keyless \ loose PROVE Tight(t)'
  <2>1. t \in Tables /\ Tight(t) /\ step[t] = "none"
    BY <1>s
  <2>2. /\ Have(t) = dest[t] \cup Held(t) /\ Held(t) = pending[t]
        /\ Have(t)' = dest[t] \cup Held(t)' /\ Held(t)' = pending'[t] /\ Bound(t)' = Bound(t)
    BY <1>1, <2>1 DEF Have, Held, InFlight, Bound
  <2>3. \A j \in Held(t)' : j \in Held(t) \/ (j = h.at /\ IsRecord(h) /\ h.table = t)
    <3>1. pending'[t] = pending[t] \/ (h.table = t /\ h.rows # {} /\ pending'[t] = pending[t] \cup h.rows)
      BY <1>b, <1>s DEF Shape
    <3>2. h.rows # {} => IsRecord(h) /\ h.rows = {h.at}
      BY <1>1, <1>2 DEF ResultOK, h
    <3> QED
      BY <2>2, <3>1, <3>2
  <2>4. \A i \in Have(t) : /\ Under(channel', t, Bound(t), i)
                           /\ IsRecord(h) /\ h.table = t => i < h.at
    BY <1>1, <1>s, <1>u, <2>1, TakenUnder DEF Tight, h
  <2>5. IsRecord(h) /\ h.table = t => Under(channel', t, Bound(t), h.at)
    <3>1. IsRecord(h) => h.at <= Bound(t)
      <4>1. IsRecord(h) => h.at <= next
        BY <1>2 DEF ResultOK
      <4>2. h.at \in Nat /\ next \in Nat /\ Bound(t) \in Nat /\ next <= Bound(t)
        BY <1>2, <1>s, <2>1, ClaimTypes DEF Results
      <4> QED
        BY <4>1, <4>2
    <3> QED
      BY <3>1, <1>2, <2>1 DEF Under, Before
  <2>6. Bare(t)' => dest[t] = {}
    <3>1. Shown(channel, t) => Shown(channel', t)
      BY <1>1, <1>s, <1>u, TakenUnder DEF h
    <3>2. Bare(t)' => Bare(t)
      BY <3>1, <1>1 DEF Bare
    <3> QED
      BY <3>2, <2>1, <1>1 DEF Tight
  <2>7. \A i \in dest[t], j \in Held(t)' : i < j
    BY <2>1, <2>2, <2>3, <2>4 DEF Tight
  <2>8. \A i \in Have(t)' : Under(channel', t, Bound(t), i)
    BY <2>2, <2>3, <2>4, <2>5
  <2> QED
    BY <1>1, <2>1, <2>2, <2>6, <2>7, <2>8 DEF Tight
<1> QED
  BY <1>1, <1>3, <1>4, <1>5, <1>6 DEF DoubleInv, DoubledOnlyIfLoose

(* A truncate begins: nothing is claimed of the table.                     *)
LEMMA DoubleInvalidateTruncated ==
    ASSUME StreamInv, ResumeInv, DoubleInv, InvalidateTruncated
    PROVE  DoubleInv'
<1> DEFINE h == Head(channel)
<1>1. /\ UNCHANGED <<log, head, next, processed, acked, channel, dest, staging, twice, loose>>
      /\ UNCHANGED <<step, rows, pending, tokenDirty, pendingState, pendingTruncates>>
      /\ pc \in {"run", "drain"} /\ pc' = "truncate" /\ channel # <<>> /\ h.trunc = "log" /\ ~tokenDirty
      /\ complete' = [complete EXCEPT ![h.table] = 0]
      /\ knownComplete' = [knownComplete EXCEPT ![h.table] = 0]
  BY DEF InvalidateTruncated, Taking, sourceVars, destVars, flushVars, bufferVars
<1>s. /\ Shape /\ Active /\ ChannelOK /\ KindsOK /\ MarksOK /\ SnapshotsOK
      /\ Keyless \subseteq Tables
      /\ \A t \in Keyless \ loose : Tight(t)
  BY <1>1, StreamingAssumption DEF StreamInv, ResumeInv, DoubleInv, Active
<1>2. h.table \in Tables
  <2>1. ResultOK(log, next, processed, h)
    BY <1>1, <1>s, TakenChannel
  <2> QED
    BY <2>1, <1>1 DEF ResultOK
<1> HIDE DEF h
<1>3. \A t \in Tables :
         /\ t = h.table => complete'[t] = 0 /\ knownComplete'[t] = 0
         /\ t # h.table => complete'[t] = complete[t] /\ knownComplete'[t] = knownComplete[t]
  BY <1>1, <1>s DEF Shape
<1>4. KindsOK' /\ SnapshotsOK'
  BY <1>1, <1>s DEF KindsOK, SnapshotsOK
<1>5. MarksOK'
  <2>1. \A t \in pendingTruncates : complete'[t] = 0 /\ knownComplete'[t] = 0
    BY <1>1, <1>s DEF MarksOK, Shape
  <2> QED
    BY <1>1, <1>2, <1>3, <1>s, <2>1 DEF MarksOK, h
<1>6. ASSUME NEW t \in Keyless \ loose PROVE Tight(t)'
  <2>1. t \in Tables /\ Tight(t)
    BY <1>s
  <2>2. Have(t)' = Have(t) /\ Held(t)' = Held(t) /\ Bound(t)' = Bound(t)
    BY <1>1 DEF Have, Held, InFlight, Bound
  <2>3. Bare(t)' => Bare(t)
    BY <1>1, <1>3, <2>1 DEF Bare, h
  <2>4. Bare(t)' => dest[t] = {}
    BY <1>1, <2>1, <2>3 DEF Tight
  <2>5. knownComplete'[t] # 0 => knownComplete'[t] = knownComplete[t]
    BY <1>3, <2>1
  <2> QED
    BY <1>1, <2>1, <2>2, <2>4, <2>5 DEF Tight
<1>7. \A t \in Keyless \ loose' : complete'[t] # 0 => \A i \in dest'[t] : i <= complete'[t]
  BY <1>1, <1>3, <1>s DEF DoubleInv
<1> QED
  BY <1>1, <1>4, <1>5, <1>6, <1>7 DEF DoubleInv, DoubledOnlyIfLoose

(* A truncate is made: the table has the rows of its snapshot at most, and *)
(* a token that comes with it is a position of tables of which nothing is  *)
(* claimed.                                                                *)
LEMMA DoubleApplyTruncate == ASSUME StreamInv, ResumeInv, DoubleInv, ApplyTruncate PROVE DoubleInv'
<1> DEFINE h == Head(channel)
           cut == pendingTruncates \cup (IF h.trunc = "log" THEN {h.table} ELSE {})
<1>1. /\ UNCHANGED <<log, next, processed, staging, complete, knownComplete, step, rows>>
      /\ channel' = Tail(channel) /\ BufferResult(h)
      /\ dest' = [dest EXCEPT ![h.table] = {}]
      /\ twice' = twice \ {h.table} /\ loose' = loose \ {h.table}
  BY DEF ApplyTruncate, stateVars, flushVars
<1>p. /\ pc \in {"run", "drain", "truncate"} /\ channel # <<>> /\ pc' \in {"run", "drain"} /\ h.trunc # "no"
      /\ ~Buffered /\ (pc # "truncate" => h.trunc = "snapshot" /\ ~tokenDirty)
      /\ (pc = "truncate" => h.trunc = "log")
  BY DEF ApplyTruncate, Taking, StreamInv, Steps, ResumeInv, Active, FlushOK
<1>s. /\ Shape /\ Active /\ ChannelOK /\ ClaimsOK /\ KindsOK /\ MarksOK /\ SnapshotsOK
      /\ Keyless \subseteq Tables /\ channel \in Seq(Results)
      /\ \A t \in Tables : step[t] = "none" /\ pending[t] = {}
      /\ \A t \in Keyless \ loose : Tight(t)
  BY <1>p, StreamingAssumption DEF StreamInv, Shape, Steps, ResumeInv, DoubleInv, Active, Buffered
<1>2. /\ h \in Results /\ ResultOK(log, next, processed, h) /\ h = channel[1] /\ 1 \in DOMAIN channel
      /\ \A k \in DOMAIN channel' : ResultOK(log, next, processed, channel'[k])
  BY <1>1, <1>p, <1>s, TakenChannel
<1>b. /\ pending' = IF h.rows = {} THEN pending ELSE [pending EXCEPT ![h.table] = @ \cup h.rows]
      /\ tokenDirty' <=> (tokenDirty \/ h.token # 0 \/ h.snaps # {})
      /\ pendingTruncates' = IF h.token # 0 THEN {} ELSE cut
      /\ pendingState' =
             [pos   |-> IF h.token # 0 THEN h.token ELSE pendingState.pos,
              snaps |-> [t \in Tables |-> CASE t \in cut /\ h.token # 0 -> h.token
                                            [] t \in h.snaps -> h.at
                                            [] OTHER -> pendingState.snaps[t]]]
  <2>1. tokenDirty' <=> (tokenDirty \/ h.token # 0 \/ h.snaps # {})
    BY <1>1 DEF BufferResult
  <2>2. pending' = IF h.rows = {} THEN pending ELSE [pending EXCEPT ![h.table] = @ \cup h.rows]
    BY <1>1 DEF BufferResult
  <2>3. /\ pendingTruncates' = IF h.token # 0 THEN {} ELSE cut
        /\ pendingState' =
             [pos   |-> IF h.token # 0 THEN h.token ELSE pendingState.pos,
              snaps |-> [t \in Tables |-> CASE t \in cut /\ h.token # 0 -> h.token
                                            [] t \in h.snaps -> h.at
                                            [] OTHER -> pendingState.snaps[t]]]
    BY <1>1 DEF BufferResult
  <2> HIDE DEF cut
  <2> QED
    BY <2>1, <2>2, <2>3
<1>3. ~tokenDirty /\ pendingState = NoState
  BY <1>p, <1>s DEF MarksOK
<1>4. /\ h.table \in Tables /\ h.snaps = {}
      /\ h.trunc = "snapshot" => \A i \in h.rows : i <= processed[h.table]
      /\ h.trunc = "log" => h.rows = {}
  <2>1. h.trunc \in {"log", "snapshot"}
    BY <1>p, <1>2 DEF Results
  <2>2. h.trunc = "log" => IsRecord(h) /\ h.table \in Tables /\ h.rows = {} /\ h.snaps = {}
    BY <1>2 DEF ResultOK, IsRecord
  <2>3. h.trunc = "snapshot" => h.table \in Tables /\ h.snaps = {} /\ \A i \in h.rows : i <= processed[h.table]
    BY <1>2, <1>s DEF ResultOK, SnapshotsOK
  <2> QED
    BY <2>1, <2>2, <2>3
<1>5. \A t \in cut : complete[t] = 0 /\ knownComplete[t] = 0
  BY <1>p, <1>s DEF MarksOK
<1> HIDE DEF h, cut
<1>6. KindsOK'
  BY <1>p, <1>1, <1>s DEF KindsOK
<1>7. SnapshotsOK'
  BY <1>p, <1>1, <1>s, TailShown DEF SnapshotsOK
<1>8. MarksOK'
  <2>1. ASSUME NEW t \in Tables, pendingState'.snaps[t] # 0 PROVE complete[t] = 0 /\ knownComplete[t] = 0
    <3>1. t \in cut
      BY <1>b, <1>3, <1>4, <2>1 DEF NoState, Zero
    <3> QED
      BY <3>1, <1>5
  <2>2. ASSUME ~tokenDirty' PROVE pendingState' = NoState
    BY <1>b, <1>3, <1>4, <2>2 DEF NoState, Zero
  <2>3. pendingTruncates' # {} => ~tokenDirty'
    BY <1>b, <1>3, <1>4
  <2>4. \A t \in pendingTruncates' : complete[t] = 0 /\ knownComplete[t] = 0
    BY <1>b, <1>5
  <2> QED
    BY <2>1, <2>2, <2>3, <2>4, <1>1, <1>p DEF MarksOK
<1>9. ASSUME NEW t \in Keyless \ loose' PROVE Tight(t)'
  <2>1. t \in Tables /\ step[t] = "none" /\ pending[t] = {}
    BY <1>s
  <2>2. /\ Have(t)' = dest'[t] \cup Held(t)' /\ Held(t)' = pending'[t] /\ Bound(t)' = Bound(t)
        /\ Have(t) = dest[t] /\ Held(t) = {}
    BY <1>1, <2>1 DEF Have, Held, InFlight, Bound
  <2>3. CASE t = h.table
    <3>1. dest'[t] = {}
      BY <1>1, <1>s, <2>1, <2>3 DEF Shape
    <3>2. pending'[t] \subseteq h.rows
      BY <1>b, <1>s, <2>1, <2>3 DEF Shape
    <3>3. ASSUME NEW i \in h.rows PROVE Under(channel', t, Bound(t), i)
      <4>1. i <= processed[t] /\ i \in Nat /\ processed[t] \in Nat /\ Bound(t) \in Nat /\ processed[t] <= Bound(t)
        <5>1. i <= processed[t]
          BY <1>p, <1>2, <1>4, <2>3, <3>3 DEF Results
        <5>2. i \in Nat
          BY <1>2, <1>s, <3>3, LogShape DEF Results, Shape
        <5> QED
          BY <5>1, <5>2, <1>s, <2>1, ClaimTypes
      <4>2. \A k \in DOMAIN channel' : IsRecord(channel'[k]) /\ channel'[k].table = t => processed[t] < channel'[k].at
        BY <1>2 DEF ResultOK
      <4>3. \A k \in DOMAIN channel' : channel'[k].at \in Nat
        <5>1. \A k \in DOMAIN channel : channel[k] \in Results
          BY <1>s
        <5>2. \A k \in DOMAIN channel : channel[k].at \in Nat
          BY <5>1, <1>s, LogShape DEF Results, Shape
        <5> QED
          BY <5>2, <1>1, <1>p, <1>s, TailShown
      <4> QED
        BY <4>1, <4>2, <4>3 DEF Under
    <3>4. \A i \in Have(t)' : Under(channel', t, Bound(t)', i)
      BY <2>2, <3>1, <3>2, <3>3
    <3>5. knownComplete'[t] # 0 => \A i \in dest'[t] : i <= knownComplete'[t]
      BY <3>1
    <3> QED
      BY <1>p, <3>1, <3>4, <3>5 DEF Tight
  <2>4. CASE t # h.table
    <3>1. Tight(t) /\ dest'[t] = dest[t] /\ pending'[t] = {} /\ ~Cuts(h, t)
      <4>1. t \notin loose
        BY <1>1, <2>4
      <4>2. pending'[t] = pending[t]
        BY <1>b, <2>1, <2>4, <1>4, <1>s DEF Shape
      <4> QED
        BY <4>1, <4>2, <1>1, <1>s, <2>1, <2>4 DEF Cuts, Shape
    <3>2. \A i \in dest[t] : Under(channel', t, Bound(t), i)
      BY <1>1, <1>p, <1>s, <2>2, <3>1, TakenUnder DEF Tight, h
    <3>3. Shown(channel, t) => Shown(channel', t)
      BY <1>1, <1>p, <1>s, <3>1, TakenUnder DEF h
    <3>4. Bare(t)' => Bare(t)
      BY <3>3, <1>1, <2>4 DEF Bare, h
    <3>5. Bare(t)' => dest[t] = {}
      BY <1>p, <3>1, <3>4 DEF Tight
    <3> QED
      BY <1>1, <1>p, <2>2, <3>1, <3>2, <3>5 DEF Tight
  <2> QED
    BY <2>3, <2>4
<1>10. \A t \in Keyless \ loose' : complete'[t] # 0 => \A i \in dest'[t] : i <= complete'[t]
  <2>1. \A t \in Tables : dest'[t] = dest[t] \/ (t = h.table /\ dest'[t] = {})
    BY <1>1, <1>s DEF Shape
  <2>2. \A t \in Keyless \ loose' : t \in Tables /\ (t \in Keyless \ loose \/ t = h.table)
    BY <1>1, <1>s
  <2>3. \A t \in Keyless \ loose' : t = h.table => dest'[t] = {}
    BY <1>1, <1>s, <2>2 DEF Shape
  <2> QED
    BY <1>1, <2>1, <2>2, <2>3 DEF DoubleInv
<1> QED
  BY <1>1, <1>p, <1>6, <1>7, <1>8, <1>9, <1>10 DEF DoubleInv, DoubledOnlyIfLoose

(* Every step keeps the invariant.                                         *)
LEMMA DoubleNext == ASSUME StreamInv, ResumeInv, DoubleInv, [Next]_vars PROVE DoubleInv'
<1>1. CASE Source
  BY <1>1, DoubleStartRun, DoubleSend, DoubleIdle DEF Source
<1>2. ASSUME NEW t \in Tables, FlushTable(t) PROVE DoubleInv'
  BY <1>2, DoubleInvalidate, DoubleAppend, DoubleStage DEF FlushTable
<1>3. CASE Loop
  BY <1>2, <1>3, DoubleReceive, DoubleInvalidateTruncated, DoubleApplyTruncate, DoubleBeginFlush,
     DoubleEndCycle, DoubleIdle, DoublePersist, DoubleCommit DEF Loop
<1>4. CASE Cancel \/ UNCHANGED vars
  BY <1>4, DoubleIdle
<1>5. CASE Fail
  BY <1>5, DoubleFail
<1> QED
  BY <1>1, <1>3, <1>4, <1>5 DEF Next

(* The invariant holds in every state.                                     *)
LEMMA DoubleInvariance == Spec => []DoubleInv
<1>1. Init => DoubleInv
  BY DoubleInit
<1>2. StreamInv /\ ResumeInv /\ DoubleInv /\ [Next]_vars => DoubleInv'
  BY DoubleNext
<1> QED
  BY <1>1, <1>2, StreamInvariance, ResumeInvariance, PTL DEF Spec

(* DoubledOnlyIfLoose: the flush of a keyless table (flush, InvalidateKeyless *)
(* and the append of flushOne) never appends a row twice through a crash,     *)
(* for any log, buffer size and number of faults, unless a flush had no       *)
(* position up to its rows or a position went back.                           *)
THEOREM DoublesAreLoose == Spec => []DoubledOnlyIfLoose
<1>1. DoubleInv => DoubledOnlyIfLoose
  BY DEF DoubleInv
<1> QED
  BY <1>1, DoubleInvariance, PTL
=============================================================================
