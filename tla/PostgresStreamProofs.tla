------------------------ MODULE PostgresStreamProofs ------------------------
(***************************************************************************)
(* Theorems about PostgresStream, for every set of logs, tables, chunk,    *)
(* threshold, channel and number of crashes.                               *)
(***************************************************************************)
EXTENDS PostgresStream, FiniteSetTheorems, FunctionTheorems, SequenceTheorems,
        WellFoundedInduction, TLAPS

IsCommit(c) == c \in Lsns /\ wal[c].kind = "commit"
IsRow(r) == r \in Lsns /\ wal[r].kind = "row"
Results == [table : Tables \cup {"none"}, rows : SUBSET Lsns, fresh : BOOLEAN,
            token : Nat, snaps : SUBSET Tables, at : Nat]
Decoders == [pending : SUBSET Lsns, cur : Nat, committed : SUBSET Lsns, committedLSN : Nat,
             buf : [Txs -> SUBSET Lsns], pos : Nat]
Accums == [Tables -> [rows : SUBSET Lsns, first : Nat]]

(* What a log is, in terms of the variables. *)
LogOK ==
    /\ Len(wal) \in Nat /\ streamed \subseteq Txs /\ final \in [Txs -> Nat]
    /\ \A i \in Lsns :
          /\ wal[i].tx \in Txs /\ wal[i].kind \in {"row", "commit", "abort"}
          /\ wal[i].kind = "row" => wal[i].table \in Tables
          /\ wal[i].kind = "commit" => final[wal[i].tx] = i /\ RowsOf(wal[i].tx) # {}
          /\ \A j \in Lsns : wal[j].tx = wal[i].tx /\ j < i => wal[j].kind = "row"
    /\ \A x \in Txs : final[x] # 0 => IsCommit(final[x]) /\ wal[final[x]].tx = x

(* The types. *)
Shape ==
    /\ head \in Nat /\ slot \in Nat /\ start \in Nat /\ sent \in Nat /\ checkpoint \in Nat
    /\ token \in Nat /\ confirmed \in Nat /\ lastIdle \in Nat /\ crashes \in Nat
    /\ {snapPos, knownComplete, snaps, processed} \subseteq [Tables -> Nat]
    /\ boundary \in [Tables -> BOOLEAN] /\ up \in BOOLEAN
    /\ durable \subseteq Lsns /\ held \subseteq Lsns
    /\ known \subseteq Tables /\ touched \subseteq Tables
    /\ part \subseteq Lsns \cup {0}
    /\ d \in Decoders /\ accum \in Accums /\ results \in Seq(Results)
    /\ pstep \in {"run", "persist", "commit"}

(* No position is ahead of what was read of the log. *)
Bounds ==
    /\ 1 <= slot /\ 1 <= start /\ 1 <= d.pos
    /\ head <= Len(wal) + 1 /\ sent < head
    /\ \A q \in {slot, start, d.pos, checkpoint, token, confirmed, lastIdle} : q <= head
    /\ \A t \in Tables : \A q \in {snapPos[t], knownComplete[t], snaps[t], processed[t]} : q <= head
    /\ \A k \in DOMAIN results : results[k].token <= head /\ results[k].at <= head

(* The committed rows of a table before a position; and all commits before *)
(* a position were sent, up to sn, or lie before the start st.             *)
Older(lg, fin, t, q) ==
    {r \in 1..Len(lg) : /\ lg[r].kind = "row" /\ lg[r].table = t
                        /\ fin[lg[r].tx] # 0 /\ fin[lg[r].tx] < q}
Commits(lg) == {c \in 1..Len(lg) : lg[c].kind = "commit"}
Reached(lg, st, sn, q) == \A c \in Commits(lg) : c < q => c < st \/ c <= sn

(* What the decoder has is what the walsender sent of transactions that    *)
(* have not ended, and of the last one that has; and every commit below    *)
(* its position was sent, or lies before the start.                        *)
Ended(x) == \E i \in Lsns : i <= sent /\ wal[i].tx = x /\ wal[i].kind # "row"
Buffered(x) == {r \in RowsOf(x) : r <= sent /\ TableOf(r) \in known}
HoldsRows(dd) ==
    /\ part = {} => dd.pending = {}
    /\ part # {} =>
          /\ Unsent # {} /\ dd.cur = Min(Unsent) /\ wal[dd.cur].tx \notin streamed /\ 0 \in part
          /\ part \ {0} \subseteq RowsOf(wal[dd.cur].tx)
          /\ dd.pending = {r \in part \ {0} : TableOf(r) \in known}
    /\ \A x \in Txs :
          /\ dd.buf[x] \subseteq Buffered(x)
          /\ x \in streamed /\ ~Ended(x) /\ ~(final[x] # 0 /\ final[x] < start)
                => Buffered(x) \subseteq dd.buf[x]
DecoderOK ==
    /\ HoldsRows(d)
    /\ d.committedLSN <= sent /\ (d.committed # {} => IsCommit(sent) /\ d.committedLSN = sent)
    /\ \A r \in d.committed : IsRow(r) /\ FinalOf(r) = sent /\ TableOf(r) \in known
    /\ \A q \in PendingLowWater(d) : 1 <= q /\ q <= head
    /\ \A q \in PendingLowWater(d) \cup {d.pos} : Reached(wal, start, sent, q)

(* The accumulator has rows of its table, and knows the oldest commit.     *)
Gathered(lg, fin, acc, sn) ==
    \A t \in Tables :
        /\ acc[t].rows # {} => 1 <= acc[t].first /\ acc[t].first <= sn
        /\ acc[t].rows \subseteq Older(lg, fin, t, sn + 1)
        /\ \A r \in acc[t].rows : acc[t].first <= fin[lg[r].tx]
AccumOK == Gathered(wal, final, accum, sent)

(* Only rows of committed transactions leave the decoder. *)
ResolvedOK ==
    /\ \A r \in durable \cup held : IsRow(r) /\ FinalOf(r) # 0
    /\ \A k \in DOMAIN results : \A r \in results[k].rows : IsRow(r) /\ FinalOf(r) # 0

(* Of a table: the rows of what the pipeline has and the first results of  *)
(* a channel, where one that truncates the table cuts off what is before.  *)
Cuts(r, t) == r.fresh /\ r.table = t
Out(ch, have, t, k) ==
    (UNION {ch[j].rows : j \in 1..k}) \cup (IF \E j \in 1..k : Cuts(ch[j], t) THEN {} ELSE have)
Have == durable \cup held

(* The snapshot of a table t: it truncates what no state says is complete, *)
(* nothing of the table is before it, and its position, which ends it, is  *)
(* behind none of the positions ps, nor any in the channel up to there.    *)
Untouched(r, t) == t \notin r.snaps /\ \A x \in r.rows : TableOf(x) # t
Snapped(ch, have, t, based, kn, ps) ==
    \A k \in 1..Len(ch) :
        /\ Cuts(ch[k], t) => t \in kn /\ ~based /\ t \notin ch[k].snaps /\ \A j \in 1..(k - 1) : Untouched(ch[j], t)
        /\ t \in ch[k].snaps =>
              /\ t \in kn /\ 1 <= ch[k].at /\ Older(wal, final, t, ch[k].at) \subseteq Out(ch, have, t, k)
              /\ \A q \in ps : q <= ch[k].at
              /\ \A j \in 1..k : ch[j].token <= ch[k].at
Positions == {slot, start, checkpoint, confirmed, token}

(* A token in the channel covers what is emitted up to there. *)
Tokened(ch, have, t, based) ==
    \A k \in 1..Len(ch) :
        based \/ (\E j \in 1..k : t \in ch[j].snaps) =>
            Older(wal, final, t, ch[k].token) \subseteq Out(ch, have, t, k)

(* Of a table that resumes or would: what is confirmed, in the state or    *)
(* skipped by the stream is in the destination, what the pipeline is going *)
(* to confirm, and all that lies before a snapshot it just took, it has.   *)
Flushed == IF pstep = "run" THEN Have ELSE durable
Certified(t) == snapPos[t] # 0 \/ knownComplete[t] # 0
StateOK(t) ==
    Based(t) =>
        /\ t \in known
        /\ \A q \in {slot, start, checkpoint, confirmed, snapPos[t], knownComplete[t]} :
              Older(wal, final, t, q) \subseteq IF Certified(t) THEN durable ELSE Flushed
        /\ \A q \in {token, snaps[t]} : Older(wal, final, t, q) \subseteq Flushed

(* The reader has, or has handed on, what it was sent and what it filters. *)
Delivered(t) == Out(results, Have, t, Len(results)) \cup accum[t].rows
ReaderOK(t) ==
    t \in known =>
        /\ Based(t) \/ \E k \in 1..Len(results) : t \in results[k].snaps
        /\ \A q \in {start, processed[t]} : Older(wal, final, t, q) \subseteq Delivered(t)
        /\ Older(wal, final, t, sent + 1) \subseteq Delivered(t) \cup d.committed

(* Nothing is left of a stream that is down. *)
DownOK ==
    ~up => /\ results = <<>> /\ held = {} /\ token = 0 /\ confirmed = 0 /\ pstep = "run"
           /\ start = slot /\ \A t \in Tables : snaps[t] = 0

StreamInv == LogOK /\ Shape /\ Bounds /\ DecoderOK /\ AccumOK /\ ResolvedOK
Covered(t) ==
    /\ Snapped(results, Have, t, Based(t), known, Positions)
    /\ Tokened(results, Have, t, Based(t))
    /\ StateOK(t) /\ (up => ReaderOK(t))
CoverInv == DownOK /\ \A t \in Tables \ Keyless : Covered(t)

----------------------------------------------------------------------------
(* Numbers, orders of sets, the log. *)

(* The least of a set of numbers is in it, and below the others. *)
LEMMA MinInSet ==
    ASSUME NEW S \in SUBSET Nat, S # {}
    PROVE  Min(S) \in S /\ \A y \in S : Min(S) <= y
<1> DEFINE Less == OpToRel(<, Nat)
<1>0. IsWellFoundedOn(Less, Nat)
  BY NatLessThanWellFounded
<1> HIDE DEF Less
<1>1. \E x \in S : \A y \in S : ~(<<y, x>> \in Less)
  BY <1>0, WFMin
<1>2. \E x \in S : \A y \in S : x <= y
  <2>1. PICK x \in S : \A y \in S : ~(<<y, x>> \in Less)
    BY <1>1
  <2>2. \A y \in S : <<y, x>> \in Nat \X Nat
    OBVIOUS
  <2>3. \A y \in S : ~(y < x)
    BY <2>1, <2>2 DEF Less, OpToRel
  <2>4. \A y \in S : x <= y
    BY <2>3
  <2> QED
    BY <2>4
<1> QED
  BY <1>2 DEF Min

(* An order of a set of tables lists each of them. *)
LEMMA Ordered ==
    ASSUME NEW S \in SUBSET Tables, NEW order \in SetToSeqs(S)
    PROVE  /\ Len(order) \in Nat /\ Len(order) = Cardinality(S)
           /\ DOMAIN order = 1..Len(order) /\ \A k \in 1..Len(order) : order[k] \in S
           /\ \A t \in S : \E k \in 1..Len(order) : order[k] = t
           /\ \A j, k \in 1..Len(order) : j # k => order[j] # order[k]
<1> DEFINE D == 1..Cardinality(S)
<1>1. IsFiniteSet(S) /\ Cardinality(S) \in Nat
  BY FS_Subset, FS_CardinalityType, PostgresAssumption
<1>2. order \in [D -> S] /\ \A i, j \in D : i # j => order[i] # order[j]
  BY DEF SetToSeqs
<1>3. order \in Injection(D, S)
  BY <1>2 DEF Injection, IsInjective
<1>4. Cardinality(D) = Cardinality(S) /\ IsFiniteSet(D)
  <2>1. Cardinality(1..Cardinality(S)) = Cardinality(S) - 1 + 1 /\ IsFiniteSet(1..Cardinality(S))
    BY <1>1, FS_Interval
  <2> QED
    BY <1>1, <2>1
<1>5. order \in Surjection(D, S)
  BY <1>1, <1>3, <1>4, FS_Injection
<1>6. \A t \in S : \E k \in D : order[k] = t
  BY <1>5 DEF Surjection
<1>7. Len(order) = Cardinality(S)
  BY <1>1, <1>2
<1> QED
  BY <1>1, <1>2, <1>6, <1>7

(* SetToSeq gives one of the orders of a set of tables. *)
LEMMA Listed ==
    ASSUME NEW S \in SUBSET Tables
    PROVE  SetToSeq(S) \in SetToSeqs(S)
<1>1. IsFiniteSet(S)
  BY FS_Subset, PostgresAssumption
<1>2. /\ Cardinality(S) \in Nat
      /\ ExistsBijection(1..Cardinality(S), S)
  BY <1>1, FS_CardinalityType
<1>3. \E f \in [1..Cardinality(S) -> S] : IsInjective(f)
  BY <1>2 DEF ExistsBijection, Bijection, Injection
<1>4. SetToSeq(S) \in [1..Cardinality(S) -> S] /\ IsInjective(SetToSeq(S))
  BY <1>3 DEF SetToSeq
<1>5. DOMAIN SetToSeq(S) = 1..Cardinality(S)
  BY <1>4
<1> QED
  BY <1>4, <1>5 DEF SetToSeqs, IsInjective

(* The results of one channel and then of another. *)
LEMMA Joined ==
    ASSUME NEW ch \in Seq(Results), NEW more \in Seq(Results)
    PROVE  /\ ch \o more \in Seq(Results) /\ Len(ch) \in Nat /\ Len(more) \in Nat
           /\ Len(ch \o more) = Len(ch) + Len(more)
           /\ \A j \in 1..Len(ch) : (ch \o more)[j] = ch[j]
           /\ \A j \in 1..Len(more) : (ch \o more)[Len(ch) + j] = more[j]
           /\ \A k \in 1..Len(ch \o more) :
                 k \in 1..Len(ch) \/ \E j \in 1..Len(more) : k = Len(ch) + j
<1>1. /\ ch \o more \in Seq(Results) /\ Len(ch) \in Nat /\ Len(more) \in Nat
      /\ Len(ch \o more) = Len(ch) + Len(more)
      /\ \A i \in 1..Len(ch) + Len(more) :
            (ch \o more)[i] = IF i <= Len(ch) THEN ch[i] ELSE more[i - Len(ch)]
  BY ConcatProperties, LenProperties
<1>2. \A j \in 1..Len(more) : Len(ch) + j \in 1..Len(ch) + Len(more) /\ (Len(ch) + j) - Len(ch) = j /\ ~(Len(ch) + j <= Len(ch))
  BY <1>1
<1>3. ASSUME NEW k \in 1..Len(ch) + Len(more), k \notin 1..Len(ch)
      PROVE  \E j \in 1..Len(more) : k = Len(ch) + j
  <2>1. k - Len(ch) \in 1..Len(more) /\ k = Len(ch) + (k - Len(ch))
    BY <1>1, <1>3
  <2> QED
    BY <2>1
<1>4. \A j \in 1..Len(ch) : j \in 1..Len(ch) + Len(more) /\ j <= Len(ch)
  BY <1>1
<1>5. \A j \in 1..Len(ch) : (ch \o more)[j] = ch[j]
  BY <1>1, <1>4
<1>6. \A j \in 1..Len(more) : (ch \o more)[Len(ch) + j] = more[j]
  BY <1>1, <1>2
<1> QED
  BY <1>1, <1>3, <1>5, <1>6

(* The log and the commits of its transactions, at the start. *)
LEMMA LogInit == ASSUME Init PROVE LogOK
<1>1. PICK w \in Wals : wal = w.log /\ streamed = w.streamed
  BY DEF Init
<1>2. IsLog(w)
  BY <1>1, PostgresAssumption
<1> DEFINE Ends(x) == {i \in Lsns : wal[i].kind = "commit" /\ wal[i].tx = x}
<1>3. Len(wal) \in Nat /\ streamed \subseteq Txs
  BY <1>1, <1>2 DEF IsLog
<1>4. ASSUME NEW i \in Lsns
      PROVE  /\ wal[i].tx \in Txs
             /\ \/ wal[i].kind = "row" /\ wal[i].table \in Tables
                \/ wal[i].kind \in {"commit", "abort"} /\ \E j \in 1..(i - 1) : wal[j].tx = wal[i].tx
             /\ \A j \in 1..(i - 1) : wal[j].tx = wal[i].tx => wal[j].kind = "row"
  BY <1>1, <1>2 DEF IsLog, Lsns
<1>5. \A i, j \in Lsns : wal[j].tx = wal[i].tx /\ j < i => wal[j].kind = "row"
  <2> TAKE i, j \in Lsns
  <2> HAVE wal[j].tx = wal[i].tx /\ j < i
  <2>1. j \in 1..(i - 1)
    BY <1>3 DEF Lsns
  <2> QED
    BY <1>4, <2>1
<1>6. ASSUME NEW x \in Txs, NEW c \in Ends(x) PROVE Max({0} \cup Ends(x)) = c
  <2>1. \A b \in Ends(x) : b = c
    <3> TAKE b \in Ends(x)
    <3>1. b \in Nat /\ c \in Nat /\ b \in Lsns /\ c \in Lsns
      BY <1>3 DEF Lsns
    <3>2. ~(b < c) /\ ~(c < b)
      BY <1>5, <3>1
    <3> QED
      BY <3>1, <3>2
  <2>2. {0} \cup Ends(x) = {0, c} /\ c \in Nat
    BY <2>1 DEF Lsns
  <2>3. \A y \in {0, c} : (\A z \in {0, c} : y >= z) <=> y = c
    BY <2>2
  <2> QED
    BY <2>2, <2>3 DEF Max
<1>7. ASSUME NEW x \in Txs, Ends(x) = {} PROVE Max({0} \cup Ends(x)) = 0
  <2>1. {0} \cup Ends(x) = {0}
    BY <1>7
  <2>2. Max({0}) = 0
    BY DEF Max
  <2> QED
    BY <2>1, <2>2
<1>8. final = [x \in Txs |-> Max({0} \cup Ends(x))]
  BY DEF Init
<1>9. \A x \in Txs : final[x] = 0 \/ final[x] \in Ends(x)
  BY <1>6, <1>7, <1>8
<1>10. final \in [Txs -> Nat]
  <2>1. \A x \in Txs : final[x] \in Nat
    BY <1>3, <1>9 DEF Lsns
  <2> QED
    BY <1>8, <2>1
<1>11. ASSUME NEW i \in Lsns, wal[i].kind = "commit"
       PROVE  final[wal[i].tx] = i /\ RowsOf(wal[i].tx) # {}
  <2>1. wal[i].tx \in Txs /\ i \in Ends(wal[i].tx)
    BY <1>4, <1>11
  <2>2. final[wal[i].tx] = i
    BY <1>6, <1>8, <2>1
  <2>3. PICK j \in 1..(i - 1) : wal[j].tx = wal[i].tx
    BY <1>4, <1>11
  <2>4. j \in Lsns /\ wal[j].kind = "row"
    BY <1>3, <1>4, <2>3 DEF Lsns
  <2> QED
    BY <2>2, <2>3, <2>4 DEF RowsOf
<1>12. \A x \in Txs : final[x] # 0 => IsCommit(final[x]) /\ wal[final[x]].tx = x
  BY <1>9 DEF IsCommit
<1>13. \A i \in Lsns : /\ wal[i].tx \in Txs /\ wal[i].kind \in {"row", "commit", "abort"}
                       /\ wal[i].kind = "row" => wal[i].table \in Tables
  BY <1>4
<1> HIDE DEF Ends
<1> QED
  BY <1>3, <1>5, <1>10, <1>11, <1>12, <1>13 DEF LogOK

(* The log does not change. *)
LEMMA LogStep == ASSUME LogOK, UNCHANGED logVars PROVE LogOK'
BY DEF LogOK, logVars, Lsns, RowsOf, IsCommit

(* The committed rows of a table up to a position. *)
LEMMA OlderRows ==
    ASSUME LogOK, NEW t, NEW q \in Nat
    PROVE  /\ \A p \in Nat : p <= q => Older(wal, final, t, p) \subseteq Older(wal, final, t, q)
           /\ \A r \in Older(wal, final, t, q) :
                 /\ IsRow(r) /\ TableOf(r) = t /\ IsCommit(FinalOf(r)) /\ FinalOf(r) < q
                 /\ wal[FinalOf(r)].tx = wal[r].tx /\ r \in Committed(t)
           /\ \A r \in Committed(t) : FinalOf(r) < q => r \in Older(wal, final, t, q)
           /\ Committed(t) \subseteq Lsns
<1>1. \A r \in Lsns : wal[r].tx \in Txs /\ FinalOf(r) \in Nat
  BY DEF LogOK, FinalOf
<1>2. ASSUME NEW p \in Nat, p <= q, NEW r \in Older(wal, final, t, p)
      PROVE  r \in Older(wal, final, t, q)
  <2>1. /\ r \in Lsns /\ wal[r].kind = "row" /\ wal[r].table = t
        /\ final[wal[r].tx] # 0 /\ final[wal[r].tx] < p /\ final[wal[r].tx] \in Nat
    BY <1>1 DEF Older, Lsns, FinalOf
  <2>2. final[wal[r].tx] < q
    BY <1>2, <2>1
  <2> QED
    BY <2>1, <2>2 DEF Older, Lsns
<1>3. ASSUME NEW r \in Older(wal, final, t, q)
      PROVE  /\ IsRow(r) /\ TableOf(r) = t /\ IsCommit(FinalOf(r)) /\ FinalOf(r) < q
             /\ wal[FinalOf(r)].tx = wal[r].tx /\ r \in Committed(t)
  <2>1. IsRow(r) /\ TableOf(r) = t /\ FinalOf(r) # 0 /\ FinalOf(r) < q
    BY DEF Older, IsRow, TableOf, FinalOf, Lsns
  <2>2. IsCommit(FinalOf(r)) /\ wal[FinalOf(r)].tx = wal[r].tx
    BY <1>1, <2>1 DEF LogOK, FinalOf, IsRow
  <2> QED
    BY <2>1, <2>2 DEF Committed, IsRow
<1> QED
  BY <1>2, <1>3 DEF Older, Committed, TableOf, FinalOf, Lsns

----------------------------------------------------------------------------
(* Positions that are safe, and what is emitted with them. *)

(* Emptying tables of the accumulator. *)
LEMMA EmptiedFacts ==
    ASSUME NEW acc \in Accums, NEW T
    PROVE  /\ Emptied(acc, T) \in Accums
           /\ \A t \in Tables : Emptied(acc, T)[t].rows = IF t \in T THEN {} ELSE acc[t].rows
           /\ \A t \in Tables : t \notin T => Emptied(acc, T)[t] = acc[t]
           /\ minPendingLSN(Emptied(acc, T)) \subseteq minPendingLSN(acc)
           /\ \A t \in Tables : acc[t].rows # {} => acc[t].first \in minPendingLSN(acc)
<1>1. NoRows \in Accums /\ \A t \in Tables : NoRows[t].rows = {}
  BY DEF NoRows, Accums
<1>2. Emptied(acc, T) \in Accums
  <2>1. \A t \in Tables : (IF t \in T THEN NoRows[t] ELSE acc[t]) \in [rows : SUBSET Lsns, first : Nat]
    BY <1>1 DEF Accums
  <2> QED
    BY <2>1 DEF Emptied, Accums
<1>3. \A t \in Tables : Emptied(acc, T)[t] = IF t \in T THEN NoRows[t] ELSE acc[t]
  BY DEF Emptied
<1>4. ASSUME NEW t \in Filled(Emptied(acc, T)) PROVE t \in Filled(acc) /\ Emptied(acc, T)[t] = acc[t]
  BY <1>1, <1>3 DEF Filled
<1>5. minPendingLSN(Emptied(acc, T)) \subseteq minPendingLSN(acc)
  BY <1>4 DEF minPendingLSN
<1> QED
  BY <1>1, <1>2, <1>3, <1>5 DEF minPendingLSN, Filled

(* The safe position is before everything that is pending. *)
LEMMA SafePosition ==
    ASSUME NEW dd \in Decoders, NEW acc \in Accums,
           \A l \in PendingLowWater(dd) \cup minPendingLSN(acc) : l \in Nat /\ 1 <= l
    PROVE  /\ safeCommitLSN(dd, acc) \in Nat
           /\ \A l \in PendingLowWater(dd) \cup minPendingLSN(acc) : safeCommitLSN(dd, acc) < l
           /\ \/ safeCommitLSN(dd, acc) = dd.pos
              \/ \E l \in PendingLowWater(dd) \cup minPendingLSN(acc) : safeCommitLSN(dd, acc) = l - 1
<1> DEFINE low == PendingLowWater(dd) \cup minPendingLSN(acc)
<1>1. low \in SUBSET Nat
  OBVIOUS
<1>2. CASE low = {}
  <2>1. safeCommitLSN(dd, acc) = dd.pos
    BY <1>2 DEF safeCommitLSN
  <2> QED
    BY <1>2, <2>1 DEF Decoders
<1>3. CASE low # {}
  <2>1. safeCommitLSN(dd, acc) = Min(low) - 1
    BY <1>3 DEF safeCommitLSN
  <2> HIDE DEF low
  <2>2. Min(low) \in low /\ \A y \in low : Min(low) <= y
    BY <1>1, <1>3, MinInSet
  <2>3. \A l \in low : l \in Nat /\ 1 <= l
    BY DEF low
  <2>4. safeCommitLSN(dd, acc) \in Nat /\ \A l \in low : safeCommitLSN(dd, acc) < l
    BY <2>1, <2>2, <2>3
  <2> QED
    BY <2>1, <2>2, <2>4 DEF low
<1> QED
  BY <1>2, <1>3

(* A safe position covers what the decoder handed over and the accumulator *)
(* emptied of T does not have.                                             *)
LEMMA SafeCovers ==
    ASSUME LogOK, NEW dd \in Decoders, NEW acc \in Accums, NEW T,
           NEW st \in Nat, NEW sn \in Nat, NEW hd \in Nat, sn < hd, dd.pos <= hd,
           \A q \in PendingLowWater(dd) : q \in Nat /\ 1 <= q /\ q <= hd,
           \A q \in PendingLowWater(dd) \cup {dd.pos} : Reached(wal, st, sn, q),
           Gathered(wal, final, acc, sn),
           dd.committed # {} => \A r \in dd.committed : FinalOf(r) = dd.committedLSN,
           NEW q \in {safeCommitLSN(dd, Emptied(acc, T))}
    PROVE  /\ q \in Nat /\ q <= hd
           /\ Reached(wal, st, sn, q)
           /\ \A t \in Tables : \A r \in Older(wal, final, t, q) :
                 /\ r \in Older(wal, final, t, st) \/ r \in Older(wal, final, t, sn + 1)
                 /\ r \notin dd.committed
                 /\ r \in acc[t].rows => t \in T
<1> DEFINE less == Emptied(acc, T)
           low == PendingLowWater(dd) \cup minPendingLSN(less)
<1>1. /\ less \in Accums /\ minPendingLSN(less) \subseteq minPendingLSN(acc)
      /\ \A t \in Tables : less[t].rows = IF t \in T THEN {} ELSE acc[t].rows
      /\ \A t \in Tables : t \notin T => less[t] = acc[t]
      /\ \A t \in Tables : less[t].rows # {} => less[t].first \in minPendingLSN(less)
  <2>1. less \in Accums
    BY EmptiedFacts
  <2> QED
    BY <2>1, EmptiedFacts
<1>2. \A l \in minPendingLSN(acc) : l \in Nat /\ 1 <= l /\ l <= sn
  BY DEF minPendingLSN, Filled, Gathered, Accums
<1> HIDE DEF less
<1>3. \A l \in low : l \in Nat /\ 1 <= l /\ l <= hd
  BY <1>1, <1>2
<1>4. /\ q \in Nat /\ \A l \in low : q < l
      /\ q = dd.pos \/ \E l \in low : q = l - 1
  BY <1>1, <1>3, SafePosition DEF less
<1>5. q <= hd
  BY <1>3, <1>4
<1>6. \A l \in low \cup {dd.pos} : Reached(wal, st, sn, l)
  <2>1. \A l \in minPendingLSN(less) : Reached(wal, st, sn, l)
    <3> TAKE l \in minPendingLSN(less)
    <3>1. l \in Nat /\ l <= sn
      BY <1>1, <1>2
    <3>2. \A c \in Commits(wal) : c \in Nat
      BY DEF Commits, LogOK
    <3> QED
      BY <3>1, <3>2 DEF Reached
  <2> QED
    BY <2>1
<1>7. Reached(wal, st, sn, q)
  <2>1. CASE q = dd.pos
    BY <1>6, <2>1
  <2>2. ASSUME NEW l \in low, q = l - 1 PROVE Reached(wal, st, sn, q)
    <3>1. Reached(wal, st, sn, l) /\ l \in Nat
      BY <1>3, <1>6
    <3>2. \A c \in Commits(wal) : c \in Nat
      BY DEF Commits, LogOK
    <3> QED
      BY <1>4, <2>2, <3>1, <3>2 DEF Reached
  <2> QED
    BY <1>4, <2>1, <2>2
<1>8. ASSUME NEW t \in Tables, NEW r \in Older(wal, final, t, q)
      PROVE  /\ r \in Older(wal, final, t, st) \/ r \in Older(wal, final, t, sn + 1)
             /\ r \notin dd.committed
             /\ r \in acc[t].rows => t \in T
  <2>1. /\ IsRow(r) /\ TableOf(r) = t /\ IsCommit(FinalOf(r)) /\ FinalOf(r) < q /\ r \in Committed(t)
    BY <1>4, OlderRows
  <2>2. FinalOf(r) \in Commits(wal) /\ FinalOf(r) \in Nat
    BY <2>1 DEF Commits, IsCommit, Lsns, LogOK
  <2>3. FinalOf(r) < st \/ FinalOf(r) <= sn
    BY <1>7, <2>1, <2>2 DEF Reached
  <2>4. r \in Older(wal, final, t, st) \/ r \in Older(wal, final, t, sn + 1)
    <3>1. CASE FinalOf(r) < st
      BY <2>1, <3>1, OlderRows
    <3>2. CASE FinalOf(r) <= sn
      <4>1. FinalOf(r) < sn + 1 /\ sn + 1 \in Nat
        BY <2>2, <3>2
      <4> QED
        BY <2>1, <4>1, OlderRows
    <3> QED
      BY <2>3, <3>1, <3>2
  <2>5. r \notin dd.committed
    <3> SUFFICES ASSUME r \in dd.committed PROVE FALSE
      OBVIOUS
    <3>1. FinalOf(r) = dd.committedLSN /\ dd.committedLSN \in low
      BY DEF PendingLowWater
    <3>2. q < FinalOf(r)
      BY <1>4, <3>1
    <3> QED
      BY <1>4, <2>1, <2>2, <3>2
  <2>6. r \in acc[t].rows => t \in T
    <3> SUFFICES ASSUME r \in acc[t].rows, t \notin T PROVE FALSE
      OBVIOUS
    <3>1. less[t] = acc[t] /\ less[t].rows # {}
      BY <1>1
    <3>2. acc[t].first \in low
      BY <1>1, <3>1
    <3>3. acc[t].first <= FinalOf(r) /\ acc[t].first \in Nat
      BY DEF Gathered, FinalOf, TableOf, Accums
    <3>4. q < acc[t].first
      BY <1>4, <3>2
    <3> QED
      BY <1>4, <2>1, <2>2, <3>3, <3>4
  <2> QED
    BY <2>4, <2>5, <2>6
<1> QED
  BY <1>4, <1>5, <1>7, <1>8

(* What Emit puts into the channel. *)
First(order, k) == {order[j] : j \in 1..k}
Lists(out, acc, dd, S, order) ==
    /\ out \in Seq(Results) /\ Len(out) = Cardinality(S) /\ Cardinality(S) \in Nat
    /\ \A k \in 1..Cardinality(S) :
          /\ order[k] \in S
          /\ out[k] = Result(order[k], acc[order[k]].rows, FALSE,
                             safeCommitLSN(dd, Emptied(acc, First(order, k))), {}, 0)
    /\ \A t \in S : \E k \in 1..Cardinality(S) : order[k] = t

(* What Emit puts in the channel, result by result. *)
LEMMA Emission ==
    ASSUME NEW dd \in Decoders, NEW acc \in Accums, NEW S \in SUBSET Tables,
           NEW order \in SetToSeqs(S),
           \A l \in PendingLowWater(dd) \cup minPendingLSN(acc) : l \in Nat /\ 1 <= l
    PROVE  Lists(Emit(acc, dd, order), acc, dd, S, order)
<1> DEFINE n == Cardinality(S)
           R(k) == Result(order[k], acc[order[k]].rows, FALSE,
                          safeCommitLSN(dd, Emptied(acc, First(order, k))), {}, 0)
           E == [k \in 1..n |-> R(k)]
<1>1. /\ n \in Nat /\ DOMAIN order = 1..n /\ \A k \in 1..n : order[k] \in S
      /\ \A t \in S : \E k \in 1..n : order[k] = t
  BY Ordered
<1>2. ASSUME NEW k \in 1..n PROVE R(k) \in Results
  <2> DEFINE T == First(order, k)
  <2>1. order[k] \in Tables /\ acc[order[k]].rows \in SUBSET Lsns
    BY <1>1 DEF Accums
  <2>2. Emptied(acc, T) \in Accums /\ minPendingLSN(Emptied(acc, T)) \subseteq minPendingLSN(acc)
    BY EmptiedFacts
  <2>3. safeCommitLSN(dd, Emptied(acc, T)) \in Nat
    <3> HIDE DEF T
    <3> QED
      BY <2>2, SafePosition
  <2> HIDE DEF T
  <2> QED
    BY <2>1, <2>3 DEF Results, Result, T
<1>3. Emit(acc, dd, order) = E
  BY <1>1 DEF Emit, First
<1> HIDE DEF R, n
<1>4. E \in Seq(Results)
  BY <1>1, <1>2, IsASeq
<1>5. Len(E) = n /\ \A k \in 1..n : E[k] = R(k)
  BY <1>1, <1>2
<1> QED
  BY <1>1, <1>3, <1>4, <1>5 DEF R, n, Lists

----------------------------------------------------------------------------
(* The walsender and the decoder. *)

(* The next message belongs to the first record that was not sent; what is *)
(* skipped before it are rows and ends of transactions that lie before the *)
(* start or are sent with their commit.                                    *)
LEMMA Upcoming ==
    ASSUME LogOK, Shape, NEW m \in NextOfStream
    PROVE  /\ Unsent # {} /\ m.lsn = Min(Unsent)
           /\ m.lsn \in Lsns /\ m.lsn \in Nat /\ 1 <= m.lsn /\ sent < m.lsn
           /\ m.tx = wal[m.lsn].tx /\ m.tx \in Txs /\ ~Silent(m.lsn)
           /\ \A j \in Lsns : j < m.lsn => j <= sent \/ Silent(j)
           /\ m.at \in Nat /\ 1 <= m.at /\ m.at <= m.lsn + 1
           /\ Reached(wal, start, sent, m.lsn)
           /\ \/ /\ m.tx \in streamed /\ m.kind = wal[m.lsn].kind
                 /\ m.at = IF m.kind = "commit" THEN m.lsn + 1 ELSE m.lsn
              \/ /\ m.tx \notin streamed /\ wal[m.lsn].kind = "commit"
                 /\ \/ part = {} /\ m.kind = "begin" /\ m.at \in RowsOf(m.tx)
                    \/ part # {} /\ m.kind = "row" /\ m.at \in RowsOf(m.tx)
                    \/ part # {} /\ m.kind = "commit" /\ m.at = m.lsn + 1 /\ RowsOf(m.tx) \subseteq part
<1> DEFINE i == Min(Unsent)
<1>1. Unsent # {} /\ m = Sent(i)
  BY DEF NextOfStream
<1>2. Unsent \in SUBSET Nat
  BY DEF Unsent, Lsns, LogOK
<1>3. i \in Unsent /\ \A j \in Unsent : i <= j
  BY <1>1, <1>2, MinInSet
<1> HIDE DEF i
<1>4. i \in Lsns /\ i \in Nat /\ 1 <= i /\ sent < i /\ ~Silent(i) /\ sent \in Nat
  BY <1>2, <1>3 DEF Unsent, Lsns, Shape, LogOK
<1>5. ASSUME NEW j \in Lsns, j < i PROVE j <= sent \/ Silent(j)
  <2>1. j \in Nat /\ (j \in Unsent => i <= j)
    BY <1>3 DEF Lsns, LogOK
  <2>2. j \notin Unsent
    BY <1>4, <1>5, <2>1
  <2> QED
    BY <1>4, <2>1, <2>2 DEF Unsent
<1>6. ASSUME NEW c \in Commits(wal), c < i PROVE c < start \/ c <= sent
  <2>1. c \in Lsns /\ wal[c].kind = "commit"
    BY DEF Commits, Lsns
  <2>2. final[wal[c].tx] = c /\ c # 0
    BY <2>1 DEF LogOK, Lsns
  <2>3. c <= sent \/ Silent(c)
    BY <1>5, <1>6, <2>1
  <2> QED
    BY <2>1, <2>2, <2>3 DEF Silent
<1> DEFINE x == wal[i].tx
           left == RowsOf(x) \ part
<1>7. x \in Txs /\ RowsOf(x) \subseteq Lsns /\ \A r \in Lsns : r \in Nat /\ 1 <= r
  BY <1>4 DEF LogOK, RowsOf, Lsns
<1>8. x \notin streamed => wal[i].kind = "commit" /\ RowsOf(x) # {}
  BY <1>4 DEF Silent, LogOK
<1>9. ASSUME wal[i].kind = "commit", NEW r \in RowsOf(x) PROVE r <= i
  <2>1. r \in Lsns /\ wal[r].kind = "row" /\ wal[r].tx = wal[i].tx
    BY DEF RowsOf
  <2>2. ~(i < r)
    BY <1>4, <1>9, <2>1 DEF LogOK
  <2> QED
    BY <1>4, <1>7, <2>1, <2>2
<1>10. CASE x \in streamed
  <2>1. m = Message(wal[i].kind, IF wal[i].kind = "commit" THEN i + 1 ELSE i, i, x)
    BY <1>1, <1>10 DEF Sent
  <2>2. /\ m.lsn = i /\ m.tx = x /\ m.kind = wal[i].kind
        /\ m.at = IF wal[i].kind = "commit" THEN i + 1 ELSE i
    BY <2>1 DEF Message
  <2>3. m.at \in Nat /\ 1 <= m.at /\ m.at <= i + 1
    BY <1>4, <2>2
  <2> QED
    BY <1>1, <1>4, <1>5, <1>6, <1>7, <1>10, <2>2, <2>3 DEF i, Reached
<1>11. CASE x \notin streamed /\ part = {}
  <2>1. m = Message("begin", Min(RowsOf(x)), i, x)
    BY <1>1, <1>11 DEF Sent
  <2>2. m.lsn = i /\ m.tx = x /\ m.kind = "begin" /\ m.at = Min(RowsOf(x))
    BY <2>1 DEF Message
  <2>3. RowsOf(x) \in SUBSET Nat /\ RowsOf(x) # {}
    BY <1>7, <1>8, <1>11
  <2>4. m.at \in RowsOf(x)
    BY <2>2, <2>3, MinInSet
  <2>5. m.at \in Nat /\ 1 <= m.at /\ m.at <= i
    BY <1>7, <1>8, <1>9, <1>11, <2>4
  <2>6. m.at <= i + 1
    BY <1>4, <2>5
  <2> QED
    BY <1>1, <1>4, <1>5, <1>6, <1>7, <1>8, <1>11, <2>2, <2>4, <2>5, <2>6 DEF i, Reached
<1>12. CASE x \notin streamed /\ part # {} /\ left # {}
  <2>1. m = Message("row", Min(left), i, x)
    BY <1>1, <1>12 DEF Sent
  <2>2. m.lsn = i /\ m.tx = x /\ m.kind = "row" /\ m.at = Min(left)
    BY <2>1 DEF Message
  <2>3. left \in SUBSET Nat /\ left # {}
    BY <1>7, <1>12
  <2>4. m.at \in RowsOf(x)
    BY <2>2, <2>3, MinInSet
  <2>5. m.at \in Nat /\ 1 <= m.at /\ m.at <= i
    BY <1>7, <1>8, <1>9, <1>12, <2>4
  <2>6. m.at <= i + 1
    BY <1>4, <2>5
  <2> QED
    BY <1>1, <1>4, <1>5, <1>6, <1>7, <1>8, <1>12, <2>2, <2>4, <2>5, <2>6 DEF i, Reached
<1>13. CASE x \notin streamed /\ part # {} /\ left = {}
  <2>1. m = Message("commit", i + 1, i, x)
    BY <1>1, <1>13 DEF Sent
  <2>2. m.lsn = i /\ m.tx = x /\ m.kind = "commit" /\ m.at = i + 1
    BY <2>1 DEF Message
  <2>3. m.at \in Nat /\ 1 <= m.at /\ m.at <= i + 1
    BY <1>4, <2>2
  <2>4. RowsOf(x) \subseteq part
    BY <1>13
  <2> QED
    BY <1>1, <1>4, <1>5, <1>6, <1>7, <1>8, <1>13, <2>2, <2>3, <2>4 DEF i, Reached
<1> QED
  BY <1>10, <1>11, <1>12, <1>13

(* The fields of the decoder after a message. *)
Fields(dd, pe, cu, co, cl, bu) ==
    dd.pending = pe /\ dd.cur = cu /\ dd.committed = co /\ dd.committedLSN = cl /\ dd.buf = bu

(* What a message of a streamed transaction does to the decoder's fields. *)
LEMMA DecodesStreamed ==
    ASSUME d \in Decoders, NEW m, m.tx \in streamed, m.tx \in Txs, m.kind \in {"row", "commit", "abort"},
           m.at \in Nat, m.lsn \in Nat, m.kind = "row" => m.at \in Lsns
    PROVE  /\ Decode(m) \in Decoders /\ Decode(m).pos = Max2(d.pos, m.at)
           /\ m.kind = "row" =>
                 Fields(Decode(m), d.pending, d.cur, d.committed, d.committedLSN,
                        IF TableOf(m.at) \in known THEN [d.buf EXCEPT ![m.tx] = @ \cup {m.at}] ELSE d.buf)
           /\ m.kind = "commit" =>
                 Fields(Decode(m), d.pending, d.cur, d.buf[m.tx], m.lsn, [d.buf EXCEPT ![m.tx] = {}])
           /\ m.kind = "abort" =>
                 Fields(Decode(m), d.pending, d.cur, d.committed, d.committedLSN, [d.buf EXCEPT ![m.tx] = {}])
<1> DEFINE dd == [d EXCEPT !.pos = Max2(@, m.at)]
<1>1. /\ dd \in Decoders /\ dd.pos = Max2(d.pos, m.at)
      /\ Fields(dd, d.pending, d.cur, d.committed, d.committedLSN, d.buf)
  BY DEF Decoders, Fields, Max2
<1>2. d.buf[m.tx] \in SUBSET Lsns
  BY DEF Decoders
<1> HIDE DEF dd
<1>3. CASE m.kind = "row" /\ TableOf(m.at) \notin known
  <2>1. Decode(m) = dd
    BY <1>3 DEF Decode, dd
  <2> QED
    BY <1>1, <1>3, <2>1
<1>4. CASE m.kind = "row" /\ TableOf(m.at) \in known
  <2>1. Decode(m) = [dd EXCEPT !.buf[m.tx] = @ \cup {m.at}]
    BY <1>4 DEF Decode, DecodeStreamed, dd
  <2>2. Decode(m) \in Decoders
    BY <1>1, <1>4, <2>1 DEF Decoders
  <2>3. /\ Decode(m).pos = dd.pos
        /\ Fields(Decode(m), dd.pending, dd.cur, dd.committed, dd.committedLSN, [dd.buf EXCEPT ![m.tx] = @ \cup {m.at}])
    BY <1>1, <2>1 DEF Fields, Decoders
  <2> QED
    BY <1>1, <1>4, <2>2, <2>3 DEF Fields
<1>5. CASE m.kind = "commit"
  <2>1. Decode(m) = [dd EXCEPT !.buf[m.tx] = {}, !.committed = d.buf[m.tx], !.committedLSN = m.lsn]
    BY <1>5 DEF Decode, DecodeStreamed, dd
  <2>2. [dd EXCEPT !.buf[m.tx] = {}] \in Decoders
    BY <1>1 DEF Decoders
  <2> DEFINE ended == [dd EXCEPT !.buf[m.tx] = {}]
  <2>3. Decode(m) = [ended EXCEPT !.committed = d.buf[m.tx], !.committedLSN = m.lsn] /\ ended \in Decoders
    BY <2>1, <2>2
  <2>4. Decode(m) \in Decoders
    <3> HIDE DEF ended
    <3> QED
      BY <1>2, <2>3 DEF Decoders
  <2>5. /\ Decode(m).pos = dd.pos
        /\ Fields(Decode(m), dd.pending, dd.cur, d.buf[m.tx], m.lsn, [dd.buf EXCEPT ![m.tx] = {}])
    BY <1>1, <2>1 DEF Fields, Decoders
  <2> QED
    BY <1>1, <1>5, <2>4, <2>5 DEF Fields
<1>6. CASE m.kind = "abort"
  <2>1. Decode(m) = [dd EXCEPT !.buf[m.tx] = {}]
    BY <1>6 DEF Decode, DecodeStreamed, dd
  <2>2. Decode(m) \in Decoders
    BY <1>1, <1>6, <2>1 DEF Decoders
  <2>3. /\ Decode(m).pos = dd.pos
        /\ Fields(Decode(m), dd.pending, dd.cur, dd.committed, dd.committedLSN, [dd.buf EXCEPT ![m.tx] = {}])
    BY <1>1, <2>1 DEF Fields, Decoders
  <2> QED
    BY <1>1, <1>6, <2>2, <2>3 DEF Fields
<1> QED
  BY <1>3, <1>4, <1>5, <1>6

(* What a message of a transaction sent at its commit does to them. *)
LEMMA DecodesWhole ==
    ASSUME d \in Decoders, NEW m, m.tx \notin streamed, m.kind \in {"begin", "row", "commit"},
           m.at \in Nat, m.lsn \in Nat, m.kind = "row" => m.at \in Lsns
    PROVE  /\ Decode(m) \in Decoders /\ Decode(m).pos = Max2(d.pos, m.at)
           /\ m.kind = "begin" => Fields(Decode(m), {}, m.lsn, d.committed, d.committedLSN, d.buf)
           /\ m.kind = "row" =>
                 Fields(Decode(m), IF TableOf(m.at) \in known THEN d.pending \cup {m.at} ELSE d.pending,
                        d.cur, d.committed, d.committedLSN, d.buf)
           /\ m.kind = "commit" => Fields(Decode(m), {}, d.cur, d.pending, d.cur, d.buf)
<1> DEFINE dd == [d EXCEPT !.pos = Max2(@, m.at)]
<1>1. /\ dd \in Decoders /\ dd.pos = Max2(d.pos, m.at)
      /\ Fields(dd, d.pending, d.cur, d.committed, d.committedLSN, d.buf)
  BY DEF Decoders, Fields, Max2
<1>2. d.pending \in SUBSET Lsns /\ d.cur \in Nat
  BY DEF Decoders
<1> HIDE DEF dd
<1>3. CASE m.kind = "row" /\ TableOf(m.at) \notin known
  <2>1. Decode(m) = dd
    BY <1>3 DEF Decode, dd
  <2> QED
    BY <1>1, <1>3, <2>1
<1>4. CASE m.kind = "row" /\ TableOf(m.at) \in known
  <2>1. Decode(m) = [dd EXCEPT !.pending = @ \cup {m.at}]
    BY <1>4 DEF Decode, DecodeWhole, dd
  <2>2. Decode(m) \in Decoders
    BY <1>1, <1>4, <2>1 DEF Decoders
  <2>3. /\ Decode(m).pos = dd.pos
        /\ Fields(Decode(m), dd.pending \cup {m.at}, dd.cur, dd.committed, dd.committedLSN, dd.buf)
    BY <1>1, <2>1 DEF Fields, Decoders
  <2> QED
    BY <1>1, <1>4, <2>2, <2>3 DEF Fields
<1>5. CASE m.kind = "begin"
  <2>1. Decode(m) = [dd EXCEPT !.pending = {}, !.cur = m.lsn]
    BY <1>5 DEF Decode, DecodeWhole, dd
  <2>2. Decode(m) \in Decoders
    BY <1>1, <1>5, <2>1 DEF Decoders
  <2>3. Decode(m).pos = dd.pos /\ Fields(Decode(m), {}, m.lsn, dd.committed, dd.committedLSN, dd.buf)
    BY <1>1, <2>1 DEF Fields, Decoders
  <2> QED
    BY <1>1, <1>5, <2>2, <2>3 DEF Fields
<1>6. CASE m.kind = "commit"
  <2>1. Decode(m) = [dd EXCEPT !.pending = {}, !.committed = d.pending, !.committedLSN = d.cur]
    BY <1>6 DEF Decode, DecodeWhole, dd
  <2>2. Decode(m) \in Decoders
    BY <1>1, <1>2, <1>6, <2>1 DEF Decoders
  <2>3. Decode(m).pos = dd.pos /\ Fields(Decode(m), {}, dd.cur, d.pending, d.cur, dd.buf)
    BY <1>1, <2>1 DEF Fields, Decoders
  <2> QED
    BY <1>1, <1>6, <2>2, <2>3 DEF Fields
<1> QED
  BY <1>3, <1>4, <1>5, <1>6

----------------------------------------------------------------------------
(* One turn of the loop. *)

(* What is known of a decoder dd that took messages up to record sn of a   *)
(* stream that began at st, of a log that was read up to hd.               *)
Settled(dd, st, sn, hd) ==
    /\ dd \in Decoders /\ st \in Nat /\ sn \in Nat /\ hd \in Nat /\ sn < hd
    /\ 1 <= dd.pos /\ dd.pos <= hd
    /\ \A q \in PendingLowWater(dd) : q \in Nat /\ 1 <= q /\ q <= hd
    /\ \A q \in PendingLowWater(dd) \cup {dd.pos} : Reached(wal, st, sn, q)
    /\ dd.committedLSN <= sn /\ (dd.committed # {} => IsCommit(sn) /\ dd.committedLSN = sn)
    /\ \A r \in dd.committed : IsRow(r) /\ FinalOf(r) = sn /\ TableOf(r) \in known

(* A low water mark is a number. *)
LEMMA LowWaterNumbers ==
    ASSUME LogOK, NEW dd \in Decoders
    PROVE  PendingLowWater(dd) \subseteq Nat
<1>1. Lsns \subseteq Nat
  BY DEF Lsns, LogOK
<1>2. \A x \in Txs : dd.buf[x] \in SUBSET Nat
  BY <1>1 DEF Decoders
<1>3. \A x \in {y \in Txs : dd.buf[y] # {}} : Min(dd.buf[x]) \in Nat
  BY <1>2, MinInSet
<1>4. dd.cur \in Nat /\ dd.committedLSN \in Nat
  BY DEF Decoders
<1> QED
  BY <1>3, <1>4 DEF PendingLowWater

(* The stream's own decoder is settled. *)
LEMMA StreamSettled ==
    ASSUME StreamInv
    PROVE  Settled(d, start, sent, head)
<1>1. d \in Decoders /\ start \in Nat /\ sent \in Nat /\ head \in Nat
  BY DEF StreamInv, Shape
<1>2. PendingLowWater(d) \subseteq Nat
  BY <1>1, LowWaterNumbers DEF StreamInv
<1>3. sent < head /\ d.pos <= head /\ 1 <= d.pos
  BY DEF StreamInv, Bounds
<1> QED
  BY <1>1, <1>2, <1>3 DEF StreamInv, DecoderOK, Settled

(* What is emitted of tables S has all their rows, and tokens that cover   *)
(* what was handed over up to there.                                       *)
Covers(q, t, dd, acc, st, sn, rows) ==
    \A r \in Older(wal, final, t, q) :
        /\ r \in Older(wal, final, t, st) \/ r \in Older(wal, final, t, sn + 1)
        /\ r \notin dd.committed
        /\ r \in acc[t].rows => r \in rows
Emits(out, acc, dd, S, st, sn, hd) ==
    /\ out \in Seq(Results) /\ Len(out) \in Nat /\ Len(out) = Cardinality(S)
    /\ \A k \in 1..Len(out) :
          /\ out[k].table \in S /\ out[k].rows = acc[out[k].table].rows
          /\ ~out[k].fresh /\ out[k].snaps = {} /\ out[k].at = 0
          /\ out[k].token \in Nat /\ out[k].token <= hd
          /\ \A r \in out[k].rows : IsRow(r) /\ FinalOf(r) # 0 /\ TableOf(r) = out[k].table
          /\ \A t \in Tables : Covers(out[k].token, t, dd, acc, st, sn, UNION {out[j].rows : j \in 1..k})
    /\ \A t \in S : \E k \in 1..Len(out) : out[k].rows = acc[t].rows

(* Every token of Emit covers what has left the accumulator by then. *)
LEMMA Emitted ==
    ASSUME LogOK, NEW dd, NEW st, NEW sn, NEW hd, Settled(dd, st, sn, hd),
           NEW acc \in Accums, Gathered(wal, final, acc, sn),
           NEW S \in SUBSET Tables, NEW order \in SetToSeqs(S),
           NEW out, out = Emit(acc, dd, order)
    PROVE  Emits(out, acc, dd, S, st, sn, hd)
<1> DEFINE n == Cardinality(S)
           T(k) == First(order, k)
<1>1. dd \in Decoders /\ st \in Nat /\ sn \in Nat /\ hd \in Nat /\ sn < hd /\ dd.pos <= hd
  BY DEF Settled
<1>2. /\ \A q \in PendingLowWater(dd) : q \in Nat /\ 1 <= q /\ q <= hd
      /\ \A q \in PendingLowWater(dd) \cup {dd.pos} : Reached(wal, st, sn, q)
      /\ dd.committed # {} => \A r \in dd.committed : FinalOf(r) = dd.committedLSN
  BY DEF Settled
<1>3. \A l \in PendingLowWater(dd) \cup minPendingLSN(acc) : l \in Nat /\ 1 <= l
  BY <1>2 DEF minPendingLSN, Filled, Gathered, Accums
<1>4. /\ out \in Seq(Results) /\ Len(out) = n /\ n \in Nat
      /\ \A k \in 1..n :
            /\ order[k] \in S
            /\ out[k] = Result(order[k], acc[order[k]].rows, FALSE, safeCommitLSN(dd, Emptied(acc, T(k))), {}, 0)
      /\ \A t \in S : \E k \in 1..n : order[k] = t
  <2>1. Lists(Emit(acc, dd, order), acc, dd, S, order)
    BY <1>1, <1>3, Emission
  <2>2. Lists(out, acc, dd, S, order)
    BY <2>1
  <2> QED
    BY <2>2 DEF Lists
<1> HIDE DEF n
<1>5. \A k \in 1..n : /\ out[k].table = order[k] /\ out[k].rows = acc[order[k]].rows
                      /\ ~out[k].fresh /\ out[k].snaps = {} /\ out[k].at = 0
                      /\ out[k].token = safeCommitLSN(dd, Emptied(acc, T(k)))
  BY <1>4 DEF Result
<1>6. ASSUME NEW k \in 1..n
      PROVE  /\ out[k].token \in Nat /\ out[k].token <= hd
             /\ \A t \in Tables : Covers(out[k].token, t, dd, acc, st, sn, UNION {out[j].rows : j \in 1..k})
  <2>1. PICK q \in {safeCommitLSN(dd, Emptied(acc, T(k)))} : q = out[k].token
    BY <1>5
  <2>2. /\ q \in Nat /\ q <= hd
        /\ \A t \in Tables : \A r \in Older(wal, final, t, q) :
              /\ r \in Older(wal, final, t, st) \/ r \in Older(wal, final, t, sn + 1)
              /\ r \notin dd.committed
              /\ r \in acc[t].rows => t \in T(k)
    BY <1>1, <1>2, SafeCovers
  <2>3. ASSUME NEW t \in T(k) PROVE acc[t].rows \subseteq UNION {out[j].rows : j \in 1..k}
    <3>1. PICK j \in 1..k : t = order[j]
      BY DEF First
    <3>2. j \in 1..n
      BY <1>4
    <3>3. out[j].rows = acc[t].rows
      BY <1>5, <3>1, <3>2
    <3> QED
      BY <3>3
  <2> QED
    BY <2>1, <2>2, <2>3 DEF Covers
<1>7. ASSUME NEW k \in 1..n, NEW r \in out[k].rows
      PROVE  IsRow(r) /\ FinalOf(r) # 0 /\ TableOf(r) = out[k].table
  <2>1. r \in Older(wal, final, order[k], sn + 1) /\ order[k] \in Tables
    BY <1>4, <1>5, <1>7 DEF Gathered
  <2>2. sn + 1 \in Nat
    BY <1>1
  <2>3. IsRow(r) /\ TableOf(r) = order[k] /\ IsCommit(FinalOf(r))
    BY <2>1, <2>2, OlderRows
  <2>4. FinalOf(r) # 0
    BY <2>3 DEF IsCommit, Lsns, LogOK
  <2> QED
    BY <1>5, <2>3, <2>4
<1>8. \A t \in S : \E k \in 1..n : out[k].rows = acc[t].rows
  BY <1>4, <1>5
<1>9. Len(out) = n /\ n \in Nat
  BY <1>4
<1>10. \A k \in 1..n : out[k].table \in S /\ out[k].rows = acc[out[k].table].rows
  <2> TAKE k \in 1..n
  <2>1. order[k] \in S
    BY <1>4
  <2>2. out[k].table = order[k] /\ out[k].rows = acc[order[k]].rows
    BY <1>5
  <2> QED
    BY <2>1, <2>2
<1>11. \A k \in 1..n : ~out[k].fresh /\ out[k].snaps = {} /\ out[k].at = 0
  BY <1>5
<1>12. out \in Seq(Results) /\ Len(out) \in Nat /\ Len(out) = Cardinality(S)
  BY <1>4 DEF n
<1>13. ASSUME NEW k \in 1..Len(out)
       PROVE  /\ out[k].table \in S /\ out[k].rows = acc[out[k].table].rows
              /\ ~out[k].fresh /\ out[k].snaps = {} /\ out[k].at = 0
              /\ out[k].token \in Nat /\ out[k].token <= hd
              /\ \A r \in out[k].rows : IsRow(r) /\ FinalOf(r) # 0 /\ TableOf(r) = out[k].table
              /\ \A t \in Tables : Covers(out[k].token, t, dd, acc, st, sn, UNION {out[j].rows : j \in 1..k})
  <2>1. k \in 1..n
    BY <1>9
  <2> QED
    BY <1>6, <1>7, <1>10, <1>11, <2>1
<1>14. \A t \in S : \E k \in 1..Len(out) : out[k].rows = acc[t].rows
  BY <1>8, <1>9
<1> QED
  BY <1>12, <1>13, <1>14 DEF Emits

(* A turn from the decoder dd drains some of the committed rows, adds them *)
(* to the accumulator but for those it filters, and emits the tables that  *)
(* are ready.                                                              *)
Kept(dd, drained) == {r \in drained : ~ShouldFilterChange(TableOf(r), dd.committedLSN)}
Added(dd, drained) ==
    [t \in Tables |-> Add(accum[t], {r \in Kept(dd, drained) : TableOf(r) = t}, dd.committedLSN)]
Turned(dd, drained, ready, order) ==
    /\ drained \subseteq dd.committed /\ ready \subseteq Tables /\ order \in SetToSeqs(ready)
    /\ ready # {} => Len(results) < Capacity
    /\ d' = [dd EXCEPT !.committed = @ \ drained]
    /\ accum' = Emptied(Added(dd, drained), ready)
    /\ results' = results \o Emit(Added(dd, drained), d', order)
    /\ touched' \subseteq Tables
    /\ processed' \in [Tables -> Nat] /\ boundary' \in [Tables -> BOOLEAN]
    /\ \A t \in Tables : \/ processed'[t] = processed[t]
                         \/ /\ d'.committed = {}
                            /\ processed'[t] = Max2(processed[t], dd.committedLSN)

(* The parts of a turn: what is drained, the tables that are ready, their  *)
(* order.                                                                  *)
LEMMA Turning ==
    ASSUME LogOK, Shape, NEW dd \in Decoders, \A r \in dd.committed : IsRow(r), Turn(dd)
    PROVE  \E drained, ready, order : Turned(dd, drained, ready, order)
<1> DEFINE drained == {r \in dd.committed : Cardinality({q \in dd.committed : q <= r}) <= Chunk}
           kept == {r \in drained : ~ShouldFilterChange(TableOf(r), dd.committedLSN)}
           complete == drained = dd.committed
           after == [dd EXCEPT !.committed = @ \ drained]
           seen == touched \cup {TableOf(r) : r \in kept}
           acc == [t \in Tables |-> Add(accum[t], {r \in kept : TableOf(r) = t}, dd.committedLSN)]
           ready == {t \in Tables : Cardinality(acc[t].rows) >= Threshold}
<1>1. /\ ready # {} => Room
      /\ d' = after
      /\ touched' = IF complete THEN {} ELSE seen
      /\ processed' = [t \in Tables |-> IF complete /\ t \in seen
                                        THEN Max2(processed[t], dd.committedLSN) ELSE processed[t]]
      /\ boundary' = [t \in Tables |-> boundary[t] /\ ~(complete /\ t \in seen)]
      /\ accum' = Emptied(acc, ready)
      /\ \E order \in SetToSeqs(ready) : results' = results \o Emit(acc, after, order)
  BY DEF Turn
<1>2. drained \subseteq dd.committed /\ ready \subseteq Tables /\ kept = Kept(dd, drained)
  BY DEF Kept
<1>3. acc = Added(dd, drained)
  BY <1>2 DEF Added
<1>4. \A r \in kept : TableOf(r) \in Tables
  BY <1>2 DEF LogOK, IsRow, TableOf
<1> HIDE DEF drained, kept, acc, ready
<1>5. touched' \subseteq Tables
  BY <1>1, <1>4 DEF Shape
<1>6. processed \in [Tables -> Nat] /\ boundary \in [Tables -> BOOLEAN] /\ dd.committedLSN \in Nat
  BY DEF Shape, Decoders
<1>7. \A t \in Tables : Max2(processed[t], dd.committedLSN) \in Nat
  BY <1>6 DEF Max2
<1>8. /\ processed' \in [Tables -> Nat]
      /\ \A t \in Tables : \/ processed'[t] = processed[t]
                           \/ complete /\ processed'[t] = Max2(processed[t], dd.committedLSN)
  <2> HIDE DEF seen, complete
  <2> QED
    BY <1>1, <1>6, <1>7
<1>9. boundary' \in [Tables -> BOOLEAN]
  <2> HIDE DEF seen, complete
  <2>1. \A t \in Tables : (boundary[t] /\ ~(complete /\ t \in seen)) \in BOOLEAN
    OBVIOUS
  <2> QED
    BY <1>1, <2>1
<1>10. complete => d'.committed = {}
  <2>1. complete => dd.committed \ drained = {}
    OBVIOUS
  <2>2. after.committed = dd.committed \ drained
    BY DEF Decoders
  <2> HIDE DEF after
  <2> QED
    BY <1>1, <2>1, <2>2
<1>11. PICK order \in SetToSeqs(ready) : results' = results \o Emit(acc, after, order)
  BY <1>1
<1>12. ready # {} => Len(results) < Capacity
  BY <1>1 DEF Room
<1> HIDE DEF complete
<1>13. Turned(dd, drained, ready, order)
  BY <1>1, <1>2, <1>3, <1>5, <1>8, <1>9, <1>10, <1>11, <1>12 DEF Turned
<1> QED
  BY <1>13

----------------------------------------------------------------------------
(* A message and the decoder. *)

(* A message at record i lowers no mark below the ones there were and i.   *)
LEMMA Marked ==
    ASSUME LogOK, d \in Decoders, NEW dd \in Decoders, NEW i \in Nat, 1 <= i,
           \A q \in PendingLowWater(d) : 1 <= q,
           dd.pending # {} => dd.cur \in PendingLowWater(d) \cup {i},
           dd.committed # {} => dd.committedLSN \in PendingLowWater(d) \cup {i},
           \A x \in Txs : dd.buf[x] = d.buf[x] \/ dd.buf[x] = {} \/ i \in dd.buf[x]
    PROVE  \A q \in PendingLowWater(dd) :
              q \in Nat /\ 1 <= q /\ \E l \in PendingLowWater(d) \cup {i} : q <= l
<1>1. PendingLowWater(d) \subseteq Nat /\ PendingLowWater(dd) \subseteq Nat
  BY LowWaterNumbers
<1>2. ASSUME NEW x \in Txs, dd.buf[x] # {}
      PROVE  1 <= Min(dd.buf[x]) /\ \E l \in PendingLowWater(d) \cup {i} : Min(dd.buf[x]) <= l
  <2>1. dd.buf[x] \in SUBSET Nat /\ \A y \in dd.buf[x] : 1 <= y
    BY DEF Decoders, Lsns, LogOK
  <2>2. Min(dd.buf[x]) \in dd.buf[x] /\ \A y \in dd.buf[x] : Min(dd.buf[x]) <= y
    BY <1>2, <2>1, MinInSet
  <2>3. CASE dd.buf[x] = d.buf[x]
    <3>1. Min(dd.buf[x]) \in PendingLowWater(d)
      BY <1>2, <2>3 DEF PendingLowWater
    <3> QED
      BY <1>1, <2>1, <2>2, <3>1
  <2>4. CASE i \in dd.buf[x]
    BY <2>1, <2>2, <2>4
  <2> QED
    BY <1>2, <2>3, <2>4
<1>3. \A q \in PendingLowWater(dd) :
         \/ q = dd.cur /\ dd.pending # {}
         \/ q = dd.committedLSN /\ dd.committed # {}
         \/ \E x \in Txs : dd.buf[x] # {} /\ q = Min(dd.buf[x])
  BY DEF PendingLowWater
<1>4. \A l \in PendingLowWater(d) \cup {i} : l \in Nat /\ 1 <= l /\ l <= l
  BY <1>1
<1>5. ASSUME NEW q \in PendingLowWater(dd)
      PROVE  1 <= q /\ \E l \in PendingLowWater(d) \cup {i} : q <= l
  <2>1. CASE q = dd.cur /\ dd.pending # {}
    BY <1>4, <2>1
  <2>2. CASE q = dd.committedLSN /\ dd.committed # {}
    BY <1>4, <2>2
  <2>3. CASE \E x \in Txs : dd.buf[x] # {} /\ q = Min(dd.buf[x])
    BY <1>2, <2>3
  <2> QED
    BY <1>3, <1>5, <2>1, <2>2, <2>3
<1> QED
  BY <1>1, <1>5

(* Reached is about every position below one it holds of, and holds on.    *)
LEMMA ReachedDown ==
    ASSUME LogOK, NEW st \in Nat, NEW sn \in Nat, NEW tn \in Nat, sn <= tn,
           NEW q \in Nat, NEW p \in Nat, p <= q, Reached(wal, st, sn, q)
    PROVE  Reached(wal, st, tn, p)
<1>1. \A c \in Commits(wal) : c \in Nat
  BY DEF Commits, LogOK
<1> QED
  BY <1>1 DEF Reached

(* What comes after a record of its transaction that is not a row: nothing. *)
LEMMA EndsLast ==
    ASSUME LogOK, NEW i \in Lsns, wal[i].kind # "row", NEW r \in RowsOf(wal[i].tx)
    PROVE  r \in Lsns /\ r \in Nat /\ r < i
<1>1. r \in Lsns /\ wal[r].kind = "row" /\ wal[r].tx = wal[i].tx /\ r # i
  BY DEF RowsOf
<1>2. r \in Nat /\ i \in Nat
  BY <1>1 DEF Lsns, LogOK
<1>3. ~(i < r)
  BY <1>1 DEF LogOK
<1> QED
  BY <1>1, <1>2, <1>3

(* The decoder after the next message: nothing that was sent is lost, and  *)
(* a commit hands over the rows of its transaction.                        *)
Completes(dd, sn) ==
    \A t \in known : \A r \in Older(wal, final, t, sn + 1) :
        \/ r \in Older(wal, final, t, start) \/ r \in Older(wal, final, t, sent + 1)
        \/ r \in dd.committed

(* The next message leaves the decoder settled, and loses nothing. *)
LEMMA Received ==
    ASSUME LogOK, Shape, Bounds, DecoderOK, d.committed = {},
           NEW m \in NextOfStream, NEW dd, dd = Decode(m), UNCHANGED <<logVars, start, known>>,
           sent' = IF m.tx \notin streamed /\ m.kind # "commit" THEN sent ELSE m.lsn,
           part' = IF ~(m.tx \notin streamed /\ m.kind # "commit") THEN {}
                   ELSE IF m.kind = "begin" THEN {0} ELSE part \cup {m.at},
           head' = Max2(head, m.lsn + 1)
    PROVE  /\ Settled(dd, start, sent', head') /\ HoldsRows(dd)' /\ Completes(dd, sent')
           /\ sent <= sent' /\ head <= head' /\ head' <= Len(wal) + 1
           /\ part' \subseteq Lsns \cup {0}
<1> DEFINE i == m.lsn
           x == m.tx
<1>1. /\ Unsent # {} /\ i = Min(Unsent)
      /\ i \in Lsns /\ i \in Nat /\ 1 <= i /\ sent < i
      /\ x = wal[i].tx /\ x \in Txs /\ ~Silent(i)
      /\ \A j \in Lsns : j < i => j <= sent \/ Silent(j)
      /\ m.at \in Nat /\ 1 <= m.at /\ m.at <= i + 1
      /\ Reached(wal, start, sent, i)
  BY Upcoming
<1>2. \/ /\ x \in streamed /\ m.kind = wal[i].kind
         /\ m.at = IF m.kind = "commit" THEN i + 1 ELSE i
      \/ /\ x \notin streamed /\ wal[i].kind = "commit"
         /\ \/ part = {} /\ m.kind = "begin" /\ m.at \in RowsOf(x)
            \/ part # {} /\ m.kind = "row" /\ m.at \in RowsOf(x)
            \/ part # {} /\ m.kind = "commit" /\ m.at = i + 1 /\ RowsOf(x) \subseteq part
  BY Upcoming
<1> HIDE DEF i, x
<1>3. /\ d \in Decoders /\ sent \in Nat /\ head \in Nat /\ start \in Nat /\ sent < head
      /\ head <= Len(wal) + 1 /\ Len(wal) \in Nat /\ 1 <= d.pos /\ d.pos <= head /\ d.pos \in Nat
      /\ part \subseteq Lsns \cup {0}
  BY DEF Shape, Bounds, LogOK, Decoders
<1>4. wal[i].kind \in {"row", "commit", "abort"} /\ (wal[i].kind = "commit" => final[x] = i)
  BY <1>1 DEF LogOK
<1>5. sent' \in Nat /\ head' \in Nat /\ sent' \in {sent, i} /\ head <= head' /\ i + 1 <= head' /\ head' <= Len(wal) + 1
  BY <1>1, <1>3 DEF Max2, i, Lsns
<1>6. part # {} => d.cur = i /\ x \notin streamed /\ 0 \in part /\ part \ {0} \subseteq RowsOf(x)
                   /\ d.pending = {r \in part \ {0} : TableOf(r) \in known}
  BY <1>1 DEF DecoderOK, HoldsRows
<1>7. part = {} => d.pending = {}
  BY DEF DecoderOK, HoldsRows
<1>8. /\ m.lsn \in Nat /\ m.tx \in Txs
      /\ m.kind = "row" => m.at \in Lsns
      /\ m.tx \in streamed => m.kind \in {"row", "commit", "abort"}
      /\ m.tx \notin streamed => m.kind \in {"begin", "row", "commit"}
  BY <1>1, <1>2, <1>4 DEF i, x, RowsOf
<1>9. /\ dd \in Decoders /\ dd.pos = Max2(d.pos, m.at)
      /\ x \in streamed =>
            /\ m.kind = "row" =>
                 Fields(dd, d.pending, d.cur, d.committed, d.committedLSN,
                        IF TableOf(m.at) \in known THEN [d.buf EXCEPT ![x] = @ \cup {m.at}] ELSE d.buf)
            /\ m.kind = "commit" =>
                 Fields(dd, d.pending, d.cur, d.buf[x], i, [d.buf EXCEPT ![x] = {}])
            /\ m.kind = "abort" =>
                 Fields(dd, d.pending, d.cur, d.committed, d.committedLSN, [d.buf EXCEPT ![x] = {}])
      /\ x \notin streamed =>
            /\ m.kind = "begin" => Fields(dd, {}, i, d.committed, d.committedLSN, d.buf)
            /\ m.kind = "row" =>
                 Fields(dd, IF TableOf(m.at) \in known THEN d.pending \cup {m.at} ELSE d.pending,
                        d.cur, d.committed, d.committedLSN, d.buf)
            /\ m.kind = "commit" => Fields(dd, {}, d.cur, d.pending, d.cur, d.buf)
  <2>1. CASE m.tx \in streamed
    BY <1>1, <1>3, <1>8, <2>1, DecodesStreamed DEF x, i
  <2>2. CASE m.tx \notin streamed
    BY <1>1, <1>3, <1>8, <2>2, DecodesWhole DEF x, i
  <2> QED
    BY <2>1, <2>2 DEF x
<1> DEFINE Marks == /\ dd.pending # {} => dd.cur \in PendingLowWater(d) \cup {i}
                    /\ \A y \in Txs : dd.buf[y] = d.buf[y] \/ dd.buf[y] = {} \/ i \in dd.buf[y]
           Handed == /\ dd.committedLSN = d.committedLSN \/ (dd.committedLSN = i /\ sent' = i)
                     /\ dd.committed # {} => sent' = i /\ IsCommit(i) /\ dd.committedLSN = i
                     /\ \A r \in dd.committed : IsRow(r) /\ FinalOf(r) = i /\ TableOf(r) \in known
           Part == /\ part' = {} => dd.pending = {}
                   /\ part' # {} =>
                         /\ sent' = sent /\ dd.cur = i /\ x \notin streamed /\ 0 \in part'
                         /\ part' \ {0} \subseteq RowsOf(x) /\ part' \subseteq Lsns \cup {0}
                         /\ dd.pending = {r \in part' \ {0} : TableOf(r) \in known}
           Buf == /\ \A y \in Txs :
                        \/ dd.buf[y] \subseteq d.buf[y]
                        \/ /\ y = x /\ sent' = i /\ i \in RowsOf(x) /\ TableOf(i) \in known
                           /\ dd.buf[y] \subseteq d.buf[y] \cup {i}
                  /\ \A y \in Txs :
                        \/ d.buf[y] \subseteq dd.buf[y]
                        \/ y = x /\ sent' = i /\ wal[i].kind # "row"
                  /\ sent' = i /\ wal[i].kind = "row" /\ TableOf(i) \in known => i \in dd.buf[x]
           Complete == sent' = i /\ IsCommit(i) =>
                          IF x \in streamed THEN dd.committed = d.buf[x]
                          ELSE dd.committed = {r \in RowsOf(x) : TableOf(r) \in known}
<1> HIDE DEF Marks, Handed, Part, Buf, Complete
<1>10. \A r \in d.buf[x] : IsRow(r) /\ wal[r].tx = x /\ TableOf(r) \in known
  BY <1>1 DEF DecoderOK, HoldsRows, Buffered, RowsOf, IsRow
<1>11. ASSUME x \in streamed /\ wal[i].kind = "row" PROVE Marks /\ Handed /\ Part /\ Buf /\ Complete
  <2>1. /\ m.kind = "row" /\ m.at = i /\ part = {} /\ sent' = i /\ part' = {}
    BY <1>2, <1>6, <1>11 DEF i, x
  <2>2. Fields(dd, d.pending, d.cur, {}, d.committedLSN,
               IF TableOf(i) \in known THEN [d.buf EXCEPT ![x] = @ \cup {i}] ELSE d.buf)
    BY <1>9, <1>11, <2>1
  <2>3. i \in RowsOf(x)
    BY <1>1, <1>11 DEF RowsOf
  <2>4. d.buf \in [Txs -> SUBSET Lsns]
    BY <1>3 DEF Decoders
  <2>5. Marks
    BY <1>1, <1>7, <2>1, <2>2, <2>4 DEF Fields, Marks
  <2>6. Handed /\ Part
    BY <1>7, <2>1, <2>2 DEF Fields, Handed, Part
  <2>7. Buf
    <3>1. \A y \in Txs : dd.buf[y] = IF y = x /\ TableOf(i) \in known THEN d.buf[y] \cup {i} ELSE d.buf[y]
      BY <1>1, <2>2, <2>4 DEF Fields
    <3> QED
      BY <1>1, <2>1, <2>3, <3>1 DEF Buf
  <2>8. Complete
    BY <1>11 DEF IsCommit, Complete
  <2> QED
    BY <2>5, <2>6, <2>7, <2>8
<1>12. ASSUME x \in streamed /\ wal[i].kind = "commit" PROVE Marks /\ Handed /\ Part /\ Buf /\ Complete
  <2>1. /\ m.kind = "commit" /\ part = {} /\ sent' = i /\ part' = {}
    BY <1>2, <1>6, <1>12 DEF i, x
  <2>2. Fields(dd, d.pending, d.cur, d.buf[x], i, [d.buf EXCEPT ![x] = {}])
    BY <1>9, <1>12, <2>1
  <2>3. d.buf \in [Txs -> SUBSET Lsns]
    BY <1>3 DEF Decoders
  <2>4. Marks
    BY <1>1, <1>7, <2>1, <2>2, <2>3 DEF Fields, Marks
  <2>5. Handed
    BY <1>1, <1>4, <1>10, <1>12, <2>1, <2>2 DEF Fields, IsCommit, FinalOf, Handed
  <2>6. Part /\ Complete
    BY <1>7, <1>12, <2>1, <2>2 DEF Fields, Part, Complete
  <2>7. Buf
    <3>1. \A y \in Txs : dd.buf[y] = IF y = x THEN {} ELSE d.buf[y]
      BY <1>1, <2>2, <2>3 DEF Fields
    <3> QED
      BY <1>1, <1>12, <2>1, <3>1 DEF Buf
  <2> QED
    BY <2>4, <2>5, <2>6, <2>7
<1>13. ASSUME x \in streamed /\ wal[i].kind = "abort" PROVE Marks /\ Handed /\ Part /\ Buf /\ Complete
  <2>1. /\ m.kind = "abort" /\ part = {} /\ sent' = i /\ part' = {}
    BY <1>2, <1>6, <1>13 DEF i, x
  <2>2. Fields(dd, d.pending, d.cur, {}, d.committedLSN, [d.buf EXCEPT ![x] = {}])
    BY <1>9, <1>13, <2>1
  <2>3. d.buf \in [Txs -> SUBSET Lsns]
    BY <1>3 DEF Decoders
  <2>4. Marks
    BY <1>1, <1>7, <2>1, <2>2, <2>3 DEF Fields, Marks
  <2>5. Handed /\ Part
    BY <1>7, <2>1, <2>2 DEF Fields, Handed, Part
  <2>6. Buf
    <3>1. \A y \in Txs : dd.buf[y] = IF y = x THEN {} ELSE d.buf[y]
      BY <1>1, <2>2, <2>3 DEF Fields
    <3> QED
      BY <1>1, <1>13, <2>1, <3>1 DEF Buf
  <2>7. Complete
    BY <1>13 DEF IsCommit, Complete
  <2> QED
    BY <2>4, <2>5, <2>6, <2>7
<1>14. ASSUME x \notin streamed /\ m.kind = "begin" PROVE Marks /\ Handed /\ Part /\ Buf /\ Complete
  <2>1. part = {} /\ sent' = sent /\ part' = {0}
    BY <1>2, <1>14 DEF i, x
  <2>2. Fields(dd, {}, i, {}, d.committedLSN, d.buf)
    BY <1>9, <1>14
  <2>3. sent' # i
    BY <1>1, <1>3, <2>1
  <2>4. Marks /\ Handed /\ Part
    BY <1>14, <2>1, <2>2, <2>3 DEF Fields, Marks, Handed, Part
  <2>5. Buf /\ Complete
    BY <1>14, <2>1, <2>2, <2>3 DEF Fields, Buf, Complete
  <2> QED
    BY <2>4, <2>5
<1>15. ASSUME x \notin streamed /\ m.kind = "row" PROVE Marks /\ Handed /\ Part /\ Buf /\ Complete
  <2>1. part # {} /\ sent' = sent /\ part' = part \cup {m.at} /\ m.at \in RowsOf(x)
    BY <1>2, <1>15 DEF i, x
  <2>2. Fields(dd, IF TableOf(m.at) \in known THEN d.pending \cup {m.at} ELSE d.pending,
               d.cur, {}, d.committedLSN, d.buf)
    BY <1>9, <1>15
  <2>3. sent' # i
    BY <1>1, <1>3, <2>1
  <2>4. m.at \in Lsns /\ m.at # 0
    BY <1>3, <2>1 DEF RowsOf, Lsns
  <2>5. Part
    BY <1>3, <1>6, <1>15, <2>1, <2>2, <2>4 DEF Fields, Part
  <2>6. Marks /\ Handed /\ Buf /\ Complete
    BY <1>6, <1>15, <2>1, <2>2, <2>3 DEF Fields, Marks, Handed, Buf, Complete
  <2> QED
    BY <2>5, <2>6
<1>16. ASSUME x \notin streamed /\ m.kind = "commit" PROVE Marks /\ Handed /\ Part /\ Buf /\ Complete
  <2>1. part # {} /\ sent' = i /\ part' = {} /\ RowsOf(x) \subseteq part /\ wal[i].kind = "commit"
    BY <1>2, <1>16 DEF i, x
  <2>2. Fields(dd, {}, d.cur, d.pending, d.cur, d.buf) /\ d.cur = i
    BY <1>6, <1>9, <1>16, <2>1
  <2>3. \A r \in RowsOf(x) : IsRow(r) /\ wal[r].tx = x /\ r # 0
    BY <1>3 DEF RowsOf, IsRow, Lsns
  <2>4. d.pending = {r \in RowsOf(x) : TableOf(r) \in known}
    BY <1>6, <2>1, <2>3
  <2>5. Handed
    BY <1>1, <1>4, <2>1, <2>2, <2>3, <2>4 DEF Fields, IsCommit, FinalOf, Handed
  <2>6. Marks /\ Part /\ Buf /\ Complete
    BY <1>16, <2>1, <2>2, <2>4 DEF Fields, Marks, Part, Buf, Complete
  <2> QED
    BY <2>5, <2>6
<1>17. Marks /\ Handed /\ Part /\ Buf /\ Complete
  BY <1>2, <1>4, <1>11, <1>12, <1>13, <1>14, <1>15, <1>16
<1>18. \A q \in PendingLowWater(dd) :
          q \in Nat /\ 1 <= q /\ \E l \in PendingLowWater(d) \cup {i} : q <= l
  <2>1. \A q \in PendingLowWater(d) : 1 <= q
    BY DEF DecoderOK
  <2>2. /\ dd.pending # {} => dd.cur \in PendingLowWater(d) \cup {i}
        /\ dd.committed # {} => dd.committedLSN \in PendingLowWater(d) \cup {i}
        /\ \A y \in Txs : dd.buf[y] = d.buf[y] \/ dd.buf[y] = {} \/ i \in dd.buf[y]
    BY <1>17 DEF Marks, Handed
  <2>3. d \in Decoders /\ dd \in Decoders /\ i \in Nat /\ 1 <= i
    BY <1>1, <1>3, <1>9
  <2> QED
    BY <2>1, <2>2, <2>3, Marked
<1>19. PendingLowWater(d) \subseteq Nat /\ \A q \in PendingLowWater(d) : q <= head /\ Reached(wal, start, sent, q)
  BY <1>3, LowWaterNumbers DEF DecoderOK
<1>20. sent <= sent' /\ sent' < head' /\ i <= head'
  BY <1>1, <1>3, <1>5
<1>21. \A q \in PendingLowWater(dd) : q \in Nat /\ 1 <= q /\ q <= head' /\ Reached(wal, start, sent', q)
  <2> TAKE q \in PendingLowWater(dd)
  <2>1. PICK l \in PendingLowWater(d) \cup {i} : q <= l
    BY <1>18
  <2>2. l \in Nat /\ l <= head' /\ Reached(wal, start, sent, l)
    BY <1>1, <1>3, <1>5, <1>19, <1>20
  <2>3. q \in Nat /\ 1 <= q /\ q <= head'
    <3>1. q \in Nat /\ 1 <= q
      BY <1>18
    <3>2. head' \in Nat
      BY <1>5
    <3> QED
      BY <2>1, <2>2, <3>1, <3>2
  <2>4. Reached(wal, start, sent', q)
    BY <1>3, <1>5, <1>20, <2>1, <2>2, <2>3, ReachedDown
  <2> QED
    BY <2>3, <2>4
<1>22. Reached(wal, start, sent', m.at) /\ m.at <= head'
  <2>1. CASE sent' = i
    <3>1. Reached(wal, start, i, i + 1)
      <4>1. \A c \in Commits(wal) : c \in Nat
        BY DEF Commits, LogOK
      <4> QED
        BY <1>1, <1>3, <4>1 DEF Reached
    <3>2. i + 1 \in Nat /\ i <= i
      BY <1>1
    <3>3. Reached(wal, start, i, m.at)
      BY <1>1, <1>3, <3>1, <3>2, ReachedDown
    <3> QED
      BY <1>1, <1>5, <2>1, <3>3
  <2>2. CASE sent' # i
    <3>1. x \notin streamed /\ wal[i].kind = "commit" /\ m.at \in RowsOf(x)
      BY <1>2, <1>5, <2>2 DEF x, i
    <3>2. m.at < i
      BY <1>1, <3>1, EndsLast
    <3>3. sent' = sent /\ m.at <= i /\ sent <= sent
      BY <1>1, <1>3, <1>5, <2>2, <3>2
    <3>4. Reached(wal, start, sent, m.at)
      BY <1>1, <1>3, <3>3, ReachedDown
    <3> QED
      BY <1>1, <1>5, <3>3, <3>4
  <2> QED
    BY <2>1, <2>2
<1>23. Reached(wal, start, sent', d.pos)
  <2>1. Reached(wal, start, sent, d.pos) /\ d.pos <= d.pos
    BY <1>3 DEF DecoderOK
  <2> QED
    BY <1>3, <1>5, <1>20, <2>1, ReachedDown
<1>24. 1 <= dd.pos /\ dd.pos <= head' /\ Reached(wal, start, sent', dd.pos)
  <2>1. dd.pos \in {d.pos, m.at}
    BY <1>9 DEF Max2
  <2>2. d.pos <= head'
    BY <1>3, <1>5
  <2> QED
    BY <1>1, <1>3, <1>22, <1>23, <2>1, <2>2
<1>25. Settled(dd, start, sent', head')
  <2>1. dd.committedLSN <= sent'
    <3>1. d.committedLSN <= sent /\ d.committedLSN \in Nat
      BY <1>3 DEF DecoderOK, Decoders
    <3> QED
      BY <1>1, <1>3, <1>5, <1>17, <1>20, <3>1 DEF Handed
  <2> QED
    BY <2>1, <1>3, <1>5, <1>9, <1>17, <1>20, <1>21, <1>24 DEF Settled, Handed
<1>26. wal' = wal /\ final' = final /\ streamed' = streamed /\ start' = start /\ known' = known
  BY DEF logVars
<1>27. HoldsRows(dd)'
  <2>1. part' # {} => /\ Unsent' # {} /\ dd.cur = Min(Unsent') /\ wal[dd.cur].tx \notin streamed
                      /\ 0 \in part' /\ part' \ {0} \subseteq RowsOf(wal[dd.cur].tx)
                      /\ dd.pending = {r \in part' \ {0} : TableOf(r) \in known}
    <3> HAVE part' # {}
    <3>1. sent' = sent /\ dd.cur = i
      BY <1>17 DEF Part
    <3>2. Unsent' = Unsent
      BY <1>26, <3>1 DEF Unsent, Silent, Lsns
    <3> QED
      BY <1>1, <1>17, <3>1, <3>2 DEF Part, i
  <2>2. ASSUME NEW y \in Txs
        PROVE  /\ dd.buf[y] \subseteq Buffered(y)'
               /\ y \in streamed /\ ~Ended(y)' /\ ~(final[y] # 0 /\ final[y] < start)
                     => Buffered(y)' \subseteq dd.buf[y]
    <3>1. Buffered(y)' = {r \in RowsOf(y) : r <= sent' /\ TableOf(r) \in known}
      BY <1>26 DEF Buffered, RowsOf, TableOf, Lsns
    <3>2. Ended(y)' = \E k \in Lsns : k <= sent' /\ wal[k].tx = y /\ wal[k].kind # "row"
      BY <1>26 DEF Ended, Lsns
    <3>3. \A r \in RowsOf(y) : r \in Nat /\ r \in Lsns /\ wal[r].tx = y /\ wal[r].kind = "row"
      BY DEF RowsOf, Lsns, LogOK
    <3>4. \A r \in Buffered(y) : r \in Buffered(y)'
      <4>1. \A r \in RowsOf(y) : r <= sent => r <= sent'
        BY <1>3, <1>5, <1>20, <3>3
      <4> QED
        BY <3>1, <4>1 DEF Buffered
    <3>5. dd.buf[y] \subseteq Buffered(y)'
      <4>1. d.buf[y] \subseteq Buffered(y)
        BY DEF DecoderOK, HoldsRows
      <4>2. sent' = i /\ i \in RowsOf(x) /\ TableOf(i) \in known /\ y = x => i \in Buffered(y)'
        BY <1>1, <3>1
      <4> QED
        BY <1>17, <3>4, <4>1, <4>2 DEF Buf
    <3>6. ASSUME y \in streamed, ~Ended(y)', ~(final[y] # 0 /\ final[y] < start), NEW r \in Buffered(y)'
          PROVE  r \in dd.buf[y]
      <4>1. ~Ended(y)
        <5> SUFFICES ASSUME Ended(y) PROVE FALSE
          OBVIOUS
        <5>1. PICK k \in Lsns : k <= sent /\ wal[k].tx = y /\ wal[k].kind # "row"
          BY DEF Ended
        <5>2. k <= sent'
          BY <1>3, <1>5, <1>20, <5>1 DEF Lsns
        <5> QED
          BY <3>2, <3>6, <5>1, <5>2
      <4>2. Buffered(y) \subseteq d.buf[y]
        BY <3>6, <4>1 DEF DecoderOK, HoldsRows
      <4>3. d.buf[y] \subseteq dd.buf[y]
        <5>1. ~(y = x /\ sent' = i /\ wal[i].kind # "row")
          BY <1>1, <3>2, <3>6
        <5> QED
          BY <1>17, <5>1 DEF Buf
      <4>4. r \in RowsOf(y) /\ r <= sent' /\ TableOf(r) \in known /\ r \in Nat /\ r \in Lsns
        BY <3>1, <3>3, <3>6
      <4>5. CASE r <= sent
        BY <4>2, <4>3, <4>4, <4>5 DEF Buffered
      <4>6. CASE r > sent
        <5>1. sent' = i /\ r <= i
          BY <1>3, <1>5, <4>4, <4>6
        <5>2. ~(r < i)
          <6> SUFFICES ASSUME r < i PROVE FALSE
            OBVIOUS
          <6>1. Silent(r)
            BY <1>1, <1>3, <4>4, <4>6
          <6> QED
            BY <3>3, <3>6, <4>4, <6>1 DEF Silent
        <5>3. r = i /\ y = x
          BY <1>1, <3>3, <4>4, <5>1, <5>2
        <5> QED
          BY <1>17, <3>3, <4>4, <5>1, <5>3 DEF Buf
      <4> QED
        BY <1>3, <4>4, <4>5, <4>6
    <3> QED
      BY <3>5, <3>6
  <2>3. /\ wal[dd.cur]' = wal[dd.cur] /\ RowsOf(wal[dd.cur].tx)' = RowsOf(wal[dd.cur].tx)
        /\ \A r : TableOf(r)' = TableOf(r)
    BY <1>26 DEF RowsOf, Lsns, TableOf
  <2>4. part' = {} => dd.pending = {}
    BY <1>17 DEF Part
  <2> QED
    BY <1>26, <2>1, <2>2, <2>3, <2>4 DEF HoldsRows
<1>28. Completes(dd, sent')
  <2> SUFFICES ASSUME NEW t \in known, NEW r \in Older(wal, final, t, sent' + 1),
                      r \notin Older(wal, final, t, start), r \notin Older(wal, final, t, sent + 1)
               PROVE  r \in dd.committed
    BY DEF Completes
  <2>1. sent' + 1 \in Nat /\ sent + 1 \in Nat
    BY <1>3, <1>5
  <2>2. /\ IsRow(r) /\ TableOf(r) = t /\ IsCommit(FinalOf(r)) /\ FinalOf(r) < sent' + 1
        /\ wal[FinalOf(r)].tx = wal[r].tx /\ r \in Committed(t)
    BY <2>1, OlderRows
  <2>3. FinalOf(r) \in Nat /\ FinalOf(r) \in Commits(wal) /\ FinalOf(r) \in Lsns
    BY <2>2 DEF IsCommit, Lsns, Commits, LogOK
  <2>4. ~(FinalOf(r) < start) /\ ~(FinalOf(r) < sent + 1)
    BY <1>3, <2>1, <2>2, OlderRows
  <2>5. ~(FinalOf(r) < i)
    BY <1>1, <1>3, <2>3, <2>4 DEF Reached
  <2>6. sent' = i /\ FinalOf(r) = i
    <3> HIDE DEF i
    <3>1. sent' # sent
      BY <2>1, <2>2, <2>3, <2>4
    <3>2. sent' = i
      BY <1>5, <3>1
    <3> QED
      BY <1>1, <2>2, <2>3, <2>5, <3>2
  <2>7. r \in RowsOf(x) /\ IsCommit(i) /\ wal[i].kind = "commit" /\ wal[r].tx = x
    BY <1>1, <2>2, <2>6 DEF RowsOf, IsRow, IsCommit
  <2>8. CASE x \notin streamed
    BY <1>17, <2>2, <2>6, <2>7, <2>8 DEF Complete
  <2>9. CASE x \in streamed
    <3>1. final[x] = i /\ ~(final[x] # 0 /\ final[x] < start)
      BY <1>1, <1>4, <2>7, <2>9 DEF Silent
    <3>2. r \in Lsns /\ r \in Nat /\ r < i
      BY <1>1, <2>7, EndsLast
    <3>3. r <= sent
      BY <1>1, <2>7, <2>9, <3>1, <3>2 DEF Silent
    <3>4. ~Ended(x)
      <4> SUFFICES ASSUME Ended(x) PROVE FALSE
        OBVIOUS
      <4>1. PICK k \in Lsns : k <= sent /\ wal[k].tx = x /\ wal[k].kind # "row"
        BY DEF Ended
      <4>2. k \in Nat /\ k < i
        BY <1>1, <1>3, <4>1 DEF Lsns, LogOK
      <4> QED
        BY <1>1, <4>1, <4>2 DEF LogOK
    <3>5. r \in Buffered(x)
      BY <2>2, <2>7, <3>3 DEF Buffered
    <3>6. r \in d.buf[x]
      BY <1>1, <2>9, <3>1, <3>4, <3>5 DEF DecoderOK, HoldsRows
    <3> QED
      BY <1>17, <2>6, <2>7, <2>9, <3>6 DEF Complete
  <2> QED
    BY <2>8, <2>9
<1>29. part' \subseteq Lsns \cup {0}
  BY <1>17 DEF Part
<1> QED
  BY <1>5, <1>20, <1>25, <1>27, <1>28, <1>29

----------------------------------------------------------------------------
(* What a turn does, given what is known of the decoder it began with. *)

LEMMA Drained ==
    ASSUME NEW dd, NEW st, NEW sn, NEW hd, Settled(dd, st, sn, hd),
           NEW drained, NEW after, after = [dd EXCEPT !.committed = @ \ drained]
    PROVE  /\ Settled(after, st, sn, hd)
           /\ after.committed = dd.committed \ drained /\ after.pending = dd.pending
           /\ after.cur = dd.cur /\ after.buf = dd.buf
<1>1. dd \in Decoders
  BY DEF Settled
<1>2. /\ after.committed = dd.committed \ drained /\ after.pending = dd.pending
      /\ after.cur = dd.cur /\ after.buf = dd.buf
      /\ after.committedLSN = dd.committedLSN /\ after.pos = dd.pos
  BY <1>1 DEF Decoders
<1>3. after \in Decoders
  BY <1>1 DEF Decoders
<1>4. PendingLowWater(after) \subseteq PendingLowWater(dd)
  BY <1>2 DEF PendingLowWater
<1> QED
  BY <1>2, <1>3, <1>4 DEF Settled

(* The rows that are drained go to the accumulator, where no commit is     *)
(* newer than theirs.                                                      *)
LEMMA AddedFacts ==
    ASSUME LogOK, Shape, NEW dd, NEW st, NEW sn, NEW hd, Settled(dd, st, sn, hd),
           Gathered(wal, final, accum, sn), NEW drained \in SUBSET dd.committed
    PROVE  /\ Added(dd, drained) \in Accums /\ Gathered(wal, final, Added(dd, drained), sn)
           /\ \A t \in Tables :
                 Added(dd, drained)[t].rows
                     = accum[t].rows \cup {r \in Kept(dd, drained) : TableOf(r) = t}
<1> DEFINE acc == Added(dd, drained)
           new(t) == {r \in Kept(dd, drained) : TableOf(r) = t}
<1>1. dd \in Decoders /\ sn \in Nat /\ accum \in Accums /\ dd.committedLSN \in Nat
  BY DEF Settled, Shape, Decoders
<1>2. \A t \in Tables : \A r \in new(t) :
         /\ IsRow(r) /\ r \in Lsns /\ FinalOf(r) = sn /\ TableOf(r) = t
         /\ IsCommit(sn) /\ dd.committedLSN = sn
  BY DEF Settled, Kept, IsRow
<1>3. \A t \in Tables : acc[t] = Add(accum[t], new(t), dd.committedLSN)
  BY DEF Added
<1> HIDE DEF new
<1>4. \A t \in Tables : /\ acc[t].rows = accum[t].rows \cup new(t)
                        /\ acc[t].first = IF accum[t].rows = {} /\ new(t) # {}
                                          THEN dd.committedLSN ELSE accum[t].first
  <2> TAKE t \in Tables
  <2>1. acc[t] = [rows |-> accum[t].rows \cup new(t),
                  first |-> IF accum[t].rows = {} /\ new(t) # {}
                            THEN dd.committedLSN ELSE accum[t].first]
    BY <1>3 DEF Add
  <2> HIDE DEF acc
  <2> QED
    BY <2>1
<1>5. acc \in Accums
  <2>1. \A t \in Tables : Add(accum[t], new(t), dd.committedLSN) \in [rows : SUBSET Lsns, first : Nat]
    BY <1>1, <1>2 DEF Add, Accums
  <2>2. acc = [t \in Tables |-> Add(accum[t], new(t), dd.committedLSN)]
    BY DEF Added, new
  <2> QED
    BY <2>1, <2>2 DEF Accums
<1>6. ASSUME NEW t \in Tables
      PROVE  /\ acc[t].rows # {} => 1 <= acc[t].first /\ acc[t].first <= sn
             /\ acc[t].rows \subseteq Older(wal, final, t, sn + 1)
             /\ \A r \in acc[t].rows : acc[t].first <= final[wal[r].tx]
  <2>1. /\ accum[t].rows # {} => 1 <= accum[t].first /\ accum[t].first <= sn
        /\ accum[t].rows \subseteq Older(wal, final, t, sn + 1)
        /\ \A r \in accum[t].rows : accum[t].first <= final[wal[r].tx]
    BY DEF Gathered
  <2>2. new(t) # {} => 1 <= sn /\ dd.committedLSN = sn
    BY <1>2 DEF IsCommit, Lsns, LogOK
  <2>3. \A r \in new(t) : final[wal[r].tx] = sn
    BY <1>2 DEF FinalOf
  <2>4. ASSUME NEW r \in new(t) PROVE r \in Older(wal, final, t, sn + 1)
    <3>1. r \in Lsns /\ wal[r].kind = "row" /\ wal[r].table = t /\ final[wal[r].tx] = sn /\ 1 <= sn
      BY <1>2, <2>2 DEF IsRow, TableOf, FinalOf
    <3>2. sn # 0 /\ sn < sn + 1
      BY <1>1, <3>1
    <3> QED
      BY <3>1, <3>2 DEF Older, Lsns
  <2>5. accum[t].first \in Nat
    BY <1>1 DEF Accums
  <2>6. acc[t].rows # {} => 1 <= acc[t].first /\ acc[t].first <= sn
    BY <1>1, <1>4, <2>1, <2>2
  <2>7. \A r \in acc[t].rows : acc[t].first <= final[wal[r].tx]
    BY <1>1, <1>4, <2>1, <2>2, <2>3, <2>5
  <2> QED
    BY <1>4, <2>1, <2>4, <2>6, <2>7
<1>7. Gathered(wal, final, acc, sn)
  BY <1>6 DEF Gathered
<1> QED
  BY <1>4, <1>5, <1>7 DEF new

(* What is in the accumulator was committed no later than this, nor then. *)
LEMMA GatheredUp ==
    ASSUME LogOK, NEW acc \in Accums, NEW sn \in Nat, NEW tn \in Nat, sn <= tn,
           Gathered(wal, final, acc, sn)
    PROVE  Gathered(wal, final, acc, tn)
<1> SUFFICES ASSUME NEW t \in Tables
             PROVE  /\ acc[t].rows # {} => 1 <= acc[t].first /\ acc[t].first <= tn
                    /\ acc[t].rows \subseteq Older(wal, final, t, tn + 1)
                    /\ \A r \in acc[t].rows : acc[t].first <= final[wal[r].tx]
  BY DEF Gathered
<1>1. /\ acc[t].rows # {} => 1 <= acc[t].first /\ acc[t].first <= sn
      /\ acc[t].rows \subseteq Older(wal, final, t, sn + 1)
      /\ \A r \in acc[t].rows : acc[t].first <= final[wal[r].tx]
  BY DEF Gathered
<1>2. sn + 1 \in Nat /\ tn + 1 \in Nat /\ sn + 1 <= tn + 1
  OBVIOUS
<1>3. Older(wal, final, t, sn + 1) \subseteq Older(wal, final, t, tn + 1)
  BY <1>2, OlderRows
<1>4. acc[t].first \in Nat
  BY DEF Accums
<1> QED
  BY <1>1, <1>3, <1>4

Taken(dd, sn, hd, drained, ready, out) ==
    /\ drained \subseteq dd.committed /\ ready \subseteq Tables
    /\ ready # {} => Len(results) < Capacity
    /\ Settled(d', start, sn, hd)
    /\ d'.committed = dd.committed \ drained /\ d'.pending = dd.pending
    /\ d'.cur = dd.cur /\ d'.buf = dd.buf
    /\ Added(dd, drained) \in Accums /\ Gathered(wal, final, Added(dd, drained), sn)
    /\ \A t \in Tables : Added(dd, drained)[t].rows
                             = accum[t].rows \cup {r \in Kept(dd, drained) : TableOf(r) = t}
    /\ accum' = Emptied(Added(dd, drained), ready)
    /\ Emits(out, Added(dd, drained), d', ready, start, sn, hd)
    /\ results' = results \o out
    /\ touched' \subseteq Tables
    /\ processed' \in [Tables -> Nat] /\ boundary' \in [Tables -> BOOLEAN]
    /\ \A t \in Tables : \/ processed'[t] = processed[t]
                         \/ /\ d'.committed = {}
                            /\ processed'[t] = Max2(processed[t], dd.committedLSN)

(* What a turn leaves behind, of whatever decoder it starts from. *)
LEMMA TurnTaken ==
    ASSUME LogOK, Shape, AccumOK, NEW dd, NEW sn, NEW hd, sent <= sn,
           Settled(dd, start, sn, hd), Turn(dd)
    PROVE  \E drained, ready, out : Taken(dd, sn, hd, drained, ready, out)
<1>1. dd \in Decoders /\ (\A r \in dd.committed : IsRow(r)) /\ sn \in Nat
  BY DEF Settled
<1>2. PICK drained, ready, order : Turned(dd, drained, ready, order)
  BY <1>1, Turning
<1>3. PICK out : out = Emit(Added(dd, drained), d', order)
  OBVIOUS
<1>4. PICK after : after = d'
  OBVIOUS
<1>5. /\ Settled(after, start, sn, hd)
      /\ after.committed = dd.committed \ drained /\ after.pending = dd.pending
      /\ after.cur = dd.cur /\ after.buf = dd.buf
  <2>1. after = [dd EXCEPT !.committed = @ \ drained]
    BY <1>2, <1>4 DEF Turned
  <2> QED
    BY <2>1, Drained
<1>6. Gathered(wal, final, accum, sn)
  BY <1>1, GatheredUp DEF AccumOK, Shape
<1>7. drained \subseteq dd.committed
  BY <1>2 DEF Turned
<1>8. /\ Added(dd, drained) \in Accums /\ Gathered(wal, final, Added(dd, drained), sn)
      /\ \A t \in Tables : Added(dd, drained)[t].rows
                             = accum[t].rows \cup {r \in Kept(dd, drained) : TableOf(r) = t}
  BY <1>6, <1>7, AddedFacts
<1>9. ready \in SUBSET Tables /\ order \in SetToSeqs(ready)
  BY <1>2 DEF Turned
<1>10. out = Emit(Added(dd, drained), after, order)
  BY <1>3, <1>4
<1>11. Emits(out, Added(dd, drained), after, ready, start, sn, hd)
  BY <1>5, <1>8, <1>9, <1>10, Emitted
<1>12. Taken(dd, sn, hd, drained, ready, out)
  BY <1>2, <1>3, <1>4, <1>5, <1>8, <1>11 DEF Turned, Taken
<1> QED
  BY <1>12

----------------------------------------------------------------------------
(* Results that refer to nothing beyond a position hd, and rows of         *)
(* committed transactions.                                                 *)
Sound(r, hd) ==
    /\ r.token <= hd /\ r.at <= hd
    /\ \A x \in r.rows : IsRow(x) /\ FinalOf(x) # 0
Fine(ch, hd) == ch \in Seq(Results) /\ \A k \in 1..Len(ch) : Sound(ch[k], hd)

(* Two sound pieces of a channel are sound together. *)
LEMMA FineJoined ==
    ASSUME NEW hd, NEW ch, NEW more, Fine(ch, hd), Fine(more, hd)
    PROVE  Fine(ch \o more, hd)
<1>1. ch \in Seq(Results) /\ more \in Seq(Results)
  BY DEF Fine
<1>2. /\ ch \o more \in Seq(Results)
      /\ \A j \in 1..Len(ch) : (ch \o more)[j] = ch[j]
      /\ \A j \in 1..Len(more) : (ch \o more)[Len(ch) + j] = more[j]
      /\ \A k \in 1..Len(ch \o more) :
            k \in 1..Len(ch) \/ \E j \in 1..Len(more) : k = Len(ch) + j
  BY <1>1, Joined
<1>3. ASSUME NEW k \in 1..Len(ch \o more) PROVE Sound((ch \o more)[k], hd)
  <2>1. CASE k \in 1..Len(ch)
    BY <1>2, <2>1 DEF Fine
  <2>2. ASSUME NEW j \in 1..Len(more), k = Len(ch) + j PROVE Sound((ch \o more)[k], hd)
    BY <1>2, <2>2 DEF Fine
  <2> QED
    BY <1>2, <2>1, <2>2
<1> QED
  BY <1>2, <1>3 DEF Fine

(* A sound channel stays sound when the log is read further. *)
LEMMA FineUp ==
    ASSUME NEW hd \in Nat, NEW hn \in Nat, hd <= hn, NEW ch, Fine(ch, hd)
    PROVE  Fine(ch, hn)
<1> SUFFICES ASSUME NEW k \in 1..Len(ch) PROVE Sound(ch[k], hn)
  BY DEF Fine
<1>1. ch[k] \in Results /\ Sound(ch[k], hd)
  BY ElementOfSeq DEF Fine
<1>2. ch[k].token \in Nat /\ ch[k].at \in Nat
  BY <1>1 DEF Results
<1> QED
  BY <1>1, <1>2 DEF Sound

(* A bare token is sound, and so is an empty channel. *)
LEMMA FineOne ==
    ASSUME NEW hd \in Nat, NEW tok \in Nat, tok <= hd
    PROVE  /\ Fine(<<Result("none", {}, FALSE, tok, {}, 0)>>, hd)
           /\ Fine(<<>>, hd)
<1> DEFINE r == Result("none", {}, FALSE, tok, {}, 0)
<1>1. r.token = tok /\ r.at = 0 /\ r.rows = {} /\ r \in Results
  BY DEF Result, Results
<1> HIDE DEF r
<1>3. Sound(r, hd)
  BY <1>1 DEF Sound
<1>4. <<r>> \in Seq(Results) /\ Len(<<r>>) = 1 /\ <<r>>[1] = r
  BY <1>1
<1>5. Fine(<<r>>, hd)
  BY <1>3, <1>4 DEF Fine
<1>6. Fine(<<>>, hd)
  BY DEF Fine
<1> QED
  BY <1>5, <1>6 DEF r

(* What is emitted is sound. *)
LEMMA FineEmits ==
    ASSUME LogOK, NEW hd, NEW out, NEW acc, NEW dd, NEW S, NEW st, NEW sn,
           Emits(out, acc, dd, S, st, sn, hd), hd \in Nat
    PROVE  Fine(out, hd)
<1>1. \A k \in 1..Len(out) :
         /\ out[k].token <= hd /\ out[k].at <= hd
         /\ \A x \in out[k].rows : IsRow(x) /\ FinalOf(x) # 0
  BY DEF Emits
<1> QED
  BY <1>1 DEF Fine, Sound, Emits

(* The channel is sound. *)
LEMMA FineResults ==
    ASSUME Shape, Bounds, ResolvedOK
    PROVE  Fine(results, head)
<1>1. results \in Seq(Results) /\ DOMAIN results = 1..Len(results)
  BY DEF Shape
<1> QED
  BY <1>1 DEF Fine, Sound, Bounds, ResolvedOK

(* The results of a snapshot at s of tables ts: each table afresh, then a  *)
(* position for them all.                                                  *)
IsSnapshot(out, ts, s, tok) ==
    /\ out \in Seq(Results) /\ Len(out) \in Nat /\ Len(out) = Cardinality(ts) + 1
    /\ \A k \in 1..(Len(out) - 1) :
          /\ out[k].table \in ts /\ out[k].fresh /\ out[k].rows = Older(wal, final, out[k].table, s)
          /\ out[k].token = 0 /\ out[k].snaps = {} /\ out[k].at = 0
    /\ \A t \in ts : \E k \in 1..(Len(out) - 1) : out[k].table = t
    /\ \A j, k \in 1..(Len(out) - 1) : j # k => out[j].table # out[k].table
    /\ LET r == out[Len(out)]
       IN  /\ ~r.fresh /\ r.table = "none" /\ r.rows = {} /\ r.token = tok
           /\ r.snaps = ts /\ r.at = s

(* What a snapshot sends: each table once, its rows, then the position. *)
LEMMA SnapshotResults ==
    ASSUME NEW ts \in SUBSET Tables, ts # {}, NEW s \in Nat, NEW tok \in Nat
    PROVE  IsSnapshot(Snapshots(ts, s, tok), ts, s, tok)
<1> DEFINE order == SetToSeq(ts)
           n == Cardinality(ts)
           row(k) == Result(order[k], Older(wal, final, order[k], s), TRUE, 0, {}, 0)
           rest == [k \in 1..n |-> row(k)]
           last == Result("none", {}, FALSE, tok, ts, s)
<1>1. /\ n \in Nat /\ DOMAIN order = 1..n /\ \A k \in 1..n : order[k] \in ts
      /\ \A t \in ts : \E k \in 1..n : order[k] = t
      /\ \A j, k \in 1..n : j # k => order[j] # order[k]
  BY Listed, Ordered
<1>2. \A t : {r \in Lsns : /\ wal[r].kind = "row" /\ TableOf(r) = t
                           /\ FinalOf(r) # 0 /\ FinalOf(r) < s} = Older(wal, final, t, s)
  BY DEF Older, TableOf, FinalOf, Lsns
<1>3. Snapshots(ts, s, tok) = rest \o <<last>>
  BY <1>1, <1>2 DEF Snapshots
<1> HIDE DEF order, n
<1>4. \A k \in 1..n : row(k) \in Results
  BY <1>1 DEF Results, Result, Older, Lsns
<1>5. /\ last.table = "none" /\ last.rows = {} /\ ~last.fresh /\ last.token = tok
      /\ last.snaps = ts /\ last.at = s /\ last \in Results
  BY DEF Result, Results
<1>6. \A k \in 1..n : /\ row(k).table = order[k] /\ row(k).fresh
                      /\ row(k).rows = Older(wal, final, order[k], s)
                      /\ row(k).token = 0 /\ row(k).snaps = {} /\ row(k).at = 0
  BY DEF Result
<1> HIDE DEF row, last
<1>7. rest \in Seq(Results)
  BY <1>1, <1>4, IsASeq
<1>8. Len(rest) = n /\ \A k \in 1..n : rest[k] = row(k)
  BY <1>1
<1> HIDE DEF rest
<1>9. <<last>> \in Seq(Results) /\ Len(<<last>>) = 1 /\ <<last>>[1] = last
  BY <1>5
<1> DEFINE out == rest \o <<last>>
<1>10. /\ out \in Seq(Results) /\ Len(out) = n + 1
       /\ \A j \in 1..n : out[j] = rest[j]
       /\ \A j \in 1..1 : out[n + j] = <<last>>[j]
  BY <1>7, <1>8, <1>9, Joined
<1>11. out[n + 1] = last
  BY <1>9, <1>10
<1> HIDE DEF out
<1>12. Len(out) - 1 = n
  BY <1>1, <1>10
<1>13. \A k \in 1..n : /\ out[k].table = order[k] /\ out[k].fresh
                       /\ out[k].rows = Older(wal, final, order[k], s)
                       /\ out[k].token = 0 /\ out[k].snaps = {} /\ out[k].at = 0
  BY <1>6, <1>8, <1>10
<1>14. IsSnapshot(out, ts, s, tok)
  <2>1. \A k \in 1..(Len(out) - 1) :
          /\ out[k].table \in ts /\ out[k].fresh /\ out[k].rows = Older(wal, final, out[k].table, s)
          /\ out[k].token = 0 /\ out[k].snaps = {} /\ out[k].at = 0
    BY <1>1, <1>12, <1>13
  <2>2. /\ \A t \in ts : \E k \in 1..(Len(out) - 1) : out[k].table = t
        /\ \A j, k \in 1..(Len(out) - 1) : j # k => out[j].table # out[k].table
    BY <1>1, <1>12, <1>13
  <2>3. /\ out \in Seq(Results) /\ Len(out) \in Nat /\ Len(out) = Cardinality(ts) + 1
        /\ out[Len(out)] = last
    BY <1>1, <1>10, <1>11 DEF n
  <2> QED
    BY <1>5, <2>1, <2>2, <2>3 DEF IsSnapshot
<1> QED
  BY <1>3, <1>14 DEF out

(* What a snapshot sends is sound. *)
LEMMA FineSnapshot ==
    ASSUME LogOK, NEW ts \in SUBSET Tables, NEW s \in Nat, NEW tok \in Nat, NEW hd \in Nat,
           s <= hd, tok <= hd
    PROVE  Fine(Snapshots(ts, s, tok), hd)
<1>1. CASE ts = {}
  <2>1. Snapshots(ts, s, tok) = <<>>
    BY <1>1 DEF Snapshots
  <2> QED
    BY <2>1, FineOne
<1>2. CASE ts # {}
  <2> DEFINE out == Snapshots(ts, s, tok)
  <2>1. IsSnapshot(out, ts, s, tok)
    BY <1>2, SnapshotResults
  <2> HIDE DEF out
  <2>2. ASSUME NEW k \in 1..Len(out) PROVE Sound(out[k], hd)
    <3>1. CASE k = Len(out)
      BY <2>1, <3>1 DEF IsSnapshot, Sound
    <3>2. CASE k # Len(out)
      <4>1. k \in 1..(Len(out) - 1)
        BY <2>1, <3>2 DEF IsSnapshot
      <4>2. out[k].rows = Older(wal, final, out[k].table, s) /\ out[k].token = 0 /\ out[k].at = 0
        BY <2>1, <4>1 DEF IsSnapshot
      <4>3. \A x \in out[k].rows : IsRow(x) /\ FinalOf(x) # 0
        BY <4>2 DEF Older, IsRow, FinalOf, Lsns
      <4> QED
        BY <4>2, <4>3 DEF Sound
    <3> QED
      BY <3>1, <3>2
  <2> QED
    BY <2>1, <2>2 DEF Fine, IsSnapshot, out
<1> QED
  BY <1>1, <1>2

----------------------------------------------------------------------------
(* The reader's part of the invariant, action by action. *)

LEMMA FineNext ==
    ASSUME UNCHANGED logVars, Fine(results', head')
    PROVE  /\ (results \in Seq(Results))'
           /\ (\A k \in DOMAIN results : results[k].token <= head /\ results[k].at <= head)'
           /\ (\A k \in DOMAIN results : \A r \in results[k].rows : IsRow(r) /\ FinalOf(r) # 0)'
<1>1. wal' = wal /\ final' = final
  BY DEF logVars
<1>2. Results' = Results
  BY <1>1 DEF Results, Lsns
<1>3. results' \in Seq(Results) /\ \A k \in 1..Len(results') : Sound(results'[k], head')
  BY DEF Fine
<1>4. DOMAIN results' = 1..Len(results')
  BY <1>3
<1>5. \A r : IsRow(r)' = IsRow(r) /\ FinalOf(r)' = FinalOf(r)
  BY <1>1 DEF IsRow, FinalOf, Lsns
<1> QED
  BY <1>2, <1>3, <1>4, <1>5 DEF Sound

(* A step that leaves the reader alone keeps what holds of it. *)
LEMMA ReaderRests ==
    ASSUME DecoderOK, AccumOK, UNCHANGED <<logVars, readerVars>>, head <= head',
           head \in Nat, head' \in Nat, LogOK, d \in Decoders
    PROVE  DecoderOK' /\ AccumOK'
<1>1. /\ wal' = wal /\ final' = final /\ streamed' = streamed
      /\ start' = start /\ sent' = sent /\ part' = part /\ d' = d /\ known' = known /\ accum' = accum
  BY DEF logVars, readerVars
<1>2. AccumOK'
  BY <1>1 DEF AccumOK, Gathered
<1>3. HoldsRows(d)'
  <2>1. Unsent' = Unsent
    BY <1>1 DEF Unsent, Silent, Lsns
  <2>2. \A x : RowsOf(x)' = RowsOf(x) /\ Buffered(x)' = Buffered(x) /\ Ended(x)' = Ended(x)
    BY <1>1 DEF RowsOf, Buffered, Ended, TableOf, Lsns
  <2>3. \A r : TableOf(r)' = TableOf(r)
    BY <1>1 DEF TableOf
  <2>4. HoldsRows(d)
    BY DEF DecoderOK
  <2> QED
    BY <1>1, <2>1, <2>2, <2>3, <2>4 DEF HoldsRows
<1>4. \A r : IsRow(r)' = IsRow(r) /\ FinalOf(r)' = FinalOf(r) /\ TableOf(r)' = TableOf(r) /\ IsCommit(r)' = IsCommit(r)
  BY <1>1 DEF IsRow, IsCommit, FinalOf, TableOf, Lsns
<1>5. PendingLowWater(d) \subseteq Nat
  BY LowWaterNumbers
<1>6. PendingLowWater(d)' = PendingLowWater(d)
  BY <1>1 DEF PendingLowWater
<1>7. \A q \in PendingLowWater(d) : 1 <= q /\ q <= head'
  BY <1>5 DEF DecoderOK
<1>8. \A q \in PendingLowWater(d) \cup {d.pos} : Reached(wal', start', sent', q)
  BY <1>1 DEF DecoderOK
<1>9. /\ d.committedLSN <= sent /\ (d.committed # {} => IsCommit(sent) /\ d.committedLSN = sent)
      /\ \A r \in d.committed : IsRow(r) /\ FinalOf(r) = sent /\ TableOf(r) \in known
  BY DEF DecoderOK
<1> QED
  BY <1>1, <1>2, <1>3, <1>4, <1>6, <1>7, <1>8, <1>9 DEF DecoderOK

(* A reader that begins at s has nothing, and lacks nothing before s. *)
LEMMA ReaderBegins ==
    ASSUME LogOK, UNCHANGED logVars, NEW s \in Nat, StartReplication(s)
    PROVE  /\ DecoderOK' /\ AccumOK'
           /\ start' = s /\ sent' = 0 /\ part' = {} /\ touched' = {} /\ lastIdle' = 0
           /\ d'.pos = s /\ d'.committed = {} /\ accum' = NoRows
           /\ d' \in Decoders /\ accum' \in Accums
<1>1. /\ start' = s /\ sent' = 0 /\ part' = {} /\ touched' = {} /\ lastIdle' = 0
      /\ d' = NewDecoder(s) /\ accum' = NoRows
  BY DEF StartReplication
<1>2. wal' = wal /\ final' = final /\ streamed' = streamed
  BY DEF logVars
<1>3. /\ d'.pending = {} /\ d'.committed = {} /\ d'.committedLSN = 0 /\ d'.pos = s /\ d' \in Decoders
      /\ \A x \in Txs : d'.buf[x] = {}
  BY <1>1 DEF NewDecoder, Decoders
<1>4. PendingLowWater(d') = {}
  BY <1>3 DEF PendingLowWater
<1>5. accum' \in Accums /\ \A t \in Tables : accum'[t].rows = {}
  BY <1>1 DEF NoRows, Accums
<1>6. AccumOK'
  BY <1>5 DEF AccumOK, Gathered
<1>7. HoldsRows(d)'
  <2>1. \A x \in Txs : Buffered(x)' = {}
    <3>1. \A r \in Lsns' : ~(r <= 0)
      BY <1>2 DEF Lsns, LogOK
    <3> QED
      BY <1>1, <3>1 DEF Buffered, RowsOf
  <2> QED
    BY <1>1, <1>3, <2>1 DEF HoldsRows
<1>8. Reached(wal', start', sent', s)
  BY <1>1 DEF Reached
<1>9. DecoderOK'
  BY <1>1, <1>3, <1>4, <1>7, <1>8 DEF DecoderOK
<1> QED
  BY <1>1, <1>3, <1>5, <1>6, <1>9

(* A turn keeps the invariant. *)
LEMMA TurnInv ==
    ASSUME StreamInv, NEW dd, Settled(dd, start, sent', head'), HoldsRows(dd)',
           sent <= sent', head <= head', head' <= Len(wal) + 1, part' \subseteq Lsns \cup {0},
           Turn(dd),
           UNCHANGED <<logVars, slot, storeVars, up, start, known, lastIdle, pipeVars, crashes>>
    PROVE  StreamInv'
<1>1. LogOK /\ Shape /\ Bounds /\ DecoderOK /\ AccumOK /\ ResolvedOK
  BY DEF StreamInv
<1>2. PICK drained, ready, out : Taken(dd, sent', head', drained, ready, out)
  BY <1>1, TurnTaken
<1>3. sent' \in Nat /\ head' \in Nat /\ head \in Nat /\ sent' < head'
  BY <1>1 DEF Settled, Shape
<1>4. /\ wal' = wal /\ final' = final /\ streamed' = streamed /\ slot' = slot
      /\ checkpoint' = checkpoint /\ snapPos' = snapPos /\ knownComplete' = knownComplete
      /\ durable' = durable /\ up' = up /\ start' = start /\ known' = known /\ lastIdle' = lastIdle
      /\ pstep' = pstep /\ held' = held /\ token' = token /\ snaps' = snaps
      /\ confirmed' = confirmed /\ crashes' = crashes
  BY DEF logVars, storeVars, pipeVars
<1>5. LogOK'
  BY <1>1, LogStep
<1>6. Fine(results', head')
  <2>1. Fine(results, head')
    BY <1>1, <1>3, FineResults, FineUp
  <2>2. Fine(out, head')
    BY <1>1, <1>2, <1>3, FineEmits DEF Taken
  <2> QED
    BY <1>2, <2>1, <2>2, FineJoined DEF Taken
<1>7. Settled(d', start, sent', head')
  BY <1>2 DEF Taken
<1>8. DecoderOK'
  <2>1. HoldsRows(d)'
    <3>1. d'.pending = dd.pending /\ d'.cur = dd.cur /\ d'.buf = dd.buf
      BY <1>2 DEF Taken
    <3> QED
      BY <3>1 DEF HoldsRows
  <2>2. \A r : IsRow(r)' = IsRow(r) /\ FinalOf(r)' = FinalOf(r) /\ TableOf(r)' = TableOf(r)
    BY <1>4 DEF IsRow, FinalOf, TableOf, Lsns
  <2>3. IsCommit(sent)' = IsCommit(sent')
    BY <1>4 DEF IsCommit, Lsns
  <2>4. PendingLowWater(d)' = PendingLowWater(d')
    BY DEF PendingLowWater
  <2>5. /\ \A q \in PendingLowWater(d') : 1 <= q /\ q <= head'
        /\ \A q \in PendingLowWater(d') \cup {d'.pos} : Reached(wal', start', sent', q)
    BY <1>4, <1>7 DEF Settled
  <2>6. /\ d'.committedLSN <= sent' /\ (d'.committed # {} => IsCommit(sent') /\ d'.committedLSN = sent')
        /\ \A r \in d'.committed : IsRow(r) /\ FinalOf(r) = sent' /\ TableOf(r) \in known
    BY <1>7 DEF Settled
  <2> QED
    BY <1>4, <2>1, <2>2, <2>3, <2>4, <2>5, <2>6 DEF DecoderOK
<1>9. accum' \in Accums /\ Gathered(wal, final, accum', sent')
  <2>1. /\ Added(dd, drained) \in Accums /\ Gathered(wal, final, Added(dd, drained), sent')
        /\ accum' = Emptied(Added(dd, drained), ready)
    BY <1>2 DEF Taken
  <2>2. /\ accum' \in Accums
        /\ \A t \in Tables : accum'[t].rows = IF t \in ready THEN {} ELSE Added(dd, drained)[t].rows
        /\ \A t \in Tables : t \notin ready => accum'[t] = Added(dd, drained)[t]
    BY <2>1, EmptiedFacts
  <2> QED
    BY <2>1, <2>2 DEF Gathered
<1>10. AccumOK'
  BY <1>4, <1>9 DEF AccumOK
<1>11. Lsns' = Lsns
  BY <1>4 DEF Lsns
<1>12. Shape'
  <2>1. d' \in Decoders' /\ accum' \in Accums'
    BY <1>7, <1>9, <1>11 DEF Settled, Decoders, Accums
  <2>2. results' \in Seq(Results)'
    BY <1>6, FineNext
  <2>3. processed' \in [Tables -> Nat] /\ boundary' \in [Tables -> BOOLEAN] /\ touched' \subseteq Tables
    BY <1>2 DEF Taken
  <2> QED
    BY <1>1, <1>3, <1>4, <1>11, <2>1, <2>2, <2>3 DEF Shape
<1>13. Bounds'
  <2>1. \A k \in DOMAIN results' : results'[k].token <= head' /\ results'[k].at <= head'
    BY <1>6, FineNext
  <2>2. \A t \in Tables : processed'[t] <= head'
    <3>1. dd.committedLSN <= sent' /\ dd.committedLSN \in Nat
      BY DEF Settled, Decoders
    <3>2. \A t \in Tables : processed[t] <= head /\ processed[t] \in Nat
      BY <1>1 DEF Bounds, Shape
    <3>3. \A t \in Tables : processed'[t] = processed[t] \/ processed'[t] = Max2(processed[t], dd.committedLSN)
      BY <1>2 DEF Taken
    <3> QED
      BY <1>3, <3>1, <3>2, <3>3 DEF Max2
  <2>3. 1 <= d'.pos /\ d'.pos <= head'
    BY <1>7 DEF Settled
  <2>4. \A q \in {slot, start, checkpoint, token, confirmed, lastIdle} : q \in Nat /\ q <= head
    BY <1>1 DEF Bounds, Shape
  <2>5. \A t \in Tables : \A q \in {snapPos[t], knownComplete[t], snaps[t]} : q \in Nat /\ q <= head
    BY <1>1 DEF Bounds, Shape
  <2>6. ASSUME NEW q \in {slot, start, checkpoint, token, confirmed, lastIdle} PROVE q <= head'
    <3>1. q \in Nat /\ q <= head
      BY <2>4
    <3> QED
      BY <1>3, <3>1
  <2>7. \A t \in Tables : \A q \in {snapPos[t], knownComplete[t], snaps[t]} : q <= head'
    BY <1>3, <2>5
  <2>8. 1 <= slot /\ 1 <= start
    BY <1>1 DEF Bounds
  <2> QED
    BY <1>3, <1>4, <2>1, <2>2, <2>3, <2>6, <2>7, <2>8 DEF Bounds
<1>14. ResolvedOK'
  <2>1. \A r : IsRow(r)' = IsRow(r) /\ FinalOf(r)' = FinalOf(r)
    BY <1>4 DEF IsRow, FinalOf, Lsns
  <2>2. (\A k \in DOMAIN results : \A r \in results[k].rows : IsRow(r) /\ FinalOf(r) # 0)'
    BY <1>6, FineNext
  <2> QED
    BY <1>1, <1>4, <2>1, <2>2 DEF ResolvedOK
<1> QED
  BY <1>5, <1>8, <1>10, <1>12, <1>13, <1>14 DEF StreamInv

(* When nothing is left to decode, all that is accumulated is emitted, and *)
(* perhaps a bare position that covers all of it.                          *)
Idled(out, more) ==
    /\ Emits(out, accum, d, Filled(accum), start, sent, head)
    /\ results' = (results \o out) \o more
    /\ Len(results) < Capacity
    /\ \/ more = <<>>
       \/ \E q \in Nat : /\ q <= head /\ more = <<Result("none", {}, FALSE, q, {}, 0)>>
                         /\ \A t \in Tables : Covers(q, t, d, accum, start, sent, UNION {out[j].rows : j \in 1..Len(out)})

(* What the stream emits of its own accumulator. *)
LEMMA Gathering ==
    ASSUME StreamInv, NEW order \in SetToSeqs(Filled(accum)), NEW out, out = Emit(accum, d, order)
    PROVE  Emits(out, accum, d, Filled(accum), start, sent, head)
<1>1. LogOK /\ accum \in Accums /\ Gathered(wal, final, accum, sent) /\ Settled(d, start, sent, head)
  BY StreamSettled DEF StreamInv, Shape, AccumOK
<1>2. Filled(accum) \in SUBSET Tables
  BY DEF Filled
<1> QED
  BY <1>1, <1>2, Emitted

(* The position that is safe when nothing is accumulated. *)
LEMMA IdleSafe ==
    ASSUME StreamInv, NEW q, q = safeCommitLSN(d, NoRows)
    PROVE  /\ q \in Nat /\ q <= head /\ Reached(wal, start, sent, q)
           /\ \A t \in Tables : \A r \in Older(wal, final, t, q) :
                 /\ r \in Older(wal, final, t, start) \/ r \in Older(wal, final, t, sent + 1)
                 /\ r \notin d.committed
<1>1. LogOK /\ accum \in Accums /\ Gathered(wal, final, accum, sent) /\ Settled(d, start, sent, head)
  BY StreamSettled DEF StreamInv, Shape, AccumOK
<1>2. NoRows = Emptied(accum, Tables)
  BY DEF Emptied, NoRows
<1>3. /\ d \in Decoders /\ start \in Nat /\ sent \in Nat /\ head \in Nat /\ sent < head /\ d.pos <= head
      /\ \A l \in PendingLowWater(d) : l \in Nat /\ 1 <= l /\ l <= head
      /\ \A l \in PendingLowWater(d) \cup {d.pos} : Reached(wal, start, sent, l)
      /\ d.committed # {} => \A r \in d.committed : FinalOf(r) = d.committedLSN
  BY <1>1 DEF Settled
<1>4. q \in {safeCommitLSN(d, Emptied(accum, Tables))}
  BY <1>2
<1> QED
  BY <1>1, <1>3, <1>4, SafeCovers

(* What the reader sends when there is nothing to decode. *)
LEMMA IdleTaken ==
    ASSUME StreamInv, Idle
    PROVE  \E out, more : Idled(out, more)
<1> DEFINE full == Filled(accum)
           safe == safeCommitLSN(d, NoRows)
           bare == IF safe > lastIdle THEN <<Result("none", {}, FALSE, safe, {}, 0)>> ELSE <<>>
<1>1. PICK order \in SetToSeqs(full) : results' = results \o Emit(accum, d, order) \o bare
  BY DEF Idle
<1>2. PICK out : out = Emit(accum, d, order)
  OBVIOUS
<1>3. Emits(out, accum, d, full, start, sent, head)
  BY <1>2, Gathering
<1>4. /\ safe \in Nat /\ safe <= head
      /\ \A t \in Tables : \A r \in Older(wal, final, t, safe) :
            /\ r \in Older(wal, final, t, start) \/ r \in Older(wal, final, t, sent + 1)
            /\ r \notin d.committed
  BY IdleSafe
<1>5. ASSUME NEW t \in Tables
      PROVE  Covers(safe, t, d, accum, start, sent, UNION {out[j].rows : j \in 1..Len(out)})
  <2>1. ASSUME NEW r \in accum[t].rows PROVE r \in UNION {out[j].rows : j \in 1..Len(out)}
    <3>1. t \in full
      BY <2>1 DEF Filled
    <3>2. PICK k \in 1..Len(out) : out[k].rows = accum[t].rows
      BY <1>3, <3>1 DEF Emits
    <3> QED
      BY <3>2
  <2> HIDE DEF safe
  <2> QED
    BY <1>4, <2>1 DEF Covers
<1>6. Len(results) < Capacity
  BY DEF Idle, Room
<1>7. \/ bare = <<>>
      \/ \E q \in Nat : /\ q <= head /\ bare = <<Result("none", {}, FALSE, q, {}, 0)>>
                        /\ \A t \in Tables : Covers(q, t, d, accum, start, sent, UNION {out[j].rows : j \in 1..Len(out)})
  <2> HIDE DEF safe
  <2> QED
    BY <1>4, <1>5
<1> HIDE DEF bare, full
<1>8. results' = (results \o out) \o bare
  BY <1>1, <1>2
<1>9. Idled(out, bare)
  BY <1>3, <1>6, <1>7, <1>8 DEF Idled, full
<1> QED
  BY <1>9

(* Idle keeps the invariant. *)
LEMMA IdleInv == ASSUME StreamInv, Idle PROVE StreamInv'
<1>1. LogOK /\ Shape /\ Bounds /\ DecoderOK /\ AccumOK /\ ResolvedOK
  BY DEF StreamInv
<1>2. PICK out, more : Idled(out, more)
  BY IdleTaken
<1>3. /\ wal' = wal /\ final' = final /\ streamed' = streamed /\ slot' = slot /\ head' = head
      /\ checkpoint' = checkpoint /\ snapPos' = snapPos /\ knownComplete' = knownComplete
      /\ durable' = durable /\ up' = up /\ start' = start /\ sent' = sent /\ part' = part /\ d' = d
      /\ known' = known /\ processed' = processed /\ boundary' = boundary /\ touched' = touched
      /\ pstep' = pstep /\ held' = held /\ token' = token /\ snaps' = snaps
      /\ confirmed' = confirmed /\ crashes' = crashes
      /\ accum' = NoRows /\ lastIdle' = Max2(lastIdle, safeCommitLSN(d, NoRows))
      /\ UNCHANGED logVars
  BY DEF Idle, serverVars, logVars, storeVars, pipeVars
<1>4. LogOK'
  BY <1>1, <1>3, LogStep
<1>5. head \in Nat /\ lastIdle \in Nat /\ lastIdle <= head
  BY <1>1 DEF Shape, Bounds
<1>6. lastIdle' \in Nat /\ lastIdle' <= head
  <2>1. PICK q : q = safeCommitLSN(d, NoRows)
    OBVIOUS
  <2>2. q \in Nat /\ q <= head
    BY <2>1, IdleSafe
  <2> QED
    BY <1>3, <1>5, <2>1, <2>2 DEF Max2
<1>7. Fine(results', head')
  <2>1. Fine(results, head) /\ Fine(out, head)
    BY <1>1, <1>2, <1>5, FineResults, FineEmits DEF Idled
  <2>2. Fine(more, head)
    BY <1>2, <1>5, FineOne DEF Idled
  <2>3. Fine((results \o out) \o more, head)
    BY <2>1, <2>2, FineJoined
  <2> QED
    BY <1>2, <1>3, <2>3 DEF Idled
<1>8. accum' \in Accums /\ \A t \in Tables : accum'[t].rows = {}
  BY <1>3 DEF NoRows, Accums
<1>9. AccumOK'
  BY <1>8 DEF AccumOK, Gathered
<1>10. DecoderOK'
  <2>1. Unsent' = Unsent
    BY <1>3 DEF Unsent, Silent, Lsns
  <2>2. \A x : RowsOf(x)' = RowsOf(x) /\ Buffered(x)' = Buffered(x) /\ Ended(x)' = Ended(x)
    BY <1>3 DEF RowsOf, Buffered, Ended, TableOf, Lsns
  <2>3. \A r : /\ TableOf(r)' = TableOf(r) /\ IsRow(r)' = IsRow(r) /\ FinalOf(r)' = FinalOf(r)
               /\ IsCommit(r)' = IsCommit(r)
    BY <1>3 DEF TableOf, IsRow, IsCommit, FinalOf, Lsns
  <2>4. HoldsRows(d)'
    BY <1>1, <1>3, <2>1, <2>2, <2>3 DEF HoldsRows, DecoderOK
  <2>5. PendingLowWater(d)' = PendingLowWater(d)
    BY <1>3 DEF PendingLowWater
  <2> QED
    BY <1>1, <1>3, <2>3, <2>4, <2>5 DEF DecoderOK
<1>11. Lsns' = Lsns
  BY <1>3 DEF Lsns
<1>12. Shape'
  <2>1. d' \in Decoders' /\ accum' \in Accums'
    BY <1>1, <1>3, <1>8, <1>11 DEF Shape, Decoders, Accums
  <2>2. results' \in Seq(Results)'
    BY <1>3, <1>7, FineNext
  <2> QED
    BY <1>1, <1>3, <1>6, <1>11, <2>1, <2>2 DEF Shape
<1>13. Bounds'
  <2>1. \A k \in DOMAIN results' : results'[k].token <= head' /\ results'[k].at <= head'
    BY <1>3, <1>7, FineNext
  <2> QED
    BY <1>1, <1>3, <1>6, <2>1 DEF Bounds
<1>14. ResolvedOK'
  <2>1. \A r : IsRow(r)' = IsRow(r) /\ FinalOf(r)' = FinalOf(r)
    BY <1>3 DEF IsRow, FinalOf, Lsns
  <2>2. (\A k \in DOMAIN results : \A r \in results[k].rows : IsRow(r) /\ FinalOf(r) # 0)'
    BY <1>3, <1>7, FineNext
  <2> QED
    BY <1>1, <1>3, <2>1, <2>2 DEF ResolvedOK
<1> QED
  BY <1>4, <1>9, <1>10, <1>12, <1>13, <1>14 DEF StreamInv

(* A reader that begins again keeps the invariant, whatever else the step  *)
(* does that stays behind the end of the log.                              *)
LEMMA BeginsInv ==
    ASSUME StreamInv, UNCHANGED logVars, NEW s \in Nat, 1 <= s, s <= head', StartReplication(s),
           head' \in Nat, head <= head', head' <= Len(wal) + 1, Fine(results', head'),
           \A q \in {slot', checkpoint', token', confirmed'} : q \in Nat /\ q <= head',
           1 <= slot', crashes' \in Nat,
           {snapPos', knownComplete', snaps', processed'} \subseteq [Tables -> Nat],
           \A t \in Tables : \A q \in {snapPos'[t], knownComplete'[t], snaps'[t], processed'[t]} : q <= head',
           boundary' \in [Tables -> BOOLEAN], up' \in BOOLEAN, durable' = durable, held' \subseteq held,
           known' \subseteq Tables, pstep' \in {"run", "persist", "commit"}
    PROVE  StreamInv'
<1>1. LogOK /\ Shape /\ Bounds /\ ResolvedOK
  BY DEF StreamInv
<1>2. /\ DecoderOK' /\ AccumOK'
      /\ start' = s /\ sent' = 0 /\ part' = {} /\ touched' = {} /\ lastIdle' = 0
      /\ d'.pos = s /\ accum' = NoRows /\ d' \in Decoders /\ accum' \in Accums
  BY <1>1, ReaderBegins
<1>3. wal' = wal /\ final' = final /\ streamed' = streamed
  BY DEF logVars
<1>4. LogOK'
  BY <1>1, LogStep
<1>5. Lsns' = Lsns
  BY <1>3 DEF Lsns
<1>6. Shape'
  <2>1. d' \in Decoders' /\ accum' \in Accums'
    BY <1>2, <1>5 DEF Decoders, Accums
  <2>2. results' \in Seq(Results)'
    BY FineNext
  <2>3. durable' \subseteq Lsns /\ held' \subseteq Lsns
    BY <1>1 DEF Shape
  <2> QED
    BY <1>2, <1>5, <2>1, <2>2, <2>3 DEF Shape
<1>7. Bounds'
  <2>1. \A k \in DOMAIN results' : results'[k].token <= head' /\ results'[k].at <= head'
    BY FineNext
  <2>2. 0 < head' /\ 0 <= head'
    OBVIOUS
  <2> QED
    BY <1>2, <1>3, <2>1, <2>2 DEF Bounds
<1>8. ResolvedOK'
  <2>1. \A r : IsRow(r)' = IsRow(r) /\ FinalOf(r)' = FinalOf(r)
    BY <1>3 DEF IsRow, FinalOf, Lsns
  <2>2. (\A k \in DOMAIN results : \A r \in results[k].rows : IsRow(r) /\ FinalOf(r) # 0)'
    BY FineNext
  <2>3. \A r \in durable' \cup held' : IsRow(r) /\ FinalOf(r) # 0
    BY <1>1 DEF ResolvedOK
  <2> QED
    BY <2>1, <2>2, <2>3 DEF ResolvedOK
<1> QED
  BY <1>2, <1>4, <1>6, <1>7, <1>8 DEF StreamInv

(* The bounds, one by one. *)
LEMMA Within ==
    ASSUME StreamInv
    PROVE  /\ head \in Nat /\ Len(wal) \in Nat /\ 1 <= head /\ head <= Len(wal) + 1 /\ crashes \in Nat
           /\ sent \in Nat /\ sent < head
           /\ \A q \in {slot, start, d.pos, checkpoint, token, confirmed, lastIdle} : q \in Nat /\ q <= head
           /\ 1 <= slot /\ 1 <= start /\ 1 <= d.pos
           /\ {snapPos, knownComplete, snaps, processed} \subseteq [Tables -> Nat]
           /\ \A t \in Tables : \A q \in {snapPos[t], knownComplete[t], snaps[t], processed[t]} :
                 q \in Nat /\ q <= head
           /\ boundary \in [Tables -> BOOLEAN] /\ known \subseteq Tables /\ up \in BOOLEAN
           /\ pstep \in {"run", "persist", "commit"} /\ Fine(results, head)
<1>1. LogOK /\ Shape /\ Bounds /\ ResolvedOK
  BY DEF StreamInv
<1>2. d.pos \in Nat
  BY <1>1 DEF Shape, Decoders
<1>3. Fine(results, head)
  BY <1>1, FineResults
<1>4. head \in Nat /\ Len(wal) \in Nat /\ sent \in Nat /\ slot \in Nat
  BY <1>1 DEF Shape, LogOK
<1>5. 1 <= head
  BY <1>1, <1>4 DEF Bounds
<1> QED
  BY <1>1, <1>2, <1>3, <1>4, <1>5 DEF Shape, Bounds

(* Crash keeps the invariant. *)
LEMMA CrashInv == ASSUME StreamInv, Crash PROVE StreamInv'
<1>1. /\ UNCHANGED logVars /\ StartReplication(slot) /\ head' = head /\ slot' = slot
      /\ results' = <<>> /\ crashes' = crashes + 1 /\ up' = FALSE
      /\ pstep' = "run" /\ held' = {} /\ token' = 0 /\ snaps' = [t \in Tables |-> 0]
      /\ confirmed' = 0 /\ checkpoint' = checkpoint /\ snapPos' = snapPos
      /\ knownComplete' = knownComplete /\ durable' = durable
      /\ known' = known /\ processed' = processed /\ boundary' = boundary
  BY DEF Crash, serverVars, storeVars, logVars
<1>2. head \in Nat /\ 1 <= slot /\ slot \in Nat /\ slot <= head /\ head <= Len(wal) + 1 /\ crashes \in Nat
  BY Within
<1>3. Fine(results', head')
  BY <1>1, <1>2, FineOne
<1>4. \A q \in {slot', checkpoint', token', confirmed'} : q \in Nat /\ q <= head'
  BY <1>1, <1>2, Within
<1>5. /\ {snapPos', knownComplete', snaps', processed'} \subseteq [Tables -> Nat]
      /\ \A t \in Tables : \A q \in {snapPos'[t], knownComplete'[t], snaps'[t], processed'[t]} : q <= head'
  <2>1. \A t \in Tables : snaps'[t] = 0
    BY <1>1
  <2> QED
    BY <1>1, <1>2, <2>1, Within
<1>6. boundary' \in [Tables -> BOOLEAN] /\ known' \subseteq Tables
  BY <1>1, Within
<1>7. crashes' \in Nat /\ head <= head' /\ slot <= head'
  BY <1>1, <1>2
<1> QED
  BY <1>1, <1>2, <1>3, <1>4, <1>5, <1>6, <1>7, BeginsInv

(* A new slot begins no earlier than what was read. *)
LEMMA Pointed ==
    ASSUME StreamInv, NEW s \in Points
    PROVE  s \in Nat /\ 1 <= s /\ head <= s /\ s <= Len(wal) + 1
<1>1. head \in Nat /\ Len(wal) \in Nat /\ 1 <= head
  BY Within
<1> QED
  BY <1>1 DEF Points

(* Discover keeps the invariant. *)
LEMMA DiscoverInv == ASSUME StreamInv, Discover PROVE StreamInv'
<1> DEFINE full == Filled(accum)
           late == Tables \ known
<1>1. PICK s \in Points :
         /\ head' = s
         /\ \E order \in SetToSeqs(full) : results' = results \o Emit(accum, d, order) \o Snapshots(late, s, 0)
         /\ processed' = [t \in Tables |-> IF t \in late THEN s ELSE processed[t]]
         /\ boundary' = [t \in Tables |-> boundary[t] \/ t \in late]
  BY DEF Discover
<1>2. PICK order \in SetToSeqs(full) : results' = results \o Emit(accum, d, order) \o Snapshots(late, s, 0)
  BY <1>1
<1>3. PICK out : out = Emit(accum, d, order)
  OBVIOUS
<1>4. /\ known' = Tables /\ UNCHANGED logVars /\ StartReplication(slot) /\ slot' = slot /\ up' = up
      /\ crashes' = crashes /\ checkpoint' = checkpoint /\ snapPos' = snapPos
      /\ knownComplete' = knownComplete /\ durable' = durable
      /\ pstep' = pstep /\ held' = held /\ token' = token /\ snaps' = snaps /\ confirmed' = confirmed
  BY DEF Discover, storeVars, pipeVars
<1>5. s \in Nat /\ 1 <= s /\ head <= s /\ s <= Len(wal) + 1
  BY Pointed
<1>6. LogOK /\ head \in Nat /\ 1 <= slot /\ slot \in Nat /\ slot <= head /\ crashes \in Nat /\ up \in BOOLEAN
      /\ pstep \in {"run", "persist", "commit"} /\ Fine(results, head)
  BY Within DEF StreamInv
<1>7. Fine(results', head')
  <2>1. Fine(out, head)
    BY <1>3, <1>6, Gathering, FineEmits
  <2>2. Fine(results, s) /\ Fine(out, s)
    BY <1>5, <1>6, <2>1, FineUp
  <2>3. late \in SUBSET Tables /\ 0 \in Nat /\ 0 <= s /\ s <= s
    BY <1>5
  <2>4. Fine(Snapshots(late, s, 0), s)
    BY <1>5, <1>6, <2>3, FineSnapshot
  <2>5. Fine((results \o out) \o Snapshots(late, s, 0), s)
    BY <2>2, <2>4, FineJoined
  <2> QED
    BY <1>1, <1>2, <1>3, <2>5
<1>8. ASSUME NEW q \in {slot', checkpoint', token', confirmed'} PROVE q \in Nat /\ q <= head'
  <2>1. q \in Nat /\ q <= head
    BY <1>4, Within
  <2> QED
    BY <1>1, <1>5, <1>6, <2>1
<1>9. /\ {snapPos', knownComplete', snaps', processed'} \subseteq [Tables -> Nat]
      /\ \A t \in Tables : \A q \in {snapPos'[t], knownComplete'[t], snaps'[t], processed'[t]} : q <= head'
  <2>1. {snapPos, knownComplete, snaps, processed} \subseteq [Tables -> Nat]
    BY Within
  <2>2. processed' \in [Tables -> Nat]
    BY <1>1, <1>5, <2>1
  <2>3. ASSUME NEW t \in Tables, NEW q \in {snapPos'[t], knownComplete'[t], snaps'[t], processed'[t]}
        PROVE  q <= head'
    <3>1. q \in {snapPos[t], knownComplete[t], snaps[t], processed[t]} \/ q = s
      BY <1>1, <1>4
    <3>2. q = s \/ (q \in Nat /\ q <= head)
      BY <3>1, Within
    <3> QED
      BY <1>1, <1>5, <1>6, <3>2
  <2> QED
    BY <1>4, <2>1, <2>2, <2>3
<1>10. boundary' \in [Tables -> BOOLEAN] /\ known' \subseteq Tables
  <2>1. \A t \in Tables : (boundary[t] \/ t \in late) \in BOOLEAN
    OBVIOUS
  <2> QED
    BY <1>1, <1>4, <2>1
<1>11. slot <= head' /\ head <= head' /\ head' \in Nat /\ head' <= Len(wal) + 1
  BY <1>1, <1>5, <1>6
<1> QED
  BY <1>4, <1>6, <1>7, <1>8, <1>9, <1>10, <1>11, BeginsInv

(* A table resumes at a position that was read. *)
LEMMA Resuming ==
    ASSUME StreamInv
    PROVE  \A t \in Tables : ResumeLSN(t) \in Nat /\ ResumeLSN(t) <= head
<1> TAKE t \in Tables
<1>1. snapPos[t] \in Nat /\ snapPos[t] <= head /\ checkpoint \in Nat /\ checkpoint <= head
  BY Within
<1>2. head \in Nat
  BY Within
<1> QED
  BY <1>1, <1>2 DEF ResumeLSN, Max2

(* The stream resumes no earlier than the slot, and else at the smallest   *)
(* resume position.                                                        *)
ResumeStart == Max2(slot, Min({ResumeLSN(t) : t \in Resumable}))

(* Where the stream resumes, which the log has. *)
LEMMA ResumesAt ==
    ASSUME StreamInv, Resumable # {}
    PROVE  /\ ResumeStart \in Nat /\ 1 <= ResumeStart /\ ResumeStart <= head
           /\ \A t \in Resumable : ResumeStart = slot \/ ResumeStart <= ResumeLSN(t)
<1> DEFINE low == {ResumeLSN(t) : t \in Resumable}
<1>1. \A t \in Resumable : t \in Tables /\ ResumeLSN(t) \in Nat /\ ResumeLSN(t) <= head
  BY Resuming DEF Resumable
<1>2. low \in SUBSET Nat /\ low # {}
  BY <1>1
<1>3. Min(low) \in low /\ \A y \in low : Min(low) <= y
  BY <1>2, MinInSet
<1>4. Min(low) \in Nat /\ Min(low) <= head
  BY <1>1, <1>3
<1>5. slot \in Nat /\ slot <= head /\ 1 <= slot /\ head \in Nat
  BY Within
<1>6. \A t \in Resumable : Min(low) <= ResumeLSN(t)
  BY <1>3
<1>7. ResumeStart = Max2(slot, Min(low))
  BY DEF ResumeStart
<1> HIDE DEF low
<1> QED
  BY <1>4, <1>5, <1>6, <1>7 DEF Max2

(* Restart keeps the invariant. *)
LEMMA RestartInv == ASSUME StreamInv, Restart PROVE StreamInv'
<1> DEFINE late == known' \ Resumable
<1>1. PICK s \in Points :
         /\ head' = s /\ results' = Snapshots(late, s, 0)
         /\ processed' = [t \in Tables |-> IF t \in late THEN s ELSE ResumeLSN(t)]
         /\ boundary' = [t \in Tables |-> t \in late]
  BY DEF Restart
<1>2. /\ UNCHANGED logVars /\ StartReplication(ResumeStart) /\ slot' = slot /\ up' = TRUE
      /\ known' \in {known, Tables} /\ knownComplete' = snapPos /\ Resumable # {}
      /\ snapPos' = [t \in Tables |-> 0] /\ checkpoint' = 0 /\ durable' = durable
      /\ pstep' = pstep /\ held' = held /\ token' = token /\ snaps' = snaps
      /\ confirmed' = confirmed /\ crashes' = crashes
  BY DEF Restart, BeginRun, pipeVars, ResumeStart
<1>3. s \in Nat /\ 1 <= s /\ head <= s /\ s <= Len(wal) + 1
  BY Pointed
<1>4. LogOK /\ head \in Nat /\ 1 <= slot /\ slot \in Nat /\ slot <= head /\ crashes \in Nat
      /\ pstep \in {"run", "persist", "commit"} /\ known \subseteq Tables
  BY Within DEF StreamInv
<1>5. ResumeStart \in Nat /\ 1 <= ResumeStart /\ ResumeStart <= head
  BY <1>2, ResumesAt
<1>6. late \in SUBSET Tables /\ known' \subseteq Tables
  BY <1>2, <1>4
<1>7. Fine(results', head')
  <2>1. 0 \in Nat /\ 0 <= s /\ s <= s
    BY <1>3
  <2> HIDE DEF late
  <2>2. Fine(Snapshots(late, s, 0), s)
    BY <1>3, <1>4, <1>6, <2>1, FineSnapshot
  <2> QED
    BY <1>1, <2>2
<1>8. ASSUME NEW q \in {slot', checkpoint', token', confirmed'} PROVE q \in Nat /\ q <= head'
  <2>1. token \in Nat /\ token <= head /\ confirmed \in Nat /\ confirmed <= head
    BY Within
  <2>2. q \in Nat /\ q <= head
    BY <1>2, <1>4, <2>1
  <2> QED
    BY <1>1, <1>3, <1>4, <2>2
<1>9. /\ {snapPos', knownComplete', snaps', processed'} \subseteq [Tables -> Nat]
      /\ \A t \in Tables : \A q \in {snapPos'[t], knownComplete'[t], snaps'[t], processed'[t]} : q <= head'
  <2>1. {snapPos, snaps} \subseteq [Tables -> Nat]
    BY Within
  <2>2. \A t \in Tables : ResumeLSN(t) \in Nat /\ ResumeLSN(t) <= head
    BY Resuming
  <2> HIDE DEF late
  <2>3. processed' \in [Tables -> Nat] /\ \A t \in Tables : processed'[t] \in {s, ResumeLSN(t)}
    BY <1>1, <1>3, <2>2
  <2>4. ASSUME NEW t \in Tables, NEW q \in {snapPos'[t], knownComplete'[t], snaps'[t], processed'[t]}
        PROVE  q <= head'
    <3>1. snapPos[t] \in Nat /\ snapPos[t] <= head /\ snaps[t] \in Nat /\ snaps[t] <= head
      BY Within
    <3>2. q \in {0, s, snapPos[t], snaps[t], ResumeLSN(t)}
      BY <1>2, <2>3
    <3> QED
      BY <1>1, <1>3, <1>4, <2>2, <3>1, <3>2
  <2> QED
    BY <1>2, <2>1, <2>3, <2>4
<1>10. boundary' \in [Tables -> BOOLEAN]
  BY <1>1
<1>11. ResumeStart <= head' /\ head <= head' /\ head' \in Nat /\ head' <= Len(wal) + 1
  BY <1>1, <1>3, <1>4, <1>5
<1>12. up' \in BOOLEAN /\ crashes' \in Nat /\ 1 <= slot' /\ held' \subseteq held
       /\ pstep' \in {"run", "persist", "commit"}
  BY <1>2, <1>4
<1> QED
  BY <1>2, <1>5, <1>6, <1>7, <1>8, <1>9, <1>10, <1>11, <1>12, BeginsInv

(* Reinitialize keeps the invariant. *)
LEMMA ReinitializeInv == ASSUME StreamInv, Reinitialize PROVE StreamInv'
<1>1. PICK s \in Points :
         /\ head' = s /\ slot' = s /\ results' = Snapshots(known', s, s)
         /\ processed' = [t \in Tables |-> IF t \in known' THEN s ELSE 0]
         /\ boundary' = [t \in Tables |-> t \in known']
         /\ StartReplication(s)
  BY DEF Reinitialize
<1>2. /\ UNCHANGED logVars /\ up' = TRUE
      /\ known' \in {known, Tables} /\ knownComplete' = snapPos
      /\ snapPos' = [t \in Tables |-> 0] /\ checkpoint' = 0 /\ durable' = durable
      /\ pstep' = pstep /\ held' = held /\ token' = token /\ snaps' = snaps
      /\ confirmed' = confirmed /\ crashes' = crashes
  BY DEF Reinitialize, BeginRun, pipeVars
<1>3. s \in Nat /\ 1 <= s /\ head <= s /\ s <= Len(wal) + 1
  BY Pointed
<1>4. LogOK /\ head \in Nat /\ crashes \in Nat
      /\ pstep \in {"run", "persist", "commit"} /\ known \subseteq Tables
  BY Within DEF StreamInv
<1>5. known' \in SUBSET Tables
  BY <1>2, <1>4
<1>6. Fine(results', head')
  <2>1. s <= s
    BY <1>3
  <2>2. Fine(Snapshots(known', s, s), s)
    BY <1>3, <1>4, <1>5, <2>1, FineSnapshot
  <2> QED
    BY <1>1, <2>2
<1>7. ASSUME NEW q \in {slot', checkpoint', token', confirmed'} PROVE q \in Nat /\ q <= head'
  <2>1. token \in Nat /\ token <= head /\ confirmed \in Nat /\ confirmed <= head
    BY Within
  <2>2. q \in {s, 0, token, confirmed}
    BY <1>1, <1>2
  <2> QED
    BY <1>1, <1>3, <1>4, <2>1, <2>2
<1>8. /\ {snapPos', knownComplete', snaps', processed'} \subseteq [Tables -> Nat]
      /\ \A t \in Tables : \A q \in {snapPos'[t], knownComplete'[t], snaps'[t], processed'[t]} : q <= head'
  <2>1. {snapPos, snaps} \subseteq [Tables -> Nat]
    BY Within
  <2>2. processed' \in [Tables -> Nat] /\ \A t \in Tables : processed'[t] \in {s, 0}
    BY <1>1, <1>3
  <2>3. ASSUME NEW t \in Tables, NEW q \in {snapPos'[t], knownComplete'[t], snaps'[t], processed'[t]}
        PROVE  q <= head'
    <3>1. snapPos[t] \in Nat /\ snapPos[t] <= head /\ snaps[t] \in Nat /\ snaps[t] <= head
      BY Within
    <3>2. q \in {0, s, snapPos[t], snaps[t]}
      BY <1>2, <2>2
    <3> QED
      BY <1>1, <1>3, <1>4, <3>1, <3>2
  <2> QED
    BY <1>2, <2>1, <2>2, <2>3
<1>9. boundary' \in [Tables -> BOOLEAN]
  BY <1>1
<1>10. s <= head' /\ head <= head' /\ head' \in Nat /\ head' <= Len(wal) + 1
  BY <1>1, <1>3, <1>4
<1>11. up' \in BOOLEAN /\ crashes' \in Nat /\ 1 <= slot' /\ held' \subseteq held
       /\ pstep' \in {"run", "persist", "commit"}
  BY <1>1, <1>2, <1>3, <1>4
<1> QED
  BY <1>1, <1>2, <1>3, <1>5, <1>6, <1>7, <1>8, <1>9, <1>10, <1>11, BeginsInv

(* What leaves the reader alone and stays behind the end of the log keeps  *)
(* the invariant.                                                          *)
LEMMA PipeInv ==
    ASSUME StreamInv, UNCHANGED <<logVars, head, readerVars, crashes>>, Fine(results', head),
           \A q \in {slot', checkpoint', token', confirmed'} : q \in Nat /\ q <= head,
           1 <= slot',
           {snapPos', knownComplete', snaps'} \subseteq [Tables -> Nat],
           \A t \in Tables : \A q \in {snapPos'[t], knownComplete'[t], snaps'[t]} : q <= head,
           \A r \in durable' \cup held' : IsRow(r) /\ FinalOf(r) # 0,
           pstep' \in {"run", "persist", "commit"}
    PROVE  StreamInv'
<1>1. LogOK /\ Shape /\ Bounds /\ DecoderOK /\ AccumOK /\ ResolvedOK
  BY DEF StreamInv
<1>2. /\ wal' = wal /\ final' = final /\ streamed' = streamed /\ head' = head /\ crashes' = crashes
      /\ up' = up /\ start' = start /\ sent' = sent /\ part' = part /\ d' = d /\ known' = known
      /\ processed' = processed /\ boundary' = boundary /\ touched' = touched /\ accum' = accum
      /\ lastIdle' = lastIdle /\ UNCHANGED logVars /\ UNCHANGED readerVars
  BY DEF logVars, readerVars
<1>3. LogOK'
  BY <1>1, <1>2, LogStep
<1>4. head \in Nat /\ head' \in Nat /\ head <= head' /\ d \in Decoders
  BY <1>1, <1>2 DEF Shape
<1>5. DecoderOK' /\ AccumOK'
  BY <1>1, <1>2, <1>4, ReaderRests
<1>6. Lsns' = Lsns
  BY <1>2 DEF Lsns
<1>7. Fine(results', head')
  BY <1>2
<1>8. durable' \subseteq Lsns /\ held' \subseteq Lsns
  BY DEF IsRow
<1>9. Shape'
  <2>1. d' \in Decoders' /\ accum' \in Accums'
    BY <1>1, <1>2, <1>6 DEF Decoders, Accums, Shape
  <2>2. results' \in Seq(Results)'
    BY <1>2, <1>7, FineNext
  <2> QED
    BY <1>1, <1>2, <1>6, <1>8, <2>1, <2>2 DEF Shape
<1>10. Bounds'
  <2>1. \A k \in DOMAIN results' : results'[k].token <= head' /\ results'[k].at <= head'
    BY <1>2, <1>7, FineNext
  <2> QED
    BY <1>1, <1>2, <2>1 DEF Bounds
<1>11. ResolvedOK'
  <2>1. \A r : IsRow(r)' = IsRow(r) /\ FinalOf(r)' = FinalOf(r)
    BY <1>2 DEF IsRow, FinalOf, Lsns
  <2>2. (\A k \in DOMAIN results : \A r \in results[k].rows : IsRow(r) /\ FinalOf(r) # 0)'
    BY <1>2, <1>7, FineNext
  <2> QED
    BY <2>1, <2>2 DEF ResolvedOK
<1> QED
  BY <1>3, <1>5, <1>9, <1>10, <1>11 DEF StreamInv

(* The first result of the channel, and the rest. *)
LEMMA Shifted ==
    ASSUME NEW ch \in Seq(Results), ch # <<>>
    PROVE  /\ Head(ch) = ch[1] /\ Head(ch) \in Results /\ Tail(ch) \in Seq(Results)
           /\ Len(ch) \in Nat /\ 1 <= Len(ch) /\ Len(Tail(ch)) = Len(ch) - 1
           /\ \A k \in 1..Len(Tail(ch)) : Tail(ch)[k] = ch[k + 1] /\ k + 1 \in 1..Len(ch)
<1>1. /\ Head(ch) \in Results /\ Tail(ch) \in Seq(Results) /\ Len(Tail(ch)) = Len(ch) - 1
      /\ \A i \in 1..Len(Tail(ch)) : Tail(ch)[i] = ch[i + 1]
  BY HeadTailProperties
<1>2. Len(ch) \in Nat /\ Len(ch) # 0
  BY EmptySeq, LenProperties
<1>3. Head(ch) = ch[1]
  OBVIOUS
<1> QED
  BY <1>1, <1>2, <1>3

(* Buffer keeps the invariant. *)
LEMMA BufferInv == ASSUME StreamInv, Buffer PROVE StreamInv'
<1> DEFINE r == Head(results)
<1>1. /\ results # <<>> /\ results' = Tail(results)
      /\ durable' = IF r.fresh THEN {x \in durable : TableOf(x) # r.table} ELSE durable
      /\ held' = held \cup r.rows
      /\ token' = IF r.token # 0 THEN r.token ELSE token
      /\ snaps' = [t \in Tables |-> IF t \in r.snaps THEN r.at ELSE snaps[t]]
  BY DEF Buffer
<1>2. /\ UNCHANGED <<logVars, head, readerVars, crashes>> /\ slot' = slot
      /\ checkpoint' = checkpoint /\ snapPos' = snapPos /\ knownComplete' = knownComplete
      /\ pstep' = pstep /\ confirmed' = confirmed
  BY DEF Buffer, serverVars
<1>3. Fine(results, head) /\ results \in Seq(Results) /\ ResolvedOK
  BY Within DEF Fine, StreamInv
<1>4. /\ r \in Results /\ r = results[1] /\ Tail(results) \in Seq(Results) /\ 1 \in 1..Len(results)
      /\ \A k \in 1..Len(Tail(results)) : Tail(results)[k] = results[k + 1] /\ k + 1 \in 1..Len(results)
  BY <1>1, <1>3, Shifted
<1> HIDE DEF r
<1>5. Sound(r, head) /\ r.token \in Nat /\ r.at \in Nat
  BY <1>3, <1>4 DEF Fine, Results
<1>6. Fine(results', head)
  BY <1>1, <1>3, <1>4 DEF Fine
<1>7. \A q \in {slot', checkpoint', token', confirmed'} : q \in Nat /\ q <= head
  BY <1>1, <1>2, <1>5, Within DEF Sound
<1>8. 1 <= slot' /\ pstep' \in {"run", "persist", "commit"}
  BY <1>2, Within
<1>9. /\ {snapPos', knownComplete', snaps'} \subseteq [Tables -> Nat]
      /\ \A t \in Tables : \A q \in {snapPos'[t], knownComplete'[t], snaps'[t]} : q <= head
  <2>1. {snapPos, knownComplete, snaps} \subseteq [Tables -> Nat]
    BY Within
  <2>2. snaps' \in [Tables -> Nat] /\ \A t \in Tables : snaps'[t] \in {r.at, snaps[t]}
    BY <1>1, <1>5, <2>1
  <2>3. ASSUME NEW t \in Tables, NEW q \in {snapPos'[t], knownComplete'[t], snaps'[t]} PROVE q <= head
    <3>1. q \in {snapPos[t], knownComplete[t], snaps[t], r.at}
      BY <1>2, <2>2
    <3> QED
      BY <1>5, <3>1, Within DEF Sound
  <2> QED
    BY <1>2, <2>1, <2>2, <2>3
<1>10. \A x \in durable' \cup held' : IsRow(x) /\ FinalOf(x) # 0
  BY <1>1, <1>3, <1>5 DEF ResolvedOK, Sound
<1> QED
  BY <1>2, <1>6, <1>7, <1>8, <1>9, <1>10, PipeInv

(* Flush keeps the invariant. *)
LEMMA FlushInv == ASSUME StreamInv, Flush PROVE StreamInv'
<1>1. /\ durable' = durable \cup held /\ held' = {} /\ pstep' = "persist"
      /\ UNCHANGED <<logVars, head, readerVars, crashes>> /\ slot' = slot
      /\ checkpoint' = checkpoint /\ snapPos' = snapPos /\ knownComplete' = knownComplete
      /\ results' = results /\ token' = token /\ snaps' = snaps /\ confirmed' = confirmed
  BY DEF Flush, serverVars
<1>2. \A r \in durable' \cup held' : IsRow(r) /\ FinalOf(r) # 0
  BY <1>1 DEF StreamInv, ResolvedOK
<1> QED
  BY <1>1, <1>2, Within, PipeInv

(* Persist keeps the invariant. *)
LEMMA PersistInv == ASSUME StreamInv, Persist PROVE StreamInv'
<1> DEFINE pos(t) == CASE snaps[t] # 0 -> snaps[t]
                       [] snaps[t] = 0 /\ knownComplete[t] # 0 ->
                              IF token # 0 THEN token ELSE knownComplete[t]
                       [] OTHER -> 0
<1>1. /\ checkpoint' = Max2(checkpoint, token)
      /\ snapPos' = [t \in Tables |-> Max2(snapPos[t], pos(t))]
      /\ knownComplete' = [t \in Tables |-> 0] /\ snaps' = knownComplete' /\ pstep' = "commit"
      /\ UNCHANGED <<logVars, head, readerVars, crashes>> /\ slot' = slot /\ durable' = durable
      /\ results' = results /\ held' = held /\ token' = token /\ confirmed' = confirmed
  BY DEF Persist, serverVars
<1>2. \A r \in durable' \cup held' : IsRow(r) /\ FinalOf(r) # 0
  BY <1>1 DEF StreamInv, ResolvedOK
<1>3. \A q \in {slot, checkpoint, token, confirmed} : q \in Nat /\ q <= head
  BY Within
<1>4. \A q \in {slot', checkpoint', token', confirmed'} : q \in Nat /\ q <= head
  BY <1>1, <1>3 DEF Max2
<1>5. ASSUME NEW t \in Tables PROVE pos(t) \in Nat /\ pos(t) <= head /\ snapPos[t] \in Nat /\ snapPos[t] <= head
  <2>1. \A q \in {snapPos[t], knownComplete[t], snaps[t]} : q \in Nat /\ q <= head
    BY Within
  <2>2. head \in Nat
    BY Within
  <2> QED
    BY <1>3, <2>1, <2>2
<1> HIDE DEF pos
<1>6. snapPos' \in [Tables -> Nat] /\ \A t \in Tables : snapPos'[t] <= head
  BY <1>1, <1>5 DEF Max2
<1>7. /\ knownComplete' \in [Tables -> Nat] /\ snaps' \in [Tables -> Nat]
      /\ \A t \in Tables : knownComplete'[t] = 0 /\ snaps'[t] = 0
  BY <1>1
<1>8. Fine(results', head) /\ 1 <= slot' /\ head \in Nat /\ 0 <= head
  BY <1>1, Within
<1> QED
  BY <1>1, <1>2, <1>4, <1>6, <1>7, <1>8, PipeInv

(* CommitStream keeps the invariant. *)
LEMMA CommitStreamInv == ASSUME StreamInv, CommitStream PROVE StreamInv'
<1>1. /\ confirmed' = Max2(confirmed, token) /\ token' = 0 /\ pstep' = "run"
      /\ UNCHANGED <<logVars, head, readerVars, crashes>> /\ slot' = slot /\ durable' = durable
      /\ checkpoint' = checkpoint /\ snapPos' = snapPos /\ knownComplete' = knownComplete
      /\ results' = results /\ held' = held /\ snaps' = snaps
  BY DEF CommitStream, serverVars, storeVars
<1>2. \A r \in durable' \cup held' : IsRow(r) /\ FinalOf(r) # 0
  BY <1>1 DEF StreamInv, ResolvedOK
<1>3. \A q \in {slot, checkpoint, token, confirmed} : q \in Nat /\ q <= head
  BY Within
<1>4. \A q \in {slot', checkpoint', token', confirmed'} : q \in Nat /\ q <= head
  <2>1. head \in Nat
    BY Within
  <2>2. confirmed' \in {confirmed, token}
    BY <1>1 DEF Max2
  <2>3. token' \in Nat /\ token' <= head
    BY <1>1, <2>1
  <2> QED
    BY <1>1, <1>3, <2>2, <2>3
<1> QED
  BY <1>1, <1>2, <1>4, Within, PipeInv

(* SendStatus keeps the invariant. *)
LEMMA SendStatusInv == ASSUME StreamInv, SendStatus PROVE StreamInv'
<1>1. /\ slot' = Max2(slot, IF confirmed = 0 THEN start ELSE confirmed)
      /\ UNCHANGED <<logVars, head, readerVars, crashes>> /\ durable' = durable
      /\ checkpoint' = checkpoint /\ snapPos' = snapPos /\ knownComplete' = knownComplete
      /\ results' = results /\ held' = held /\ snaps' = snaps /\ token' = token
      /\ confirmed' = confirmed /\ pstep' = pstep
  BY DEF SendStatus, storeVars, pipeVars
<1>2. \A r \in durable' \cup held' : IsRow(r) /\ FinalOf(r) # 0
  BY <1>1 DEF StreamInv, ResolvedOK
<1>3. \A q \in {slot, start, checkpoint, token, confirmed} : q \in Nat /\ q <= head
  BY Within
<1>4. 1 <= slot
  BY Within
<1>5. (\A q \in {slot', checkpoint', token', confirmed'} : q \in Nat /\ q <= head) /\ 1 <= slot'
  BY <1>1, <1>3, <1>4 DEF Max2
<1> QED
  BY <1>1, <1>2, <1>5, Within, PipeInv

(* DrainCommitted keeps the invariant. *)
LEMMA DrainInv == ASSUME StreamInv, DrainCommitted PROVE StreamInv'
<1>1. /\ Turn(d) /\ UNCHANGED <<logVars, slot, storeVars, up, start, known, lastIdle, pipeVars, crashes>>
      /\ head' = head /\ sent' = sent /\ part' = part
  BY DEF DrainCommitted, serverVars
<1>2. PICK dd : dd = d
  OBVIOUS
<1>3. Settled(dd, start, sent', head')
  BY <1>1, <1>2, StreamSettled
<1>4. HoldsRows(dd)'
  <2>1. wal' = wal /\ final' = final /\ streamed' = streamed /\ start' = start /\ sent' = sent /\ known' = known /\ part' = part
    BY <1>1 DEF logVars
  <2>2. Unsent' = Unsent
    BY <2>1 DEF Unsent, Silent, Lsns
  <2>3. \A x : RowsOf(x)' = RowsOf(x) /\ Buffered(x)' = Buffered(x) /\ Ended(x)' = Ended(x)
    BY <2>1 DEF RowsOf, Buffered, Ended, TableOf, Lsns
  <2>4. \A r : TableOf(r)' = TableOf(r)
    BY <2>1 DEF TableOf
  <2>5. HoldsRows(dd)
    BY <1>2 DEF StreamInv, DecoderOK
  <2> QED
    BY <2>1, <2>2, <2>3, <2>4, <2>5 DEF HoldsRows
<1>5. sent <= sent' /\ head <= head' /\ head' <= Len(wal) + 1
  BY <1>1, Within
<1>6. part' \subseteq Lsns \cup {0} /\ Turn(dd)
  BY <1>1, <1>2 DEF StreamInv, Shape
<1> QED
  BY <1>1, <1>3, <1>4, <1>5, <1>6, TurnInv

(* The next message, and what the decoder makes of it. *)
LEMMA Receiving ==
    ASSUME StreamInv, NextMessage
    PROVE  \E dd : /\ Turn(dd) /\ Settled(dd, start, sent', head') /\ HoldsRows(dd)'
                   /\ Completes(dd, sent') /\ sent <= sent' /\ head <= head' /\ head' <= Len(wal) + 1
                   /\ part' \subseteq Lsns \cup {0}
<1>1. PICK m \in NextOfStream :
         LET inside == m.tx \notin streamed /\ m.kind # "commit"
         IN  /\ sent' = IF inside THEN sent ELSE m.lsn
             /\ part' = IF ~inside THEN {} ELSE IF m.kind = "begin" THEN {0} ELSE part \cup {m.at}
             /\ head' = Max2(head, m.lsn + 1)
             /\ Turn(Decode(m))
  BY DEF NextMessage
<1>2. PICK dd : dd = Decode(m)
  OBVIOUS
<1>3. /\ sent' = IF m.tx \notin streamed /\ m.kind # "commit" THEN sent ELSE m.lsn
      /\ part' = IF ~(m.tx \notin streamed /\ m.kind # "commit") THEN {}
                 ELSE IF m.kind = "begin" THEN {0} ELSE part \cup {m.at}
      /\ head' = Max2(head, m.lsn + 1)
      /\ Turn(dd)
  BY <1>1, <1>2
<1>4. d.committed = {} /\ UNCHANGED <<logVars, start, known>>
  BY DEF NextMessage
<1>5. LogOK /\ Shape /\ Bounds /\ DecoderOK
  BY DEF StreamInv
<1>6. /\ Settled(dd, start, sent', head') /\ HoldsRows(dd)' /\ Completes(dd, sent')
      /\ sent <= sent' /\ head <= head' /\ head' <= Len(wal) + 1
      /\ part' \subseteq Lsns \cup {0}
  BY <1>2, <1>3, <1>4, <1>5, Received
<1> QED
  BY <1>3, <1>6

(* NextMessage keeps the invariant. *)
LEMMA NextMessageInv == ASSUME StreamInv, NextMessage PROVE StreamInv'
<1>1. PICK dd : /\ Turn(dd) /\ Settled(dd, start, sent', head') /\ HoldsRows(dd)'
                /\ Completes(dd, sent') /\ sent <= sent' /\ head <= head' /\ head' <= Len(wal) + 1
                /\ part' \subseteq Lsns \cup {0}
  BY Receiving
<1>2. UNCHANGED <<logVars, slot, storeVars, up, start, known, lastIdle, pipeVars, crashes>>
  BY DEF NextMessage
<1> QED
  BY <1>1, <1>2, TurnInv

(* The initial states satisfy the invariant. *)
LEMMA InitInv == ASSUME Init PROVE StreamInv
<1>1. LogOK
  BY LogInit
<1>2. /\ slot = 1 /\ head = 1 /\ checkpoint = 0 /\ snapPos = [t \in Tables |-> 0]
      /\ knownComplete = snapPos /\ durable = {} /\ up = FALSE /\ start = 1 /\ sent = 0 /\ part = {}
      /\ d = NewDecoder(1) /\ known = Tables \ LateTables /\ processed = snapPos
      /\ boundary = [t \in Tables |-> FALSE] /\ touched = {} /\ accum = NoRows /\ lastIdle = 0
      /\ results = <<>> /\ pstep = "run" /\ held = {} /\ token = 0 /\ snaps = snapPos
      /\ confirmed = 0 /\ crashes = 0
  BY DEF Init
<1>3. /\ d.pending = {} /\ d.committed = {} /\ d.committedLSN = 0 /\ d.pos = 1 /\ d \in Decoders
      /\ \A x \in Txs : d.buf[x] = {}
  BY <1>2 DEF NewDecoder, Decoders
<1>4. PendingLowWater(d) = {}
  BY <1>3 DEF PendingLowWater
<1>5. accum \in Accums /\ \A t \in Tables : accum[t].rows = {}
  BY <1>2 DEF NoRows, Accums
<1>6. AccumOK
  BY <1>5 DEF AccumOK, Gathered
<1>7. HoldsRows(d)
  <2>1. \A x \in Txs : Buffered(x) = {}
    <3>1. \A r \in Lsns : ~(r <= 0)
      BY <1>1 DEF Lsns, LogOK
    <3> QED
      BY <1>2, <3>1 DEF Buffered, RowsOf
  <2> QED
    BY <1>2, <1>3, <2>1 DEF HoldsRows
<1>8. Reached(wal, 1, 0, 1)
  BY <1>1 DEF Reached, Commits, LogOK
<1>9. DecoderOK
  BY <1>2, <1>3, <1>4, <1>7, <1>8 DEF DecoderOK
<1>10. results \in Seq(Results) /\ DOMAIN results = {}
  BY <1>2
<1>11. \A t \in Tables : snapPos[t] = 0 /\ knownComplete[t] = 0 /\ processed[t] = 0 /\ snaps[t] = 0
  BY <1>2
<1>12. Shape
  <2>1. {snapPos, knownComplete, snaps, processed} \subseteq [Tables -> Nat]
    BY <1>2
  <2>2. boundary \in [Tables -> BOOLEAN]
    BY <1>2
  <2>3. d \in Decoders /\ accum \in Accums /\ results \in Seq(Results)
    BY <1>3, <1>5, <1>10
  <2> QED
    BY <1>2, <2>1, <2>2, <2>3 DEF Shape
<1>13. Bounds
  BY <1>1, <1>2, <1>3, <1>10, <1>11 DEF Bounds, LogOK
<1>14. ResolvedOK
  BY <1>2, <1>10 DEF ResolvedOK
<1> QED
  BY <1>1, <1>6, <1>9, <1>12, <1>13, <1>14 DEF StreamInv

(* A step that changes nothing keeps it. *)
LEMMA StutterInv == ASSUME StreamInv, UNCHANGED vars PROVE StreamInv'
<1>1. UNCHANGED <<logVars, head, readerVars, crashes>>
  BY DEF vars, serverVars
<1>2. /\ slot' = slot /\ checkpoint' = checkpoint /\ token' = token /\ confirmed' = confirmed
      /\ snapPos' = snapPos /\ knownComplete' = knownComplete /\ snaps' = snaps
      /\ durable' = durable /\ held' = held /\ pstep' = pstep /\ results' = results
  BY DEF vars, serverVars, storeVars, pipeVars
<1>3. \A r \in durable' \cup held' : IsRow(r) /\ FinalOf(r) # 0
  BY <1>2 DEF StreamInv, ResolvedOK
<1> QED
  BY <1>1, <1>2, <1>3, Within, PipeInv

(* The invariant of the stream, without what it covers. *)
THEOREM StreamHolds == Spec => []StreamInv
<1>1. Init => StreamInv
  BY InitInv
<1>2. StreamInv /\ [Next]_vars => StreamInv'
  <2> SUFFICES ASSUME StreamInv, [Next]_vars PROVE StreamInv'
    OBVIOUS
  <2>1. CASE DrainCommitted
    BY <2>1, DrainInv
  <2>2. CASE NextMessage
    BY <2>2, NextMessageInv
  <2>3. CASE Idle
    BY <2>3, IdleInv
  <2>4. CASE Discover
    BY <2>4, DiscoverInv
  <2>5. CASE Crash
    BY <2>5, CrashInv
  <2>6. CASE Restart
    BY <2>6, RestartInv
  <2>7. CASE Reinitialize
    BY <2>7, ReinitializeInv
  <2>8. CASE Buffer
    BY <2>8, BufferInv
  <2>9. CASE Flush
    BY <2>9, FlushInv
  <2>10. CASE Persist
    BY <2>10, PersistInv
  <2>11. CASE CommitStream
    BY <2>11, CommitStreamInv
  <2>12. CASE SendStatus
    BY <2>12, SendStatusInv
  <2>13. CASE UNCHANGED vars
    BY <2>13, StutterInv
  <2> QED
    BY <2>1, <2>2, <2>3, <2>4, <2>5, <2>6, <2>7, <2>8, <2>9, <2>10, <2>11, <2>12, <2>13
       DEF Next, Reader, Begin, Pipeline
<1> QED
  BY <1>1, <1>2, PTL DEF Spec

(* Theorem: a change of an aborted transaction never leaves the decoder,   *)
(* whatever the logs, the chunks and the crashes.                          *)
THEOREM AbortedNeverLeaves == Spec => []AbortedNeverEmitted
<1>1. StreamInv => AbortedNeverEmitted
  <2> SUFFICES ASSUME StreamInv, NEW r \in EmittedUpTo(Len(results)) PROVE FinalOf(r) # 0
    BY DEF AbortedNeverEmitted
  <2>1. DOMAIN results = 1..Len(results)
    BY DEF StreamInv, Shape
  <2>2. r \in durable \cup held \/ \E k \in DOMAIN results : r \in results[k].rows
    BY <2>1 DEF EmittedUpTo
  <2> QED
    BY <2>2 DEF StreamInv, ResolvedOK
<1> QED
  BY <1>1, StreamHolds, PTL

----------------------------------------------------------------------------
(* The rows are of tables in kn. *)
OfKnown(r, kn) == \A x \in r.rows : TableOf(x) \in kn

(* The channel: a step that sends finds fewer than Capacity results there, *)
(* and sends no more than one for each table and a position.               *)
ChannelOK ==
    /\ Filled(accum) \subseteq known
    /\ \A k \in 1..Len(results) : OfKnown(results[k], known)
    /\ Len(results) <= Capacity + Cardinality(Tables) + 1

(* The sizes of sets of tables, and of disjoint ones together. *)
LEMMA Sizes ==
    /\ Cardinality(Tables) \in Nat /\ Capacity \in Nat /\ 1 <= Capacity
    /\ \A S \in SUBSET Tables : Cardinality(S) \in Nat /\ Cardinality(S) <= Cardinality(Tables)
    /\ \A S, T \in SUBSET Tables :
          S \cap T = {} => Cardinality(S) + Cardinality(T) <= Cardinality(Tables)
<1>1. IsFiniteSet(Tables)
  BY PostgresAssumption
<1>2. Cardinality(Tables) \in Nat /\ Capacity \in Nat /\ 1 <= Capacity
  BY <1>1, FS_CardinalityType, PostgresAssumption
<1>3. ASSUME NEW S \in SUBSET Tables
      PROVE  IsFiniteSet(S) /\ Cardinality(S) \in Nat /\ Cardinality(S) <= Cardinality(Tables)
  BY <1>1, FS_Subset, FS_CardinalityType
<1>4. ASSUME NEW S \in SUBSET Tables, NEW T \in SUBSET Tables, S \cap T = {}
      PROVE  Cardinality(S) + Cardinality(T) <= Cardinality(Tables)
  <2>1. S \cup T \in SUBSET Tables /\ IsFiniteSet(S \cap T) /\ Cardinality(S \cap T) = 0
    BY <1>4, FS_EmptySet
  <2>2. Cardinality(S \cup T) = Cardinality(S) + Cardinality(T) - Cardinality(S \cap T)
    BY <1>3, FS_Union
  <2>3. Cardinality(S \cup T) = Cardinality(S) + Cardinality(T)
    BY <1>3, <2>1, <2>2
  <2>4. Cardinality(S \cup T) <= Cardinality(Tables)
    BY <1>3, <2>1
  <2> QED
    BY <2>3, <2>4
<1> QED
  BY <1>2, <1>3, <1>4

(* The length of two pieces of a channel. *)
LEMMA JoinedLength ==
    ASSUME NEW ch, NEW more, NEW hd, Fine(ch, hd), Fine(more, hd)
    PROVE  Len(ch) \in Nat /\ Len(more) \in Nat /\ Len(ch \o more) = Len(ch) + Len(more)
BY Joined DEF Fine

(* Two pieces that have rows of known tables only. *)
LEMMA JoinedKnown ==
    ASSUME NEW ch \in Seq(Results), NEW more \in Seq(Results), NEW kn,
           \A k \in 1..Len(ch) : OfKnown(ch[k], kn), \A k \in 1..Len(more) : OfKnown(more[k], kn)
    PROVE  \A k \in 1..Len(ch \o more) : OfKnown((ch \o more)[k], kn)
<1> SUFFICES ASSUME NEW k \in 1..Len(ch \o more) PROVE OfKnown((ch \o more)[k], kn)
  OBVIOUS
<1>1. CASE k \in 1..Len(ch)
  BY <1>1, Joined
<1>2. ASSUME NEW j \in 1..Len(more), k = Len(ch) + j PROVE OfKnown((ch \o more)[k], kn)
  BY <1>2, Joined
<1> QED
  BY <1>1, <1>2, Joined

(* Nothing changes of which tables rows are. *)
LEMMA KnownNext ==
    ASSUME wal' = wal, \A k \in 1..Len(results') : OfKnown(results'[k], known')
    PROVE  (\A k \in 1..Len(results) : OfKnown(results[k], known))'
BY DEF OfKnown, TableOf

(* Emitted are rows of the tables that are emitted. *)
LEMMA EmitsKnown ==
    ASSUME NEW out, NEW acc, NEW dd, NEW S, NEW st, NEW sn, NEW hd, Emits(out, acc, dd, S, st, sn, hd),
           NEW kn, \A t \in S : acc[t].rows # {} => t \in kn
    PROVE  \A k \in 1..Len(out) : OfKnown(out[k], kn)
<1> SUFFICES ASSUME NEW k \in 1..Len(out), NEW x \in out[k].rows PROVE TableOf(x) \in kn
  BY DEF OfKnown
<1>1. out[k].table \in S /\ out[k].rows = acc[out[k].table].rows /\ TableOf(x) = out[k].table
  BY DEF Emits
<1> QED
  BY <1>1

(* A turn of the reader keeps the channel. *)
LEMMA ChannelTurn ==
    ASSUME StreamInv, ChannelOK, NEW dd, Settled(dd, start, sent', head'), sent <= sent', head <= head',
           Turn(dd), known' = known, wal' = wal
    PROVE  ChannelOK'
<1>1. LogOK /\ Shape /\ Bounds /\ DecoderOK /\ AccumOK /\ ResolvedOK
  BY DEF StreamInv
<1>2. PICK drained, ready, out : Taken(dd, sent', head', drained, ready, out)
  BY <1>1, TurnTaken
<1>3. head' \in Nat /\ head \in Nat
  BY <1>1 DEF Settled, Shape
<1>4. Fine(results, head') /\ Fine(out, head')
  BY <1>1, <1>2, <1>3, FineResults, FineUp, FineEmits DEF Taken
<1>5. /\ Len(results) \in Nat /\ Len(out) \in Nat /\ Len(results') = Len(results) + Len(out)
      /\ Len(out) = Cardinality(ready) /\ ready \in SUBSET Tables
      /\ ready # {} => Len(results) < Capacity
  BY <1>2, <1>4, JoinedLength DEF Taken, Emits
<1>6. Len(results') <= Capacity + Cardinality(Tables) + 1
  <2>1. CASE ready = {}
    <3>1. Len(out) = 0
      BY <1>5, <2>1, FS_EmptySet
    <3> QED
      BY <1>5, <3>1 DEF ChannelOK
  <2>2. CASE ready # {}
    <3>1. Len(out) <= Cardinality(Tables) /\ Len(results) < Capacity
      BY <1>5, <2>2, Sizes
    <3> QED
      BY <1>5, <3>1, Sizes
  <2> QED
    BY <2>1, <2>2
<1>7. /\ accum' = Emptied(Added(dd, drained), ready) /\ Added(dd, drained) \in Accums
      /\ Emits(out, Added(dd, drained), d', ready, start, sent', head')
      /\ results' = results \o out
  BY <1>2 DEF Taken
<1>8. ASSUME NEW t \in Tables, Added(dd, drained)[t].rows # {} PROVE t \in known
  <2>1. Added(dd, drained)[t].rows = accum[t].rows \cup {r \in Kept(dd, drained) : TableOf(r) = t}
    BY <1>2 DEF Taken
  <2>2. \A r \in Kept(dd, drained) : TableOf(r) \in known
    BY <1>2 DEF Taken, Settled, Kept
  <2>3. accum[t].rows # {} => t \in known
    BY DEF ChannelOK, Filled
  <2> QED
    BY <1>8, <2>1, <2>2, <2>3
<1>9. \A t \in Filled(accum') : t \in known
  BY <1>7, <1>8, EmptiedFacts DEF Filled
<1>10. \A k \in 1..Len(out) : OfKnown(out[k], known)
  BY <1>5, <1>7, <1>8, EmitsKnown
<1>11. \A k \in 1..Len(results') : OfKnown(results'[k], known)
  <2>1. \A k \in 1..Len(results) : OfKnown(results[k], known)
    BY DEF ChannelOK
  <2>2. results \in Seq(Results) /\ out \in Seq(Results)
    BY <1>4 DEF Fine
  <2> QED
    BY <1>7, <1>10, <2>1, <2>2, JoinedKnown
<1> QED
  BY <1>6, <1>9, <1>11, KnownNext DEF ChannelOK, Filled

(* Idle keeps the channel. *)
LEMMA ChannelIdle ==
    ASSUME StreamInv, ChannelOK, Idle
    PROVE  ChannelOK'
<1>1. LogOK /\ Shape /\ Bounds /\ DecoderOK /\ AccumOK /\ ResolvedOK
  BY DEF StreamInv
<1>2. PICK out, more : Idled(out, more)
  BY IdleTaken
<1>3. head \in Nat
  BY <1>1 DEF Shape
<1>4. Fine(results, head) /\ Fine(out, head) /\ Fine(more, head)
  <2>1. Fine(results, head) /\ Fine(out, head)
    BY <1>1, <1>2, <1>3, FineResults, FineEmits DEF Idled
  <2>2. CASE more = <<>>
    <3>1. 0 \in Nat /\ 0 <= head
      BY <1>3
    <3>2. Fine(<<>>, head)
      BY <1>3, <3>1, FineOne
    <3> QED
      BY <2>1, <2>2, <3>2
  <2>3. CASE more # <<>>
    <3>1. PICK q \in Nat : q <= head /\ more = <<Result("none", {}, FALSE, q, {}, 0)>>
      BY <1>2, <2>3 DEF Idled
    <3>2. Fine(<<Result("none", {}, FALSE, q, {}, 0)>>, head)
      BY <1>3, <3>1, FineOne
    <3> QED
      BY <2>1, <3>1, <3>2
  <2> QED
    BY <2>2, <2>3
<1>5. Fine(results \o out, head)
  BY <1>4, FineJoined
<1>6. /\ Len(results) \in Nat /\ Len(out) \in Nat /\ Len(more) \in Nat
      /\ Len(results \o out) = Len(results) + Len(out)
      /\ Len((results \o out) \o more) = Len(results \o out) + Len(more)
  BY <1>4, <1>5, JoinedLength
<1>7. Len(more) <= 1
  <2>1. CASE more = <<>>
    BY <2>1
  <2>2. CASE more # <<>>
    <3>1. PICK q \in Nat : more = <<Result("none", {}, FALSE, q, {}, 0)>>
      BY <1>2, <2>2 DEF Idled
    <3>2. PICK r : r = Result("none", {}, FALSE, q, {}, 0)
      OBVIOUS
    <3>3. more = <<r>>
      BY <3>1, <3>2
    <3> QED
      BY <3>3
  <2> QED
    BY <2>1, <2>2
<1>8. Len(out) <= Cardinality(Tables)
  <2>1. Len(out) = Cardinality(Filled(accum)) /\ Filled(accum) \in SUBSET Tables
    BY <1>2 DEF Idled, Emits, Filled
  <2> QED
    BY <2>1, Sizes
<1>9. Len(results) < Capacity /\ results' = (results \o out) \o more
  BY <1>2 DEF Idled
<1>10. Len(results') <= Capacity + Cardinality(Tables) + 1
  BY <1>6, <1>7, <1>8, <1>9, Sizes
<1>11. Filled(accum') = {} /\ known' = known /\ wal' = wal
  BY DEF Idle, Filled, NoRows, serverVars, logVars
<1>12. \A k \in 1..Len(results') : OfKnown(results'[k], known)
  <2>1. \A k \in 1..Len(results) : OfKnown(results[k], known)
    BY DEF ChannelOK
  <2>2. \A k \in 1..Len(out) : OfKnown(out[k], known)
    <3>1. Emits(out, accum, d, Filled(accum), start, sent, head)
      BY <1>2 DEF Idled
    <3>2. \A t \in Filled(accum) : t \in known
      BY DEF ChannelOK
    <3> QED
      BY <3>1, <3>2, EmitsKnown
  <2>3. \A k \in 1..Len(more) : OfKnown(more[k], known)
    <3>1. CASE more = <<>>
      BY <3>1
    <3>2. CASE more # <<>>
      <4>1. PICK q \in Nat : more = <<Result("none", {}, FALSE, q, {}, 0)>>
        BY <1>2, <3>2 DEF Idled
      <4>2. PICK r : r = Result("none", {}, FALSE, q, {}, 0)
        OBVIOUS
      <4>3. more = <<r>> /\ r.rows = {}
        BY <4>1, <4>2 DEF Result
      <4> QED
        BY <4>3 DEF OfKnown
    <3> QED
      BY <3>1, <3>2
  <2>4. results \in Seq(Results) /\ out \in Seq(Results) /\ more \in Seq(Results) /\ results \o out \in Seq(Results)
    BY <1>4, <1>5 DEF Fine
  <2>5. \A k \in 1..Len(results \o out) : OfKnown((results \o out)[k], known)
    BY <2>1, <2>2, <2>4, JoinedKnown
  <2>6. \A k \in 1..Len((results \o out) \o more) : OfKnown(((results \o out) \o more)[k], known)
    BY <2>3, <2>4, <2>5, JoinedKnown
  <2> QED
    BY <1>9, <2>6
<1> QED
  BY <1>10, <1>11, <1>12, KnownNext DEF ChannelOK, Filled

(* A snapshot sends at most a result for each table, and one more. *)
LEMMA SnapshotLength ==
    ASSUME NEW ts \in SUBSET Tables, NEW s \in Nat, NEW tok \in Nat
    PROVE  /\ Len(Snapshots(ts, s, tok)) \in Nat
           /\ Len(Snapshots(ts, s, tok)) <= Cardinality(ts) + 1
<1>1. CASE ts = {}
  BY <1>1, Sizes DEF Snapshots
<1>2. CASE ts # {}
  BY <1>2, SnapshotResults, Sizes DEF IsSnapshot
<1> QED
  BY <1>1, <1>2

(* The rows of a snapshot are of its tables. *)
LEMMA SnapshotKnown ==
    ASSUME LogOK, NEW ts \in SUBSET Tables, NEW s \in Nat, NEW tok \in Nat, NEW kn, ts \subseteq kn
    PROVE  \A k \in 1..Len(Snapshots(ts, s, tok)) : OfKnown(Snapshots(ts, s, tok)[k], kn)
<1>1. PICK out : out = Snapshots(ts, s, tok)
  OBVIOUS
<1>2. CASE ts = {}
  <2>1. out = <<>>
    BY <1>1, <1>2 DEF Snapshots
  <2> QED
    BY <1>1, <2>1
<1>3. CASE ts # {}
  <2>1. IsSnapshot(out, ts, s, tok)
    BY <1>1, <1>3, SnapshotResults
  <2>2. ASSUME NEW k \in 1..Len(out), NEW x \in out[k].rows PROVE TableOf(x) \in kn
    <3>1. CASE k = Len(out)
      BY <2>1, <2>2, <3>1 DEF IsSnapshot
    <3>2. CASE k # Len(out)
      <4>1. k \in 1..(Len(out) - 1)
        BY <2>1, <3>2 DEF IsSnapshot
      <4>2. out[k].rows = Older(wal, final, out[k].table, s) /\ out[k].table \in ts
        BY <2>1, <4>1 DEF IsSnapshot
      <4>3. TableOf(x) = out[k].table
        BY <2>2, <4>2, OlderRows
      <4> QED
        BY <4>2, <4>3
    <3> QED
      BY <3>1, <3>2
  <2> QED
    BY <1>1, <2>2 DEF OfKnown
<1> QED
  BY <1>2, <1>3

(* Discover keeps the channel: the tables emitted and those snapshotted    *)
(* differ.                                                                 *)
LEMMA ChannelDiscover ==
    ASSUME StreamInv, ChannelOK, Discover
    PROVE  ChannelOK'
<1> DEFINE full == Filled(accum)
           late == Tables \ known
<1>1. PICK s \in Points : \E order \in SetToSeqs(full) :
            results' = results \o Emit(accum, d, order) \o Snapshots(late, s, 0)
  BY DEF Discover
<1>2. PICK order \in SetToSeqs(full) : results' = results \o Emit(accum, d, order) \o Snapshots(late, s, 0)
  BY <1>1
<1>3. PICK out : out = Emit(accum, d, order)
  OBVIOUS
<1>4. Len(results) < Capacity /\ accum' = NoRows
  BY DEF Discover, Room, StartReplication
<1>5. LogOK /\ head \in Nat /\ Fine(results, head) /\ s \in Nat /\ head <= s
  BY Within, Pointed DEF StreamInv
<1>6. Emits(out, accum, d, full, start, sent, head)
  BY <1>3, Gathering
<1>7. Fine(results, s) /\ Fine(out, s)
  BY <1>5, <1>6, FineEmits, FineUp
<1>8. late \in SUBSET Tables /\ full \in SUBSET Tables /\ full \cap late = {}
  BY DEF ChannelOK, Filled
<1>9. Len(out) = Cardinality(full)
  BY <1>6 DEF Emits
<1> HIDE DEF late, full
<1>10. Fine(Snapshots(late, s, 0), s)
  <2>1. 0 \in Nat /\ 0 <= s /\ s <= s
    BY <1>5
  <2> QED
    BY <1>5, <1>8, <2>1, FineSnapshot
<1>11. Fine(results \o out, s)
  BY <1>7, FineJoined
<1>12. PICK more : more = Snapshots(late, s, 0)
  OBVIOUS
<1>13. /\ Len(results) \in Nat /\ Len(out) \in Nat /\ Len(more) \in Nat
       /\ Len(results \o out) = Len(results) + Len(out)
       /\ Len((results \o out) \o more) = Len(results \o out) + Len(more)
  BY <1>7, <1>10, <1>11, <1>12, JoinedLength
<1>14. Len(more) <= Cardinality(late) + 1
  BY <1>5, <1>8, <1>12, SnapshotLength
<1>15. /\ Cardinality(full) + Cardinality(late) <= Cardinality(Tables)
       /\ Cardinality(full) \in Nat /\ Cardinality(late) \in Nat
  BY <1>8, Sizes
<1>16. results' = (results \o out) \o more
  BY <1>2, <1>3, <1>12
<1>17. Len(results') <= Capacity + Cardinality(Tables) + 1
  BY <1>4, <1>9, <1>13, <1>14, <1>15, <1>16, Sizes
<1>18. Filled(accum') = {} /\ known' = Tables /\ wal' = wal
  BY <1>4 DEF Discover, Filled, NoRows, logVars
<1>19. \A k \in 1..Len(results') : OfKnown(results'[k], Tables)
  <2>1. \A k \in 1..Len(results) : OfKnown(results[k], Tables)
    <3>1. known \subseteq Tables
      BY Within
    <3> QED
      BY <3>1 DEF ChannelOK, OfKnown
  <2>2. \A k \in 1..Len(out) : OfKnown(out[k], Tables)
    BY <1>6, <1>8, EmitsKnown
  <2>3. \A k \in 1..Len(more) : OfKnown(more[k], Tables)
    BY <1>5, <1>8, <1>12, SnapshotKnown
  <2>4. results \in Seq(Results) /\ out \in Seq(Results) /\ more \in Seq(Results) /\ results \o out \in Seq(Results)
    BY <1>7, <1>10, <1>11, <1>12 DEF Fine
  <2>5. \A k \in 1..Len(results \o out) : OfKnown((results \o out)[k], Tables)
    BY <2>1, <2>2, <2>4, JoinedKnown
  <2>6. \A k \in 1..Len((results \o out) \o more) : OfKnown(((results \o out) \o more)[k], Tables)
    BY <2>3, <2>4, <2>5, JoinedKnown
  <2> QED
    BY <1>16, <2>6
<1> QED
  BY <1>17, <1>18, <1>19, KnownNext DEF ChannelOK, Filled

(* A run begins with the snapshots alone. *)
LEMMA ChannelBegin ==
    ASSUME StreamInv, Begin
    PROVE  ChannelOK'
<1>1. known \subseteq Tables
  BY Within
<1>2. known' \in SUBSET Tables
  BY <1>1 DEF Begin, Restart, Reinitialize, BeginRun
<1>3. accum' = NoRows
  BY DEF Begin, Restart, Reinitialize, StartReplication
<1>4. PICK ts \in SUBSET known', s \in Points, tok \in {0} \cup Points : results' = Snapshots(ts, s, tok)
  <2>1. CASE Restart
    <3>1. PICK s \in Points : results' = Snapshots(known' \ Resumable, s, 0)
      BY <2>1 DEF Restart
    <3>2. known' \ Resumable \in SUBSET known'
      OBVIOUS
    <3> QED
      BY <3>1, <3>2
  <2>2. CASE Reinitialize
    <3>1. PICK s \in Points : results' = Snapshots(known', s, s)
      BY <2>2 DEF Reinitialize
    <3> QED
      BY <1>2, <3>1
  <2> QED
    BY <2>1, <2>2 DEF Begin
<1>5. s \in Nat /\ tok \in Nat /\ ts \in SUBSET Tables
  BY <1>2, <1>4, Pointed
<1>6. Len(results') \in Nat /\ Len(results') <= Cardinality(ts) + 1
  BY <1>4, <1>5, SnapshotLength
<1>7. Len(results') <= Capacity + Cardinality(Tables) + 1
  <2>1. Cardinality(ts) \in Nat /\ Cardinality(ts) <= Cardinality(Tables)
    BY <1>5, Sizes
  <2> QED
    BY <1>6, <2>1, Sizes
<1>8. Filled(accum') = {}
  BY <1>3 DEF Filled, NoRows
<1>9. \A k \in 1..Len(results') : OfKnown(results'[k], known')
  <2>1. LogOK
    BY DEF StreamInv
  <2> QED
    BY <1>4, <1>5, <2>1, SnapshotKnown
<1>10. wal' = wal
  BY DEF Begin, Restart, Reinitialize, BeginRun, logVars
<1> QED
  BY <1>7, <1>8, <1>9, <1>10, KnownNext DEF ChannelOK, Filled

(* The pipeline only takes from the channel. *)
LEMMA ChannelPipe ==
    ASSUME StreamInv, ChannelOK, wal' = wal, accum' = accum, known' = known, results' \in {results, Tail(results)},
           results' # results => results # <<>>
    PROVE  ChannelOK'
<1>1. results \in Seq(Results)
  BY DEF StreamInv, Shape
<1>2. Len(results) \in Nat /\ Len(results') <= Len(results) /\ Len(results') \in Nat
  <2>1. Len(results) \in Nat
    BY <1>1, LenProperties
  <2>2. CASE results' = results
    BY <2>1, <2>2
  <2>3. CASE results' # results
    <3>1. results # <<>> /\ results' = Tail(results)
      BY <2>3
    <3>2. Len(results') = Len(results) - 1 /\ 1 <= Len(results)
      BY <1>1, <3>1, Shifted
    <3> QED
      BY <2>1, <3>2
  <2> QED
    BY <2>2, <2>3
<1>3. Len(results') <= Capacity + Cardinality(Tables) + 1
  BY <1>2, Sizes DEF ChannelOK
<1>4. \A k \in 1..Len(results') : OfKnown(results'[k], known)
  <2>1. CASE results' = results
    BY <2>1 DEF ChannelOK
  <2>2. CASE results' # results
    <3>1. results # <<>> /\ results' = Tail(results)
      BY <2>2
    <3>2. \A k \in 1..Len(results') : results'[k] = results[k + 1] /\ k + 1 \in 1..Len(results)
      BY <1>1, <3>1, Shifted
    <3> QED
      BY <3>2 DEF ChannelOK
  <2> QED
    BY <2>1, <2>2
<1> QED
  BY <1>3, <1>4, KnownNext DEF ChannelOK, Filled

(* In every state the channel is as said. *)
LEMMA ChannelHolds == Spec => []ChannelOK
<1>1. Init => ChannelOK
  <2> SUFFICES ASSUME Init PROVE ChannelOK
    OBVIOUS
  <2>1. accum = NoRows /\ results = <<>>
    BY DEF Init
  <2>2. Filled(accum) = {} /\ Len(results) = 0
    BY <2>1 DEF Filled, NoRows
  <2>3. 1..Len(results) = {}
    BY <2>2
  <2> QED
    BY <2>2, <2>3, Sizes DEF ChannelOK
<1>2. StreamInv /\ ChannelOK /\ [Next]_vars => ChannelOK'
  <2> SUFFICES ASSUME StreamInv, ChannelOK, [Next]_vars PROVE ChannelOK'
    OBVIOUS
  <2>1. CASE DrainCommitted
    <3>1. Turn(d) /\ known' = known /\ sent' = sent /\ head' = head /\ wal' = wal
      BY <2>1 DEF DrainCommitted, serverVars, logVars
    <3>2. Settled(d, start, sent', head') /\ sent <= sent' /\ head <= head'
      BY <3>1, StreamSettled, Within
    <3> QED
      BY <3>1, <3>2, ChannelTurn
  <2>2. CASE NextMessage
    <3>1. PICK dd : Turn(dd) /\ Settled(dd, start, sent', head') /\ sent <= sent' /\ head <= head'
      BY <2>2, Receiving
    <3>2. known' = known /\ wal' = wal
      BY <2>2 DEF NextMessage, logVars
    <3> QED
      BY <3>1, <3>2, ChannelTurn
  <2>3. CASE Idle
    BY <2>3, ChannelIdle
  <2>4. CASE Discover
    BY <2>4, ChannelDiscover
  <2>5. CASE Crash
    <3>1. accum' = NoRows /\ results' = <<>>
      BY <2>5 DEF Crash, StartReplication
    <3>2. Filled(accum)' = {} /\ Len(results') = 0
      BY <3>1 DEF Filled, NoRows
    <3>3. 1..Len(results') = {}
      BY <3>2
    <3> QED
      BY <3>2, <3>3, Sizes DEF ChannelOK
  <2>6. CASE Begin
    BY <2>6, ChannelBegin
  <2>7. CASE Buffer
    <3>1. wal' = wal /\ accum' = accum /\ known' = known /\ results' = Tail(results) /\ results # <<>>
      BY <2>7 DEF Buffer, readerVars, serverVars, logVars
    <3> QED
      BY <3>1, ChannelPipe
  <2>8. CASE Flush \/ Persist \/ CommitStream \/ SendStatus \/ UNCHANGED vars
    <3>1. wal' = wal /\ accum' = accum /\ known' = known /\ results' = results
      BY <2>8 DEF Flush, Persist, CommitStream, SendStatus, vars, readerVars, serverVars, logVars
    <3> QED
      BY <3>1, ChannelPipe
  <2> QED
    BY <2>1, <2>2, <2>3, <2>4, <2>5, <2>6, <2>7, <2>8 DEF Next, Reader, Pipeline
<1> QED
  BY <1>1, <1>2, StreamHolds, PTL DEF Spec

(* Theorem: the types, no position beyond the end of the log, and a        *)
(* channel that never holds more than Capacity and what one step sends.    *)
THEOREM StreamTypes == Spec => []TypeOK
<1>1. StreamInv /\ ChannelOK => TypeOK
  <2> SUFFICES ASSUME StreamInv, ChannelOK PROVE TypeOK
    OBVIOUS
  <2>1. /\ head \in Nat /\ slot \in Nat /\ Len(wal) \in Nat /\ 1 <= head /\ 1 <= slot
        /\ slot <= head /\ head <= Len(wal) + 1 /\ sent \in Nat /\ sent < head
    BY Within
  <2>2. slot \in 1..(Len(wal) + 1) /\ head \in 1..(Len(wal) + 1) /\ sent \in 0..Len(wal)
    BY <2>1
  <2>3. Shape
    BY DEF StreamInv
  <2> QED
    BY <2>2, <2>3 DEF TypeOK, Shape, ChannelOK
<1> QED
  BY <1>1, StreamHolds, ChannelHolds, PTL

----------------------------------------------------------------------------
(* What the channel has of a table. *)

LEMMA InOut ==
    ASSUME NEW ch, NEW have, NEW t, NEW k, NEW x
    PROVE  x \in Out(ch, have, t, k) <=>
              \/ \E j \in 1..k : x \in ch[j].rows
              \/ x \in have /\ \A j \in 1..k : ~Cuts(ch[j], t)
<1>1. x \in UNION {ch[j].rows : j \in 1..k} <=> \E j \in 1..k : x \in ch[j].rows
  OBVIOUS
<1>2. x \in (IF \E j \in 1..k : Cuts(ch[j], t) THEN {} ELSE have)
         <=> x \in have /\ \A j \in 1..k : ~Cuts(ch[j], t)
  OBVIOUS
<1> QED
  BY <1>1, <1>2 DEF Out

(* What is put behind a channel, and nothing of it cuts the table off,     *)
(* adds its rows to what is there.                                         *)
Appends(ch, more, have, t) ==
    /\ \A k \in 0..Len(ch) : Out(ch \o more, have, t, k) = Out(ch, have, t, k)
    /\ \A k \in 0..Len(more) :
          Out(ch, have, t, Len(ch)) \cup (UNION {more[j].rows : j \in 1..k})
              \subseteq Out(ch \o more, have, t, Len(ch) + k)

(* Appending results that do not cut the table off keeps what is out. *)
LEMMA OutAppended ==
    ASSUME NEW ch \in Seq(Results), NEW more \in Seq(Results), NEW have, NEW t,
           \A k \in 1..Len(more) : ~Cuts(more[k], t)
    PROVE  Appends(ch, more, have, t)
<1>1. /\ Len(ch) \in Nat /\ Len(more) \in Nat /\ Len(ch \o more) = Len(ch) + Len(more)
      /\ \A j \in 1..Len(ch) : (ch \o more)[j] = ch[j]
      /\ \A j \in 1..Len(more) : (ch \o more)[Len(ch) + j] = more[j]
      /\ \A k \in 1..Len(ch \o more) : k \in 1..Len(ch) \/ \E j \in 1..Len(more) : k = Len(ch) + j
  BY Joined
<1> DEFINE both == ch \o more
           n == Len(ch)
           m == Len(more)
<1>2. /\ n \in Nat /\ m \in Nat /\ \A j \in 1..n : both[j] = ch[j]
      /\ \A j \in 1..m : both[n + j] = more[j]
      /\ \A k \in 1..(n + m) : k \in 1..n \/ \E j \in 1..m : k = n + j
  BY <1>1
<1>3. Len(ch) = n /\ Len(more) = m /\ ch \o more = both
  OBVIOUS
<1> HIDE DEF both, n, m
<1>4. ASSUME NEW k \in 0..n PROVE Out(both, have, t, k) = Out(ch, have, t, k)
  <2>1. \A j \in 1..k : j \in 1..n
    BY <1>2
  <2>2. \A j \in 1..k : both[j] = ch[j]
    BY <1>2, <2>1
  <2>3. {both[j].rows : j \in 1..k} = {ch[j].rows : j \in 1..k}
    BY <2>2
  <2>4. (\E j \in 1..k : Cuts(both[j], t)) <=> (\E j \in 1..k : Cuts(ch[j], t))
    BY <2>2
  <2> QED
    BY <2>3, <2>4 DEF Out
<1>5. ASSUME NEW k \in 0..m, NEW x \in Out(ch, have, t, n) \cup (UNION {more[j].rows : j \in 1..k})
      PROVE  x \in Out(both, have, t, n + k)
  <2>1. \A j \in 1..k : j \in 1..m /\ n + j \in 1..(n + k) /\ both[n + j] = more[j]
    <3> TAKE j \in 1..k
    <3>1. k \in Nat /\ k <= m /\ n \in Nat
      BY <1>2
    <3>2. j \in 1..m /\ n + j \in 1..(n + k)
      BY <1>2, <3>1
    <3> QED
      BY <1>2, <3>2
  <2>2. \A j \in 1..n : j \in 1..(n + k) /\ both[j] = ch[j]
    BY <1>2
  <2>3. \A j \in 1..(n + k) : Cuts(both[j], t) => j \in 1..n /\ Cuts(ch[j], t)
    <3> TAKE j \in 1..(n + k)
    <3> HAVE Cuts(both[j], t)
    <3>1. j \in 1..(n + m)
      BY <1>2
    <3>2. ~\E i \in 1..m : j = n + i
      BY <1>2, <1>3
    <3> QED
      BY <1>2, <2>2, <3>1, <3>2
  <2>4. CASE \E j \in 1..n : x \in ch[j].rows
    BY <2>2, <2>4, InOut
  <2>5. CASE \E j \in 1..k : x \in more[j].rows
    BY <2>1, <2>5, InOut
  <2>6. CASE x \in have /\ ~\E j \in 1..n : Cuts(ch[j], t)
    BY <2>3, <2>6, InOut
  <2> QED
    BY <1>5, <2>4, <2>5, <2>6, InOut
<1> QED
  BY <1>3, <1>4, <1>5 DEF Appends

(* What a channel has is in no less of it, unless it is cut off after.     *)
LEMMA OutGrows ==
    ASSUME NEW ch, NEW have, NEW t, NEW k \in Nat, NEW n \in Nat, k <= n,
           \A j \in (k + 1)..n : ~Cuts(ch[j], t)
    PROVE  Out(ch, have, t, k) \subseteq Out(ch, have, t, n)
<1>1. \A j \in 1..k : j \in 1..n
  OBVIOUS
<1>2. \A j \in 1..n : j \in 1..k \/ j \in (k + 1)..n
  OBVIOUS
<1>3. (\E j \in 1..n : Cuts(ch[j], t)) => \E j \in 1..k : Cuts(ch[j], t)
  BY <1>2
<1> QED
  BY <1>1, <1>3 DEF Out

(* When the first result has been taken out of the channel by someone who  *)
(* now has all that is not cut off, the rest has what there was.           *)
LEMMA OutShifted ==
    ASSUME NEW ch \in Seq(Results), ch # <<>>, NEW have, NEW then, NEW t,
           \A k \in 1..Len(ch) : Cuts(ch[k], t) => \A j \in 1..(k - 1) : Untouched(ch[j], t),
           ch[1].rows \subseteq then,
           Cuts(ch[1], t) \/ \A x \in have : TableOf(x) = t => x \in then,
           NEW k \in Nat, k + 1 <= Len(ch), NEW x \in Out(ch, have, t, k + 1), TableOf(x) = t
    PROVE  x \in Out(Tail(ch), then, t, k)
<1>1. /\ Len(ch) \in Nat /\ 1 <= Len(ch) /\ Len(Tail(ch)) = Len(ch) - 1
      /\ \A i \in 1..Len(Tail(ch)) : Tail(ch)[i] = ch[i + 1] /\ i + 1 \in 1..Len(ch)
  BY Shifted
<1>2. \A i \in 1..k : i \in 1..Len(Tail(ch)) /\ i + 1 \in 1..(k + 1) /\ Tail(ch)[i] = ch[i + 1]
  BY <1>1
<1>3. CASE \E j \in 1..(k + 1) : j # 1 /\ x \in ch[j].rows
  <2>1. PICK j \in 1..(k + 1) : j # 1 /\ x \in ch[j].rows
    BY <1>3
  <2>2. j - 1 \in 1..k /\ (j - 1) + 1 = j
    BY <2>1
  <2>3. x \in Tail(ch)[j - 1].rows
    BY <1>2, <2>1, <2>2
  <2> QED
    BY <2>2, <2>3, InOut
<1>4. CASE x \in ch[1].rows
  <2>1. \A i \in 1..k : ~Cuts(Tail(ch)[i], t)
    <3> SUFFICES ASSUME NEW i \in 1..k, Cuts(Tail(ch)[i], t) PROVE FALSE
      OBVIOUS
    <3>1. i + 1 \in 1..Len(ch) /\ Cuts(ch[i + 1], t) /\ 1 \in 1..((i + 1) - 1)
      BY <1>1, <1>2
    <3>2. Untouched(ch[1], t)
      BY <3>1
    <3> QED
      BY <1>4, <3>2 DEF Untouched
  <2> QED
    BY <1>4, <2>1, InOut
<1>5. CASE x \in have /\ ~\E j \in 1..(k + 1) : Cuts(ch[j], t)
  <2>1. ~Cuts(ch[1], t) /\ x \in then
    BY <1>5
  <2>2. \A i \in 1..k : ~Cuts(Tail(ch)[i], t)
    BY <1>2, <1>5
  <2> QED
    BY <2>1, <2>2, InOut
<1> QED
  BY <1>3, <1>4, <1>5, InOut

(* Results that neither cut a table off nor snapshot it. *)
Plain(more, t) == \A k \in 1..Len(more) : ~Cuts(more[k], t) /\ t \notin more[k].snaps

(* ... and the snapshot of the table what it was ... *)
LEMMA SnappedAppended ==
    ASSUME NEW ch \in Seq(Results), NEW more \in Seq(Results), NEW have, NEW t, NEW based,
           NEW kn, NEW kn2, kn \subseteq kn2, NEW ps, NEW ps2 \in SUBSET ps,
           Snapped(ch, have, t, based, kn, ps), Plain(more, t)
    PROVE  Snapped(ch \o more, have, t, based, kn2, ps2)
<1> DEFINE both == ch \o more
<1>1. /\ Len(ch) \in Nat /\ Len(more) \in Nat /\ Len(both) = Len(ch) + Len(more)
      /\ \A j \in 1..Len(ch) : both[j] = ch[j]
      /\ \A j \in 1..Len(more) : both[Len(ch) + j] = more[j]
      /\ \A k \in 1..Len(both) : k \in 1..Len(ch) \/ \E j \in 1..Len(more) : k = Len(ch) + j
  BY Joined
<1>2. \A k \in 0..Len(ch) : Out(both, have, t, k) = Out(ch, have, t, k)
  <2>1. \A k \in 1..Len(more) : ~Cuts(more[k], t)
    BY DEF Plain
  <2>2. Appends(ch, more, have, t)
    BY <2>1, OutAppended
  <2> QED
    BY <2>2 DEF Appends
<1> HIDE DEF both
<1>3. ASSUME NEW k \in 1..Len(both), Cuts(both[k], t) \/ t \in both[k].snaps
      PROVE  /\ k \in 1..Len(ch) /\ both[k] = ch[k] /\ Out(both, have, t, k) = Out(ch, have, t, k)
             /\ \A j \in 1..k : both[j] = ch[j]
  <2>1. k \in 1..Len(ch)
    <3>1. ~\E j \in 1..Len(more) : k = Len(ch) + j
      BY <1>1, <1>3 DEF Plain
    <3> QED
      BY <1>1, <3>1
  <2>2. \A j \in 1..k : j \in 1..Len(ch)
    BY <1>1, <2>1
  <2>3. k \in 0..Len(ch)
    BY <1>1, <2>1
  <2> QED
    BY <1>1, <1>2, <2>1, <2>2, <2>3
<1>4. ASSUME NEW k \in 1..Len(both), Cuts(both[k], t)
      PROVE  t \in kn2 /\ ~based /\ t \notin both[k].snaps /\ \A j \in 1..(k - 1) : Untouched(both[j], t)
  <2>1. k \in 1..Len(ch) /\ both[k] = ch[k] /\ \A j \in 1..k : both[j] = ch[j]
    BY <1>3, <1>4
  <2>2. t \in kn /\ ~based /\ t \notin ch[k].snaps /\ \A j \in 1..(k - 1) : Untouched(ch[j], t)
    BY <1>4, <2>1 DEF Snapped
  <2>3. \A j \in 1..(k - 1) : j \in 1..k
    BY <1>1, <2>1
  <2> QED
    BY <2>1, <2>2, <2>3
<1>5. ASSUME NEW k \in 1..Len(both), t \in both[k].snaps
      PROVE  /\ t \in kn2 /\ 1 <= both[k].at /\ Older(wal, final, t, both[k].at) \subseteq Out(both, have, t, k)
             /\ \A q \in ps2 : q <= both[k].at
             /\ \A j \in 1..k : both[j].token <= both[k].at
  <2>1. k \in 1..Len(ch) /\ both[k] = ch[k] /\ \A j \in 1..k : both[j] = ch[j]
    BY <1>3, <1>5
  <2>2. /\ t \in kn /\ 1 <= ch[k].at /\ Older(wal, final, t, ch[k].at) \subseteq Out(ch, have, t, k)
        /\ \A q \in ps : q <= ch[k].at
        /\ \A j \in 1..k : ch[j].token <= ch[k].at
    BY <1>5, <2>1 DEF Snapped
  <2>3. Out(both, have, t, k) = Out(ch, have, t, k)
    BY <1>3, <1>5
  <2> QED
    BY <2>1, <2>2, <2>3
<1> QED
  BY <1>4, <1>5 DEF Snapped, both

(* ... and the tokens, when the new ones cover what is out up to them. *)
LEMMA TokenedAppended ==
    ASSUME NEW ch \in Seq(Results), NEW more \in Seq(Results), NEW have, NEW t, NEW based,
           Tokened(ch, have, t, based), Plain(more, t),
           based \/ (\E j \in 1..Len(ch) : t \in ch[j].snaps) =>
               \A k \in 1..Len(more) : Older(wal, final, t, more[k].token)
                   \subseteq Out(ch, have, t, Len(ch)) \cup (UNION {more[j].rows : j \in 1..k})
    PROVE  Tokened(ch \o more, have, t, based)
<1> DEFINE both == ch \o more
<1>1. /\ Len(ch) \in Nat /\ Len(more) \in Nat /\ Len(both) = Len(ch) + Len(more)
      /\ \A j \in 1..Len(ch) : both[j] = ch[j]
      /\ \A j \in 1..Len(more) : both[Len(ch) + j] = more[j]
      /\ \A k \in 1..Len(both) : k \in 1..Len(ch) \/ \E j \in 1..Len(more) : k = Len(ch) + j
  BY Joined
<1>2. /\ \A k \in 0..Len(ch) : Out(both, have, t, k) = Out(ch, have, t, k)
      /\ \A k \in 0..Len(more) : Out(ch, have, t, Len(ch)) \cup (UNION {more[j].rows : j \in 1..k})
                                     \subseteq Out(both, have, t, Len(ch) + k)
  <2>1. \A k \in 1..Len(more) : ~Cuts(more[k], t)
    BY DEF Plain
  <2>2. Appends(ch, more, have, t)
    BY <2>1, OutAppended
  <2> QED
    BY <2>2 DEF Appends
<1> HIDE DEF both
<1> SUFFICES ASSUME NEW k \in 1..Len(both), based \/ \E j \in 1..k : t \in both[j].snaps
             PROVE  Older(wal, final, t, both[k].token) \subseteq Out(both, have, t, k)
  BY DEF Tokened, both
<1>3. CASE k \in 1..Len(ch)
  <2>1. \A j \in 1..k : j \in 1..Len(ch) /\ both[j] = ch[j]
    BY <1>1, <1>3
  <2>2. k \in 0..Len(ch) /\ both[k] = ch[k]
    BY <1>1, <1>3
  <2>3. based \/ \E j \in 1..k : t \in ch[j].snaps
    BY <2>1
  <2>4. Older(wal, final, t, ch[k].token) \subseteq Out(ch, have, t, k)
    BY <1>3, <2>3 DEF Tokened
  <2> QED
    BY <1>2, <2>2, <2>4
<1>4. ASSUME NEW i \in 1..Len(more), k = Len(ch) + i
      PROVE  Older(wal, final, t, both[k].token) \subseteq Out(both, have, t, k)
  <2>1. both[k] = more[i] /\ i \in 0..Len(more)
    BY <1>1, <1>4
  <2>2. ASSUME NEW j \in 1..k, t \in both[j].snaps PROVE j \in 1..Len(ch) /\ t \in ch[j].snaps
    <3>1. j \in 1..Len(both)
      BY <1>1
    <3>2. ~\E l \in 1..Len(more) : j = Len(ch) + l
      BY <1>1, <2>2 DEF Plain
    <3> QED
      BY <1>1, <2>2, <3>1, <3>2
  <2>3. based \/ \E j \in 1..Len(ch) : t \in ch[j].snaps
    BY <2>2
  <2> QED
    BY <1>2, <1>4, <2>1, <2>3
<1> QED
  BY <1>1, <1>3, <1>4

(* A snapshot says nothing of the tables that are not in it. *)
LEMMA SnapshotPlain ==
    ASSUME NEW ts \in SUBSET Tables, NEW s \in Nat, NEW tok \in Nat
    PROVE  /\ Snapshots(ts, s, tok) \in Seq(Results)
           /\ \A t : t \notin ts => Plain(Snapshots(ts, s, tok), t)
           /\ \A k \in 1..Len(Snapshots(ts, s, tok)) : Snapshots(ts, s, tok)[k].token \in {0, tok}
<1> DEFINE sp == Snapshots(ts, s, tok)
<1>1. CASE ts = {}
  <2>1. sp = <<>>
    BY <1>1 DEF Snapshots
  <2>2. sp \in Seq(Results) /\ Len(sp) = 0
    BY <2>1
  <2> HIDE DEF sp
  <2>3. \A t : Plain(sp, t)
    BY <2>2 DEF Plain
  <2> QED
    BY <2>2, <2>3 DEF sp
<1>2. CASE ts # {}
  <2>1. IsSnapshot(sp, ts, s, tok)
    BY <1>2, SnapshotResults
  <2> HIDE DEF sp
  <2>2. sp \in Seq(Results) /\ Len(sp) \in Nat
    BY <2>1 DEF IsSnapshot
  <2>3. \A k \in 1..Len(sp) : k \in 1..(Len(sp) - 1) \/ k = Len(sp)
    BY <2>2
  <2>4. \A k \in 1..(Len(sp) - 1) : sp[k].table \in ts /\ sp[k].token = 0 /\ sp[k].snaps = {}
    BY <2>1 DEF IsSnapshot
  <2>5. ~sp[Len(sp)].fresh /\ sp[Len(sp)].token = tok /\ sp[Len(sp)].snaps = ts
    BY <2>1 DEF IsSnapshot
  <2>6. ASSUME NEW t, t \notin ts, NEW k \in 1..Len(sp) PROVE ~Cuts(sp[k], t) /\ t \notin sp[k].snaps
    BY <2>3, <2>4, <2>5, <2>6 DEF Cuts
  <2>7. \A k \in 1..Len(sp) : sp[k].token \in {0, tok}
    BY <2>3, <2>4, <2>5
  <2> QED
    BY <2>2, <2>6, <2>7 DEF sp, Plain
<1> QED
  BY <1>1, <1>2

(* Behind results that have nothing of table t, its snapshot has all of    *)
(* it up to the position s, and a token that says no more.                 *)
HasSnapshot(all, have, t, s, kn, ps) ==
    /\ Snapped(all, have, t, FALSE, kn, ps) /\ Tokened(all, have, t, FALSE)
    /\ Older(wal, final, t, s) \subseteq Out(all, have, t, Len(all))
    /\ \E k \in 1..Len(all) : t \in all[k].snaps

(* A snapshot behind what has nothing of the table is one. *)
LEMMA SnapshotCovers ==
    ASSUME LogOK, NEW s \in Nat, 1 <= s, NEW tok \in {0, s}, NEW ts \in SUBSET Tables, NEW t \in ts,
           NEW kn, ts \subseteq kn, NEW ps, \A q \in ps : q <= s, NEW have,
           NEW ch \in Seq(Results),
           \A k \in 1..Len(ch) : ~Cuts(ch[k], t) /\ Untouched(ch[k], t) /\ ch[k].token <= s
    PROVE  HasSnapshot(ch \o Snapshots(ts, s, tok), have, t, s, kn, ps)
<1> DEFINE sp == Snapshots(ts, s, tok)
           all == ch \o sp
           n == Len(ch)
           m == Len(sp)
<1>1. IsSnapshot(sp, ts, s, tok)
  BY SnapshotResults
<1> HIDE DEF sp
<1>2. sp \in Seq(Results) /\ m \in Nat /\ m = Cardinality(ts) + 1
  BY <1>1 DEF IsSnapshot
<1>3. /\ n \in Nat /\ Len(all) = n + m
      /\ \A j \in 1..n : all[j] = ch[j]
      /\ \A j \in 1..m : all[n + j] = sp[j]
      /\ \A k \in 1..Len(all) : k \in 1..n \/ \E j \in 1..m : k = n + j
  BY <1>2, Joined
<1>4. /\ \A k \in 1..(m - 1) :
            /\ sp[k].table \in ts /\ sp[k].fresh /\ sp[k].rows = Older(wal, final, sp[k].table, s)
            /\ sp[k].token = 0 /\ sp[k].snaps = {} /\ sp[k].at = 0
      /\ \A j, k \in 1..(m - 1) : j # k => sp[j].table # sp[k].table
      /\ ~sp[m].fresh /\ sp[m].token = tok /\ sp[m].snaps = ts /\ sp[m].at = s
  BY <1>1 DEF IsSnapshot
<1>5. PICK i \in 1..(m - 1) : sp[i].table = t
  BY <1>1 DEF IsSnapshot
<1>6. \A k \in 1..n : ~Cuts(ch[k], t) /\ Untouched(ch[k], t) /\ ch[k].token <= s
  OBVIOUS
<1> HIDE DEF all, n, m
<1>7. m \in Nat /\ n \in Nat /\ i \in 1..(m - 1) /\ 1 <= i /\ i < m
  BY <1>2, <1>3, <1>5
<1>8. i \in 1..m /\ m \in 1..m /\ i < m /\ n + m = Len(all) /\ all[n + i] = sp[i] /\ all[n + m] = sp[m]
  BY <1>3, <1>7
<1>9. Older(wal, final, t, s) \subseteq Out(all, have, t, n + m)
  <2>1. n + i \in 1..(n + m)
    BY <1>7
  <2>2. all[n + i].rows = Older(wal, final, t, s)
    BY <1>4, <1>5, <1>8
  <2>3. \A x \in Older(wal, final, t, s) : \E j \in 1..(n + m) : x \in all[j].rows
    BY <2>1, <2>2
  <2> QED
    BY <2>3, InOut
<1>10. \A j \in 1..(m - 1) : j \in 1..m /\ all[n + j] = sp[j]
  BY <1>3, <1>7
<1>11. \A k \in 1..Len(all) : k \in 1..n \/ k = n + m \/ \E j \in 1..(m - 1) : k = n + j
  <2> TAKE k \in 1..Len(all)
  <2>1. CASE k \in 1..n
    BY <2>1
  <2>2. ASSUME NEW j \in 1..m, k = n + j PROVE k = n + m \/ \E l \in 1..(m - 1) : k = n + l
    <3>1. j = m \/ j \in 1..(m - 1)
      BY <1>7
    <3> QED
      BY <2>2, <3>1
  <2> QED
    BY <1>3, <2>1, <2>2
<1>12. ASSUME NEW k \in 1..Len(all), t \in all[k].snaps PROVE k = n + m
  <2>1. k \notin 1..n
    BY <1>3, <1>12, <1>6 DEF Untouched
  <2>2. ~\E j \in 1..(m - 1) : k = n + j
    BY <1>4, <1>10, <1>12
  <2> QED
    BY <1>11, <2>1, <2>2
<1>13. ASSUME NEW k \in 1..Len(all), Cuts(all[k], t)
       PROVE  k = n + i /\ all[k].snaps = {}
  <2>1. PICK j \in 1..(m - 1) : k = n + j
    <3>1. k \notin 1..n
      BY <1>3, <1>13, <1>6
    <3>2. k # n + m
      BY <1>4, <1>8, <1>13 DEF Cuts
    <3> QED
      BY <1>11, <3>1, <3>2
  <2>2. sp[j].table = t
    BY <1>10, <1>13, <2>1 DEF Cuts
  <2>3. j = i
    BY <1>4, <1>5, <2>2
  <2> QED
    BY <1>4, <1>10, <2>1, <2>3
<1>14. ASSUME NEW j \in 1..(n + i - 1) PROVE Untouched(all[j], t)
  <2>1. j \in 1..Len(all) /\ j # n + m
    BY <1>3, <1>7
  <2>2. CASE j \in 1..n
    BY <1>3, <1>6, <2>2
  <2>3. ASSUME NEW l \in 1..(m - 1), j = n + l PROVE Untouched(all[j], t)
    <3>1. l # i
      BY <1>7, <2>3
    <3>2. sp[l].table # t
      BY <1>4, <1>5, <3>1
    <3>3. \A x \in Older(wal, final, sp[l].table, s) : TableOf(x) # t
      BY <3>2, OlderRows
    <3>4. all[j].snaps = {} /\ all[j].rows = Older(wal, final, sp[l].table, s)
      BY <1>4, <1>10, <2>3
    <3> QED
      BY <3>3, <3>4 DEF Untouched
  <2> QED
    BY <1>11, <2>1, <2>2, <2>3
<1>15. ASSUME NEW j \in 1..Len(all) PROVE all[j].token <= s
  <2>1. 0 <= s /\ tok <= s
    OBVIOUS
  <2>2. CASE j \in 1..n
    BY <1>3, <1>6, <2>2
  <2>3. CASE j = n + m
    BY <1>4, <1>8, <2>1, <2>3
  <2>4. ASSUME NEW l \in 1..(m - 1), j = n + l PROVE all[j].token <= s
    <3>1. all[j] = sp[l] /\ sp[l].token = 0
      BY <1>4, <1>10, <2>4
    <3> QED
      BY <2>1, <3>1
  <2> QED
    BY <1>11, <2>2, <2>3, <2>4
<1>16. Snapped(all, have, t, FALSE, kn, ps)
  <2>1. ASSUME NEW k \in 1..Len(all), Cuts(all[k], t)
        PROVE  t \in kn /\ ~FALSE /\ t \notin all[k].snaps /\ \A j \in 1..(k - 1) : Untouched(all[j], t)
    <3>1. k = n + i
      BY <1>13, <2>1
    <3>4. all[k].snaps = {}
      BY <1>13, <2>1
    <3>5. k - 1 = n + i - 1
      BY <1>7, <3>1
    <3>2. \A j \in 1..(n + i - 1) : Untouched(all[j], t)
      BY <1>14
    <3>3. \A j \in 1..(k - 1) : Untouched(all[j], t)
      BY <3>2, <3>5
    <3> QED
      BY <3>3, <3>4
  <2>2. ASSUME NEW k \in 1..Len(all), t \in all[k].snaps
        PROVE  /\ t \in kn /\ 1 <= all[k].at /\ Older(wal, final, t, all[k].at) \subseteq Out(all, have, t, k)
               /\ \A q \in ps : q <= all[k].at
               /\ \A j \in 1..k : all[j].token <= all[k].at
    <3>1. k = n + m /\ all[k].at = s
      BY <1>4, <1>8, <1>12, <2>2
    <3>2. \A j \in 1..k : all[j].token <= s
      BY <1>8, <1>15, <3>1
    <3> QED
      BY <1>9, <3>1, <3>2
  <2> QED
    BY <2>1, <2>2 DEF Snapped
<1>17. Tokened(all, have, t, FALSE)
  <2> SUFFICES ASSUME NEW k \in 1..Len(all), NEW j \in 1..k, t \in all[j].snaps
               PROVE  Older(wal, final, t, all[k].token) \subseteq Out(all, have, t, k)
    BY DEF Tokened
  <2>1. j \in 1..Len(all)
    BY <1>3, <1>7
  <2>2. j = n + m
    BY <1>12, <2>1
  <2>3. k = n + m
    BY <1>3, <1>7, <2>2
  <2>4. all[k].token = tok /\ tok \in Nat /\ tok <= s
    BY <1>4, <1>8, <2>3
  <2>5. Older(wal, final, t, tok) \subseteq Older(wal, final, t, s)
    BY <2>4, OlderRows
  <2> QED
    BY <1>9, <2>3, <2>4, <2>5
<1>18. \E k \in 1..Len(all) : t \in all[k].snaps
  <2>1. n + m \in 1..Len(all)
    BY <1>3, <1>7
  <2> QED
    BY <1>4, <1>8, <2>1
<1> QED
  BY <1>8, <1>9, <1>16, <1>17, <1>18 DEF HasSnapshot, all, sp

----------------------------------------------------------------------------
(* What is covered of a table, action by action. *)

LEMMA SnappedNext ==
    ASSUME UNCHANGED logVars, NEW t, Snapped(results', Have', t, Based(t)', known', Positions')
    PROVE  Snapped(results, Have, t, Based(t), known, Positions)'
<1>1. wal' = wal /\ final' = final
  BY DEF logVars
<1>2. \A r : Untouched(r, t)' = Untouched(r, t)
  BY <1>1 DEF Untouched, TableOf
<1> QED
  BY <1>1, <1>2 DEF Snapped, Untouched, TableOf

(* The same of the tokens. *)
LEMMA TokenedNext ==
    ASSUME UNCHANGED logVars, NEW t, Tokened(results', Have', t, Based(t)')
    PROVE  Tokened(results, Have, t, Based(t))'
<1>1. wal' = wal /\ final' = final
  BY DEF logVars
<1> QED
  BY <1>1 DEF Tokened

(* What is to be shown of a step, part by part. *)
LEMMA CoverNext ==
    ASSUME UNCHANGED logVars, NEW t,
           Snapped(results', Have', t, Based(t)', known', Positions'),
           Tokened(results', Have', t, Based(t)'), StateOK(t)', up' => ReaderOK(t)'
    PROVE  Covered(t)'
BY SnappedNext, TokenedNext DEF Covered

(* A turn of the reader: rows R have been in the accumulator, with what    *)
(* was drained; all but those still there are emitted, and every token     *)
(* that is emitted covers them up to there.                                *)
LEMMA Grown ==
    ASSUME StreamInv, NEW t \in Tables, Covered(t), up,
           NEW more \in Seq(Results), Plain(more, t), results' = results \o more,
           UNCHANGED <<logVars, slot, start, storeVars, pipeVars, known>>,
           NEW R, accum[t].rows \subseteq R,
           t \in known => /\ Older(wal, final, t, sent' + 1)
                                \subseteq Out(results, Have, t, Len(results)) \cup R \cup d'.committed
                          /\ Older(wal, final, t, processed'[t])
                                \subseteq Out(results, Have, t, Len(results)) \cup R,
           \A k \in 1..Len(more) : \A r \in Older(wal, final, t, more[k].token) :
               /\ r \in Older(wal, final, t, start) \/ r \in Older(wal, final, t, sent' + 1)
               /\ r \notin d'.committed
               /\ r \in R => r \in UNION {more[j].rows : j \in 1..k},
           R \subseteq (UNION {more[j].rows : j \in 1..Len(more)}) \cup accum'[t].rows
    PROVE  Covered(t)'
<1> DEFINE D == Out(results, Have, t, Len(results))
<1>1. /\ Have' = Have /\ Based(t)' = Based(t) /\ Positions' = Positions /\ known' = known
      /\ wal' = wal /\ final' = final /\ start' = start
  BY DEF Have, Based, Positions, storeVars, pipeVars, logVars
<1>2. results \in Seq(Results)
  BY DEF StreamInv, Shape
<1>3. /\ Snapped(results, Have, t, Based(t), known, Positions)
      /\ Tokened(results, Have, t, Based(t)) /\ StateOK(t) /\ ReaderOK(t)
  BY DEF Covered
<1>4. t \in known => Older(wal, final, t, start) \subseteq D \cup R
  BY <1>3 DEF ReaderOK, Delivered
<1>5. Based(t) \/ (\E j \in 1..Len(results) : t \in results[j].snaps) => t \in known
  BY <1>3 DEF StateOK, Snapped
<1>6. Snapped(results', Have', t, Based(t)', known', Positions')
  <2>1. Snapped(results \o more, Have, t, Based(t), known, Positions)
    BY <1>2, <1>3, SnappedAppended
  <2> QED
    BY <1>1, <2>1
<1>7. Tokened(results', Have', t, Based(t)')
  <2>1. ASSUME Based(t) \/ \E j \in 1..Len(results) : t \in results[j].snaps, NEW k \in 1..Len(more)
        PROVE  Older(wal, final, t, more[k].token) \subseteq D \cup (UNION {more[j].rows : j \in 1..k})
    <3>1. t \in known
      BY <1>5, <2>1
    <3>2. ASSUME NEW r \in Older(wal, final, t, more[k].token)
          PROVE  r \in D \cup (UNION {more[j].rows : j \in 1..k})
      <4> DEFINE U == UNION {more[j].rows : j \in 1..k}
      <4>1. /\ r \in Older(wal, final, t, start) \/ r \in Older(wal, final, t, sent' + 1)
            /\ r \notin d'.committed /\ (r \in R => r \in U)
        OBVIOUS
      <4> HIDE DEF U, D
      <4>2. Older(wal, final, t, sent' + 1) \subseteq D \cup R \cup d'.committed
        BY <3>1 DEF D
      <4> QED
        BY <1>4, <3>1, <4>1, <4>2 DEF U
    <3> QED
      BY <3>2
  <2>2. Tokened(results \o more, Have, t, Based(t))
    BY <1>2, <1>3, <2>1, TokenedAppended
  <2> QED
    BY <1>1, <2>2
<1>8. StateOK(t)'
  BY <1>1, <1>3 DEF StateOK, Based, Certified, Flushed, Have, storeVars, pipeVars, logVars
<1>9. /\ D \cup R \subseteq Delivered(t)'
      /\ \A k \in 1..Len(results) : k \in 1..Len(results') /\ results'[k] = results[k]
  <2>1. /\ Len(results) \in Nat /\ Len(more) \in Nat /\ Len(results') = Len(results) + Len(more)
        /\ \A j \in 1..Len(results) : results'[j] = results[j]
    BY <1>2, Joined
  <2>2. Appends(results, more, Have, t)
    <3>1. \A k \in 1..Len(more) : ~Cuts(more[k], t)
      BY DEF Plain
    <3> QED
      BY <1>2, <3>1, OutAppended
  <2>3. D \cup (UNION {more[j].rows : j \in 1..Len(more)}) \subseteq Out(results', Have, t, Len(results'))
    <3>1. Len(more) \in 0..Len(more)
      BY <2>1
    <3> QED
      BY <2>1, <2>2, <3>1 DEF Appends
  <2>4. Delivered(t)' = Out(results', Have, t, Len(results')) \cup accum'[t].rows
    BY <1>1 DEF Delivered, Out, Cuts
  <2>5. \A k \in 1..Len(results) : k \in 1..Len(results')
    BY <2>1
  <2> HIDE DEF D
  <2> QED
    BY <2>1, <2>3, <2>4, <2>5
<1>10. ReaderOK(t)'
  <2> SUFFICES ASSUME t \in known
               PROVE  /\ Based(t)' \/ \E k \in 1..Len(results') : t \in results'[k].snaps
                      /\ Older(wal, final, t, start) \subseteq Delivered(t)'
                      /\ Older(wal, final, t, processed'[t]) \subseteq Delivered(t)'
                      /\ Older(wal, final, t, sent' + 1) \subseteq Delivered(t)' \cup d'.committed
    BY <1>1 DEF ReaderOK
  <2>1. Based(t) \/ \E k \in 1..Len(results) : t \in results[k].snaps
    BY <1>3 DEF ReaderOK
  <2>2. Based(t)' \/ \E k \in 1..Len(results') : t \in results'[k].snaps
    BY <1>1, <1>9, <2>1
  <2>3. Older(wal, final, t, sent' + 1) \subseteq D \cup R \cup d'.committed
    OBVIOUS
  <2>4. Older(wal, final, t, processed'[t]) \subseteq D \cup R
    OBVIOUS
  <2> HIDE DEF D
  <2> QED
    BY <1>4, <1>9, <2>2, <2>3, <2>4
<1>11. UNCHANGED logVars
  OBVIOUS
<1> QED
  BY <1>6, <1>7, <1>8, <1>10, <1>11, CoverNext

(* A turn: a row that is filtered is older than what was processed, and so *)
(* it was delivered.                                                       *)
LEMMA TurnCover ==
    ASSUME StreamInv, NEW t \in Tables \ Keyless, Covered(t), up,
           NEW dd, Settled(dd, start, sent', head'), sent <= sent', Turn(dd),
           Completes(dd, sent'), d.committed \subseteq dd.committed,
           UNCHANGED <<logVars, slot, start, storeVars, pipeVars, known>>
    PROVE  Covered(t)'
<1> DEFINE D == Out(results, Have, t, Len(results))
<1>1. PICK drained, ready, out : Taken(dd, sent', head', drained, ready, out)
  BY TurnTaken DEF StreamInv
<1> DEFINE R == Added(dd, drained)[t].rows
<1>2. /\ drained \subseteq dd.committed /\ d'.committed = dd.committed \ drained
      /\ R = accum[t].rows \cup {r \in Kept(dd, drained) : TableOf(r) = t}
      /\ Added(dd, drained) \in Accums
      /\ accum' = Emptied(Added(dd, drained), ready)
      /\ Emits(out, Added(dd, drained), d', ready, start, sent', head')
      /\ results' = results \o out
      /\ \/ processed'[t] = processed[t]
         \/ d'.committed = {} /\ processed'[t] = Max2(processed[t], dd.committedLSN)
  BY <1>1 DEF Taken
<1>3. /\ sent' \in Nat /\ dd.committedLSN \in Nat /\ dd.committedLSN <= sent'
      /\ processed[t] \in Nat /\ sent \in Nat /\ start \in Nat
      /\ dd.committed # {} => dd.committedLSN = sent'
      /\ \A r \in dd.committed : FinalOf(r) = sent'
  BY Within DEF Settled, Decoders, StreamInv, Shape
<1>4. t \in known => /\ Older(wal, final, t, start) \subseteq D \cup accum[t].rows
                     /\ Older(wal, final, t, processed[t]) \subseteq D \cup accum[t].rows
                     /\ Older(wal, final, t, sent + 1) \subseteq D \cup accum[t].rows \cup d.committed
  BY DEF Covered, ReaderOK, Delivered
<1> HIDE DEF D, R
<1>5. LogOK
  BY DEF StreamInv
<1>6. ASSUME t \in known PROVE Older(wal, final, t, sent' + 1) \subseteq D \cup R \cup d'.committed
  <2> SUFFICES ASSUME NEW r \in Older(wal, final, t, sent' + 1) PROVE r \in D \cup R \cup d'.committed
    OBVIOUS
  <2>1. TableOf(r) = t /\ r \in Committed(t)
    <3>1. sent' + 1 \in Nat
      BY <1>3
    <3> QED
      BY <1>5, <3>1, OlderRows
  <2>2. r \in D \cup accum[t].rows \/ r \in dd.committed
    <3>1. \/ r \in Older(wal, final, t, start) \/ r \in Older(wal, final, t, sent + 1)
          \/ r \in dd.committed
      BY <1>6 DEF Completes
    <3> QED
      BY <1>4, <1>6, <3>1
  <2>3. CASE r \in dd.committed /\ r \in drained /\ ~ShouldFilterChange(t, dd.committedLSN)
    BY <1>2, <2>1, <2>3 DEF Kept
  <2>4. CASE r \in dd.committed /\ r \in drained /\ ShouldFilterChange(t, dd.committedLSN)
    <3>1. dd.committedLSN < processed[t]
      BY <2>4 DEF ShouldFilterChange
    <3>2. FinalOf(r) < processed[t]
      BY <1>3, <2>4, <3>1
    <3>3. r \in Older(wal, final, t, processed[t])
      BY <1>3, <1>5, <2>1, <3>2, OlderRows
    <3> QED
      BY <1>2, <1>4, <1>6, <3>3
  <2> QED
    BY <1>2, <2>2, <2>3, <2>4
<1>7. ASSUME t \in known PROVE Older(wal, final, t, processed'[t]) \subseteq D \cup R
  <2>1. CASE processed'[t] = processed[t]
    BY <1>2, <1>4, <1>7, <2>1
  <2>2. CASE d'.committed = {} /\ processed'[t] = Max2(processed[t], dd.committedLSN)
    <3>1. Older(wal, final, t, dd.committedLSN) \subseteq Older(wal, final, t, sent' + 1)
      <4>1. sent' + 1 \in Nat /\ dd.committedLSN <= sent' + 1
        BY <1>3
      <4> QED
        BY <1>3, <1>5, <4>1, OlderRows
    <3>2. Older(wal, final, t, dd.committedLSN) \subseteq D \cup R
      BY <1>6, <1>7, <2>2, <3>1
    <3>3. Older(wal, final, t, processed[t]) \subseteq D \cup R
      BY <1>2, <1>4, <1>7
    <3>4. processed'[t] = processed[t] \/ processed'[t] = dd.committedLSN
      BY <2>2 DEF Max2
    <3> QED
      BY <3>2, <3>3, <3>4
  <2> QED
    BY <1>2, <2>1, <2>2
<1>8. out \in Seq(Results) /\ Plain(out, t)
  BY <1>2 DEF Emits, Plain, Cuts
<1>9. \A k \in 1..Len(out) : \A r \in Older(wal, final, t, out[k].token) :
          /\ r \in Older(wal, final, t, start) \/ r \in Older(wal, final, t, sent' + 1)
          /\ r \notin d'.committed
          /\ r \in R => r \in UNION {out[j].rows : j \in 1..k}
  <2> TAKE k \in 1..Len(out)
  <2>1. Covers(out[k].token, t, d', Added(dd, drained), start, sent', UNION {out[j].rows : j \in 1..k})
    BY <1>2 DEF Emits
  <2> QED
    BY <2>1 DEF Covers, R
<1>10. R \subseteq (UNION {out[j].rows : j \in 1..Len(out)}) \cup accum'[t].rows
  <2>1. CASE t \in ready
    <3>1. PICK k \in 1..Len(out) : out[k].rows = R
      BY <1>2, <2>1 DEF Emits, R
    <3> QED
      BY <3>1
  <2>2. CASE t \notin ready
    <3>1. accum'[t].rows = R
      BY <1>2, <2>2, EmptiedFacts DEF R
    <3> QED
      BY <3>1
  <2> QED
    BY <2>1, <2>2
<1>11. accum[t].rows \subseteq R
  BY <1>2
<1>12. t \in known => /\ Older(wal, final, t, sent' + 1)
                            \subseteq Out(results, Have, t, Len(results)) \cup R \cup d'.committed
                      /\ Older(wal, final, t, processed'[t])
                            \subseteq Out(results, Have, t, Len(results)) \cup R
  BY <1>6, <1>7 DEF D
<1>13. t \in Tables /\ results' = results \o out
  BY <1>2
<1>14. UNCHANGED <<logVars, slot, start, storeVars, pipeVars, known>>
  OBVIOUS
<1> QED
  BY <1>8, <1>9, <1>10, <1>11, <1>12, <1>13, <1>14, Grown

(* Draining keeps a table with a key covered. *)
LEMMA DrainCover ==
    ASSUME StreamInv, NEW t \in Tables \ Keyless, Covered(t), DrainCommitted
    PROVE  Covered(t)'
<1>1. /\ up /\ Turn(d) /\ sent' = sent /\ head' = head
      /\ UNCHANGED <<logVars, slot, start, storeVars, pipeVars, known>>
  BY DEF DrainCommitted, serverVars
<1>2. Settled(d, start, sent', head')
  BY <1>1, StreamSettled
<1>3. Completes(d, sent')
  BY <1>1 DEF Completes
<1>4. sent <= sent'
  BY <1>1, Within
<1> QED
  BY <1>1, <1>2, <1>3, <1>4, TurnCover

(* The next message does. *)
LEMMA MessageCover ==
    ASSUME StreamInv, NEW t \in Tables \ Keyless, Covered(t), NextMessage
    PROVE  Covered(t)'
<1>1. PICK dd : /\ Turn(dd) /\ Settled(dd, start, sent', head')
                /\ Completes(dd, sent') /\ sent <= sent'
  BY Receiving
<1>2. up /\ d.committed = {} /\ UNCHANGED <<logVars, slot, start, storeVars, pipeVars, known>>
  BY DEF NextMessage
<1> QED
  BY <1>1, <1>2, TurnCover

(* Idle does: what is accumulated is sent before the bare token. *)
LEMMA IdleCover ==
    ASSUME StreamInv, NEW t \in Tables \ Keyless, Covered(t), Idle
    PROVE  Covered(t)'
<1> DEFINE R == accum[t].rows
<1>1. /\ up /\ accum' = NoRows /\ d' = d /\ sent' = sent /\ processed' = processed
      /\ UNCHANGED <<logVars, slot, start, storeVars, pipeVars, known>>
  BY DEF Idle, serverVars
<1>2. PICK out, more : Idled(out, more)
  BY IdleTaken
<1> DEFINE all == out \o more
<1>3. /\ Emits(out, accum, d, Filled(accum), start, sent, head)
      /\ results' = (results \o out) \o more
  BY <1>2 DEF Idled
<1>4. out \in Seq(Results) /\ Plain(out, t) /\ Len(out) \in Nat
  BY <1>3 DEF Emits, Plain, Cuts
<1> DEFINE Good(q, U) == \A r \in Older(wal, final, t, q) :
                             /\ r \in Older(wal, final, t, start) \/ r \in Older(wal, final, t, sent + 1)
                             /\ r \notin d.committed
                             /\ r \in R => r \in U
<1>5. \A k \in 1..Len(out) : Good(out[k].token, UNION {out[j].rows : j \in 1..k})
  <2> TAKE k \in 1..Len(out)
  <2>1. Covers(out[k].token, t, d, accum, start, sent, UNION {out[j].rows : j \in 1..k})
    BY <1>3 DEF Emits
  <2> QED
    BY <2>1 DEF Covers
<1>6. /\ more \in Seq(Results) /\ Len(more) \in {0, 1} /\ Plain(more, t)
      /\ \A k \in 1..Len(more) : Good(more[k].token, UNION {out[j].rows : j \in 1..Len(out)})
      /\ \A k \in 1..Len(more) : more[k].rows = {}
  <2>1. CASE more = <<>>
    <3>1. more \in Seq(Results) /\ Len(more) = 0
      BY <2>1
    <3> QED
      BY <3>1 DEF Plain
  <2>2. ASSUME NEW q \in Nat, more = <<Result("none", {}, FALSE, q, {}, 0)>>,
               Covers(q, t, d, accum, start, sent, UNION {out[j].rows : j \in 1..Len(out)})
        PROVE  /\ more \in Seq(Results) /\ Len(more) \in {0, 1} /\ Plain(more, t)
               /\ \A k \in 1..Len(more) : Good(more[k].token, UNION {out[j].rows : j \in 1..Len(out)})
               /\ \A k \in 1..Len(more) : more[k].rows = {}
    <3>1. Result("none", {}, FALSE, q, {}, 0) \in Results
      BY DEF Result, Results
    <3>2. more \in Seq(Results) /\ Len(more) = 1 /\ more[1] = Result("none", {}, FALSE, q, {}, 0)
      <4>1. \A r \in Results : <<r>> \in Seq(Results) /\ Len(<<r>>) = 1 /\ <<r>>[1] = r
        OBVIOUS
      <4> QED
        BY <2>2, <3>1, <4>1
    <3>3. Good(q, UNION {out[j].rows : j \in 1..Len(out)})
      BY <2>2 DEF Covers
    <3>4. ~more[1].fresh /\ more[1].snaps = {} /\ more[1].token = q /\ more[1].rows = {}
      BY <3>2 DEF Result
    <3>5. \A k \in 1..Len(more) : k = 1
      BY <3>2
    <3> HIDE DEF Good
    <3> QED
      BY <3>2, <3>3, <3>4, <3>5 DEF Plain, Cuts
  <2> HIDE DEF Good
  <2>3. CASE \E q \in Nat : /\ q <= head /\ more = <<Result("none", {}, FALSE, q, {}, 0)>>
                            /\ \A u \in Tables : Covers(q, u, d, accum, start, sent, UNION {out[j].rows : j \in 1..Len(out)})
    BY <2>2, <2>3
  <2> QED
    BY <1>2, <2>1, <2>3 DEF Idled
<1>7. /\ all \in Seq(Results) /\ Len(all) = Len(out) + Len(more) /\ Len(more) \in Nat
      /\ \A j \in 1..Len(out) : all[j] = out[j]
      /\ \A j \in 1..Len(more) : all[Len(out) + j] = more[j]
      /\ \A k \in 1..Len(all) : k \in 1..Len(out) \/ \E j \in 1..Len(more) : k = Len(out) + j
  BY <1>4, <1>6, Joined
<1> HIDE DEF all, Good
<1>8. Plain(all, t)
  <2> SUFFICES ASSUME NEW k \in 1..Len(all) PROVE ~Cuts(all[k], t) /\ t \notin all[k].snaps
    BY DEF Plain
  <2>1. CASE k \in 1..Len(out)
    BY <1>4, <1>7, <2>1 DEF Plain
  <2>2. ASSUME NEW j \in 1..Len(more), k = Len(out) + j
        PROVE  ~Cuts(all[k], t) /\ t \notin all[k].snaps
    BY <1>6, <1>7, <2>2 DEF Plain
  <2> QED
    BY <1>7, <2>1, <2>2
<1>9. ASSUME NEW k \in 1..Len(all)
      PROVE  Good(all[k].token, UNION {all[j].rows : j \in 1..k})
  <2>1. ASSUME NEW n \in Nat, n <= Len(out), n <= k
        PROVE  UNION {out[j].rows : j \in 1..n} \subseteq UNION {all[j].rows : j \in 1..k}
    <3>1. \A j \in 1..n : j \in 1..k /\ all[j] = out[j]
      BY <1>4, <1>7, <2>1
    <3> QED
      BY <3>1
  <2>2. CASE k \in 1..Len(out)
    <3>1. k \in Nat /\ k <= Len(out) /\ k <= k /\ all[k] = out[k]
      BY <1>4, <1>7, <2>2
    <3>2. UNION {out[j].rows : j \in 1..k} \subseteq UNION {all[j].rows : j \in 1..k}
      BY <2>1, <3>1
    <3> QED
      BY <1>5, <2>2, <3>1, <3>2 DEF Good
  <2>3. ASSUME NEW i \in 1..Len(more), k = Len(out) + i
        PROVE  Good(all[k].token, UNION {all[j].rows : j \in 1..k})
    <3>1. Len(out) <= k /\ Len(out) <= Len(out)
      BY <1>4, <1>7, <2>3
    <3>2. UNION {out[j].rows : j \in 1..Len(out)} \subseteq UNION {all[j].rows : j \in 1..k}
      BY <1>4, <2>1, <3>1
    <3>3. all[k] = more[i]
      BY <1>7, <2>3
    <3> QED
      BY <1>6, <3>2, <3>3 DEF Good
  <2> QED
    BY <1>7, <2>2, <2>3
<1>10. R \subseteq UNION {all[j].rows : j \in 1..Len(all)}
  <2>1. CASE R = {}
    BY <2>1
  <2>2. CASE R # {}
    <3>1. t \in Filled(accum)
      BY <2>2 DEF Filled
    <3>2. PICK k \in 1..Len(out) : out[k].rows = R
      BY <1>3, <3>1 DEF Emits
    <3>3. k \in 1..Len(all) /\ all[k].rows = R
      BY <1>4, <1>7, <3>2
    <3> QED
      BY <3>3
  <2> QED
    BY <2>1, <2>2
<1>11. results' = results \o all
  <2>1. results \in Seq(Results)
    BY DEF StreamInv, Shape
  <2>2. results' = results \o (out \o more)
    <3>1. (results \o out) \o more = results \o (out \o more)
      BY <1>4, <1>6, <2>1, ConcatAssociative
    <3> QED
      BY <1>3, <3>1
  <2> QED
    BY <2>2 DEF all
<1>12. t \in known => /\ Older(wal, final, t, sent' + 1)
                            \subseteq Out(results, Have, t, Len(results)) \cup R \cup d'.committed
                      /\ Older(wal, final, t, processed'[t])
                            \subseteq Out(results, Have, t, Len(results)) \cup R
  BY <1>1 DEF Covered, ReaderOK, Delivered
<1>13. \A k \in 1..Len(all) : \A r \in Older(wal, final, t, all[k].token) :
           /\ r \in Older(wal, final, t, start) \/ r \in Older(wal, final, t, sent' + 1)
           /\ r \notin d'.committed
           /\ r \in R => r \in UNION {all[j].rows : j \in 1..k}
  BY <1>1, <1>9 DEF Good
<1>14. R \subseteq (UNION {all[j].rows : j \in 1..Len(all)}) \cup accum'[t].rows
  BY <1>10
<1>15. accum[t].rows \subseteq R /\ t \in Tables
  OBVIOUS
<1> HIDE DEF R
<1> QED
  BY <1>1, <1>7, <1>8, <1>11, <1>12, <1>13, <1>14, <1>15, Grown

(* Nothing was committed before the first record of the log. *)
LEMMA OlderNone ==
    ASSUME LogOK, NEW t
    PROVE  Older(wal, final, t, 0) = {} /\ Older(wal, final, t, 1) = {}
<1>1. ASSUME NEW q \in {0, 1}, NEW r \in Older(wal, final, t, q) PROVE FALSE
  <2>1. q \in Nat
    OBVIOUS
  <2>2. IsCommit(FinalOf(r)) /\ FinalOf(r) < q
    BY <2>1, OlderRows
  <2>3. FinalOf(r) \in Nat /\ 1 <= FinalOf(r)
    BY <2>2 DEF IsCommit, Lsns, LogOK
  <2> QED
    BY <2>2, <2>3
<1> QED
  BY <1>1

(* What a stream that begins has of a table with a snapshot in the channel, *)
(* and of one that it does not know.                                       *)
LEMMA FreshCover ==
    ASSUME LogOK, UNCHANGED logVars, NEW t \in Tables, NEW s \in Nat, start' \in Nat, start' <= s,
           HasSnapshot(results', Have', t, s, known', Positions'), ~Based(t)',
           processed'[t] = s, sent' = 0
    PROVE  Covered(t)'
<1>1. Snapped(results', Have', t, Based(t)', known', Positions') /\ Tokened(results', Have', t, Based(t)')
  BY DEF HasSnapshot, Snapped, Tokened
<1>2. StateOK(t)'
  BY DEF StateOK
<1>3. wal' = wal /\ final' = final
  BY DEF logVars
<1>4. Delivered(t)' = Out(results', Have', t, Len(results')) \cup accum'[t].rows
  BY DEF Delivered, Out, Cuts
<1>5. Older(wal, final, t, s) \subseteq Delivered(t)'
  BY <1>4 DEF HasSnapshot
<1>6. Older(wal, final, t, start') \subseteq Older(wal, final, t, s)
  BY OlderRows
<1>7. Older(wal, final, t, sent' + 1) = {}
  <2>1. sent' + 1 = 1
    OBVIOUS
  <2> QED
    BY <2>1, OlderNone
<1>8. \E k \in 1..Len(results') : t \in results'[k].snaps
  BY DEF HasSnapshot
<1>9. ReaderOK(t)'
  BY <1>3, <1>5, <1>6, <1>7, <1>8 DEF ReaderOK
<1> QED
  BY <1>1, <1>2, <1>9, CoverNext

(* A table the stream does not know, and of which nothing is in the        *)
(* channel.                                                                *)
LEMMA AbsentCover ==
    ASSUME UNCHANGED logVars, NEW t \in Tables, Plain(results', t), ~Based(t)', t \notin known',
           Len(results') \in Nat
    PROVE  Covered(t)'
<1>1. Snapped(results', Have', t, Based(t)', known', Positions')
  BY DEF Snapped, Plain
<1>2. Tokened(results', Have', t, Based(t)')
  <2> SUFFICES ASSUME NEW k \in 1..Len(results'), NEW j \in 1..k, t \in results'[j].snaps PROVE FALSE
    BY DEF Tokened
  <2>1. j \in 1..Len(results')
    OBVIOUS
  <2> QED
    BY <2>1 DEF Plain
<1>3. StateOK(t)' /\ ReaderOK(t)'
  BY DEF StateOK, ReaderOK
<1> QED
  BY <1>1, <1>2, <1>3, CoverNext

(* A crash: what the state says is in the destination, where it stays. *)
LEMMA CrashCover ==
    ASSUME StreamInv, NEW t \in Tables, Covered(t), Crash
    PROVE  Covered(t)' /\ DownOK'
<1>1. /\ results' = <<>> /\ up' = FALSE /\ StartReplication(slot) /\ slot' = slot
      /\ pstep' = "run" /\ held' = {} /\ token' = 0 /\ snaps' = [u \in Tables |-> 0] /\ confirmed' = 0
      /\ checkpoint' = checkpoint /\ snapPos' = snapPos /\ knownComplete' = knownComplete
      /\ durable' = durable /\ known' = known /\ UNCHANGED logVars
  BY DEF Crash, serverVars, storeVars
<1>2. start' = slot
  BY <1>1 DEF StartReplication
<1>3. DownOK'
  BY <1>1, <1>2 DEF DownOK
<1>4. Len(results') = 0
  BY <1>1
<1>5. Snapped(results', Have', t, Based(t)', known', Positions') /\ Tokened(results', Have', t, Based(t)')
  BY <1>4 DEF Snapped, Tokened
<1>6. StateOK(t)'
  <2> SUFFICES ASSUME Based(t)'
               PROVE  /\ t \in known
                      /\ \A q \in {slot, checkpoint, 0, snapPos[t], knownComplete[t]} :
                            Older(wal, final, t, q) \subseteq durable
                      /\ Older(wal, final, t, 0) \subseteq durable
    BY <1>1, <1>2 DEF StateOK, Flushed, Have, Certified, logVars
  <2>1. Certified(t) /\ Based(t)
    BY <1>1 DEF Based, Certified
  <2>2. Older(wal, final, t, 0) = {}
    BY OlderNone DEF StreamInv
  <2>3. StateOK(t)
    BY DEF Covered
  <2> QED
    BY <2>1, <2>2, <2>3 DEF StateOK
<1> QED
  BY <1>1, <1>3, <1>5, <1>6, CoverNext

(* What a run finds: a stream that is down, and what is resumable.         *)
LEMMA BeginFacts ==
    ASSUME StreamInv, DownOK, NEW t \in Tables, Covered(t), BeginRun
    PROVE  /\ wal' = wal /\ final' = final /\ UNCHANGED logVars /\ up' = TRUE /\ durable' = durable
           /\ known \subseteq known' /\ known' \in SUBSET Tables /\ Have' = durable /\ Flushed' = durable
           /\ checkpoint' = 0 /\ confirmed' = 0 /\ token' = 0 /\ snaps'[t] = 0 /\ snapPos'[t] = 0
           /\ knownComplete'[t] = snapPos[t] /\ (Based(t)' <=> t \in Resumable)
           /\ t \in Resumable => /\ t \in known /\ Certified(t)'
                                 /\ \A q \in {slot, checkpoint, snapPos[t]} : Older(wal, final, t, q) \subseteq durable
<1>1. /\ ~up /\ up' = TRUE /\ known' \in {known, Tables} /\ knownComplete' = snapPos
      /\ snapPos' = [u \in Tables |-> 0] /\ checkpoint' = 0 /\ durable' = durable
      /\ pstep' = pstep /\ held' = held /\ token' = token /\ snaps' = snaps /\ confirmed' = confirmed
      /\ UNCHANGED logVars
  BY DEF BeginRun, pipeVars
<1>2. held = {} /\ token = 0 /\ confirmed = 0 /\ pstep = "run" /\ snaps[t] = 0
  BY <1>1 DEF DownOK
<1>3. known \subseteq Tables
  BY Within
<1>4. Have' = durable /\ Flushed' = durable
  BY <1>1, <1>2 DEF Have, Flushed
<1>5. (Based(t)' <=> t \in Resumable)
  BY <1>1, <1>2 DEF Based, Resumable
<1>6. ASSUME t \in Resumable
      PROVE  /\ t \in known /\ Certified(t)'
             /\ \A q \in {slot, checkpoint, snapPos[t]} : Older(wal, final, t, q) \subseteq durable
  <2>1. snapPos[t] # 0
    BY <1>6 DEF Resumable
  <2>2. Based(t) /\ Certified(t) /\ Certified(t)'
    BY <1>1, <2>1 DEF Based, Certified
  <2> QED
    BY <2>2 DEF Covered, StateOK
<1>7. wal' = wal /\ final' = final
  BY <1>1 DEF logVars
<1> QED
  BY <1>1, <1>2, <1>3, <1>4, <1>5, <1>6, <1>7

(* A restart: a table that resumes has what lies before the slot and its   *)
(* position, the others are snapshotted.                                   *)
LEMMA RestartCover ==
    ASSUME StreamInv, DownOK, NEW t \in Tables, Covered(t), Restart
    PROVE  Covered(t)'
<1> DEFINE late == known' \ Resumable
<1>1. PICK s \in Points :
         /\ head' = s /\ results' = Snapshots(late, s, 0)
         /\ processed' = [u \in Tables |-> IF u \in late THEN s ELSE ResumeLSN(u)]
  BY DEF Restart
<1>2. /\ StartReplication(ResumeStart) /\ slot' = slot /\ Resumable # {} /\ BeginRun
  BY DEF Restart, ResumeStart
<1>3. /\ wal' = wal /\ final' = final /\ UNCHANGED logVars /\ up' = TRUE /\ durable' = durable
      /\ known \subseteq known' /\ known' \in SUBSET Tables /\ Have' = durable /\ Flushed' = durable
      /\ checkpoint' = 0 /\ confirmed' = 0 /\ token' = 0 /\ snaps'[t] = 0 /\ snapPos'[t] = 0
      /\ knownComplete'[t] = snapPos[t] /\ (Based(t)' <=> t \in Resumable)
      /\ t \in Resumable => /\ t \in known /\ Certified(t)'
                            /\ \A q \in {slot, checkpoint, snapPos[t]} : Older(wal, final, t, q) \subseteq durable
  BY <1>2, BeginFacts
<1>4. s \in Nat /\ 1 <= s /\ head <= s
  BY Pointed
<1>5. LogOK /\ head \in Nat /\ slot \in Nat /\ slot <= head
  BY Within DEF StreamInv
<1>6. /\ ResumeStart \in Nat /\ ResumeStart <= head
      /\ \A u \in Resumable : ResumeStart = slot \/ ResumeStart <= ResumeLSN(u)
  BY <1>2, ResumesAt
<1>7. start' = ResumeStart /\ sent' = 0
  BY <1>2 DEF StartReplication
<1>8. late \in SUBSET Tables
  BY <1>3
<1>9. Positions' = {slot, ResumeStart, 0}
  BY <1>2, <1>3, <1>7 DEF Positions
<1> HIDE DEF late
<1>10. /\ results' \in Seq(Results) /\ (t \notin late => Plain(results', t))
       /\ \A k \in 1..Len(results') : results'[k].token = 0
  <2>1. 0 \in Nat
    OBVIOUS
  <2>2. /\ Snapshots(late, s, 0) \in Seq(Results)
        /\ \A u : u \notin late => Plain(Snapshots(late, s, 0), u)
        /\ \A k \in 1..Len(Snapshots(late, s, 0)) : Snapshots(late, s, 0)[k].token \in {0, 0}
    BY <1>4, <1>8, <2>1, SnapshotPlain
  <2> QED
    BY <1>1, <2>2
<1>11. Len(results') \in Nat
  BY <1>10
<1>12. CASE t \in late
  <2>1. <<>> \in Seq(Results) /\ Len(<<>>) = 0
    OBVIOUS
  <2>2. \A q \in Positions' : q <= s
    BY <1>4, <1>5, <1>6, <1>9
  <2>3. late \subseteq known' /\ t \notin Resumable
    BY <1>12 DEF late
  <2>4. \A k \in 1..Len(<<>>) :
            Cuts(<<>>[k], t) = FALSE /\ Untouched(<<>>[k], t) /\ <<>>[k].token <= s
    BY <2>1
  <2>5. HasSnapshot(<<>> \o Snapshots(late, s, 0), Have', t, s, known', Positions')
    BY <1>4, <1>5, <1>8, <1>12, <2>1, <2>2, <2>3, <2>4, SnapshotCovers
  <2>6. <<>> \o Snapshots(late, s, 0) = results'
    BY <1>1, <1>10, ConcatEmptySeq
  <2>7. ~Based(t)' /\ processed'[t] = s /\ start' \in Nat /\ start' <= s
    BY <1>1, <1>3, <1>4, <1>5, <1>6, <1>7, <1>12, <2>3
  <2> QED
    BY <1>3, <1>4, <1>5, <1>7, <2>5, <2>6, <2>7, FreshCover
<1>13. CASE t \notin known'
  <2>1. t \notin late /\ t \notin Resumable
    BY <1>3, <1>13 DEF late
  <2> QED
    BY <1>3, <1>10, <1>11, <1>13, <2>1, AbsentCover
<1>14. CASE t \in known' /\ t \in Resumable
  <2>1. t \notin late /\ Plain(results', t) /\ t \in known
    BY <1>3, <1>10, <1>14 DEF late
  <2>2. /\ Older(wal, final, t, 0) = {} /\ Older(wal, final, t, 1) = {}
        /\ \A q \in {slot, checkpoint, snapPos[t]} : Older(wal, final, t, q) \subseteq durable
    BY <1>3, <1>5, <1>14, OlderNone
  <2>3. Older(wal, final, t, ResumeLSN(t)) \subseteq durable
    <3>1. ResumeLSN(t) \in {0, checkpoint, snapPos[t]}
      BY DEF ResumeLSN, Max2
    <3> QED
      BY <2>2, <3>1
  <2>4. Older(wal, final, t, start') \subseteq durable
    <3>1. CASE ResumeStart = slot
      BY <1>7, <2>2, <3>1
    <3>2. CASE ResumeStart <= ResumeLSN(t)
      <4>1. ResumeLSN(t) \in Nat
        BY Resuming
      <4>2. Older(wal, final, t, ResumeStart) \subseteq Older(wal, final, t, ResumeLSN(t))
        BY <1>5, <1>6, <3>2, <4>1, OlderRows
      <4> QED
        BY <1>7, <2>3, <4>2
    <3> QED
      BY <1>6, <1>14, <3>1, <3>2
  <2>5. Snapped(results', Have', t, Based(t)', known', Positions')
    BY <2>1 DEF Snapped, Plain
  <2>6. Tokened(results', Have', t, Based(t)')
    BY <1>10, <2>2 DEF Tokened
  <2>7. StateOK(t)'
    <3> SUFFICES /\ t \in known'
                 /\ \A q \in {slot, start', 0, snapPos[t]} : Older(wal, final, t, q) \subseteq durable
                 /\ Older(wal, final, t, 0) \subseteq durable
      BY <1>2, <1>3, <1>14 DEF StateOK
    <3> QED
      BY <1>14, <2>2, <2>4
  <2>8. ReaderOK(t)'
    <3>1. durable \subseteq Delivered(t)'
      <4>1. Delivered(t)' = Out(results', Have', t, Len(results')) \cup accum'[t].rows
        BY DEF Delivered, Out, Cuts
      <4>2. \A x \in durable : x \in Out(results', Have', t, Len(results'))
        BY <1>3, <2>1, InOut DEF Plain
      <4> QED
        BY <4>1, <4>2
    <3>2. Older(wal, final, t, processed'[t]) \subseteq durable
      BY <1>1, <2>1, <2>3
    <3>3. Older(wal, final, t, sent' + 1) = {}
      <4>1. sent' + 1 = 1
        BY <1>7
      <4> QED
        BY <2>2, <4>1
    <3> QED
      BY <1>3, <1>14, <2>4, <3>1, <3>2, <3>3 DEF ReaderOK
  <2> QED
    BY <1>3, <2>5, <2>6, <2>7, <2>8, CoverNext
<1> QED
  BY <1>12, <1>13, <1>14 DEF late

(* With no state at all every known table is snapshotted. *)
LEMMA ReinitializeCover ==
    ASSUME StreamInv, DownOK, NEW t \in Tables, Covered(t), Reinitialize
    PROVE  Covered(t)'
<1>1. PICK s \in Points :
         /\ head' = s /\ slot' = s /\ results' = Snapshots(known', s, s)
         /\ processed' = [u \in Tables |-> IF u \in known' THEN s ELSE 0]
         /\ StartReplication(s)
  BY DEF Reinitialize
<1>2. BeginRun /\ Resumable = {}
  BY DEF Reinitialize
<1>3. /\ UNCHANGED logVars /\ known' \in SUBSET Tables
      /\ checkpoint' = 0 /\ confirmed' = 0 /\ token' = 0 /\ ~Based(t)'
  BY <1>2, BeginFacts
<1>4. s \in Nat /\ 1 <= s
  BY Pointed
<1>5. LogOK
  BY DEF StreamInv
<1>6. start' = s /\ sent' = 0
  BY <1>1 DEF StartReplication
<1>7. Positions' = {s, 0}
  BY <1>1, <1>3, <1>6 DEF Positions
<1>8. results' \in Seq(Results) /\ (t \notin known' => Plain(results', t))
  <2>1. /\ Snapshots(known', s, s) \in Seq(Results)
        /\ \A u : u \notin known' => Plain(Snapshots(known', s, s), u)
    BY <1>3, <1>4, SnapshotPlain
  <2> QED
    BY <1>1, <2>1
<1>9. Len(results') \in Nat
  BY <1>8
<1>10. CASE t \in known'
  <2>1. <<>> \in Seq(Results) /\ Len(<<>>) = 0
    OBVIOUS
  <2>2. (\A q \in Positions' : q <= s) /\ s \in {0, s} /\ known' \subseteq known'
    BY <1>4, <1>7
  <2>4. \A k \in 1..Len(<<>>) :
            Cuts(<<>>[k], t) = FALSE /\ Untouched(<<>>[k], t) /\ <<>>[k].token <= s
    BY <2>1
  <2>5. HasSnapshot(<<>> \o Snapshots(known', s, s), Have', t, s, known', Positions')
    BY <1>3, <1>4, <1>5, <1>10, <2>1, <2>2, <2>4, SnapshotCovers
  <2>6. <<>> \o Snapshots(known', s, s) = results'
    BY <1>1, <1>8, ConcatEmptySeq
  <2>7. processed'[t] = s /\ start' \in Nat /\ start' <= s
    BY <1>1, <1>4, <1>6, <1>10
  <2> QED
    BY <1>3, <1>4, <1>5, <1>6, <2>5, <2>6, <2>7, FreshCover
<1>11. CASE t \notin known'
  BY <1>3, <1>8, <1>9, <1>11, AbsentCover
<1> QED
  BY <1>10, <1>11

(* What lies before the slot the reader has handed on: a stream that       *)
(* begins again there has no need of it.                                   *)
LEMMA SlotHandedOn ==
    ASSUME StreamInv, NEW t \in Tables, Covered(t), up, t \in known
    PROVE  Older(wal, final, t, slot) \subseteq Out(results, Have, t, Len(results))
<1>1. /\ Snapped(results, Have, t, Based(t), known, Positions) /\ StateOK(t)
      /\ Based(t) \/ \E k \in 1..Len(results) : t \in results[k].snaps
  BY DEF Covered, ReaderOK
<1>2. results \in Seq(Results) /\ LogOK
  BY DEF StreamInv, Shape
<1>3. Len(results) \in Nat
  BY <1>2
<1>4. CASE Based(t)
  <2>1. \A k \in 1..Len(results) : ~Cuts(results[k], t)
    BY <1>1, <1>4 DEF Snapped
  <2>2. Older(wal, final, t, slot) \subseteq durable \cup Flushed
    BY <1>1, <1>4 DEF StateOK
  <2>3. Older(wal, final, t, slot) \subseteq Have
    BY <2>2 DEF Flushed, Have
  <2> QED
    BY <2>1, <2>3, InOut
<1>5. ASSUME NEW k \in 1..Len(results), t \in results[k].snaps
      PROVE  Older(wal, final, t, slot) \subseteq Out(results, Have, t, Len(results))
  <2>1. /\ Older(wal, final, t, results[k].at) \subseteq Out(results, Have, t, k)
        /\ slot <= results[k].at
    BY <1>1, <1>5 DEF Snapped, Positions
  <2>2. slot \in Nat /\ results[k].at \in Nat
    <3>1. results[k] \in Results
      BY <1>2
    <3> QED
      BY <3>1, Within DEF Results
  <2>3. \A j \in (k + 1)..Len(results) : ~Cuts(results[j], t)
    <3> SUFFICES ASSUME NEW j \in (k + 1)..Len(results), Cuts(results[j], t) PROVE FALSE
      OBVIOUS
    <3>1. j \in 1..Len(results) /\ k \in 1..(j - 1)
      BY <1>3
    <3>2. Untouched(results[k], t)
      BY <1>1, <3>1 DEF Snapped
    <3> QED
      BY <1>5, <3>2 DEF Untouched
  <2>4. k \in Nat /\ k <= Len(results)
    BY <1>3
  <2>5. Out(results, Have, t, k) \subseteq Out(results, Have, t, Len(results))
    BY <1>3, <2>3, <2>4, OutGrows
  <2>6. Older(wal, final, t, slot) \subseteq Older(wal, final, t, results[k].at)
    BY <1>2, <2>1, <2>2, OlderRows
  <2> QED
    BY <2>1, <2>5, <2>6
<1> QED
  BY <1>1, <1>4, <1>5

(* A late table gets its snapshot, behind a channel that has nothing of    *)
(* it; for the others the stream begins again at the slot, and what lies   *)
(* before that they have.                                                  *)
LEMMA DiscoverCover ==
    ASSUME StreamInv, ChannelOK, NEW t \in Tables, Covered(t), Discover
    PROVE  Covered(t)'
<1> DEFINE full == Filled(accum)
           late == Tables \ known
<1>1. PICK s \in Points :
         /\ head' = s
         /\ \E order \in SetToSeqs(full) : results' = results \o Emit(accum, d, order) \o Snapshots(late, s, 0)
         /\ processed' = [u \in Tables |-> IF u \in late THEN s ELSE processed[u]]
  BY DEF Discover
<1>2. PICK order \in SetToSeqs(full) : results' = results \o Emit(accum, d, order) \o Snapshots(late, s, 0)
  BY <1>1
<1>3. PICK out : out = Emit(accum, d, order)
  OBVIOUS
<1>4. /\ known' = Tables /\ UNCHANGED logVars /\ StartReplication(slot) /\ slot' = slot /\ up /\ up' = up
      /\ checkpoint' = checkpoint /\ snapPos' = snapPos
      /\ knownComplete' = knownComplete /\ durable' = durable
      /\ pstep' = pstep /\ held' = held /\ token' = token /\ snaps' = snaps /\ confirmed' = confirmed
  BY DEF Discover, storeVars, pipeVars
<1> DEFINE ch == results \o out
           sp == Snapshots(late, s, 0)
           D == Out(results, Have, t, Len(results))
<1>5. results' = ch \o sp
  BY <1>2, <1>3
<1>6. s \in Nat /\ 1 <= s /\ head <= s
  BY Pointed
<1>7. LogOK /\ head \in Nat /\ slot \in Nat /\ slot <= head /\ results \in Seq(Results) /\ Fine(results, head)
      /\ known \subseteq Tables
  BY Within DEF StreamInv, Shape
<1>8. Emits(out, accum, d, full, start, sent, head)
  BY <1>3, Gathering
<1>9. out \in Seq(Results) /\ Plain(out, t) /\ Fine(out, head)
  <2>1. Fine(out, head)
    BY <1>7, <1>8, FineEmits
  <2> QED
    BY <1>8, <2>1 DEF Emits, Plain, Cuts
<1>10. /\ ch \in Seq(Results) /\ Len(ch) \in Nat /\ Len(results) \in Nat /\ Len(out) \in Nat
       /\ Len(ch) = Len(results) + Len(out)
       /\ \A j \in 1..Len(results) : ch[j] = results[j]
       /\ \A j \in 1..Len(out) : ch[Len(results) + j] = out[j]
       /\ \A k \in 1..Len(ch) : k \in 1..Len(results) \/ \E j \in 1..Len(out) : k = Len(results) + j
  <2>1. /\ ch \in Seq(Results) /\ Len(results) \in Nat /\ Len(out) \in Nat
        /\ Len(ch) = Len(results) + Len(out)
        /\ \A j \in 1..Len(results) : ch[j] = results[j]
        /\ \A j \in 1..Len(out) : ch[Len(results) + j] = out[j]
        /\ \A k \in 1..Len(ch) : k \in 1..Len(results) \/ \E j \in 1..Len(out) : k = Len(results) + j
    BY <1>7, <1>9, Joined
  <2> HIDE DEF ch
  <2> QED
    BY <2>1
<1>11. start' = slot /\ sent' = 0 /\ d'.committed = {} /\ accum' = NoRows
  BY <1>4, <1>7, ReaderBegins
<1>12. /\ Have' = Have /\ Based(t)' = Based(t) /\ Positions' \in SUBSET Positions
       /\ wal' = wal /\ final' = final
  BY <1>4, <1>11 DEF Have, Based, Positions, logVars
<1>13. /\ Snapped(results, Have, t, Based(t), known, Positions)
       /\ Tokened(results, Have, t, Based(t)) /\ StateOK(t) /\ ReaderOK(t)
  BY <1>4 DEF Covered
<1>14. late \in SUBSET Tables
  OBVIOUS
<1> HIDE DEF ch, late, sp
<1>15. /\ sp \in Seq(Results) /\ (t \notin late => Plain(sp, t))
       /\ \A k \in 1..Len(sp) : sp[k].token = 0
  <2>1. 0 \in Nat
    OBVIOUS
  <2>2. /\ Snapshots(late, s, 0) \in Seq(Results)
        /\ \A u : u \notin late => Plain(Snapshots(late, s, 0), u)
        /\ \A k \in 1..Len(Snapshots(late, s, 0)) : Snapshots(late, s, 0)[k].token \in {0, 0}
    BY <1>6, <1>14, <2>1, SnapshotPlain
  <2> QED
    BY <2>2 DEF sp
<1>16. CASE t \in known
  <2> DEFINE R == accum[t].rows
  <2>1. t \notin late
    BY <1>16 DEF late
  <2>2. /\ Older(wal, final, t, start) \subseteq D \cup R
        /\ Older(wal, final, t, processed[t]) \subseteq D \cup R
        /\ Older(wal, final, t, sent + 1) \subseteq D \cup R \cup d.committed
    BY <1>13, <1>16 DEF ReaderOK, Delivered
  <2> HIDE DEF D
  <2>3. \A k \in 1..Len(out) : Older(wal, final, t, out[k].token) \subseteq D \cup (UNION {out[j].rows : j \in 1..k})
    <3> TAKE k \in 1..Len(out)
    <3> DEFINE U == UNION {out[j].rows : j \in 1..k}
    <3>1. Covers(out[k].token, t, d, accum, start, sent, U)
      BY <1>8 DEF Emits
    <3> HIDE DEF U
    <3>2. Older(wal, final, t, out[k].token) \subseteq D \cup U
      BY <2>2, <3>1 DEF Covers
    <3> QED
      BY <3>2 DEF U
  <2>4. Snapped(ch, Have, t, Based(t), known, Positions') /\ Tokened(ch, Have, t, Based(t))
    <3>1. Snapped(results \o out, Have, t, Based(t), known, Positions')
      BY <1>7, <1>9, <1>12, <1>13, SnappedAppended
    <3>2. Tokened(results \o out, Have, t, Based(t))
      BY <1>7, <1>9, <1>13, <2>3, TokenedAppended DEF D
    <3> QED
      BY <3>1, <3>2 DEF ch
  <2>5. Older(wal, final, t, 0) = {} /\ Older(wal, final, t, 1) = {}
    BY <1>7, OlderNone
  <2>6. Snapped(results', Have', t, Based(t)', known', Positions')
    <3>1. Snapped(ch \o sp, Have, t, Based(t), Tables, Positions')
      BY <1>7, <1>10, <1>15, <2>1, <2>4, SnappedAppended
    <3> QED
      BY <1>4, <1>5, <1>12, <3>1
  <2>7. Tokened(results', Have', t, Based(t)')
    <3>1. \A k \in 1..Len(sp) : Older(wal, final, t, sp[k].token) = {}
      BY <1>15, <2>5
    <3>2. \A k \in 1..Len(sp) : Older(wal, final, t, sp[k].token)
              \subseteq Out(ch, Have, t, Len(ch)) \cup (UNION {sp[j].rows : j \in 1..k})
      BY <3>1
    <3>3. Tokened(ch \o sp, Have, t, Based(t))
      BY <1>10, <1>15, <2>1, <2>4, <3>2, TokenedAppended
    <3> QED
      BY <1>5, <1>12, <3>3
  <2>8. /\ D \cup R \subseteq Delivered(t)'
        /\ \A k \in 1..Len(results) : k \in 1..Len(results') /\ results'[k] = results[k]
    <3>1. /\ Len(sp) \in Nat /\ Len(results') = Len(ch) + Len(sp)
          /\ \A j \in 1..Len(ch) : results'[j] = ch[j]
      BY <1>5, <1>10, <1>15, Joined
    <3>2. Appends(results, out, Have, t) /\ Appends(ch, sp, Have, t)
      <4>1. (\A k \in 1..Len(out) : ~Cuts(out[k], t)) /\ \A k \in 1..Len(sp) : ~Cuts(sp[k], t)
        BY <1>9, <1>15, <2>1 DEF Plain
      <4>2. Appends(results, out, Have, t)
        BY <1>7, <1>9, <4>1, OutAppended
      <4>3. Appends(ch, sp, Have, t)
        BY <1>10, <1>15, <4>1, OutAppended
      <4> QED
        BY <4>2, <4>3
    <3>3. D \cup (UNION {out[j].rows : j \in 1..Len(out)}) \subseteq Out(ch, Have, t, Len(ch))
      <4>1. Len(out) \in 0..Len(out)
        BY <1>10
      <4> QED
        BY <1>10, <3>2, <4>1 DEF Appends, D, ch
    <3>4. Out(ch, Have, t, Len(ch)) \subseteq Out(results', Have, t, Len(results'))
      <4>1. Len(sp) \in 0..Len(sp)
        BY <3>1
      <4> QED
        BY <1>5, <3>1, <3>2, <4>1 DEF Appends
    <3>5. R \subseteq UNION {out[j].rows : j \in 1..Len(out)}
      <4>1. CASE R = {}
        BY <4>1
      <4>2. CASE R # {}
        <5>1. t \in full
          BY <4>2 DEF Filled
        <5>2. PICK k \in 1..Len(out) : out[k].rows = R
          BY <1>8, <5>1 DEF Emits
        <5> QED
          BY <5>2
      <4> QED
        BY <4>1, <4>2
    <3>6. Delivered(t)' = Out(results', Have, t, Len(results')) \cup accum'[t].rows
      BY <1>12 DEF Delivered, Out, Cuts
    <3>7. ASSUME NEW k \in 1..Len(results) PROVE k \in 1..Len(results') /\ results'[k] = results[k]
      <4>1. k \in 1..Len(ch)
        BY <1>10
      <4>2. k \in 1..Len(results')
        BY <1>10, <3>1, <4>1
      <4> QED
        BY <1>10, <3>1, <4>1, <4>2
    <3> HIDE DEF R
    <3> QED
      BY <3>3, <3>4, <3>5, <3>6, <3>7
  <2>9. StateOK(t)'
    <3> SUFFICES ASSUME Based(t)
                 PROVE  /\ t \in Tables
                        /\ \A q \in {slot, checkpoint, confirmed, snapPos[t], knownComplete[t]} :
                              Older(wal, final, t, q) \subseteq IF Certified(t) THEN durable ELSE Flushed
                        /\ \A q \in {token, snaps[t]} : Older(wal, final, t, q) \subseteq Flushed
      BY <1>4, <1>11, <1>12 DEF StateOK, Flushed, Certified
    <3> QED
      BY <1>13 DEF StateOK
  <2>10. ReaderOK(t)'
    <3>1. Based(t)' \/ \E k \in 1..Len(results') : t \in results'[k].snaps
      <4>1. Based(t) \/ \E k \in 1..Len(results) : t \in results[k].snaps
        BY <1>13, <1>16 DEF ReaderOK
      <4> QED
        BY <1>12, <2>8, <4>1
    <3>2. Older(wal, final, t, start') \subseteq Delivered(t)'
      <4>1. Older(wal, final, t, slot) \subseteq D
        BY <1>4, <1>16, SlotHandedOn DEF D
      <4> QED
        BY <1>11, <2>8, <4>1
    <3>3. Older(wal, final, t, processed'[t]) \subseteq Delivered(t)'
      <4>1. processed'[t] = processed[t]
        BY <1>1, <2>1
      <4> QED
        BY <2>2, <2>8, <4>1
    <3>4. Older(wal, final, t, sent' + 1) = {}
      <4>1. sent' + 1 = 1
        BY <1>11
      <4> QED
        BY <2>5, <4>1
    <3> QED
      BY <1>12, <3>1, <3>2, <3>3, <3>4 DEF ReaderOK
  <2>11. UNCHANGED logVars
    BY <1>4
  <2> QED
    BY <2>6, <2>7, <2>9, <2>10, <2>11, CoverNext
<1>17. CASE t \notin known
  <2>1. t \in late /\ processed'[t] = s
    BY <1>1, <1>17 DEF late
  <2>2. ~Based(t)
    BY <1>13, <1>17 DEF StateOK
  <2>3. ASSUME NEW k \in 1..Len(results)
        PROVE  ~Cuts(results[k], t) /\ Untouched(results[k], t) /\ results[k].token <= s
    <3>1. ~Cuts(results[k], t) /\ t \notin results[k].snaps
      BY <1>13, <1>17 DEF Snapped
    <3>2. \A x \in results[k].rows : TableOf(x) # t
      BY <1>17 DEF ChannelOK, OfKnown
    <3>3. results[k].token <= head /\ results[k].token \in Nat
      <4>1. results[k] \in Results
        BY <1>7
      <4> QED
        BY <1>7, <4>1 DEF Fine, Sound, Results
    <3> QED
      BY <1>6, <1>7, <3>1, <3>2, <3>3 DEF Untouched
  <2>4. ASSUME NEW k \in 1..Len(out)
        PROVE  ~Cuts(out[k], t) /\ Untouched(out[k], t) /\ out[k].token <= s
    <3>1. /\ out[k].table \in full /\ ~out[k].fresh /\ out[k].snaps = {}
          /\ out[k].token \in Nat /\ out[k].token <= head
          /\ \A r \in out[k].rows : TableOf(r) = out[k].table
      BY <1>8 DEF Emits
    <3>2. out[k].table # t
      BY <1>17, <3>1 DEF ChannelOK
    <3> QED
      BY <1>6, <1>7, <3>1, <3>2 DEF Untouched, Cuts
  <2>5. \A k \in 1..Len(ch) : ~Cuts(ch[k], t) /\ Untouched(ch[k], t) /\ ch[k].token <= s
    <3> TAKE k \in 1..Len(ch)
    <3>1. CASE k \in 1..Len(results)
      BY <1>10, <2>3, <3>1
    <3>2. ASSUME NEW j \in 1..Len(out), k = Len(results) + j
          PROVE  ~Cuts(ch[k], t) /\ Untouched(ch[k], t) /\ ch[k].token <= s
      BY <1>10, <2>4, <3>2
    <3> QED
      BY <1>10, <3>1, <3>2
  <2>6. \A q \in Positions' : q \in Nat /\ q <= s
    <3>1. \A q \in Positions : q \in Nat /\ q <= head
      BY Within DEF Positions
    <3> QED
      BY <1>6, <1>7, <1>12, <3>1
  <2>7. late \subseteq known' /\ 0 \in {0, s}
    BY <1>4, <1>14
  <2>8. HasSnapshot(ch \o Snapshots(late, s, 0), Have', t, s, known', Positions')
    BY <1>6, <1>7, <1>10, <1>14, <2>1, <2>5, <2>6, <2>7, SnapshotCovers
  <2>9. HasSnapshot(results', Have', t, s, known', Positions')
    BY <1>5, <2>8 DEF sp
  <2>10. start' \in Nat /\ start' <= s /\ sent' = 0 /\ ~Based(t)'
    BY <1>6, <1>7, <1>11, <1>12, <2>2
  <2> QED
    BY <1>4, <1>6, <1>7, <2>1, <2>9, <2>10, FreshCover
<1> QED
  BY <1>16, <1>17

(* Taking a result: a truncation only meets a table without state, and the *)
(* position of its snapshot is taken when its rows are.                    *)
LEMMA BufferCover ==
    ASSUME StreamInv, NEW t \in Tables, Covered(t), Buffer
    PROVE  Covered(t)'
<1> DEFINE r == Head(results)
           rest == Tail(results)
<1>1. /\ up /\ up' = up /\ pstep = "run" /\ pstep' = "run" /\ results # <<>> /\ snaps[t] = 0
      /\ r.fresh => held = {} /\ token = 0
      /\ durable' = IF r.fresh THEN {x \in durable : TableOf(x) # r.table} ELSE durable
      /\ held' = held \cup r.rows
      /\ token' = IF r.token # 0 THEN r.token ELSE token
      /\ snaps'[t] = IF t \in r.snaps THEN r.at ELSE 0
      /\ results' = rest
      /\ UNCHANGED <<logVars, slot, checkpoint, snapPos, knownComplete, confirmed, known, start, sent, d,
                     processed, accum>>
  BY DEF Buffer, serverVars, readerVars
<1>2. LogOK /\ results \in Seq(Results)
  BY DEF StreamInv, Shape
<1>3. /\ r = results[1] /\ r \in Results /\ rest \in Seq(Results)
      /\ Len(results) \in Nat /\ 1 <= Len(results) /\ Len(rest) = Len(results) - 1
      /\ \A k \in 1..Len(rest) : rest[k] = results[k + 1] /\ k + 1 \in 1..Len(results)
  BY <1>1, <1>2, Shifted
<1> HIDE DEF r, rest
<1>4. Len(rest) \in Nat /\ Len(rest) + 1 = Len(results) /\ 1 \in 1..Len(results)
  BY <1>3
<1>5. /\ Snapped(results, Have, t, Based(t), known, Positions)
      /\ Tokened(results, Have, t, Based(t)) /\ StateOK(t) /\ ReaderOK(t)
  BY <1>1 DEF Covered
<1>6. /\ wal' = wal /\ final' = final /\ slot' = slot /\ checkpoint' = checkpoint /\ confirmed' = confirmed
      /\ known' = known /\ start' = start /\ sent' = sent /\ d' = d /\ processed' = processed /\ accum' = accum
      /\ snapPos' = snapPos /\ knownComplete' = knownComplete /\ UNCHANGED logVars
  BY <1>1 DEF logVars
<1>7. /\ slot \in Nat /\ start \in Nat /\ checkpoint \in Nat /\ confirmed \in Nat /\ token \in Nat
      /\ snapPos[t] \in Nat /\ knownComplete[t] \in Nat /\ processed[t] \in Nat /\ sent \in Nat
      /\ r.token \in Nat /\ r.at \in Nat
  BY <1>3, Within DEF Results
<1>8. t \in r.snaps => /\ t \in known /\ 1 <= r.at /\ Older(wal, final, t, r.at) \subseteq Out(results, Have, t, 1)
                       /\ \A q \in Positions : q <= r.at
                       /\ r.token <= r.at
  BY <1>3, <1>4, <1>5 DEF Snapped
<1>9. Based(t)' <=> Based(t) \/ t \in r.snaps
  BY <1>1, <1>6, <1>7, <1>8 DEF Based
<1>10. Cuts(r, t) => ~Based(t) /\ t \notin r.snaps
  BY <1>3, <1>4, <1>5 DEF Snapped
<1>11. /\ r.rows \subseteq Have' /\ Flushed' = Have' /\ Flushed = Have
       /\ ~Cuts(r, t) => \A x \in durable : TableOf(x) = t => x \in durable'
       /\ ~Cuts(r, t) => \A x \in Have : TableOf(x) = t => x \in Have'
  BY <1>1 DEF Have, Flushed, Cuts
<1>12. ASSUME NEW k \in Nat, k + 1 <= Len(results), NEW q \in Nat, NEW x \in Older(wal, final, t, q),
              x \in Out(results, Have, t, k + 1)
       PROVE  x \in Out(rest, Have', t, k)
  <2>1. TableOf(x) = t
    BY <1>2, OlderRows
  <2>2. \A i \in 1..Len(results) : Cuts(results[i], t) => \A j \in 1..(i - 1) : Untouched(results[j], t)
    BY <1>5 DEF Snapped
  <2>3. results[1].rows \subseteq Have' /\ (Cuts(results[1], t) \/ \A y \in Have : TableOf(y) = t => y \in Have')
    BY <1>3, <1>11
  <2> QED
    BY <1>1, <1>2, <1>12, <2>1, <2>2, <2>3, OutShifted DEF rest
<1>13. ASSUME NEW q \in Nat, Older(wal, final, t, q) \subseteq Out(results, Have, t, 1)
       PROVE  Older(wal, final, t, q) \subseteq Have'
  <2> SUFFICES ASSUME NEW x \in Older(wal, final, t, q) PROVE x \in Have'
    OBVIOUS
  <2>1. x \in Out(results, Have, t, 0 + 1) /\ 0 \in Nat /\ 0 + 1 <= Len(results)
    BY <1>3, <1>13
  <2>2. x \in Out(rest, Have', t, 0)
    BY <1>12, <2>1
  <2> QED
    BY <2>2, InOut
<1>14. Positions' = {slot, start, checkpoint, confirmed, token'}
  BY <1>6 DEF Positions
<1>15. ASSUME NEW k \in 1..Len(rest)
       PROVE  /\ k \in Nat /\ k + 1 \in 1..Len(results) /\ k + 1 <= Len(results) /\ rest[k] = results[k + 1]
              /\ \A j \in 1..k : j + 1 \in 1..(k + 1) /\ rest[j] = results[j + 1]
              /\ 1 \in 1..((k + 1) - 1) /\ 1 \in 1..(k + 1)
              /\ \A j \in 1..(k - 1) : j + 1 \in 1..((k + 1) - 1) /\ rest[j] = results[j + 1]
  BY <1>3, <1>4
<1>16. ASSUME NEW k \in 1..Len(rest), Cuts(rest[k], t)
       PROVE  t \in known /\ ~Based(t)' /\ t \notin rest[k].snaps /\ \A j \in 1..(k - 1) : Untouched(rest[j], t)
  <2>1. k + 1 \in 1..Len(results) /\ Cuts(results[k + 1], t) /\ 1 \in 1..((k + 1) - 1)
    BY <1>15, <1>16
  <2>2. /\ t \in known /\ ~Based(t) /\ t \notin results[k + 1].snaps
        /\ \A j \in 1..((k + 1) - 1) : Untouched(results[j], t)
    BY <1>5, <2>1 DEF Snapped
  <2>3. t \notin r.snaps
    BY <1>3, <2>1, <2>2 DEF Untouched
  <2> QED
    BY <1>9, <1>15, <2>2, <2>3
<1>17. ASSUME NEW k \in 1..Len(rest), t \in rest[k].snaps
       PROVE  /\ t \in known /\ 1 <= rest[k].at /\ Older(wal, final, t, rest[k].at) \subseteq Out(rest, Have', t, k)
              /\ \A q \in Positions' : q <= rest[k].at
              /\ \A j \in 1..k : rest[j].token <= rest[k].at
  <2>1. k + 1 \in 1..Len(results) /\ t \in results[k + 1].snaps /\ rest[k] = results[k + 1]
        /\ 1 \in 1..(k + 1) /\ k \in Nat /\ k + 1 <= Len(results)
    BY <1>15, <1>17
  <2>2. /\ t \in known /\ 1 <= results[k + 1].at
        /\ Older(wal, final, t, results[k + 1].at) \subseteq Out(results, Have, t, k + 1)
        /\ \A q \in Positions : q <= results[k + 1].at
        /\ \A j \in 1..(k + 1) : results[j].token <= results[k + 1].at
    BY <1>5, <2>1 DEF Snapped
  <2>3. results[k + 1].at \in Nat
    <3>1. results[k + 1] \in Results
      BY <1>2, <2>1
    <3> QED
      BY <3>1 DEF Results
  <2>4. Older(wal, final, t, rest[k].at) \subseteq Out(rest, Have', t, k)
    BY <1>12, <2>1, <2>2, <2>3
  <2>5. \A q \in Positions' : q <= results[k + 1].at
    <3>1. r.token <= results[k + 1].at
      BY <1>3, <2>1, <2>2
    <3>2. token' \in {token, r.token}
      BY <1>1
    <3> QED
      BY <1>14, <2>2, <3>1, <3>2 DEF Positions
  <2>6. \A j \in 1..k : rest[j].token <= rest[k].at
    BY <1>15, <2>1, <2>2
  <2> QED
    BY <2>1, <2>2, <2>4, <2>5, <2>6
<1>18. Snapped(results', Have', t, Based(t)', known', Positions')
  BY <1>1, <1>6, <1>16, <1>17 DEF Snapped
<1>19. Tokened(results', Have', t, Based(t)')
  <2> SUFFICES ASSUME NEW k \in 1..Len(rest), Based(t)' \/ \E j \in 1..k : t \in rest[j].snaps
               PROVE  Older(wal, final, t, rest[k].token) \subseteq Out(rest, Have', t, k)
    BY <1>1 DEF Tokened
  <2>1. Based(t) \/ \E j \in 1..(k + 1) : t \in results[j].snaps
    <3>1. CASE Based(t)
      BY <3>1
    <3>2. CASE t \in r.snaps
      BY <1>3, <1>15, <3>2
    <3>3. ASSUME NEW j \in 1..k, t \in rest[j].snaps PROVE \E i \in 1..(k + 1) : t \in results[i].snaps
      BY <1>15, <3>3
    <3> QED
      BY <1>9, <3>1, <3>2, <3>3
  <2>2. k \in Nat /\ k + 1 \in 1..Len(results) /\ rest[k] = results[k + 1] /\ k + 1 <= Len(results)
    BY <1>15
  <2>3. Older(wal, final, t, results[k + 1].token) \subseteq Out(results, Have, t, k + 1)
    BY <1>5, <2>1, <2>2 DEF Tokened
  <2>4. results[k + 1].token \in Nat
    <3>1. results[k + 1] \in Results
      BY <1>2, <2>2
    <3> QED
      BY <3>1 DEF Results
  <2> QED
    BY <1>12, <2>2, <2>3, <2>4
<1>20. StateOK(t)'
  <2> SUFFICES ASSUME Based(t)'
               PROVE  /\ t \in known
                      /\ \A q \in {slot, start, checkpoint, confirmed, snapPos[t], knownComplete[t]} :
                            Older(wal, final, t, q) \subseteq IF Certified(t) THEN durable' ELSE Have'
                      /\ \A q \in {token', snaps'[t]} : Older(wal, final, t, q) \subseteq Have'
    <3>1. Certified(t)' = Certified(t)
      BY <1>6 DEF Certified
    <3> QED
      BY <1>6, <1>11, <3>1 DEF StateOK
  <2>1. t \in known
    BY <1>5, <1>8, <1>9 DEF StateOK
  <2>2. ~Cuts(r, t)
    BY <1>9, <1>10
  <2>3. t \in r.snaps => Older(wal, final, t, r.at) \subseteq Have'
    BY <1>7, <1>8, <1>13
  <2>4. Older(wal, final, t, r.token) \subseteq Have'
    <3>1. Based(t) \/ \E j \in 1..1 : t \in results[j].snaps
      BY <1>3, <1>9
    <3>2. Older(wal, final, t, r.token) \subseteq Out(results, Have, t, 1)
      BY <1>3, <1>4, <1>5, <3>1 DEF Tokened
    <3> QED
      BY <1>7, <1>13, <3>2
  <2>5. Older(wal, final, t, 0) = {}
    BY <1>2, OlderNone
  <2>6. ASSUME NEW q \in Nat, q <= r.at, t \in r.snaps PROVE Older(wal, final, t, q) \subseteq Have'
    BY <1>2, <1>7, <2>3, <2>6, OlderRows
  <2>7. \A q \in Nat : \A x \in Older(wal, final, t, q) : TableOf(x) = t
    BY <1>2, OlderRows
  <2>8. CASE Certified(t)
    <3>1. Based(t)
      BY <2>8 DEF Certified, Based
    <3>2. \A q \in {slot, start, checkpoint, confirmed, snapPos[t], knownComplete[t]} :
              Older(wal, final, t, q) \subseteq durable
      BY <1>5, <2>8, <3>1 DEF StateOK
    <3>3. \A q \in {slot, start, checkpoint, confirmed, snapPos[t], knownComplete[t]} :
              Older(wal, final, t, q) \subseteq durable'
      BY <1>7, <1>11, <2>2, <2>7, <3>2
    <3>4. Older(wal, final, t, token) \subseteq Have'
      <4>1. Older(wal, final, t, token) \subseteq Have
        BY <1>5, <1>11, <3>1 DEF StateOK
      <4> QED
        BY <1>7, <1>11, <2>2, <2>7, <4>1
    <3>5. Older(wal, final, t, token') \subseteq Have'
      BY <1>1, <2>4, <3>4
    <3>6. Older(wal, final, t, snaps'[t]) \subseteq Have'
      BY <1>1, <2>3, <2>5
    <3> QED
      BY <2>1, <2>8, <3>3, <3>5, <3>6
  <2>9. CASE ~Certified(t)
    <3>1. snapPos[t] = 0 /\ knownComplete[t] = 0 /\ t \in r.snaps
      BY <1>1, <1>9, <2>9 DEF Certified, Based
    <3>2. \A q \in {slot, start, checkpoint, confirmed, token} : q \in Nat /\ q <= r.at
      BY <1>7, <1>8, <3>1 DEF Positions
    <3>3. \A q \in {slot, start, checkpoint, confirmed, token} : Older(wal, final, t, q) \subseteq Have'
      BY <2>6, <3>1, <3>2
    <3>4. Older(wal, final, t, token') \subseteq Have'
      BY <1>1, <2>4, <3>3
    <3>5. Older(wal, final, t, snaps'[t]) \subseteq Have'
      BY <1>1, <2>3, <3>1
    <3> QED
      BY <2>1, <2>5, <2>9, <3>1, <3>3, <3>4, <3>5
  <2> QED
    BY <2>8, <2>9
<1>21. ReaderOK(t)'
  <2> SUFFICES ASSUME t \in known
               PROVE  /\ Based(t)' \/ \E k \in 1..Len(rest) : t \in rest[k].snaps
                      /\ \A q \in {start, processed[t]} : Older(wal, final, t, q) \subseteq Delivered(t)'
                      /\ Older(wal, final, t, sent + 1) \subseteq Delivered(t)' \cup d.committed
    BY <1>1, <1>6 DEF ReaderOK
  <2>1. /\ Based(t) \/ \E k \in 1..Len(results) : t \in results[k].snaps
        /\ \A q \in {start, processed[t]} : Older(wal, final, t, q) \subseteq Delivered(t)
        /\ Older(wal, final, t, sent + 1) \subseteq Delivered(t) \cup d.committed
    BY <1>5 DEF ReaderOK
  <2>2. Based(t)' \/ \E k \in 1..Len(rest) : t \in rest[k].snaps
    <3>1. CASE Based(t)
      BY <1>9, <3>1
    <3>2. ASSUME NEW k \in 1..Len(results), t \in results[k].snaps
          PROVE  Based(t)' \/ \E i \in 1..Len(rest) : t \in rest[i].snaps
      <4>1. CASE k = 1
        BY <1>3, <1>9, <3>2, <4>1
      <4>2. CASE k # 1
        <5>1. k - 1 \in 1..Len(rest) /\ (k - 1) + 1 = k
          BY <1>3, <4>2
        <5> QED
          BY <1>3, <3>2, <5>1
      <4> QED
        BY <4>1, <4>2
    <3> QED
      BY <2>1, <3>1, <3>2
  <2>3. Delivered(t)' = Out(rest, Have', t, Len(rest)) \cup accum[t].rows
    BY <1>1, <1>6 DEF Delivered, Out, Cuts
  <2>4. ASSUME NEW q \in Nat, NEW x \in Older(wal, final, t, q), x \in Delivered(t) PROVE x \in Delivered(t)'
    <3>1. x \in Out(results, Have, t, Len(rest) + 1) \/ x \in accum[t].rows
      BY <1>4, <2>4 DEF Delivered
    <3>2. Len(rest) + 1 <= Len(results)
      BY <1>3, <1>4
    <3> QED
      BY <1>4, <1>12, <2>3, <2>4, <3>1, <3>2
  <2>5. sent + 1 \in Nat
    BY <1>7
  <2> QED
    BY <1>7, <2>1, <2>2, <2>4, <2>5
<1> QED
  BY <1>6, <1>18, <1>19, <1>20, <1>21, CoverNext

(* A step of the pipeline that leaves alone the channel, the reader, and   *)
(* what the pipeline has.                                                  *)
LEMMA StageCover ==
    ASSUME StreamInv, NEW t \in Tables, Covered(t), up,
           UNCHANGED <<logVars, results, readerVars>>, Have' = Have, Based(t)' <=> Based(t),
           Positions' \subseteq Positions \cup {0}, StateOK(t)'
    PROVE  Covered(t)'
<1>1. /\ results' = results /\ known' = known /\ start' = start /\ sent' = sent /\ d' = d
      /\ processed' = processed /\ accum' = accum /\ wal' = wal /\ final' = final
  BY DEF readerVars, logVars
<1>2. /\ Snapped(results, Have, t, Based(t), known, Positions) /\ ReaderOK(t)
      /\ Tokened(results, Have, t, Based(t))
  BY DEF Covered
<1>3. Snapped(results, Have, t, Based(t)', known, Positions')
  <2>1. ASSUME NEW k \in 1..Len(results), t \in results[k].snaps, NEW q \in Positions'
        PROVE  q <= results[k].at
    <3>1. results[k].at \in Nat
      <4>1. results \in Seq(Results)
        BY DEF StreamInv, Shape
      <4>2. results[k] \in Results
        BY <4>1
      <4> QED
        BY <4>2 DEF Results
    <3>2. CASE q \in Positions
      BY <1>2, <2>1, <3>2 DEF Snapped
    <3>3. CASE q = 0
      BY <3>1, <3>3
    <3> QED
      BY <3>2, <3>3
  <2> QED
    BY <1>2, <2>1 DEF Snapped
<1>4. Tokened(results, Have, t, Based(t)')
  BY <1>2 DEF Tokened
<1>5. Snapped(results', Have', t, Based(t)', known', Positions') /\ Tokened(results', Have', t, Based(t)')
  BY <1>1, <1>3, <1>4
<1>6. ReaderOK(t)'
  BY <1>1, <1>2 DEF ReaderOK, Delivered, Out, Cuts
<1>7. UNCHANGED logVars
  OBVIOUS
<1> QED
  BY <1>5, <1>6, <1>7, CoverNext

(* Writing: the rows held are durable. *)
LEMMA FlushCover ==
    ASSUME StreamInv, NEW t \in Tables, Covered(t), Flush
    PROVE  Covered(t)'
<1>1. /\ up /\ pstep = "run" /\ durable' = durable \cup held /\ held' = {} /\ pstep' = "persist"
      /\ UNCHANGED <<serverVars, checkpoint, snapPos, knownComplete, readerVars, results, token, snaps, confirmed>>
  BY DEF Flush
<1>2. /\ UNCHANGED <<logVars, results, readerVars>> /\ slot' = slot /\ start' = start /\ known' = known
      /\ wal' = wal /\ final' = final
  BY <1>1 DEF serverVars, logVars, readerVars
<1>3. Have' = Have /\ Flushed = Have /\ Flushed' = Have /\ durable' = Have
  BY <1>1 DEF Have, Flushed
<1>4. Positions' \subseteq Positions \cup {0}
  BY <1>1, <1>2 DEF Positions
<1>5. (Based(t)' <=> Based(t)) /\ (Certified(t)' <=> Certified(t))
  BY <1>1 DEF Based, Certified
<1>6. StateOK(t)'
  <2> SUFFICES ASSUME Based(t)
               PROVE  /\ t \in known
                      /\ \A q \in {slot, start, checkpoint, confirmed, snapPos[t], knownComplete[t]} :
                            Older(wal, final, t, q) \subseteq Have
                      /\ \A q \in {token, snaps[t]} : Older(wal, final, t, q) \subseteq Have
    BY <1>1, <1>2, <1>3, <1>5 DEF StateOK
  <2>1. StateOK(t) /\ durable \subseteq Have
    BY DEF Covered, Have
  <2> QED
    BY <1>3, <2>1 DEF StateOK
<1> QED
  BY <1>1, <1>2, <1>3, <1>4, <1>5, <1>6, StageCover

(* The state: every position in it is one whose rows were written. *)
LEMMA PersistCover ==
    ASSUME StreamInv, NEW t \in Tables, Covered(t), Persist
    PROVE  Covered(t)'
<1>1. /\ up /\ pstep = "persist" /\ pstep' = "commit"
      /\ checkpoint' \in {checkpoint, token} /\ knownComplete'[t] = 0 /\ snaps'[t] = 0
      /\ UNCHANGED <<serverVars, durable, readerVars, results, held, token, confirmed>>
  BY DEF Persist, Max2
<1>2. /\ UNCHANGED <<logVars, results, readerVars>> /\ slot' = slot /\ start' = start /\ known' = known
      /\ wal' = wal /\ final' = final
  BY <1>1 DEF serverVars, logVars, readerVars
<1>3. Have' = Have /\ Flushed = durable /\ Flushed' = durable
  BY <1>1 DEF Have, Flushed
<1>4. Positions' \subseteq Positions \cup {0}
  BY <1>1, <1>2 DEF Positions
<1>5. snapPos[t] \in Nat /\ snaps[t] \in Nat /\ knownComplete[t] \in Nat /\ token \in Nat
  BY Within
<1>6. /\ snapPos'[t] \in {0, snapPos[t], snaps[t], token, knownComplete[t]}
      /\ snapPos'[t] # 0 <=> Based(t)
  <2> DEFINE new == CASE snaps[t] # 0 -> snaps[t]
                      [] snaps[t] = 0 /\ knownComplete[t] # 0 ->
                             IF token # 0 THEN token ELSE knownComplete[t]
                      [] OTHER -> 0
  <2>1. snapPos'[t] = Max2(snapPos[t], new)
    BY DEF Persist
  <2>2. new \in {0, snaps[t], token, knownComplete[t]} /\ (new # 0 <=> snaps[t] # 0 \/ knownComplete[t] # 0)
    BY <1>5
  <2> HIDE DEF new
  <2> QED
    BY <1>5, <2>1, <2>2 DEF Max2, Based
<1>7. (Based(t)' <=> Based(t)) /\ (Based(t) => Certified(t)')
  BY <1>1, <1>6 DEF Based, Certified
<1>8. StateOK(t)'
  <2> SUFFICES ASSUME Based(t)
               PROVE  /\ t \in known
                      /\ \A q \in {slot, start, checkpoint', confirmed, snapPos'[t], 0} :
                            Older(wal, final, t, q) \subseteq durable
                      /\ \A q \in {token, 0} : Older(wal, final, t, q) \subseteq durable
    BY <1>1, <1>2, <1>3, <1>7 DEF StateOK
  <2>1. StateOK(t)
    BY DEF Covered
  <2>2. /\ t \in known
        /\ \A q \in {slot, start, checkpoint, confirmed, snapPos[t], knownComplete[t], token, snaps[t]} :
              Older(wal, final, t, q) \subseteq durable
    BY <1>3, <2>1 DEF StateOK
  <2>3. Older(wal, final, t, 0) = {}
    BY OlderNone DEF StreamInv
  <2> QED
    BY <1>1, <1>6, <2>2, <2>3
<1> QED
  BY <1>1, <1>2, <1>3, <1>4, <1>7, <1>8, StageCover

(* The position confirmed is one whose rows were written. *)
LEMMA CommitStreamCover ==
    ASSUME StreamInv, NEW t \in Tables, Covered(t), CommitStream
    PROVE  Covered(t)'
<1>1. /\ up /\ pstep = "commit" /\ pstep' = "run" /\ confirmed' \in {confirmed, token} /\ token' = 0
      /\ UNCHANGED <<serverVars, storeVars, readerVars, results, held, snaps>>
  BY DEF CommitStream, Max2
<1>2. /\ UNCHANGED <<logVars, results, readerVars>> /\ slot' = slot /\ start' = start /\ known' = known
      /\ wal' = wal /\ final' = final /\ checkpoint' = checkpoint /\ snapPos' = snapPos
      /\ knownComplete' = knownComplete /\ durable' = durable
  BY <1>1 DEF serverVars, logVars, readerVars, storeVars
<1>3. Have' = Have /\ Flushed = durable /\ Flushed' = Have /\ durable \subseteq Have
  BY <1>1, <1>2 DEF Have, Flushed
<1>4. Positions' \subseteq Positions \cup {0}
  BY <1>1, <1>2 DEF Positions
<1>5. (Based(t)' <=> Based(t)) /\ (Certified(t)' <=> Certified(t))
  BY <1>1, <1>2 DEF Based, Certified
<1>6. StateOK(t)'
  <2> SUFFICES ASSUME Based(t)
               PROVE  /\ t \in known
                      /\ \A q \in {slot, start, checkpoint, confirmed', snapPos[t], knownComplete[t]} :
                            Older(wal, final, t, q) \subseteq durable
                      /\ \A q \in {0, snaps[t]} : Older(wal, final, t, q) \subseteq durable
    BY <1>1, <1>2, <1>3, <1>5 DEF StateOK
  <2>1. StateOK(t)
    BY DEF Covered
  <2>2. /\ t \in known
        /\ \A q \in {slot, start, checkpoint, confirmed, snapPos[t], knownComplete[t], token, snaps[t]} :
              Older(wal, final, t, q) \subseteq durable
    BY <1>3, <2>1 DEF StateOK
  <2>3. Older(wal, final, t, 0) = {}
    BY OlderNone DEF StreamInv
  <2> QED
    BY <1>1, <2>2, <2>3
<1> QED
  BY <1>1, <1>2, <1>3, <1>4, <1>5, <1>6, StageCover

(* The slot moves to that position, or to the start. *)
LEMMA SendStatusCover ==
    ASSUME StreamInv, NEW t \in Tables, Covered(t), SendStatus
    PROVE  Covered(t)'
<1>1. /\ up /\ slot' \in {slot, start, confirmed}
      /\ UNCHANGED <<logVars, storeVars, readerVars, results, pipeVars>>
  BY DEF SendStatus, Max2
<1>2. /\ UNCHANGED <<logVars, results, readerVars>> /\ start' = start /\ known' = known
      /\ wal' = wal /\ final' = final /\ checkpoint' = checkpoint /\ snapPos' = snapPos
      /\ knownComplete' = knownComplete /\ durable' = durable /\ held' = held /\ pstep' = pstep
      /\ token' = token /\ snaps' = snaps /\ confirmed' = confirmed
  BY <1>1 DEF logVars, readerVars, storeVars, pipeVars
<1>3. Have' = Have /\ Flushed' = Flushed
  BY <1>2 DEF Have, Flushed
<1>4. Positions' \subseteq Positions \cup {0}
  BY <1>1, <1>2 DEF Positions
<1>5. (Based(t)' <=> Based(t)) /\ (Certified(t)' <=> Certified(t))
  BY <1>2 DEF Based, Certified
<1>6. StateOK(t)'
  <2> SUFFICES ASSUME Based(t)
               PROVE  /\ t \in known
                      /\ \A q \in {slot', start, checkpoint, confirmed, snapPos[t], knownComplete[t]} :
                            Older(wal, final, t, q) \subseteq IF Certified(t) THEN durable ELSE Flushed
                      /\ \A q \in {token, snaps[t]} : Older(wal, final, t, q) \subseteq Flushed
    BY <1>2, <1>3, <1>5 DEF StateOK
  <2>1. StateOK(t)
    BY DEF Covered
  <2> QED
    BY <1>1, <2>1 DEF StateOK
<1> QED
  BY <1>1, <1>2, <1>3, <1>4, <1>5, <1>6, StageCover

(* Nothing is claimed of any table at the start. *)
LEMMA InitCover ==
    ASSUME Init, NEW t \in Tables
    PROVE  DownOK /\ Covered(t)
<1>1. /\ results = <<>> /\ held = {} /\ token = 0 /\ confirmed = 0 /\ pstep = "run" /\ up = FALSE
      /\ start = slot /\ snapPos = [u \in Tables |-> 0] /\ knownComplete = snapPos /\ snaps = snapPos
  BY DEF Init
<1>2. ~Based(t) /\ Len(results) = 0
  BY <1>1 DEF Based
<1>3. Snapped(results, Have, t, Based(t), known, Positions) /\ Tokened(results, Have, t, Based(t))
  BY <1>2 DEF Snapped, Tokened
<1> QED
  BY <1>1, <1>2, <1>3 DEF DownOK, Covered, StateOK

(* A stream that goes down leaves nothing behind. *)
LEMMA DownNext ==
    ASSUME DownOK, [Next]_vars
    PROVE  DownOK'
<1>1. CASE Crash
  <2>1. /\ results' = <<>> /\ StartReplication(slot) /\ slot' = slot
        /\ pstep' = "run" /\ held' = {} /\ token' = 0 /\ snaps' = [u \in Tables |-> 0] /\ confirmed' = 0
    BY <1>1 DEF Crash, serverVars
  <2> QED
    BY <2>1 DEF DownOK, StartReplication
<1>2. CASE Begin
  <2>1. up' = TRUE
    BY <1>2 DEF Begin, Restart, Reinitialize, BeginRun
  <2> QED
    BY <2>1 DEF DownOK
<1>3. CASE Reader \/ Discover \/ Pipeline \/ SendStatus
  <2>1. up /\ up' = up
    BY <1>3 DEF Reader, DrainCommitted, NextMessage, Idle, Discover, Pipeline, Buffer, Flush, Persist,
                CommitStream, SendStatus, readerVars
  <2> QED
    BY <2>1 DEF DownOK
<1>4. CASE UNCHANGED vars
  BY <1>4 DEF DownOK, vars, serverVars, readerVars, pipeVars
<1> QED
  BY <1>1, <1>2, <1>3, <1>4 DEF Next

(* A step that changes nothing. *)
LEMMA StutterCover ==
    ASSUME NEW t, Covered(t), UNCHANGED vars
    PROVE  Covered(t)'
<1>1. UNCHANGED <<logVars, slot, storeVars, readerVars, results, pipeVars>>
  BY DEF vars, serverVars
<1>2. /\ results' = results /\ Have' = Have /\ Based(t)' = Based(t) /\ known' = known
      /\ Positions' = Positions /\ up' = up
  BY <1>1 DEF Have, Based, Positions, storeVars, readerVars, pipeVars
<1>3. StateOK(t)'
  BY <1>1 DEF Covered, StateOK, Based, Certified, Flushed, Have, logVars, storeVars, readerVars, pipeVars
<1>4. up => ReaderOK(t)'
  BY <1>1 DEF Covered, ReaderOK, Based, Delivered, Out, Have, Cuts, logVars, storeVars, readerVars, pipeVars
<1>5. Snapped(results', Have', t, Based(t)', known', Positions') /\ Tokened(results', Have', t, Based(t)')
  BY <1>2 DEF Covered
<1>6. UNCHANGED logVars
  BY <1>1
<1> QED
  BY <1>2, <1>3, <1>4, <1>5, <1>6, CoverNext

(* Every step keeps the tables with a key covered. *)
LEMMA CoverStep ==
    ASSUME StreamInv, ChannelOK, CoverInv, [Next]_vars
    PROVE  CoverInv'
<1>1. DownOK'
  BY DownNext DEF CoverInv
<1>2. ASSUME NEW t \in Tables \ Keyless PROVE Covered(t)'
  <2>1. DownOK /\ Covered(t) /\ t \in Tables
    BY DEF CoverInv
  <2>2. CASE DrainCommitted
    BY <2>1, <2>2, DrainCover
  <2>3. CASE NextMessage
    BY <2>1, <2>3, MessageCover
  <2>4. CASE Idle
    BY <2>1, <2>4, IdleCover
  <2>5. CASE Discover
    BY <2>1, <2>5, DiscoverCover
  <2>6. CASE Crash
    BY <2>1, <2>6, CrashCover
  <2>7. CASE Restart
    BY <2>1, <2>7, RestartCover
  <2>8. CASE Reinitialize
    BY <2>1, <2>8, ReinitializeCover
  <2>9. CASE Buffer
    BY <2>1, <2>9, BufferCover
  <2>10. CASE Flush
    BY <2>1, <2>10, FlushCover
  <2>11. CASE Persist
    BY <2>1, <2>11, PersistCover
  <2>12. CASE CommitStream
    BY <2>1, <2>12, CommitStreamCover
  <2>13. CASE SendStatus
    BY <2>1, <2>13, SendStatusCover
  <2>14. CASE UNCHANGED vars
    BY <2>1, <2>14, StutterCover
  <2> QED
    BY <2>2, <2>3, <2>4, <2>5, <2>6, <2>7, <2>8, <2>9, <2>10, <2>11, <2>12, <2>13, <2>14
    DEF Next, Reader, Begin, Pipeline
<1>3. Tables' = Tables /\ Keyless' = Keyless
  OBVIOUS
<1> QED
  BY <1>1, <1>2 DEF CoverInv

(* In every state they are. *)
LEMMA CoverHolds == Spec => []CoverInv
<1>1. Init => CoverInv
  <2> SUFFICES ASSUME Init PROVE CoverInv
    OBVIOUS
  <2>1. \A t \in Tables \ Keyless : Covered(t)
    BY InitCover
  <2>2. DownOK
    BY DEF Init, DownOK
  <2> QED
    BY <2>1, <2>2 DEF CoverInv
<1>2. StreamInv /\ ChannelOK /\ CoverInv /\ [Next]_vars => CoverInv'
  BY CoverStep
<1> QED
  BY <1>1, <1>2, StreamHolds, ChannelHolds, PTL DEF Spec

(* What StateOK says of a table that would resume is what is promised.     *)
LEMMA CoveredSkipsNothing ==
    ASSUME StreamInv, NEW t \in Resumable, StateOK(t)
    PROVE  SkipsNothing(t)
<1>1. t \in Tables /\ Based(t) /\ Certified(t)
  BY DEF Resumable, Based, Certified
<1>2. slot \in Nat /\ checkpoint \in Nat /\ snapPos[t] \in Nat /\ LogOK
  BY <1>1, Within DEF StreamInv
<1>3. \A q \in {slot, checkpoint, snapPos[t]} : Older(wal, final, t, q) \subseteq durable
  BY <1>1 DEF StateOK
<1>4. Max2(slot, ResumeLSN(t)) \in {slot, checkpoint, snapPos[t]}
  BY DEF Max2, ResumeLSN, Resumable
<1> QED
  BY <1>2, <1>3, <1>4, OlderRows DEF SkipsNothing

(* What Tokened says of the channel is what is promised of the tokens. *)
LEMMA CoveredTokens ==
    ASSUME StreamInv, NEW t \in Tables, Tokened(results, Have, t, Based(t))
    PROVE  TokensCover(t)
<1> SUFFICES ASSUME NEW k \in DOMAIN results, Based(t) \/ \E j \in 1..k : t \in results[j].snaps,
                    NEW r \in Committed(t), FinalOf(r) < results[k].token
             PROVE  r \in EmittedUpTo(k)
  BY DEF TokensCover
<1>1. results \in Seq(Results) /\ LogOK
  BY DEF StreamInv, Shape
<1>2. k \in 1..Len(results) /\ results[k].token \in Nat
  <2>1. k \in 1..Len(results) /\ results[k] \in Results
    BY <1>1
  <2> QED
    BY <2>1 DEF Results
<1>3. r \in Older(wal, final, t, results[k].token)
  BY <1>1, <1>2, OlderRows
<1>4. r \in Out(results, Have, t, k)
  BY <1>2, <1>3 DEF Tokened
<1> QED
  BY <1>4 DEF Out, Have, EmittedUpTo

(* Theorem: of a table with a key, wherever the stream dies, the slot has  *)
(* released nothing, and a resume skips nothing, that the destination does *)
(* not have, whatever becomes of the tables without one.                   *)
THEOREM KeyedSkipNothing == Spec => [](\A t \in Resumable \ Keyless : SkipsNothing(t))
<1>1. StreamInv /\ CoverInv => \A t \in Resumable \ Keyless : SkipsNothing(t)
  <2> SUFFICES ASSUME StreamInv, CoverInv, NEW t \in Resumable \ Keyless PROVE SkipsNothing(t)
    OBVIOUS
  <2>1. t \in Resumable /\ StateOK(t)
    BY DEF CoverInv, Covered, Resumable
  <2> QED
    BY <2>1, CoveredSkipsNothing
<1> QED
  BY <1>1, StreamHolds, CoverHolds, PTL

(* Theorem: the same of the commit tokens in the channel: whatever was     *)
(* committed before one, of a table with a key, is durable, buffered, or   *)
(* in the channel up to there.                                             *)
THEOREM KeyedTokensCover == Spec => [](\A t \in Tables \ Keyless : TokensCover(t))
<1>1. StreamInv /\ CoverInv => \A t \in Tables \ Keyless : TokensCover(t)
  <2> SUFFICES ASSUME StreamInv, CoverInv, NEW t \in Tables \ Keyless PROVE TokensCover(t)
    OBVIOUS
  <2>1. t \in Tables /\ Tokened(results, Have, t, Based(t))
    BY DEF CoverInv, Covered
  <2> QED
    BY <2>1, CoveredTokens
<1> QED
  BY <1>1, StreamHolds, CoverHolds, PTL

(* Theorem: when every table has a key, nothing is skipped, of any table   *)
(* that would resume.                                                      *)
THEOREM NothingIsSkipped ==
    ASSUME Keyless = {}
    PROVE  Spec => []NothingSkipped
<1>1. (\A t \in Resumable \ Keyless : SkipsNothing(t)) => NothingSkipped
  BY DEF NothingSkipped
<1> QED
  BY <1>1, KeyedSkipNothing, PTL

(* Theorem: when every table has a key, every token in the channel covers  *)
(* what is emitted up to there.                                            *)
THEOREM TokensAreCovered ==
    ASSUME Keyless = {}
    PROVE  Spec => []TokenCoversEmitted
<1>1. (\A t \in Tables \ Keyless : TokensCover(t)) => TokenCoversEmitted
  BY DEF TokenCoversEmitted
<1> QED
  BY <1>1, KeyedTokensCover, PTL

=============================================================================
