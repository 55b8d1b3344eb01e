---------------------------- MODULE DeltaLogProofs ----------------------------
(***************************************************************************)
(* Proofs about the Delta commit protocol, for any writers, any number of  *)
(* attempts, errors, kills and lost responses: the log has no gap, no file *)
(* dangles, keys stay unique, no row is read twice without reason, and the *)
(* protocol implements the table of module DeltaTable, copy for copy.      *)
(***************************************************************************)
EXTENDS DeltaLog, FiniteSetTheorems, TLAPS

Working == {"start", "read", "rewrite", "commit"}

(* The versions of the log are those below some number. *)
Prefix == \E n \in Nat : DOMAIN log = 0..(n - 1)

(* A writer that is at work has an attempt left. *)
AttemptLeft(w) == pc[w] \in Working => attempt[w] < MaxAttempts

(* Which data files a writer has: an append one, with its rows, and a      *)
(* merge one of each attempt so far.                                       *)
FileNames(w) ==
    \A k \in 0..MaxAttempts : <<w, k>> \in DOMAIN files =>
        IF Kind[w] = "append"
        THEN k = 0 /\ pc[w] \notin {"idle", "start"} /\ files[<<w, k>>] = RowBag(w)
        ELSE k < attempt[w] \/ (k = attempt[w] /\ pc[w] \in {"commit", "ok", "error"})

(* A rewrite names its file after the attempt: no commit has added it yet. *)
NewName(w) ==
    Kind[w] = "merge" /\ pc[w] \in Working =>
        \A v \in DOMAIN log : \A k \in 0..MaxAttempts : <<w, k>> \in log[v].adds => k < attempt[w]

(* What it is about to add is there. *)
Uploaded(w) ==
    /\ Kind[w] = "append" => pc[w] # "rewrite"
    /\ Kind[w] = "append" /\ pc[w] \in {"read", "commit"} => <<w, 0>> \in DOMAIN files
    /\ Kind[w] = "merge" /\ pc[w] = "commit" /\ Rewritten(w) # NoRows =>
           dataFile(w) \in DOMAIN files /\ files[dataFile(w)] = Rewritten(w)

(* The version it tries is taken, or it is the next one, and then the      *)
(* snapshot of a merge is the table as it is.                              *)
Fresh(w) ==
    pc[w] \in {"rewrite", "commit"} =>
        /\ next[w] \in DOMAIN log \/ next[w] = nextDeltaVersion
        /\ Kind[w] = "merge" =>
               /\ IsFiniteSet(snap[w]) /\ \A d \in snap[w] : d[1] \in DOMAIN files
               /\ next[w] \notin DOMAIN log => snap[w] = activeFiles(log)

(* If it goes on although it is in the log, it lost a response, once. *)
Once(w) == pc[w] \in Working /\ w \in Applied => w \in lost /\ w \notin Repeated

WriterOK(w) ==
    AttemptLeft(w) /\ FileNames(w) /\ NewName(w) /\ Uploaded(w) /\ Fresh(w) /\ Once(w)

(* A commit adds an uploaded file of its own writer, an append the one     *)
(* that it has.                                                            *)
CommitsOwn ==
    \A v \in DOMAIN log :
        /\ \A f \in log[v].adds : f \in DOMAIN files /\ f[1] = log[v].by
        /\ Kind[log[v].by] = "append" => log[v].adds = {<<log[v].by, 0>>}

(* The list of files that a reader makes is finite and has every active    *)
(* file.                                                                   *)
Listing ==
    /\ IsFiniteSet(activeFiles(log))
    /\ \A f \in Active(log) : \E d \in activeFiles(log) : d[1] = f

(* An appended row that is in another file was moved there by a merge.     *)
Moved ==
    \A v \in DOMAIN log : \A f \in log[v].adds : \A x \in Row :
        files[f][x] > 0 /\ Kind[x.by] = "append" /\ f # dataFile(x.by) =>
            x.by \in Applied /\ \E u \in DOMAIN log : dataFile(x.by) \in log[u].removes

TableInv == Prefix /\ CommitsOwn /\ Listing /\ Moved /\ UniqueKeys /\ NoRowTwice
Types == TypeOK /\ IsFiniteSet(lost)
IInv == Types /\ TableInv /\ \A w \in Writers : WriterOK(w)

----------------------------------------------------------------------------
(* What the assumption says of a writer. *)
LEMMA Kinds ==
    /\ \A w \in Writers : Kind[w] \in {"append", "merge"}
    /\ MaxAttempts \in Nat /\ MaxAttempts > 0 /\ MaxFaults \in Nat
BY DeltaAssumption

(* The rows of a writer are rows.                                          *)
LEMMA RowTypes == \A w \in Writers : RowsOf(w) \subseteq Row
BY DEF RowsOf, Row, Keys

(* The next version is the number of those published.                      *)
LEMMA NextVersion ==
    ASSUME NEW n \in Nat, DOMAIN log = 0..(n - 1)
    PROVE  nextDeltaVersion = n
<1>1. CASE n = 0
  BY <1>1 DEF nextDeltaVersion, ListLogVersions
<1>2. CASE n > 0
  <2> DEFINE S == ListLogVersions
             P(v) == \A u \in S : u <= v
  <2>1. n - 1 \in S /\ P(n - 1)
    BY <1>2 DEF ListLogVersions
  <2>2. \A v \in S : P(v) => v = n - 1
    BY <1>2 DEF ListLogVersions
  <2>3. (CHOOSE v \in S : P(v)) = n - 1
    <3> HIDE DEF P, S
    <3>1. (CHOOSE v \in S : P(v)) \in S /\ P(CHOOSE v \in S : P(v))
      BY <2>1, Zenon
    <3> QED
      BY <2>2, <3>1
  <2>4. S # {}
    BY <2>1
  <2>5. nextDeltaVersion = 1 + (CHOOSE v \in S : P(v))
    BY <2>4, Zenon DEF nextDeltaVersion
  <2>6. nextDeltaVersion = 1 + (n - 1)
    BY <2>3, <2>5, Zenon
  <2> QED
    BY <2>6
<1> QED
  BY <1>1, <1>2

----------------------------------------------------------------------------
(* What the files of a list hold of a row, with these contents. *)
CopiesOf(fs, x, list) == UNION {{d} \X (1..fs[d[1]][x]) : d \in list}
CountOf(fs, x, list) == Cardinality(CopiesOf(fs, x, list))
Held(fs, x, list) == \A d \in list : fs[d[1]][x] \in Nat

(* 1..n has n elements. *)
LEMMA UpTo == \A n \in Nat : IsFiniteSet(1..n) /\ Cardinality(1..n) = n
<1> TAKE n \in Nat
<1>1. /\ IsFiniteSet(1..n)
      /\ Cardinality(1..n) = IF 1 > n THEN 0 ELSE n - 1 + 1
  BY FS_Interval
<1> QED
  BY <1>1

(* What a list holds of a row is a number. *)
LEMMA CountFinite ==
    ASSUME NEW fs, NEW x, NEW S, IsFiniteSet(S), Held(fs, x, S)
    PROVE  IsFiniteSet(CopiesOf(fs, x, S)) /\ CountOf(fs, x, S) \in Nat
<1> DEFINE T == {{d} \X (1..fs[d[1]][x]) : d \in S}
           g == [d \in S |-> {d} \X (1..fs[d[1]][x])]
<1>1. g \in Surjection(S, T)
  BY Zenon DEF Surjection
<1>2. IsFiniteSet(T)
  <2> HIDE DEF T, g
  <2> QED
    BY <1>1, FS_Surjection
<1>3. ASSUME NEW d \in S PROVE IsFiniteSet({d} \X (1..fs[d[1]][x]))
  <2>1. IsFiniteSet({d}) /\ IsFiniteSet(1..fs[d[1]][x])
    <3>1. fs[d[1]][x] \in Nat
      BY DEF Held
    <3> QED
      BY <3>1, FS_Singleton, UpTo
  <2> QED
    BY <2>1, FS_Product
<1>4. \A t \in T : IsFiniteSet(t)
  BY <1>3
<1>5. IsFiniteSet(UNION T)
  <2> HIDE DEF T
  <2> QED
    BY <1>2, <1>4, FS_UNION
<1> QED
  BY <1>5, FS_CardinalityType DEF CopiesOf, CountOf

(* A list of no files holds nothing. *)
LEMMA CountNone == \A fs, x : CountOf(fs, x, {}) = 0
BY FS_EmptySet DEF CountOf, CopiesOf

(* One more file adds what it holds. *)
LEMMA CountAdd ==
    ASSUME NEW fs, NEW x, NEW S, IsFiniteSet(S), NEW d, d \notin S, Held(fs, x, S \cup {d})
    PROVE  CountOf(fs, x, S \cup {d}) = CountOf(fs, x, S) + fs[d[1]][x]
<1> DEFINE A == CopiesOf(fs, x, S)
           B == {d} \X (1..fs[d[1]][x])
<1>1. fs[d[1]][x] \in Nat /\ Held(fs, x, S)
  BY DEF Held
<1>2. IsFiniteSet(A) /\ Cardinality(A) \in Nat
  BY <1>1, CountFinite DEF CountOf
<1>3. IsFiniteSet(B) /\ Cardinality(B) = fs[d[1]][x]
  <2>1. IsFiniteSet({d}) /\ Cardinality({d}) = 1
    BY FS_Singleton
  <2>2. IsFiniteSet(1..fs[d[1]][x]) /\ Cardinality(1..fs[d[1]][x]) = fs[d[1]][x]
    BY <1>1, UpTo
  <2>3. IsFiniteSet(B) /\ Cardinality(B) = Cardinality({d}) * Cardinality(1..fs[d[1]][x])
    BY <2>1, <2>2, FS_Product
  <2> QED
    BY <1>1, <2>1, <2>2, <2>3
<1>4. CopiesOf(fs, x, S \cup {d}) = A \cup B
  BY Zenon DEF CopiesOf
<1>5. A \cap B = {}
  BY DEF CopiesOf
<1>6. Cardinality(A \cup B) = Cardinality(A) + Cardinality(B) - Cardinality(A \cap B)
  <2> HIDE DEF A, B
  <2> QED
    BY <1>2, <1>3, FS_Union
<1>7. Cardinality(A \cap B) = 0
  BY <1>5, FS_EmptySet
<1>8. Cardinality(A \cup B) = Cardinality(A) + fs[d[1]][x]
  <2> HIDE DEF A, B
  <2> QED
    BY <1>1, <1>2, <1>3, <1>6, <1>7
<1> QED
  BY <1>4, <1>8, Zenon DEF CountOf

(* One file alone counts what it holds. *)
LEMMA CountAlone ==
    ASSUME NEW fs, NEW x, NEW d, Held(fs, x, {d})
    PROVE  CountOf(fs, x, {d}) = fs[d[1]][x]
<1>1. ASSUME NEW S, S = {} PROVE CountOf(fs, x, S \cup {d}) = fs[d[1]][x]
  <2>1. IsFiniteSet(S) /\ d \notin S /\ Held(fs, x, S \cup {d}) /\ CountOf(fs, x, S) = 0
    BY <1>1, FS_EmptySet, CountNone DEF Held
  <2>2. CountOf(fs, x, S \cup {d}) = CountOf(fs, x, S) + fs[d[1]][x]
    BY <2>1, CountAdd
  <2>3. fs[d[1]][x] \in Nat
    BY DEF Held
  <2> QED
    BY <2>1, <2>2, <2>3
<1>2. {} \cup {d} = {d}
  OBVIOUS
<1> QED
  BY <1>1, <1>2, Zenon

(* A row is in what a list holds if it is in one of its files. *)
LEMMA CountPositive ==
    ASSUME NEW fs, NEW x, NEW S, IsFiniteSet(S), Held(fs, x, S)
    PROVE  CountOf(fs, x, S) > 0 <=> \E d \in S : fs[d[1]][x] > 0
<1>1. IsFiniteSet(CopiesOf(fs, x, S)) /\ CountOf(fs, x, S) \in Nat
  BY CountFinite
<1>2. CountOf(fs, x, S) = 0 <=> CopiesOf(fs, x, S) = {}
  BY <1>1, FS_EmptySet DEF CountOf
<1>3. CopiesOf(fs, x, S) = {} <=> \A d \in S : ~(fs[d[1]][x] > 0)
  <2>1. ASSUME NEW d \in S, fs[d[1]][x] > 0 PROVE CopiesOf(fs, x, S) # {}
    <3>1. fs[d[1]][x] \in Nat /\ 1 \in 1..fs[d[1]][x]
      BY <2>1 DEF Held
    <3>2. <<d, 1>> \in {d} \X (1..fs[d[1]][x])
      BY <3>1
    <3> QED
      BY <3>2 DEF CopiesOf
  <2>2. ASSUME NEW c \in CopiesOf(fs, x, S) PROVE \E d \in S : fs[d[1]][x] > 0
    <3>1. PICK d \in S : c \in {d} \X (1..fs[d[1]][x])
      BY DEF CopiesOf
    <3>2. fs[d[1]][x] \in Nat /\ \E i \in 1..fs[d[1]][x] : TRUE
      BY <3>1 DEF Held
    <3> QED
      BY <3>2
  <2> QED
    BY <2>1, <2>2
<1> QED
  BY <1>1, <1>2, <1>3

(* Files that are not changed count the same. *)
LEMMA CountSame ==
    ASSUME NEW fs, NEW gs, NEW x, NEW S, \A d \in S : fs[d[1]] = gs[d[1]]
    PROVE  CountOf(fs, x, S) = CountOf(gs, x, S)
<1>1. CopiesOf(fs, x, S) = CopiesOf(gs, x, S)
  BY Zenon DEF CopiesOf
<1> QED
  BY <1>1 DEF CountOf

(* RowsIn counts what the files hold.                                      *)
LEMMA RowsInCounts == \A list : RowsIn(list) = [x \in Row |-> CountOf(files, x, list)]
BY DEF RowsIn, Copies, CountOf, CopiesOf

(* The rows of files that are there are numbers.                           *)
LEMMA HeldRows ==
    ASSUME Types, NEW S, \A d \in S : d[1] \in DOMAIN files
    PROVE  \A x \in Row : Held(files, x, S)
BY DEF Types, TypeOK, Held

(* An upload does not change the rows of files that were there.            *)
LEMMA RowsStable ==
    ASSUME NEW S, \A d \in S : d[1] \in DOMAIN files,
           \A f \in DOMAIN files : f \in DOMAIN files' /\ files'[f] = files[f]
    PROVE  [x \in Row |-> CountOf(files', x, S)] = RowsIn(S)
<1>1. \A x \in Row : CountOf(files', x, S) = CountOf(files, x, S)
  <2> TAKE x \in Row
  <2>1. \A d \in S : files'[d[1]] = files[d[1]]
    OBVIOUS
  <2> QED
    BY <2>1, CountSame
<1> QED
  BY <1>1, RowsInCounts

----------------------------------------------------------------------------
(* The add of f by commit v enters the list: a remove follows every        *)
(* earlier add.                                                            *)
Enters(f, v, l) ==
    \A u \in DOMAIN l : u < v /\ f \in l[u].adds =>
        \E t \in DOMAIN l : u < t /\ t <= v /\ f \in l[t].removes

(* What is in the list.                                                    *)
LEMMA Listed ==
    ASSUME NEW l
    PROVE  /\ \A f, v : <<f, v>> \in activeFiles(l) <=>
                  v \in DOMAIN l /\ f \in l[v].adds /\ f \in Active(l) /\ Enters(f, v, l)
           /\ \A d \in activeFiles(l) : d = <<d[1], d[2]>>
<1>1. \A f, v : <<f, v>> \in Adds(l) <=> v \in DOMAIN l /\ f \in l[v].adds
  BY DEF Adds
<1>2. \A d \in Adds(l) : d = <<d[1], d[2]>>
  BY DEF Adds
<1>3. \A f, v : <<f, v>> \in activeFiles(l) <=>
          <<f, v>> \in Adds(l) /\ f \in Active(l) /\ Enters(f, v, l)
  BY DEF activeFiles, Enters
<1> QED
  BY <1>1, <1>2, <1>3 DEF activeFiles

(* A file that is active was added by some commit.                         *)
LEMMA ActiveAdded == \A f \in Active(log) : \E v \in DOMAIN log : f \in log[v].adds
BY DEF Active

(* Listed files are active and there.                                      *)
LEMMA ListedUploaded ==
    ASSUME CommitsOwn
    PROVE  \A d \in activeFiles(log) :
               /\ d[1] \in Active(log) /\ d[1] \in DOMAIN files
               /\ \E v \in DOMAIN log : d[1] \in log[v].adds
<1> TAKE d \in activeFiles(log)
<1>1. d[1] \in Active(log)
  BY DEF activeFiles
<1> QED
  BY <1>1, ActiveAdded DEF CommitsOwn

(* The table counts its rows; one that is there is in a listed file.       *)
LEMMA TableCounts ==
    ASSUME IInv
    PROVE  /\ TableRows = [x \in Row |-> CountOf(files, x, activeFiles(log))]
           /\ \A x \in Row :
                  /\ TableRows[x] \in Nat /\ Held(files, x, activeFiles(log))
                  /\ TableRows[x] > 0 <=> \E d \in activeFiles(log) : files[d[1]][x] > 0
<1>1. TableRows = [x \in Row |-> CountOf(files, x, activeFiles(log))]
  BY RowsInCounts DEF TableRows
<1>2. IsFiniteSet(activeFiles(log)) /\ \A x \in Row : Held(files, x, activeFiles(log))
  BY ListedUploaded, HeldRows DEF IInv, TableInv, Listing
<1> QED
  BY <1>1, <1>2, CountFinite, CountPositive

----------------------------------------------------------------------------
(* IInv holds initially.                                                   *)
LEMMA InitInv == Init => IInv
<1> SUFFICES ASSUME Init PROVE IInv
  OBVIOUS
<1>1. DOMAIN log = {} /\ DOMAIN files = {} /\ lost = {} /\ errors = 0
  BY DEF Init
<1>2. TypeOK
  <2>1. pc \in [Writers -> Pcs]
    BY DEF Init, Pcs
  <2> QED
    BY <1>1, <2>1, Kinds DEF Init, TypeOK
<1>3. Types
  BY <1>1, <1>2, FS_EmptySet DEF Types
<1>4. TableInv
  <2>1. Prefix
    BY <1>1, 0..(0 - 1) = {} DEF Prefix
  <2>2. activeFiles(log) = {} /\ Active(log) = {}
    BY <1>1 DEF activeFiles, Adds, Active
  <2>3. \A x \in Row : TableRows[x] = 0
    BY <2>2, RowsInCounts, CountNone DEF TableRows
  <2>4. Listing
    BY <2>2, FS_EmptySet DEF Listing
  <2> QED
    BY <1>1, <2>1, <2>3, <2>4 DEF TableInv, CommitsOwn, Moved, UniqueKeys, OneRowPerKey, NoRowTwice
<1>5. ASSUME NEW w \in Writers PROVE WriterOK(w)
  BY <1>1, Kinds DEF Init, WriterOK, AttemptLeft, FileNames, NewName, Uploaded, Fresh, Once, Applied
<1> QED
  BY <1>3, <1>4, <1>5 DEF IInv

----------------------------------------------------------------------------
(* A step of w leaves the other writers alone. *)
Alone(w) ==
    \A u \in Writers \ {w} :
        pc'[u] = pc[u] /\ attempt'[u] = attempt[u] /\ next'[u] = next[u] /\ snap'[u] = snap[u]

(* A step that changes neither log nor files needs to be looked at for its *)
(* writer only.                                                            *)
LEMMA QuietStep ==
    ASSUME IInv, NEW w \in Writers, UNCHANGED <<log, files, lost>>, Alone(w), Types', WriterOK(w)'
    PROVE  IInv'
<1>1. TableInv'
  <2>1. \A y : Kind[y] = "append" => dataFile(y)' = dataFile(y)
    BY DEF dataFile
  <2>2. Applied' = Applied /\ TableRows' = TableRows
    BY DEF Applied, TableRows, RowsIn, Copies
  <2>3. Prefix' /\ CommitsOwn' /\ Listing' /\ UniqueKeys'
    BY <2>2 DEF IInv, TableInv, Prefix, CommitsOwn, Listing, UniqueKeys
  <2>4. Moved'
    BY <2>1, <2>2 DEF IInv, TableInv, Moved
  <2>5. NoRowTwice'
    BY <2>1, <2>2 DEF IInv, TableInv, NoRowTwice
  <2> QED
    BY <2>3, <2>4, <2>5 DEF TableInv
<1>2. ASSUME NEW u \in Writers PROVE WriterOK(u)'
  <2>1. CASE u = w
    BY <2>1
  <2>2. CASE u # w
    <3>1. pc'[u] = pc[u] /\ attempt'[u] = attempt[u] /\ next'[u] = next[u] /\ snap'[u] = snap[u]
      BY <2>2 DEF Alone
    <3>2. Rewritten(u)' = Rewritten(u) /\ dataFile(u)' = dataFile(u)
      BY <3>1 DEF Rewritten, RowsIn, Copies, mergeBatches, dataFile
    <3>3. nextDeltaVersion' = nextDeltaVersion /\ Applied' = Applied /\ Repeated' = Repeated
      BY DEF nextDeltaVersion, ListLogVersions, Applied, Repeated
    <3> QED
      BY <3>1, <3>2, <3>3 DEF IInv, WriterOK, AttemptLeft, FileNames, NewName, Uploaded, Fresh, Once
  <2> QED
    BY <2>1, <2>2
<1> QED
  BY <1>1, <1>2 DEF IInv

(* An append without rows returns at once.                                 *)
LEMMA AppendNothingKeepsInv ==
    ASSUME IInv, NEW w \in Writers, AppendNothing(w) PROVE IInv'
<1>1. Types'
  BY DEF IInv, Types, TypeOK, Pcs, AppendNothing
<1>2. WriterOK(w)' /\ Alone(w)
  BY DEF IInv, Types, TypeOK, AppendNothing, WriterOK, AttemptLeft, FileNames, NewName, Uploaded, Fresh, Once,
     Working, Alone
<1> QED
  BY <1>1, <1>2, QuietStep DEF AppendNothing

(* An append lists the log for the version after the last one.             *)
LEMMA ListForAppendKeepsInv ==
    ASSUME IInv, NEW w \in Writers, ListForAppend(w) PROVE IInv'
<1>1. nextDeltaVersion \in Nat
  BY NextVersion DEF IInv, TableInv, Prefix
<1>2. Types'
  BY <1>1 DEF IInv, Types, TypeOK, Pcs, ListForAppend
<1>3. nextDeltaVersion' = nextDeltaVersion /\ Applied' = Applied /\ Repeated' = Repeated
  BY DEF ListForAppend, nextDeltaVersion, ListLogVersions, Applied, Repeated
<1>4. WriterOK(w)' /\ Alone(w)
  BY <1>3 DEF IInv, Types, TypeOK, ListForAppend, WriterOK, AttemptLeft, FileNames, NewName, Uploaded, Fresh,
     Once, Working, Alone
<1> QED
  BY <1>2, <1>4, QuietStep DEF ListForAppend

(* A merge reads what it is to merge.                                      *)
LEMMA ReadStagingKeepsInv ==
    ASSUME IInv, NEW w \in Writers, ReadStaging(w) PROVE IInv'
<1>1. Types'
  BY DEF IInv, Types, TypeOK, Pcs, ReadStaging
<1>2. Applied' = Applied /\ Repeated' = Repeated
  BY DEF ReadStaging, Applied, Repeated
<1>3. WriterOK(w)' /\ Alone(w)
  BY <1>2 DEF IInv, Types, TypeOK, ReadStaging, WriterOK, AttemptLeft, FileNames, NewName, Uploaded, Fresh,
     Once, Working, Alone
<1> QED
  BY <1>1, <1>3, QuietStep DEF ReadStaging

(* A merge takes its snapshot at the version that it read.                 *)
LEMMA ReadTargetKeepsInv ==
    ASSUME IInv, NEW w \in Writers, ReadTarget(w) PROVE IInv'
<1>1. /\ nextDeltaVersion \in Nat /\ IsFiniteSet(activeFiles(log))
      /\ \A d \in activeFiles(log) : d[1] \in DOMAIN files
      /\ activeFiles(log) \subseteq FileId \X Nat
  <2>1. activeFiles(log) \subseteq FileId \X Nat
    BY DEF IInv, Types, TypeOK, CommitRecord, activeFiles, Adds
  <2> QED
    BY <2>1, NextVersion, ListedUploaded DEF IInv, TableInv, Listing, Prefix
<1>2. Types'
  BY <1>1 DEF IInv, Types, TypeOK, Pcs, ReadTarget
<1>3. nextDeltaVersion' = nextDeltaVersion /\ Applied' = Applied /\ Repeated' = Repeated
  BY DEF ReadTarget, nextDeltaVersion, ListLogVersions, Applied, Repeated
<1>4. WriterOK(w)' /\ Alone(w)
  BY <1>1, <1>3 DEF IInv, Types, TypeOK, ReadTarget, WriterOK, AttemptLeft, FileNames, NewName, Uploaded, Fresh,
     Once, Working, Alone
<1> QED
  BY <1>2, <1>4, QuietStep DEF ReadTarget

(* The rename fails since the version is taken: another attempt, or none.  *)
LEMMA CommitConflictKeepsInv ==
    ASSUME IInv, NEW w \in Writers, CommitConflict(w) PROVE IInv'
<1>1. attempt[w] \in Nat /\ attempt[w] < MaxAttempts /\ MaxAttempts \in Nat
  BY Kinds DEF IInv, Types, TypeOK, CommitConflict, WriterOK, AttemptLeft, Working
<1>2. /\ attempt' = [attempt EXCEPT ![w] = attempt[w] + 1]
      /\ pc' = [pc EXCEPT ![w] = IF attempt[w] + 1 < MaxAttempts THEN "read" ELSE "error"]
      /\ pc[w] = "commit"
      /\ UNCHANGED <<log, files, next, snap, lost, errors>>
  BY DEF CommitConflict, Retry
<1>3. Types'
  BY <1>1, <1>2 DEF IInv, Types, TypeOK, Pcs
<1>4. Applied' = Applied /\ Repeated' = Repeated
  BY <1>2 DEF Applied, Repeated
<1>5. WriterOK(w)' /\ Alone(w)
  <2>1. AttemptLeft(w)' /\ Alone(w)
    BY <1>1, <1>2 DEF IInv, Types, TypeOK, AttemptLeft, Working, Alone
  <2>2. FileNames(w)' /\ NewName(w)'
    BY <1>1, <1>2 DEF IInv, Types, TypeOK, WriterOK, FileNames, NewName, Working
  <2>3. Uploaded(w)' /\ Fresh(w)'
    BY <1>1, <1>2 DEF IInv, Types, TypeOK, WriterOK, Uploaded, Fresh
  <2>4. Once(w)'
    BY <1>1, <1>2, <1>4 DEF IInv, Types, TypeOK, WriterOK, Once, Working
  <2> QED
    BY <2>1, <2>2, <2>3, <2>4 DEF WriterOK
<1> QED
  BY <1>2, <1>3, <1>5, QuietStep

(* One more fault is within the bound.                                     *)
LEMMA FaultsLeft == ASSUME IInv, MoreFaults PROVE errors + 1 \in 0..MaxFaults
BY FS_CardinalityType, Kinds DEF IInv, Types, TypeOK, MoreFaults

(* A writer that fails or is killed before its rename leaves only files.   *)
LEMMA WriterFailsKeepsInv ==
    ASSUME IInv, NEW w \in Writers, WriterFails(w) PROVE IInv'
<1>1. Types'
  BY FaultsLeft DEF IInv, Types, TypeOK, Pcs, WriterFails
<1>2. WriterOK(w)' /\ Alone(w)
  BY DEF IInv, Types, TypeOK, WriterFails, WriterOK, AttemptLeft, FileNames, NewName, Uploaded, Fresh, Once,
     Working, Alone
<1> QED
  BY <1>1, <1>2, QuietStep DEF WriterFails
----------------------------------------------------------------------------
(* A new file is added: nobody refers to it, and what others see stays. *)
LEMMA UploadStep ==
    ASSUME IInv, NEW w \in Writers, NEW k, NEW content,
           <<w, k>> \notin DOMAIN files, Upload(<<w, k>>, content),
           UNCHANGED <<log, lost>>, Alone(w), Types', WriterOK(w)'
    PROVE  IInv'
<1>1. /\ DOMAIN files' = DOMAIN files \cup {<<w, k>>}
      /\ \A f \in DOMAIN files : f \in DOMAIN files' /\ files'[f] = files[f]
  BY DEF Upload
<1>2. TableRows' = TableRows
  <2>1. [x \in Row |-> CountOf(files', x, activeFiles(log))] = TableRows
    BY <1>1, ListedUploaded, RowsStable DEF IInv, TableInv, TableRows
  <2> QED
    BY <2>1 DEF TableRows, RowsIn, Copies, CountOf, CopiesOf
<1>3. TableInv'
  <2>1. \A y : Kind[y] = "append" => dataFile(y)' = dataFile(y)
    BY DEF dataFile
  <2>2. Applied' = Applied
    BY DEF Applied
  <2>3. Prefix' /\ CommitsOwn' /\ Listing'
    BY <1>1 DEF IInv, TableInv, Prefix, CommitsOwn, Listing
  <2>4. Moved'
    BY <1>1, <2>1, <2>2 DEF IInv, TableInv, CommitsOwn, Moved
  <2>5. UniqueKeys'
    BY <1>2 DEF IInv, TableInv, UniqueKeys
  <2>6. NoRowTwice'
    BY <1>2, <2>1 DEF IInv, TableInv, NoRowTwice
  <2> QED
    BY <2>3, <2>4, <2>5, <2>6 DEF TableInv
<1>4. ASSUME NEW u \in Writers PROVE WriterOK(u)'
  <2>1. CASE u = w
    BY <2>1
  <2>2. CASE u # w
    <3>1. pc'[u] = pc[u] /\ attempt'[u] = attempt[u] /\ next'[u] = next[u] /\ snap'[u] = snap[u]
      BY <2>2 DEF Alone
    <3>2. /\ nextDeltaVersion' = nextDeltaVersion /\ Applied' = Applied /\ Repeated' = Repeated
          /\ dataFile(u)' = dataFile(u)
      BY <3>1 DEF nextDeltaVersion, ListLogVersions, Applied, Repeated, dataFile
    <3>3. (\A d \in snap[u] : d[1] \in DOMAIN files) => Rewritten(u)' = Rewritten(u)
      <4> SUFFICES ASSUME \A d \in snap[u] : d[1] \in DOMAIN files
                   PROVE  Rewritten(u)' = Rewritten(u)
        OBVIOUS
      <4>1. [x \in Row |-> CountOf(files', x, snap[u])] = RowsIn(snap[u])
        BY <1>1, RowsStable
      <4>2. RowsIn(snap[u])' = RowsIn(snap[u])
        BY <3>1, <4>1 DEF RowsIn, Copies, CountOf, CopiesOf
      <4> QED
        BY <4>2 DEF Rewritten, mergeBatches
    <3>4. AttemptLeft(u)' /\ NewName(u)' /\ Once(u)'
      BY <3>1, <3>2 DEF IInv, WriterOK, AttemptLeft, NewName, Once
    <3>5. FileNames(u)'
      BY <1>1, <2>2, <3>1 DEF IInv, WriterOK, FileNames
    <3>6. Fresh(u)'
      BY <1>1, <3>1, <3>2 DEF IInv, WriterOK, Fresh
    <3>7. Uploaded(u)'
      BY <1>1, <3>1, <3>2, <3>3 DEF IInv, WriterOK, Uploaded, Fresh
    <3> QED
      BY <3>4, <3>5, <3>6, <3>7 DEF WriterOK
  <2> QED
    BY <2>1, <2>2
<1> QED
  BY <1>3, <1>4 DEF IInv

(* The data file of an append is there before it lists the log.            *)
LEMMA UploadAppendKeepsInv ==
    ASSUME IInv, NEW w \in Writers, UploadAppend(w) PROVE IInv'
<1>1. dataFile(w) = <<w, 0>> /\ <<w, 0>> \in FileId /\ Kind[w] = "append" /\ pc[w] = "start"
  BY Kinds DEF UploadAppend, dataFile, FileId
<1>2. <<w, 0>> \notin DOMAIN files
  BY <1>1, Kinds DEF IInv, WriterOK, FileNames
<1>3. /\ DOMAIN files' = DOMAIN files \cup {<<w, 0>>}
      /\ \A f \in DOMAIN files' : files'[f] = IF f = <<w, 0>> THEN RowBag(w) ELSE files[f]
  BY <1>1 DEF UploadAppend, Upload
<1>4. Types'
  <2>1. RowBag(w) \in [Row -> Nat]
    BY DEF RowBag
  <2> QED
    BY <1>1, <1>3, <2>1 DEF IInv, Types, TypeOK, Pcs, UploadAppend
<1>5. WriterOK(w)' /\ Alone(w)
  <2>1. AttemptLeft(w)' /\ Alone(w) /\ Fresh(w)'
    BY DEF IInv, Types, TypeOK, UploadAppend, WriterOK, AttemptLeft, Working, Alone, Fresh
  <2>2. FileNames(w)'
    <3>1. RowBag(w)' = RowBag(w)
      BY DEF RowBag
    <3> QED
      BY <1>1, <1>3, <3>1 DEF IInv, Types, TypeOK, UploadAppend, WriterOK, FileNames
  <2>3. Uploaded(w)'
    BY <1>1, <1>3 DEF IInv, Types, TypeOK, UploadAppend, Uploaded
  <2>5. NewName(w)'
    BY <1>1 DEF NewName
  <2>4. Once(w)'
    BY DEF IInv, Types, TypeOK, UploadAppend, WriterOK, Once, Working, Applied, Repeated
  <2> QED
    BY <2>1, <2>2, <2>3, <2>4, <2>5 DEF WriterOK
<1>6. Upload(<<w, 0>>, RowBag(w))
  BY <1>1 DEF UploadAppend
<1> QED
  BY <1>2, <1>4, <1>5, <1>6, UploadStep DEF UploadAppend

(* A rewrite holds numbers of rows. *)
LEMMA RewrittenRows ==
    ASSUME Types, NEW w \in Writers, IsFiniteSet(snap[w]), \A d \in snap[w] : d[1] \in DOMAIN files
    PROVE  Rewritten(w) \in [Row -> Nat]
<1>1. \A x \in Row : CountOf(files, x, snap[w]) \in Nat
  BY HeldRows, CountFinite
<1>2. RowsIn(snap[w]) \in [Row -> Nat]
  BY <1>1, RowsInCounts
<1> QED
  BY <1>2 DEF Rewritten, mergeBatches

(* The rewritten rows of a merge are there before it commits.              *)
LEMMA UploadRewriteKeepsInv ==
    ASSUME IInv, NEW w \in Writers, UploadRewrite(w) PROVE IInv'
<1>1. /\ pc[w] = "rewrite" /\ Kind[w] = "merge" /\ IsFiniteSet(snap[w])
      /\ \A d \in snap[w] : d[1] \in DOMAIN files
  BY Kinds DEF UploadRewrite, IInv, WriterOK, Uploaded, Fresh
<1>2. attempt[w] \in 0..MaxAttempts /\ attempt[w] < MaxAttempts /\ dataFile(w) = <<w, attempt[w]>>
  BY <1>1 DEF IInv, Types, TypeOK, WriterOK, AttemptLeft, Working, dataFile
<1>3. dataFile(w) \notin DOMAIN files /\ dataFile(w) \in FileId
  BY <1>1, <1>2 DEF IInv, WriterOK, FileNames, FileId
<1>4. /\ UNCHANGED <<log, attempt, next, snap, lost, errors>>
      /\ pc' = [pc EXCEPT ![w] = pc'[w]] /\ pc'[w] \in {"ok", "commit"}
  BY DEF UploadRewrite, IInv, Types, TypeOK
<1>5. Alone(w) /\ dataFile(w)' = dataFile(w)
  BY <1>4 DEF Alone, IInv, Types, TypeOK, dataFile
<1>6. AttemptLeft(w)' /\ NewName(w)' /\ Once(w)'
  BY <1>1, <1>4 DEF IInv, WriterOK, AttemptLeft, NewName, Once, Working, Applied, Repeated
<1>7. nextDeltaVersion' = nextDeltaVersion /\ NoRows' = NoRows
  BY <1>4 DEF nextDeltaVersion, ListLogVersions, NoRows
<1>8. CASE Rewritten(w) = NoRows
  <2>1. UNCHANGED files
    BY <1>8 DEF UploadRewrite
  <2>2. Rewritten(w)' = NoRows
    BY <1>4, <1>8, <2>1 DEF Rewritten, RowsIn, Copies, mergeBatches
  <2>3. Types'
    BY <1>4, <2>1 DEF IInv, Types, TypeOK, Pcs
  <2>4. Uploaded(w)'
    BY <1>1, <1>4, <1>7, <2>2 DEF Uploaded
  <2>5. FileNames(w)' /\ Fresh(w)'
    BY <1>1, <1>4, <1>7, <2>1 DEF IInv, WriterOK, FileNames, Fresh
  <2> QED
    BY <1>4, <1>5, <1>6, <2>1, <2>3, <2>4, <2>5, QuietStep DEF WriterOK
<1>9. CASE Rewritten(w) # NoRows
  <2>1. Upload(dataFile(w), Rewritten(w)) /\ pc'[w] = "commit"
    BY <1>9 DEF UploadRewrite, IInv, Types, TypeOK
  <2>2. /\ DOMAIN files' = DOMAIN files \cup {dataFile(w)}
        /\ \A f \in DOMAIN files' : files'[f] = IF f = dataFile(w) THEN Rewritten(w) ELSE files[f]
    BY <2>1 DEF Upload
  <2>3. Types'
    BY <1>1, <1>3, <1>4, <2>2, RewrittenRows DEF IInv, Types, TypeOK, Pcs
  <2>4. Rewritten(w)' = Rewritten(w)
    <3>1. [x \in Row |-> CountOf(files', x, snap[w])] = RowsIn(snap[w])
      BY <1>1, <1>3, <2>2, RowsStable
    <3>2. RowsIn(snap[w])' = RowsIn(snap[w])
      BY <1>4, <3>1 DEF RowsIn, Copies, CountOf, CopiesOf
    <3> QED
      BY <3>2 DEF Rewritten, mergeBatches
  <2>5. Uploaded(w)'
    BY <1>1, <1>4, <1>5, <1>7, <2>2, <2>4 DEF Uploaded
  <2>6. FileNames(w)'
    BY <1>1, <1>2, <1>4, <2>1, <2>2 DEF IInv, WriterOK, FileNames
  <2>7. Fresh(w)'
    BY <1>1, <1>4, <1>7, <2>2 DEF IInv, WriterOK, Fresh
  <2> QED
    BY <1>2, <1>3, <1>4, <1>5, <1>6, <2>1, <2>3, <2>5, <2>6, <2>7, UploadStep DEF WriterOK
<1> QED
  BY <1>8, <1>9
----------------------------------------------------------------------------
(* Publish puts the commit at the end of the log, ... *)
LEMMA PublishEnd ==
    ASSUME IInv, NEW w \in Writers, Publish(w)
    PROVE  \E n \in Nat :
               /\ next[w] = n /\ nextDeltaVersion = n
               /\ DOMAIN log = 0..(n - 1) /\ DOMAIN log' = 0..n
               /\ \A v \in 0..(n - 1) : log'[v] = log[v]
               /\ log'[n] = Commit(w)
<1>1. PICK n \in Nat : DOMAIN log = 0..(n - 1)
  BY DEF IInv, TableInv, Prefix
<1>2. nextDeltaVersion = n
  BY <1>1, NextVersion
<1>3. next[w] = n
  BY <1>2 DEF IInv, WriterOK, Fresh, Publish
<1>4. DOMAIN log' = DOMAIN log \cup {n} /\ DOMAIN log' = 0..n
  BY <1>1, <1>3 DEF Publish
<1> QED
  BY <1>1, <1>2, <1>3, <1>4 DEF Publish

(* ... counts its writer, ... *)
LEMMA PublishCounts ==
    ASSUME IInv, NEW w \in Writers, Publish(w)
    PROVE  /\ Applied' = Applied \cup {w}
           /\ Repeated' = Repeated \cup (IF w \in Applied THEN {w} ELSE {})
<1>1. PICK n \in Nat :
          /\ DOMAIN log = 0..(n - 1) /\ DOMAIN log' = 0..n
          /\ \A v \in 0..(n - 1) : log'[v] = log[v]
          /\ log'[n] = Commit(w)
  BY PublishEnd
<1>2. log'[n].by = w
  BY <1>1 DEF Commit
<1>3. Applied' = Applied \cup {w}
  BY <1>1, <1>2 DEF Applied
<1>4. \A x : x \in Repeated' <=> x \in Repeated \/ (x = w /\ w \in Applied)
  <2> SUFFICES ASSUME NEW x PROVE x \in Repeated' <=> x \in Repeated \/ (x = w /\ w \in Applied)
    OBVIOUS
  <2>1. ASSUME x \in Repeated' PROVE x \in Repeated \/ (x = w /\ w \in Applied)
    <3>1. PICK u \in 0..n, t \in 0..n : t < u /\ log'[t].by = log'[u].by /\ x = log'[u].by
      BY <1>1, <2>1 DEF Repeated
    <3>2. t \in 0..(n - 1) /\ log'[t] = log[t]
      BY <1>1, <3>1
    <3>3. CASE u = n
      BY <1>1, <1>2, <3>1, <3>2, <3>3 DEF Applied
    <3>4. CASE u # n
      <4>1. u \in 0..(n - 1) /\ log'[u] = log[u]
        BY <1>1, <3>1, <3>4
      <4> QED
        BY <1>1, <3>1, <3>2, <4>1 DEF Repeated
    <3> QED
      BY <3>3, <3>4
  <2>2. ASSUME x \in Repeated PROVE x \in Repeated'
    <3>1. PICK u \in 0..(n - 1), t \in 0..(n - 1) :
              t < u /\ log[t].by = log[u].by /\ x = log[u].by
      BY <1>1, <2>2 DEF Repeated
    <3>2. u \in 0..n /\ t \in 0..n /\ log'[t] = log[t] /\ log'[u] = log[u]
      BY <1>1, <3>1
    <3> QED
      BY <1>1, <3>1, <3>2 DEF Repeated
  <2>3. ASSUME w \in Applied PROVE w \in Repeated'
    <3>1. PICK t \in 0..(n - 1) : log[t].by = w
      BY <1>1, <2>3 DEF Applied
    <3>2. t \in 0..n /\ n \in 0..n /\ t < n /\ log'[t].by = w
      BY <1>1, <3>1
    <3> QED
      BY <1>1, <1>2, <3>2 DEF Repeated
  <2> QED
    BY <2>1, <2>2, <2>3
<1>5. Repeated' = Repeated \cup (IF w \in Applied THEN {w} ELSE {})
  BY <1>4, Zenon
<1> QED
  BY <1>3, <1>5

(* What the commit adds and removes.                                       *)
LEMMA PublishAdds ==
    ASSUME IInv, NEW w \in Writers, Publish(w)
    PROVE  /\ Commit(w).by = w /\ Commit(w).adds \subseteq FileId
           /\ Kind[w] = "append" =>
                  /\ Commit(w).adds = {<<w, 0>>} /\ Commit(w).removes = {}
                  /\ <<w, 0>> \in DOMAIN files /\ files[<<w, 0>>] = RowBag(w)
           /\ Kind[w] = "merge" =>
                  /\ Commit(w).adds = IF Rewritten(w) = NoRows THEN {} ELSE {<<w, attempt[w]>>}
                  /\ Commit(w).removes = IF next[w] = 0 THEN {} ELSE {d[1] : d \in snap[w]}
                  /\ snap[w] = activeFiles(log)
                  /\ Rewritten(w) = mergeBatches(TableRows, w)
                  /\ Rewritten(w) # NoRows =>
                         /\ <<w, attempt[w]>> \in DOMAIN files
                         /\ files[<<w, attempt[w]>>] = Rewritten(w)
<1>1. pc[w] = "commit" /\ next[w] \notin DOMAIN log
  BY DEF Publish
<1>2. attempt[w] \in 0..MaxAttempts /\ 0 \in 0..MaxAttempts
  BY Kinds DEF IInv, Types, TypeOK
<1>3. /\ Commit(w).by = w
      /\ Commit(w).adds = IF Kind[w] = "merge" /\ Rewritten(w) = NoRows THEN {} ELSE {dataFile(w)}
      /\ Commit(w).removes =
             IF Kind[w] = "merge" /\ next[w] # 0 THEN {d[1] : d \in snap[w]} ELSE {}
  BY DEF Commit
<1>4. CASE Kind[w] = "append"
  <2>1. dataFile(w) = <<w, 0>> /\ <<w, 0>> \in FileId
    BY <1>2, <1>4 DEF dataFile, FileId
  <2>2. <<w, 0>> \in DOMAIN files
    BY <1>1, <1>4 DEF IInv, WriterOK, Uploaded
  <2>3. files[<<w, 0>>] = RowBag(w)
    BY <1>2, <1>4, <2>2 DEF IInv, WriterOK, FileNames
  <2> QED
    BY <1>3, <1>4, <2>1, <2>2, <2>3
<1>5. CASE Kind[w] = "merge"
  <2>1. dataFile(w) = <<w, attempt[w]>> /\ <<w, attempt[w]>> \in FileId
    BY <1>2, <1>5 DEF dataFile, FileId
  <2>2. snap[w] = activeFiles(log)
    BY <1>1, <1>5 DEF IInv, WriterOK, Fresh
  <2>3. Rewritten(w) = mergeBatches(TableRows, w)
    BY <2>2 DEF Rewritten, TableRows
  <2>4. Rewritten(w) # NoRows =>
            <<w, attempt[w]>> \in DOMAIN files /\ files[<<w, attempt[w]>>] = Rewritten(w)
    BY <1>1, <1>5, <2>1 DEF IInv, WriterOK, Uploaded
  <2>5. /\ Commit(w).adds = IF Rewritten(w) = NoRows THEN {} ELSE {<<w, attempt[w]>>}
        /\ Commit(w).removes = IF next[w] = 0 THEN {} ELSE {d[1] : d \in snap[w]}
    BY <1>3, <1>5, <2>1
  <2>6. Commit(w).adds \subseteq FileId
    BY <2>1, <2>5
  <2> QED
    BY <1>3, <1>5, <2>2, <2>3, <2>4, <2>5, <2>6
<1> QED
  BY <1>4, <1>5, Kinds

(* What an append adds ...                                                 *)
LEMMA AppendAdds ==
    ASSUME IInv, NEW w \in Writers, Publish(w), Kind[w] = "append"
    PROVE  /\ Commit(w).by = w /\ Commit(w).adds = {<<w, 0>>} /\ Commit(w).removes = {}
           /\ <<w, 0>> \in DOMAIN files /\ files[<<w, 0>>] = RowBag(w)
BY PublishAdds

(* ... and a merge.                                                        *)
LEMMA MergeAdds ==
    ASSUME IInv, NEW w \in Writers, Publish(w), Kind[w] = "merge"
    PROVE  /\ Commit(w).by = w
           /\ Commit(w).removes = IF next[w] = 0 THEN {} ELSE {d[1] : d \in activeFiles(log)}
           /\ \A f \in Commit(w).adds :
                  /\ f = <<w, attempt[w]>> /\ f \in DOMAIN files
                  /\ files[f] = mergeBatches(TableRows, w)
<1>1. /\ Commit(w).by = w
      /\ Commit(w).adds = IF Rewritten(w) = NoRows THEN {} ELSE {<<w, attempt[w]>>}
      /\ Commit(w).removes = IF next[w] = 0 THEN {} ELSE {d[1] : d \in snap[w]}
      /\ snap[w] = activeFiles(log)
      /\ Rewritten(w) = mergeBatches(TableRows, w)
      /\ Rewritten(w) # NoRows =>
             /\ <<w, attempt[w]>> \in DOMAIN files
             /\ files[<<w, attempt[w]>>] = Rewritten(w)
  BY PublishAdds
<1>2. \A f \in Commit(w).adds : f = <<w, attempt[w]>> /\ Rewritten(w) # NoRows
  BY <1>1
<1> QED
  BY <1>1, <1>2

(* What is active after the commit.                                        *)
LEMMA PublishActive ==
    ASSUME IInv, NEW w \in Writers, Publish(w), NEW f \in FileId
    PROVE  f \in Active(log') <=>
               f \in Commit(w).adds \/ (f \in Active(log) /\ f \notin Commit(w).removes)
<1>1. PICK n \in Nat :
          /\ DOMAIN log = 0..(n - 1) /\ DOMAIN log' = 0..n
          /\ \A v \in 0..(n - 1) : log'[v] = log[v]
          /\ log'[n] = Commit(w)
  BY PublishEnd
<1>2. ASSUME f \in Active(log'), f \notin Commit(w).adds
      PROVE  f \in Active(log) /\ f \notin Commit(w).removes
  <2>1. PICK v \in 0..n : f \in log'[v].adds /\ \A u \in 0..n : u > v => f \notin log'[u].removes
    BY <1>1, <1>2 DEF Active
  <2>2. v \in 0..(n - 1)
    BY <1>1, <1>2, <2>1
  <2>3. f \in log[v].adds /\ \A u \in 0..(n - 1) : u > v => f \notin log[u].removes
    BY <1>1, <2>1, <2>2
  <2>4. f \notin log'[n].removes
    BY <2>1, <2>2
  <2> QED
    BY <1>1, <2>2, <2>3, <2>4 DEF Active
<1>3. ASSUME f \in Commit(w).adds PROVE f \in Active(log')
  BY <1>1, <1>3 DEF Active
<1>4. ASSUME f \in Active(log), f \notin Commit(w).removes PROVE f \in Active(log')
  <2>1. PICK v \in 0..(n - 1) :
            f \in log[v].adds /\ \A u \in 0..(n - 1) : u > v => f \notin log[u].removes
    BY <1>1, <1>4 DEF Active
  <2>2. v \in 0..n /\ f \in log'[v].adds
    BY <1>1, <2>1
  <2>3. \A u \in 0..n : u > v => f \notin log'[u].removes
    <3> TAKE u \in 0..n
    <3>1. CASE u = n
      BY <1>1, <1>4, <3>1
    <3>2. CASE u # n
      BY <1>1, <2>1, <3>2
    <3> QED
      BY <3>1, <3>2
  <2> QED
    BY <1>1, <2>2, <2>3 DEF Active
<1> QED
  BY <1>2, <1>3, <1>4

(* What is in the list after it: of the adds that were there those of      *)
(* files that are active still, or again ...                               *)
LEMMA PublishOldEntry ==
    ASSUME IInv, NEW w \in Writers, Publish(w), NEW f, NEW v \in DOMAIN log
    PROVE  <<f, v>> \in activeFiles(log') <=>
               f \in log[v].adds /\ f \in Active(log') /\ Enters(f, v, log)
<1>1. PICK n \in Nat :
          /\ DOMAIN log = 0..(n - 1) /\ DOMAIN log' = 0..n
          /\ \A u \in 0..(n - 1) : log'[u] = log[u]
  BY PublishEnd
<1>2. Enters(f, v, log') <=> Enters(f, v, log)
  BY <1>1 DEF Enters
<1>3. v \in DOMAIN log' /\ log'[v] = log[v]
  BY <1>1
<1>4. <<f, v>> \in activeFiles(log') <=>
          v \in DOMAIN log' /\ f \in log'[v].adds /\ f \in Active(log') /\ Enters(f, v, log')
  BY Listed
<1> QED
  BY <1>2, <1>3, <1>4

(* ... and of its own adds those that were not active.                     *)
LEMMA PublishNewEntry ==
    ASSUME IInv, NEW w \in Writers, Publish(w), NEW f \in FileId
    PROVE  <<f, next[w]>> \in activeFiles(log') <=>
               f \in Commit(w).adds /\ (f \in Commit(w).removes \/ f \notin Active(log))
<1>1. PICK n \in Nat :
          /\ next[w] = n /\ DOMAIN log = 0..(n - 1) /\ DOMAIN log' = 0..n
          /\ \A u \in 0..(n - 1) : log'[u] = log[u]
          /\ log'[n] = Commit(w)
  BY PublishEnd
<1>2. f \in Commit(w).adds => f \in Active(log')
  BY PublishActive
<1>3. Enters(f, n, log') <=> f \in Commit(w).removes \/ f \notin Active(log)
  <2>1. ASSUME Enters(f, n, log'), f \in Active(log) PROVE f \in Commit(w).removes
    <3>1. PICK v \in 0..(n - 1) :
              f \in log[v].adds /\ \A u \in 0..(n - 1) : u > v => f \notin log[u].removes
      BY <1>1, <2>1 DEF Active
    <3>2. v \in 0..n /\ v < n /\ f \in log'[v].adds
      BY <1>1, <3>1
    <3>3. PICK t \in 0..n : v < t /\ f \in log'[t].removes
      BY <1>1, <2>1, <3>2 DEF Enters
    <3>4. CASE t = n
      BY <1>1, <3>3, <3>4
    <3>5. CASE t # n
      BY <1>1, <3>1, <3>3, <3>5
    <3> QED
      BY <3>4, <3>5
  <2>2. ASSUME f \in Commit(w).removes PROVE Enters(f, n, log')
    BY <1>1, <2>2 DEF Enters
  <2>3. ASSUME f \notin Active(log) PROVE Enters(f, n, log')
    <3> SUFFICES ASSUME NEW u \in 0..n, u < n, f \in log'[u].adds
                 PROVE  \E t \in 0..n : u < t /\ t <= n /\ f \in log'[t].removes
      BY <1>1 DEF Enters
    <3>1. u \in 0..(n - 1) /\ f \in log[u].adds
      BY <1>1
    <3>2. PICK t \in 0..(n - 1) : t > u /\ f \in log[t].removes
      BY <1>1, <2>3, <3>1 DEF Active
    <3> QED
      BY <1>1, <3>2
  <2> QED
    BY <2>1, <2>2, <2>3
<1>4. <<f, n>> \in activeFiles(log') <=>
          n \in DOMAIN log' /\ f \in log'[n].adds /\ f \in Active(log') /\ Enters(f, n, log')
  BY Listed
<1> QED
  BY <1>1, <1>2, <1>3, <1>4

(* Nothing else is in the list.                                            *)
LEMMA PublishEntries ==
    ASSUME IInv, NEW w \in Writers, Publish(w), NEW d \in activeFiles(log')
    PROVE  \E f \in FileId, v \in DOMAIN log \cup {next[w]} : d = <<f, v>>
<1>1. d = <<d[1], d[2]>> /\ d[1] \in FileId
  BY Listed DEF activeFiles, Active
<1>2. d[2] \in DOMAIN log'
  BY <1>1, Listed
<1> QED
  BY <1>1, <1>2 DEF Publish

(* An append whose file is active already leaves the list as it is; one    *)
(* whose file is new adds an entry; one whose file is not active any more  *)
(* adds an entry and brings back the one that it had.                      *)
LEMMA PublishAppends ==
    ASSUME IInv, NEW w \in Writers, Publish(w), Kind[w] = "append"
    PROVE  \/ /\ w \in Applied /\ <<w, 0>> \in Active(log)
              /\ activeFiles(log') = activeFiles(log)
           \/ /\ w \notin Applied
              /\ \E d : /\ d \notin activeFiles(log) /\ d[1] = <<w, 0>>
                        /\ activeFiles(log') = activeFiles(log) \cup {d}
           \/ /\ w \in Applied /\ \E v \in DOMAIN log : <<w, 0>> \in log[v].removes
              /\ \E d, e : /\ d \notin activeFiles(log) /\ d[1] = <<w, 0>>
                           /\ e \notin activeFiles(log) \cup {d} /\ e[1] = <<w, 0>>
                           /\ activeFiles(log') = (activeFiles(log) \cup {d}) \cup {e}
<1> DEFINE f == <<w, 0>>
<1>1. PICK n \in Nat :
          /\ next[w] = n /\ DOMAIN log = 0..(n - 1) /\ DOMAIN log' = 0..n
          /\ \A u \in 0..(n - 1) : log'[u] = log[u]
  BY PublishEnd
<1>2. Commit(w).adds = {f} /\ Commit(w).removes = {} /\ f \in FileId
  BY PublishAdds
<1>3. \A g \in FileId : g \in Active(log') <=> g = f \/ g \in Active(log)
  BY <1>2, PublishActive
<1>4. \A v \in DOMAIN log : f \in log[v].adds <=> log[v].by = w
  BY <1>2 DEF IInv, TableInv, CommitsOwn
<1>5. ASSUME NEW g \in FileId, g # f, NEW v
      PROVE  <<g, v>> \in activeFiles(log') <=> <<g, v>> \in activeFiles(log)
  <2>1. CASE v \in DOMAIN log
    <3>1. <<g, v>> \in activeFiles(log') <=>
              g \in log[v].adds /\ g \in Active(log') /\ Enters(g, v, log)
      BY <2>1, PublishOldEntry
    <3>2. <<g, v>> \in activeFiles(log) <=>
              g \in log[v].adds /\ g \in Active(log) /\ Enters(g, v, log)
      BY <2>1, Listed
    <3> QED
      BY <1>3, <1>5, <3>1, <3>2
  <2>2. CASE v \notin DOMAIN log
    <3>1. <<g, v>> \notin activeFiles(log)
      BY <2>2, Listed
    <3>2. ASSUME <<g, v>> \in activeFiles(log') PROVE FALSE
      <4>1. v \in DOMAIN log'
        BY <3>2, Listed
      <4>2. v = next[w]
        BY <1>1, <2>2, <4>1
      <4> QED
        BY <1>2, <1>5, <3>2, <4>2, PublishNewEntry
    <3> QED
      BY <3>1, <3>2
  <2> QED
    BY <2>1, <2>2
<1>6. <<f, n>> \in activeFiles(log') <=> f \notin Active(log)
  BY <1>1, <1>2, PublishNewEntry
<1>7. <<f, n>> \notin activeFiles(log)
  BY <1>1, Listed
<1>8. \A v \in DOMAIN log : <<f, v>> \in activeFiles(log') <=> log[v].by = w /\ Enters(f, v, log)
  BY <1>2, <1>3, <1>4, PublishOldEntry
<1>9. \A v \in DOMAIN log :
          <<f, v>> \in activeFiles(log) <=> log[v].by = w /\ f \in Active(log) /\ Enters(f, v, log)
  BY <1>4, Listed
<1>10. /\ \A d \in activeFiles(log) : d = <<d[1], d[2]>> /\ d[1] \in FileId /\ d[2] \in 0..(n - 1)
       /\ \A d \in activeFiles(log') : d = <<d[1], d[2]>> /\ d[1] \in FileId /\ d[2] \in 0..n
  <2>1. /\ \A d \in activeFiles(log) : d = <<d[1], d[2]>> /\ d[1] \in FileId
        /\ \A d \in activeFiles(log') : d = <<d[1], d[2]>> /\ d[1] \in FileId
    BY Listed DEF activeFiles, Active
  <2> QED
    BY <1>1, <2>1, Listed
<1>11. CASE f \in Active(log)
  <2>1. w \in Applied
    BY <1>4, <1>11, ActiveAdded DEF Applied
  <2>2. \A g \in FileId, v \in 0..n : <<g, v>> \in activeFiles(log') <=> <<g, v>> \in activeFiles(log)
    <3> TAKE g \in FileId, v \in 0..n
    <3>1. CASE g # f
      BY <1>5, <3>1
    <3>2. CASE g = f /\ v = n
      BY <1>6, <1>7, <1>11, <3>2
    <3>3. CASE g = f /\ v # n
      BY <1>1, <1>8, <1>9, <1>11, <3>3
    <3> QED
      BY <3>1, <3>2, <3>3
  <2>3. activeFiles(log') = activeFiles(log)
    BY <1>10, <2>2
  <2> QED
    BY <1>11, <2>1, <2>3
<1>12. CASE f \notin Active(log)
  <2>1. \A v : <<f, v>> \notin activeFiles(log)
    BY <1>12, Listed
  <2>2. <<f, n>> \in activeFiles(log')
    BY <1>6, <1>12
  <2>3. CASE w \notin Applied
    <3>1. \A v \in DOMAIN log : log[v].by # w
      BY <2>3 DEF Applied
    <3>2. \A g \in FileId, v \in 0..n :
              <<g, v>> \in activeFiles(log') <=> <<g, v>> \in activeFiles(log) \cup {<<f, n>>}
      <4> TAKE g \in FileId, v \in 0..n
      <4>1. CASE g # f
        BY <1>5, <4>1
      <4>2. CASE g = f /\ v = n
        BY <2>2, <4>2
      <4>3. CASE g = f /\ v # n
        BY <1>1, <1>8, <2>1, <3>1, <4>3
      <4> QED
        BY <4>1, <4>2, <4>3
    <3>3. activeFiles(log') = activeFiles(log) \cup {<<f, n>>}
      BY <1>10, <2>2, <3>2
    <3> QED
      BY <1>7, <2>3, <3>3
  <2>4. CASE w \in Applied
    <3>1. PICK k \in DOMAIN log : log[k].by = w
      BY <2>4 DEF Applied
    <3>2. w \notin Repeated
      BY <2>4 DEF IInv, WriterOK, Once, Publish, Working
    <3>3. \A v \in DOMAIN log : log[v].by = w => v = k
      <4> SUFFICES ASSUME NEW v \in DOMAIN log, log[v].by = w, v # k PROVE FALSE
        OBVIOUS
      <4>1. v < k \/ k < v
        BY <1>1
      <4> QED
        BY <3>1, <3>2, <4>1 DEF Repeated
    <3>4. Enters(f, k, log)
      BY <1>1, <1>4, <3>3 DEF Enters
    <3>5. \E v \in DOMAIN log : f \in log[v].removes
      BY <1>2, <1>4, <1>12, <3>1 DEF Active
    <3>6. \A g \in FileId, v \in 0..n :
              <<g, v>> \in activeFiles(log') <=>
                  <<g, v>> \in (activeFiles(log) \cup {<<f, n>>}) \cup {<<f, k>>}
      <4> TAKE g \in FileId, v \in 0..n
      <4>1. CASE g # f
        BY <1>5, <4>1
      <4>2. CASE g = f /\ v = n
        BY <2>2, <4>2
      <4>3. CASE g = f /\ v # n
        <5>1. v \in DOMAIN log
          BY <1>1, <4>3
        <5>2. <<f, v>> \in activeFiles(log') <=> v = k
          BY <1>8, <3>1, <3>3, <3>4, <5>1
        <5> QED
          BY <2>1, <4>3, <5>2
      <4> QED
        BY <4>1, <4>2, <4>3
    <3>7. <<f, k>> \in activeFiles(log')
      BY <1>8, <3>1, <3>4
    <3>8. activeFiles(log') = (activeFiles(log) \cup {<<f, n>>}) \cup {<<f, k>>}
      BY <1>10, <2>2, <3>6, <3>7
    <3>9. <<f, k>> \notin activeFiles(log) \cup {<<f, n>>}
      BY <1>1, <2>1, <3>1
    <3> QED
      BY <1>7, <2>4, <3>5, <3>8, <3>9
  <2> QED
    BY <2>3, <2>4
<1> QED
  BY <1>11, <1>12

(* A merge leaves its own file in the list and no other.                   *)
LEMMA PublishRewrites ==
    ASSUME IInv, NEW w \in Writers, Publish(w), Kind[w] = "merge"
    PROVE  /\ activeFiles(log') =
                  IF Rewritten(w) = NoRows THEN {} ELSE {<< <<w, attempt[w]>>, next[w]>>}
           /\ Active(log') = Commit(w).adds
<1>1. PICK n \in Nat :
          /\ next[w] = n /\ DOMAIN log = 0..(n - 1) /\ DOMAIN log' = 0..n
          /\ \A u \in 0..(n - 1) : log'[u] = log[u]
  BY PublishEnd
<1>2. /\ Commit(w).adds = IF Rewritten(w) = NoRows THEN {} ELSE {<<w, attempt[w]>>}
      /\ Commit(w).removes = IF n = 0 THEN {} ELSE {d[1] : d \in activeFiles(log)}
      /\ Commit(w).adds \subseteq FileId
  BY <1>1, PublishAdds
<1>3. \A g \in Active(log) : g \in Commit(w).removes
  <2> TAKE g \in Active(log)
  <2>1. PICK d \in activeFiles(log) : d[1] = g
    BY DEF IInv, TableInv, Listing
  <2>2. n # 0
    BY <1>1, ActiveAdded
  <2> QED
    BY <1>2, <2>1, <2>2
<1>4. Active(log') = Commit(w).adds
  <2>1. \A g \in FileId : g \in Active(log') <=> g \in Commit(w).adds
    BY <1>3, PublishActive
  <2> QED
    BY <1>2, <2>1 DEF Active
<1>5. \A v \in DOMAIN log : <<w, attempt[w]>> \notin log[v].adds
  <2>1. attempt[w] \in 0..MaxAttempts /\ attempt[w] \in Nat
    BY Kinds DEF IInv, Types, TypeOK
  <2> QED
    BY <2>1 DEF IInv, WriterOK, NewName, Publish, Working
<1>6. \A d \in activeFiles(log') : d[1] \in Commit(w).adds /\ d = <<d[1], n>>
  <2> TAKE d \in activeFiles(log')
  <2>1. d = <<d[1], d[2]>> /\ d[2] \in DOMAIN log' /\ d[1] \in Active(log')
    <3>1. d = <<d[1], d[2]>>
      BY Listed
    <3>2. <<d[1], d[2]>> \in activeFiles(log')
      BY <3>1
    <3> QED
      BY <3>1, <3>2, Listed
  <2>2. d[1] = <<w, attempt[w]>>
    BY <1>2, <1>4, <2>1
  <2>3. ASSUME d[2] \in DOMAIN log PROVE FALSE
    <3>1. << <<w, attempt[w]>>, d[2]>> \in activeFiles(log')
      BY <2>1, <2>2
    <3> QED
      BY <1>5, <2>3, <3>1, PublishOldEntry
  <2> QED
    BY <1>1, <1>4, <2>1, <2>3
<1>7. ASSUME NEW g \in Commit(w).adds PROVE <<g, n>> \in activeFiles(log')
  <2>1. g \in FileId /\ g = <<w, attempt[w]>>
    BY <1>2
  <2>2. g \notin Active(log)
    BY <1>5, <2>1, ActiveAdded
  <2> QED
    BY <1>1, <2>1, <2>2, PublishNewEntry
<1>8. CASE Rewritten(w) = NoRows
  BY <1>2, <1>4, <1>6, <1>8
<1>9. CASE Rewritten(w) # NoRows
  <2>1. Commit(w).adds = {<<w, attempt[w]>>}
    BY <1>2, <1>9
  <2>2. activeFiles(log') = {<< <<w, attempt[w]>>, n>>}
    BY <1>6, <1>7, <2>1
  <2> QED
    BY <1>1, <1>4, <1>9, <2>2
<1> QED
  BY <1>8, <1>9

(* The table after a commit counts the files that are listed then.         *)
LEMMA PublishCount ==
    ASSUME IInv, NEW w \in Writers, Publish(w), UNCHANGED files
    PROVE  TableRows' = [x \in Row |-> CountOf(files, x, activeFiles(log'))]
BY DEF TableRows, RowsIn, Copies, CountOf, CopiesOf

(* An append adds its rows, once if it is its first commit, else not at    *)
(* all, or twice if its file had been removed.                             *)
LEMMA PublishedAppend ==
    ASSUME IInv, NEW w \in Writers, Publish(w), UNCHANGED files, Kind[w] = "append"
    PROVE  \E copies \in {0, 1, 2} :
               /\ TableRows' = [x \in Row |-> TableRows[x] + IF x \in RowsOf(w) THEN copies ELSE 0]
               /\ copies = 1 <=> w \notin Applied
               /\ copies = 2 => \E v \in DOMAIN log : <<w, 0>> \in log[v].removes
               /\ \A x \in RowsOf(w) : TableRows'[x] > 0
<1> DEFINE L == activeFiles(log)
<1>1. /\ TableRows' = [x \in Row |-> CountOf(files, x, activeFiles(log'))]
      /\ TableRows = [x \in Row |-> CountOf(files, x, L)]
      /\ IsFiniteSet(L)
      /\ \A x \in Row : TableRows[x] \in Nat /\ Held(files, x, L)
      /\ \A x \in Row : TableRows[x] > 0 <=> \E d \in L : files[d[1]][x] > 0
  BY PublishCount, TableCounts DEF IInv, TableInv, Listing
<1>2. files[<<w, 0>>] = [x \in Row |-> IF x \in RowsOf(w) THEN 1 ELSE 0]
  BY PublishAdds DEF RowBag
<1>3. RowsOf(w) \subseteq Row
  BY RowTypes
<1> HIDE DEF L
<1>4. CASE w \in Applied /\ <<w, 0>> \in Active(log) /\ activeFiles(log') = L
  <2>1. TableRows' = [x \in Row |-> TableRows[x] + IF x \in RowsOf(w) THEN 0 ELSE 0]
    BY <1>1, <1>4
  <2>2. ASSUME NEW x \in RowsOf(w) PROVE TableRows'[x] > 0
    <3>1. PICK d \in L : d[1] = <<w, 0>>
      BY <1>4 DEF IInv, TableInv, Listing, L
    <3>2. files[d[1]][x] > 0
      BY <1>2, <1>3, <3>1
    <3>3. TableRows'[x] = TableRows[x]
      BY <1>1, <1>3, <1>4
    <3> QED
      BY <1>1, <1>3, <3>2, <3>3
  <2> QED
    BY <1>4, <2>1, <2>2
<1>5. ASSUME NEW S, IsFiniteSet(S), NEW d, d \notin S, d[1] = <<w, 0>>, NEW x \in Row, Held(files, x, S)
      PROVE  /\ CountOf(files, x, S \cup {d}) =
                    CountOf(files, x, S) + IF x \in RowsOf(w) THEN 1 ELSE 0
             /\ Held(files, x, S \cup {d})
  <2>1. files[d[1]][x] = IF x \in RowsOf(w) THEN 1 ELSE 0
    BY <1>2, <1>5
  <2>2. Held(files, x, S \cup {d})
    BY <1>5, <2>1 DEF Held
  <2>3. CountOf(files, x, S \cup {d}) = CountOf(files, x, S) + files[d[1]][x]
    BY <1>5, <2>2, CountAdd
  <2> QED
    BY <2>1, <2>2, <2>3
<1>6. ASSUME w \notin Applied, NEW d, d \notin L, d[1] = <<w, 0>>, activeFiles(log') = L \cup {d}
      PROVE  /\ TableRows' = [x \in Row |-> TableRows[x] + IF x \in RowsOf(w) THEN 1 ELSE 0]
             /\ \A x \in RowsOf(w) : TableRows'[x] > 0
  <2>1. \A x \in Row : CountOf(files, x, L \cup {d}) = TableRows[x] + IF x \in RowsOf(w) THEN 1 ELSE 0
    BY <1>1, <1>5, <1>6
  <2>2. TableRows' = [x \in Row |-> TableRows[x] + IF x \in RowsOf(w) THEN 1 ELSE 0]
    BY <1>1, <1>6, <2>1
  <2> QED
    BY <1>1, <1>3, <2>2
<1>7. ASSUME w \in Applied, NEW d, NEW e, d \notin L, d[1] = <<w, 0>>, e \notin L \cup {d}, e[1] = <<w, 0>>,
             activeFiles(log') = (L \cup {d}) \cup {e}
      PROVE  /\ TableRows' = [x \in Row |-> TableRows[x] + IF x \in RowsOf(w) THEN 2 ELSE 0]
             /\ \A x \in RowsOf(w) : TableRows'[x] > 0
  <2>1. IsFiniteSet(L \cup {d})
    BY <1>1, FS_AddElement
  <2>2. \A x \in Row :
            /\ CountOf(files, x, L \cup {d}) = TableRows[x] + IF x \in RowsOf(w) THEN 1 ELSE 0
            /\ Held(files, x, L \cup {d})
    BY <1>1, <1>5, <1>7
  <2>3. \A x \in Row :
            CountOf(files, x, (L \cup {d}) \cup {e}) =
                CountOf(files, x, L \cup {d}) + IF x \in RowsOf(w) THEN 1 ELSE 0
    BY <1>5, <1>7, <2>1, <2>2
  <2>4. \A x \in Row :
            CountOf(files, x, (L \cup {d}) \cup {e}) = TableRows[x] + IF x \in RowsOf(w) THEN 2 ELSE 0
    <3> TAKE x \in Row
    <3> DEFINE old == TableRows[x]
               one == CountOf(files, x, L \cup {d})
               two == CountOf(files, x, (L \cup {d}) \cup {e})
    <3>1. /\ old \in Nat
          /\ one = old + IF x \in RowsOf(w) THEN 1 ELSE 0
          /\ two = one + IF x \in RowsOf(w) THEN 1 ELSE 0
      BY <1>1, <2>2, <2>3
    <3> HIDE DEF old, one, two
    <3>2. CASE x \in RowsOf(w)
      BY <3>1, <3>2 DEF old, two
    <3>3. CASE x \notin RowsOf(w)
      BY <3>1, <3>3 DEF old, two
    <3> QED
      BY <3>2, <3>3
  <2>5. TableRows' = [x \in Row |-> TableRows[x] + IF x \in RowsOf(w) THEN 2 ELSE 0]
    BY <1>1, <1>7, <2>4
  <2> QED
    BY <1>1, <1>3, <2>5
<1>8. \/ /\ w \in Applied /\ <<w, 0>> \in Active(log) /\ activeFiles(log') = L
      \/ /\ w \notin Applied
         /\ \E d : d \notin L /\ d[1] = <<w, 0>> /\ activeFiles(log') = L \cup {d}
      \/ /\ w \in Applied /\ \E v \in DOMAIN log : <<w, 0>> \in log[v].removes
         /\ \E d, e : /\ d \notin L /\ d[1] = <<w, 0>> /\ e \notin L \cup {d} /\ e[1] = <<w, 0>>
                      /\ activeFiles(log') = (L \cup {d}) \cup {e}
  BY PublishAppends DEF L
<1>9. CASE w \notin Applied
  <2>1. PICK d : d \notin L /\ d[1] = <<w, 0>> /\ activeFiles(log') = L \cup {d}
    BY <1>8, <1>9
  <2> QED
    BY <1>6, <1>9, <2>1
<1>10. CASE w \in Applied /\ ~(<<w, 0>> \in Active(log) /\ activeFiles(log') = L)
  <2>1. PICK d, e : /\ d \notin L /\ d[1] = <<w, 0>> /\ e \notin L \cup {d} /\ e[1] = <<w, 0>>
                    /\ activeFiles(log') = (L \cup {d}) \cup {e}
    BY <1>8, <1>10
  <2>2. \E v \in DOMAIN log : <<w, 0>> \in log[v].removes
    BY <1>8, <1>10
  <2> QED
    BY <1>7, <1>10, <2>1, <2>2
<1> QED
  BY <1>4, <1>9, <1>10

(* A merge makes the table what it read, merged.                           *)
LEMMA PublishedMerge ==
    ASSUME IInv, NEW w \in Writers, Publish(w), UNCHANGED files, Kind[w] = "merge"
    PROVE  TableRows' = mergeBatches(TableRows, w)
<1>1. TableRows' = [x \in Row |-> CountOf(files, x, activeFiles(log'))]
  BY PublishCount
<1>2. /\ Rewritten(w) = mergeBatches(TableRows, w)
      /\ Rewritten(w) # NoRows =>
             <<w, attempt[w]>> \in DOMAIN files /\ files[<<w, attempt[w]>>] = Rewritten(w)
  BY PublishAdds
<1>3. CASE Rewritten(w) = NoRows
  <2>1. activeFiles(log') = {}
    BY <1>3, PublishRewrites
  <2> QED
    BY <1>1, <1>2, <1>3, <2>1, CountNone DEF NoRows
<1>4. CASE Rewritten(w) # NoRows
  <2> DEFINE d == << <<w, attempt[w]>>, next[w]>>
  <2>1. activeFiles(log') = {d} /\ d[1] \in DOMAIN files /\ files[d[1]] = Rewritten(w)
    BY <1>2, <1>4, PublishRewrites
  <2>2. \A x \in Row : files[d[1]][x] \in Nat
    BY <2>1 DEF IInv, Types, TypeOK
  <2> HIDE DEF d
  <2>3. \A x \in Row : CountOf(files, x, {d}) = files[d[1]][x]
    <3> TAKE x \in Row
    <3>1. Held(files, x, {d})
      BY <2>2 DEF Held
    <3> QED
      BY <3>1, CountAlone
  <2>4. TableRows' = [x \in Row |-> Rewritten(w)[x]]
    BY <1>1, <2>1, <2>3
  <2>5. Rewritten(w) = [x \in Row |-> Rewritten(w)[x]]
    BY <1>2 DEF mergeBatches
  <2> QED
    BY <1>2, <2>4, <2>5
<1> QED
  BY <1>3, <1>4

(* A commit at the next version keeps the table as it has to be, whoever   *)
(* publishes and whether or not it hears of its success.                   *)
LEMMA PublishTableInv ==
    ASSUME IInv, NEW w \in Writers, Publish(w), UNCHANGED files, lost \subseteq lost'
    PROVE  TableInv'
<1>1. PICK n \in Nat :
          /\ next[w] = n /\ DOMAIN log = 0..(n - 1) /\ DOMAIN log' = 0..n
          /\ \A v \in 0..(n - 1) : log'[v] = log[v]
          /\ log'[n] = Commit(w)
  BY PublishEnd
<1>2. \A y : Kind[y] = "append" => dataFile(y) = <<y, 0>> /\ dataFile(y)' = <<y, 0>>
  BY DEF dataFile
<1>3. Applied' = Applied \cup {w}
  BY PublishCounts
<1>4. Prefix'
  <2>1. n + 1 \in Nat /\ DOMAIN log' = 0..((n + 1) - 1)
    BY <1>1
  <2> QED
    BY <2>1 DEF Prefix
<1>5. CommitsOwn'
  <2> SUFFICES ASSUME NEW v \in 0..n
               PROVE  /\ \A f \in log'[v].adds : f \in DOMAIN files /\ f[1] = log'[v].by
                      /\ Kind[log'[v].by] = "append" => log'[v].adds = {<<log'[v].by, 0>>}
    BY <1>1 DEF CommitsOwn
  <2>1. CASE v = n
    <3>1. CASE Kind[w] = "append"
      <4>1. log'[v].by = w /\ log'[v].adds = {<<w, 0>>} /\ <<w, 0>> \in DOMAIN files
        BY <1>1, <2>1, <3>1, AppendAdds
      <4> QED
        BY <4>1
    <3>2. CASE Kind[w] = "merge"
      <4>1. log'[v].by = w /\ \A f \in log'[v].adds : f = <<w, attempt[w]>> /\ f \in DOMAIN files
        BY <1>1, <2>1, <3>2, MergeAdds
      <4> QED
        BY <3>2, <4>1
    <3> QED
      BY <3>1, <3>2, Kinds
  <2>2. CASE v # n
    BY <1>1, <2>2 DEF IInv, TableInv, CommitsOwn
  <2> QED
    BY <2>1, <2>2
<1>6. ASSUME NEW u \in DOMAIN log PROVE u \in DOMAIN log' /\ log'[u] = log[u]
  BY <1>1, <1>6
<1>7. Listing'
  <2> SUFFICES /\ IsFiniteSet(activeFiles(log'))
               /\ \A f \in Active(log') : \E d \in activeFiles(log') : d[1] = f
    BY DEF Listing
  <2>1. IsFiniteSet(activeFiles(log)) /\ \A f \in Active(log) : \E d \in activeFiles(log) : d[1] = f
    BY DEF IInv, TableInv, Listing
  <2>2. CASE Kind[w] = "append"
    <3>1. PICK d, e : /\ activeFiles(log') \subseteq (activeFiles(log) \cup {d}) \cup {e}
                      /\ activeFiles(log) \subseteq activeFiles(log')
                      /\ <<w, 0>> \in Active(log) \/ (d[1] = <<w, 0>> /\ d \in activeFiles(log'))
      BY <2>2, PublishAppends
    <3>2. IsFiniteSet(activeFiles(log'))
      <4>1. IsFiniteSet((activeFiles(log) \cup {d}) \cup {e})
        BY <2>1, FS_AddElement
      <4> QED
        BY <3>1, <4>1, FS_Subset
    <3>3. \A f \in Active(log') : f \in Active(log) \/ f = <<w, 0>>
      <4> TAKE f \in Active(log')
      <4>1. f \in FileId
        BY DEF Active
      <4> QED
        <5>1. Commit(w).adds = {<<w, 0>>}
          BY <2>2, AppendAdds
        <5>2. f \in Commit(w).adds \/ f \in Active(log)
          BY <4>1, PublishActive
        <5> QED
          BY <5>1, <5>2
    <3> QED
      BY <2>1, <3>1, <3>2, <3>3
  <2>3. CASE Kind[w] = "merge"
    <3>1. IsFiniteSet(activeFiles(log'))
      BY <2>3, PublishRewrites, FS_EmptySet, FS_Singleton
    <3>2. Active(log') = IF Rewritten(w) = NoRows THEN {} ELSE {<<w, attempt[w]>>}
      BY <2>3, PublishRewrites, PublishAdds
    <3>3. \A f \in Active(log') : <<f, next[w]>> \in activeFiles(log')
      BY <2>3, <3>2, PublishRewrites
    <3> QED
      BY <3>1, <3>3
  <2> QED
    BY <2>2, <2>3, Kinds
<1>8. Moved'
  <2> SUFFICES ASSUME NEW v \in 0..n, NEW f \in log'[v].adds, NEW x \in Row, files[f][x] > 0,
                      Kind[x.by] = "append", f # <<x.by, 0>>
               PROVE  x.by \in Applied' /\ \E u \in DOMAIN log' : <<x.by, 0>> \in log'[u].removes
    BY <1>1, <1>2 DEF Moved
  <2>1. ASSUME NEW u \in DOMAIN log, NEW g \in log[u].adds, files[g][x] > 0, g # <<x.by, 0>>
        PROVE  x.by \in Applied' /\ \E t \in DOMAIN log' : <<x.by, 0>> \in log'[t].removes
    <3>1. x.by \in Applied /\ \E t \in DOMAIN log : <<x.by, 0>> \in log[t].removes
      BY <1>2, <2>1 DEF IInv, TableInv, Moved
    <3> QED
      BY <1>3, <1>6, <3>1
  <2>2. CASE v # n
    BY <1>1, <2>1, <2>2
  <2>3. CASE v = n
    <3>1. f \in Commit(w).adds
      BY <1>1, <2>3
    <3>2. CASE Kind[w] = "append"
      <4>1. f = <<w, 0>> /\ files[f] = RowBag(w)
        <5>1. Commit(w).adds = {<<w, 0>>} /\ files[<<w, 0>>] = RowBag(w)
          BY <3>2, AppendAdds
        <5> QED
          BY <3>1, <5>1
      <4>2. x \in RowsOf(w)
        BY <4>1 DEF RowBag
      <4> QED
        BY <4>1, <4>2 DEF RowsOf
    <3>3. CASE Kind[w] = "merge"
      <4>1. x \notin RowsOf(w)
        BY <3>3 DEF RowsOf
      <4>2. files[f] = mergeBatches(TableRows, w)
        BY <3>1, <3>3, MergeAdds
      <4>3. TableRows[x] > 0
        BY <4>1, <4>2 DEF mergeBatches
      <4>4. PICK d \in activeFiles(log) : files[d[1]][x] > 0
        BY <4>3, TableCounts
      <4>5. PICK u \in DOMAIN log : d[1] \in log[u].adds
        BY ListedUploaded DEF IInv, TableInv
      <4>6. CASE d[1] # <<x.by, 0>>
        BY <2>1, <4>4, <4>5, <4>6
      <4>7. CASE d[1] = <<x.by, 0>>
        <5>1. x.by \in Applied
          BY <4>5, <4>7 DEF IInv, TableInv, CommitsOwn, Applied
        <5>2. n # 0
          BY <1>1, <4>5
        <5>3. d[1] \in log'[n].removes
          <6>1. Commit(w).removes = IF next[w] = 0 THEN {} ELSE {e[1] : e \in activeFiles(log)}
            BY <3>3, MergeAdds
          <6> QED
            BY <1>1, <4>4, <5>2, <6>1
        <5> QED
          BY <1>1, <1>3, <4>7, <5>1, <5>3
      <4> QED
        BY <4>6, <4>7
    <3> QED
      BY <3>2, <3>3, Kinds
  <2> QED
    BY <2>2, <2>3
<1>9. UniqueKeys'
  <2> SUFFICES ASSUME NEW x \in Row, NEW y \in Row, TableRows'[x] > 0, TableRows'[y] > 0,
                      x.key = y.key, Kind[x.by] = "merge", Kind[y.by] = "merge"
               PROVE  x = y /\ TableRows'[x] = 1
    BY DEF UniqueKeys, OneRowPerKey
  <2>1. TableRows[x] > 0 /\ TableRows[y] > 0 => x = y /\ TableRows[x] = 1
    BY DEF IInv, TableInv, UniqueKeys, OneRowPerKey
  <2>2. CASE Kind[w] = "append"
    <3>1. x \notin RowsOf(w) /\ y \notin RowsOf(w)
      BY <2>2 DEF RowsOf
    <3>2. TableRows'[x] = TableRows[x] /\ TableRows'[y] = TableRows[y]
      <4>1. PICK copies \in {0, 1, 2} :
                TableRows' = [z \in Row |-> TableRows[z] + IF z \in RowsOf(w) THEN copies ELSE 0]
        BY <2>2, PublishedAppend
      <4>2. TableRows[x] \in Nat /\ TableRows[y] \in Nat
        BY TableCounts
      <4> QED
        BY <3>1, <4>1, <4>2
    <3> QED
      BY <2>1, <3>2
  <2>3. CASE Kind[w] = "merge"
    <3>1. TableRows' = mergeBatches(TableRows, w)
      BY <2>3, PublishedMerge
    <3>2. CASE x \in RowsOf(w) \/ y \in RowsOf(w)
      BY <3>1, <3>2 DEF mergeBatches, RowsOf
    <3>3. CASE x \notin RowsOf(w) /\ y \notin RowsOf(w)
      BY <2>1, <3>1, <3>3 DEF mergeBatches
    <3> QED
      BY <3>2, <3>3
  <2> QED
    BY <2>2, <2>3, Kinds
<1>10. NoRowTwice'
  <2> SUFFICES ASSUME NEW x \in Row, TableRows'[x] > 1
               PROVE  /\ Kind[x.by] = "append" /\ x.by \in lost'
                      /\ \E v \in DOMAIN log' : dataFile(x.by)' \in log'[v].removes
    BY DEF NoRowTwice
  <2>1. ASSUME TableRows[x] > 1
        PROVE  /\ Kind[x.by] = "append" /\ x.by \in lost'
               /\ \E v \in DOMAIN log' : dataFile(x.by)' \in log'[v].removes
    <3>1. /\ Kind[x.by] = "append" /\ x.by \in lost
          /\ \E v \in DOMAIN log : dataFile(x.by) \in log[v].removes
      BY <2>1 DEF IInv, TableInv, NoRowTwice
    <3> QED
      BY <1>2, <1>6, <3>1
  <2>2. CASE Kind[w] = "merge"
    <3>1. TableRows'[x] = IF x \in RowsOf(w) THEN 1 ELSE IF x.key \in KeysOf[w] THEN 0 ELSE TableRows[x]
      BY <2>2, PublishedMerge DEF mergeBatches
    <3> QED
      BY <2>1, <3>1
  <2>3. CASE Kind[w] = "append"
    <3>1. PICK copies \in {0, 1, 2} :
              /\ TableRows' = [z \in Row |-> TableRows[z] + IF z \in RowsOf(w) THEN copies ELSE 0]
              /\ copies = 1 <=> w \notin Applied
              /\ copies = 2 => \E v \in DOMAIN log : <<w, 0>> \in log[v].removes
      BY <2>3, PublishedAppend
    <3>2. TableRows[x] \in Nat /\ (TableRows[x] > 0 <=> \E d \in activeFiles(log) : files[d[1]][x] > 0)
      BY TableCounts
    <3>3. CASE x \notin RowsOf(w)
      BY <2>1, <3>1, <3>2, <3>3
    <3>4. CASE x \in RowsOf(w)
      <4>1. x.by = w
        BY <3>4 DEF RowsOf
      <4>2. CASE copies = 0
        BY <2>1, <3>1, <3>2, <4>2
      <4>3. CASE copies = 1
        <5>1. TableRows[x] > 0
          BY <3>1, <3>2, <3>4, <4>3
        <5>2. PICK d \in activeFiles(log) : files[d[1]][x] > 0
          BY <3>2, <5>1
        <5>3. PICK u \in DOMAIN log : d[1] \in log[u].adds
          BY ListedUploaded DEF IInv, TableInv
        <5>4. w \notin Applied
          BY <3>1, <4>3
        <5>5. d[1] # <<w, 0>>
          BY <5>3, <5>4 DEF IInv, TableInv, CommitsOwn, Applied
        <5>6. w \in Applied
          BY <1>2, <2>3, <4>1, <5>2, <5>3, <5>5 DEF IInv, TableInv, Moved
        <5> QED
          BY <5>4, <5>6
      <4>4. CASE copies = 2
        <5>1. w \in Applied /\ \E v \in DOMAIN log : <<w, 0>> \in log[v].removes
          BY <3>1, <4>4
        <5>2. w \in lost
          BY <5>1 DEF IInv, WriterOK, Once, Publish, Working
        <5> QED
          BY <1>2, <1>6, <2>3, <4>1, <5>1, <5>2
      <4> QED
        BY <3>1, <4>2, <4>3, <4>4
    <3> QED
      BY <3>3, <3>4
  <2> QED
    BY <2>2, <2>3, Kinds
<1> QED
  BY <1>4, <1>5, <1>7, <1>8, <1>9, <1>10 DEF TableInv

(* After a commit the writer is done, or tries again on its first loss. *)
LEMMA PublishStep ==
    ASSUME IInv, NEW w \in Writers, Publish(w), UNCHANGED <<files, next, snap>>,
           lost \subseteq lost', Alone(w), Types',
           \/ pc'[w] \in {"ok", "error"} /\ attempt'[w] = attempt[w]
           \/ /\ pc'[w] \in {"read", "error"} /\ attempt'[w] = attempt[w] + 1
              /\ pc'[w] = "read" => attempt[w] + 1 < MaxAttempts
              /\ w \notin lost /\ w \in lost'
    PROVE  IInv'
<1>1. TableInv'
  BY PublishTableInv
<1>2. PICK n \in Nat :
          /\ nextDeltaVersion = n
          /\ DOMAIN log = 0..(n - 1) /\ DOMAIN log' = 0..n
          /\ \A v \in 0..(n - 1) : log'[v] = log[v]
          /\ log'[n] = Commit(w)
  BY PublishEnd
<1>3. /\ Applied' = Applied \cup {w}
      /\ Repeated' = Repeated \cup (IF w \in Applied THEN {w} ELSE {})
      /\ Repeated \subseteq Applied
  BY PublishCounts DEF Repeated, Applied
<1>4. pc[w] = "commit" /\ attempt[w] \in Nat /\ MaxAttempts \in Nat
  BY Kinds DEF Publish, IInv, Types, TypeOK
<1>5. WriterOK(w)'
  <2>1. AttemptLeft(w)' /\ Fresh(w)'
    BY <1>4 DEF AttemptLeft, Working, Fresh
  <2>2. FileNames(w)'
    <3>1. RowBag(w)' = RowBag(w)
      BY DEF RowBag
    <3> QED
      BY <1>4, <3>1 DEF IInv, WriterOK, FileNames
  <2>3. Uploaded(w)'
    BY <1>4 DEF IInv, WriterOK, Uploaded
  <2>4. Once(w)'
    BY <1>3, <1>4 DEF IInv, WriterOK, Once, Working
  <2>5. NewName(w)'
    <3> SUFFICES ASSUME Kind[w] = "merge", pc'[w] \in Working,
                        NEW v \in 0..n, NEW k \in 0..MaxAttempts, <<w, k>> \in log'[v].adds
                 PROVE  k < attempt'[w]
      BY <1>2 DEF NewName
    <3>1. attempt'[w] = attempt[w] + 1
      BY DEF Working
    <3>2. CASE v = n
      <4>1. <<w, k>> = <<w, attempt[w]>>
        BY <1>2, <3>2, MergeAdds
      <4> QED
        BY <1>4, <3>1, <4>1
    <3>3. CASE v # n
      <4>1. NewName(w) /\ pc[w] \in Working
        BY <1>4 DEF IInv, WriterOK, Working
      <4>2. v \in DOMAIN log /\ <<w, k>> \in log[v].adds
        BY <1>2, <3>3
      <4>3. k < attempt[w]
        BY <4>1, <4>2 DEF NewName
      <4> QED
        BY <1>4, <3>1, <4>3
    <3> QED
      BY <3>2, <3>3
  <2> QED
    BY <2>1, <2>2, <2>3, <2>4, <2>5 DEF WriterOK
<1>6. ASSUME NEW u \in Writers, u # w PROVE WriterOK(u)'
  <2>1. pc'[u] = pc[u] /\ attempt'[u] = attempt[u] /\ next'[u] = next[u] /\ snap'[u] = snap[u]
    BY <1>6 DEF Alone
  <2>2. Rewritten(u)' = Rewritten(u) /\ dataFile(u)' = dataFile(u) /\ RowBag(u)' = RowBag(u)
    BY <2>1 DEF Rewritten, RowsIn, Copies, mergeBatches, RowBag, dataFile
  <2>3. AttemptLeft(u)' /\ FileNames(u)' /\ Uploaded(u)'
    BY <2>1, <2>2 DEF IInv, WriterOK, AttemptLeft, FileNames, Uploaded
  <2>4. Fresh(u)'
    BY <1>2, <2>1 DEF IInv, WriterOK, Fresh
  <2>5. Once(u)'
    BY <1>3, <1>6, <2>1 DEF IInv, WriterOK, Once
  <2>6. NewName(u)'
    <3> SUFFICES ASSUME Kind[u] = "merge", pc'[u] \in Working,
                        NEW v \in 0..n, NEW k \in 0..MaxAttempts, <<u, k>> \in log'[v].adds
                 PROVE  k < attempt'[u]
      BY <1>2 DEF NewName
    <3>1. v # n
      <4>1. \A f \in Commit(w).adds : f[1] = w
        <5>1. CASE Kind[w] = "append"
          <6>1. Commit(w).adds = {<<w, 0>>}
            BY <5>1, AppendAdds
          <6> QED
            BY <6>1
        <5>2. CASE Kind[w] = "merge"
          <6>1. \A f \in Commit(w).adds : f = <<w, attempt[w]>>
            BY <5>2, MergeAdds
          <6> QED
            BY <6>1
        <5> QED
          BY <5>1, <5>2, Kinds
      <4> QED
        BY <1>2, <1>6, <4>1
    <3>2. v \in DOMAIN log /\ <<u, k>> \in log[v].adds
      BY <1>2, <3>1
    <3>3. NewName(u) /\ pc[u] \in Working /\ attempt'[u] = attempt[u]
      BY <2>1 DEF IInv, WriterOK
    <3> QED
      BY <3>2, <3>3 DEF NewName
  <2> QED
    BY <2>3, <2>4, <2>5, <2>6 DEF WriterOK
<1> QED
  BY <1>1, <1>5, <1>6 DEF IInv

(* The log keeps its type. *)
LEMMA PublishTypes ==
    ASSUME IInv, NEW w \in Writers, Publish(w)
    PROVE  DOMAIN log' \subseteq Nat /\ \A v \in DOMAIN log' : log'[v] \in CommitRecord
<1>1. PICK n \in Nat :
          /\ DOMAIN log = 0..(n - 1) /\ DOMAIN log' = 0..n
          /\ \A v \in 0..(n - 1) : log'[v] = log[v]
          /\ log'[n] = Commit(w)
  BY PublishEnd
<1>2. Commit(w).adds \subseteq FileId
  BY PublishAdds
<1>3. \A d \in snap[w] : d[1] \in FileId
  BY DEF IInv, Types, TypeOK
<1>4. Commit(w) \in CommitRecord
  <2>1. Commit(w).removes \subseteq FileId
    BY <1>3 DEF Commit
  <2>2. Commit(w) = [by |-> w, adds |-> Commit(w).adds, removes |-> Commit(w).removes]
    BY DEF Commit
  <2> QED
    BY <1>2, <2>1, <2>2 DEF CommitRecord
<1>5. \A v \in 0..(n - 1) : log[v] \in CommitRecord
  BY <1>1 DEF IInv, Types, TypeOK
<1>6. \A v \in 0..n : log'[v] \in CommitRecord
  BY <1>1, <1>4, <1>5
<1> QED
  BY <1>1, <1>6

(* The rename succeeds.                                                    *)
LEMMA CommitOKKeepsInv ==
    ASSUME IInv, NEW w \in Writers, CommitOK(w) PROVE IInv'
<1>1. Types'
  BY PublishTypes DEF CommitOK, IInv, Types, TypeOK, Pcs
<1>2. Alone(w) /\ pc'[w] = "ok" /\ attempt'[w] = attempt[w]
  BY DEF CommitOK, Alone, IInv, Types, TypeOK
<1> QED
  BY <1>1, <1>2, PublishStep DEF CommitOK

(* The rename succeeds and the writer dies before it returns.              *)
LEMMA FailsAfterCommitKeepsInv ==
    ASSUME IInv, NEW w \in Writers, FailsAfterCommit(w) PROVE IInv'
<1>1. Types'
  BY PublishTypes, FaultsLeft DEF FailsAfterCommit, IInv, Types, TypeOK, Pcs
<1>2. Alone(w) /\ pc'[w] = "error" /\ attempt'[w] = attempt[w]
  BY DEF FailsAfterCommit, Alone, IInv, Types, TypeOK
<1> QED
  BY <1>1, <1>2, PublishStep DEF FailsAfterCommit

(* The rename succeeds, its response is lost and it looks like a conflict. *)
LEMMA CommitSeenAsConflictKeepsInv ==
    ASSUME IInv, NEW w \in Writers, CommitSeenAsConflict(w) PROVE IInv'
<1>1. attempt[w] \in Nat /\ attempt[w] < MaxAttempts /\ MaxAttempts \in Nat
  BY Kinds DEF IInv, Types, TypeOK, CommitSeenAsConflict, Publish, WriterOK, AttemptLeft, Working
<1>2. /\ attempt' = [attempt EXCEPT ![w] = attempt[w] + 1]
      /\ pc' = [pc EXCEPT ![w] = IF attempt[w] + 1 < MaxAttempts THEN "read" ELSE "error"]
      /\ w \notin lost /\ lost' = lost \cup {w}
      /\ UNCHANGED <<files, next, snap, errors>>
  BY DEF CommitSeenAsConflict, Retry
<1>3. IsFiniteSet(lost')
  BY <1>2, FS_AddElement DEF IInv, Types
<1>4. Types'
  BY <1>1, <1>2, <1>3, PublishTypes DEF CommitSeenAsConflict, IInv, Types, TypeOK, Pcs
<1>5. /\ Alone(w) /\ attempt'[w] = attempt[w] + 1 /\ pc'[w] \in {"read", "error"}
      /\ pc'[w] = "read" => attempt[w] + 1 < MaxAttempts
  BY <1>1, <1>2 DEF Alone, IInv, Types, TypeOK
<1> QED
  BY <1>2, <1>4, <1>5, PublishStep DEF CommitSeenAsConflict

(* Every step keeps IInv.                                                  *)
LEMMA NextKeepsInv == ASSUME IInv, [Next]_deltaVars PROVE IInv'
<1>1. CASE UNCHANGED deltaVars
  <2>1. CASE Writers = {}
    <3>1. Types' /\ Prefix' /\ CommitsOwn' /\ Listing'
      BY <1>1 DEF deltaVars, IInv, Types, TypeOK, TableInv, Prefix, CommitsOwn, Listing
    <3>2. (\A y : dataFile(y)' = dataFile(y)) /\ TableRows' = TableRows /\ Applied' = Applied
      BY <1>1 DEF deltaVars, dataFile, TableRows, RowsIn, Copies, Applied
    <3>3. Moved' /\ UniqueKeys' /\ NoRowTwice'
      BY <1>1, <3>2 DEF deltaVars, IInv, TableInv, Moved, UniqueKeys, NoRowTwice
    <3> QED
      BY <2>1, <3>1, <3>3 DEF IInv, TableInv
  <2>2. ASSUME NEW w \in Writers PROVE IInv'
    <3>1. Types' /\ Alone(w)
      BY <1>1 DEF deltaVars, Alone, IInv, Types, TypeOK
    <3>2. /\ Rewritten(w)' = Rewritten(w) /\ dataFile(w)' = dataFile(w) /\ RowBag(w)' = RowBag(w)
          /\ nextDeltaVersion' = nextDeltaVersion /\ Applied' = Applied /\ Repeated' = Repeated
      BY <1>1 DEF deltaVars, Rewritten, RowsIn, Copies, mergeBatches, dataFile, RowBag, nextDeltaVersion,
         ListLogVersions, Applied, Repeated
    <3>3. WriterOK(w)'
      BY <1>1, <3>2 DEF deltaVars, IInv, WriterOK, AttemptLeft, FileNames, NewName, Uploaded, Fresh, Once
    <3> QED
      BY <1>1, <3>1, <3>3, QuietStep DEF deltaVars
  <2> QED
    BY <2>1, <2>2
<1>2. ASSUME NEW w \in Writers, Step(w) PROVE IInv'
  BY <1>2, AppendNothingKeepsInv, UploadAppendKeepsInv, ListForAppendKeepsInv, ReadStagingKeepsInv,
     ReadTargetKeepsInv, UploadRewriteKeepsInv, CommitOKKeepsInv, CommitConflictKeepsInv DEF Step
<1> QED
  BY <1>1, <1>2, CommitSeenAsConflictKeepsInv, WriterFailsKeepsInv, FailsAfterCommitKeepsInv DEF Next

----------------------------------------------------------------------------
(* The types, the table and what each writer left hold in every reachable  *)
(* state.                                                                  *)
THEOREM Invariance == Spec => []IInv
BY InitInv, NextKeepsInv, PTL DEF Spec

(* The variables keep their types. *)
THEOREM TypeCorrect == Spec => []TypeOK
<1>1. IInv => TypeOK
  BY DEF IInv, Types
<1> QED
  BY <1>1, Invariance, PTL

(* RenameIfNotExists and nextDeltaVersion: whatever conflicts, fails or is *)
(* repeated, the versions of the log have no gap.                          *)
THEOREM LogContiguous == Spec => []Contiguous
<1>1. IInv => Contiguous
  BY DEF IInv, TableInv, Prefix, Contiguous
<1> QED
  BY <1>1, Invariance, PTL

(* uploadRewriteData and writeTablesMode upload before they commit: every  *)
(* file that a visible commit adds is there.                               *)
THEOREM NoFileDangles == Spec => []NoDanglingFile
<1>1. IInv => NoDanglingFile
  BY DEF IInv, TableInv, CommitsOwn, NoDanglingFile
<1> QED
  BY <1>1, Invariance, PTL

(* rewriteTableWithRetry: merges never leave two rows of one key, nor two  *)
(* copies of one, in what readTable returns.                               *)
THEOREM KeysUnique == Spec => []UniqueKeys
<1>1. IInv => UniqueKeys
  BY DEF IInv, TableInv
<1> QED
  BY <1>1, Invariance, PTL

(* commitAppendWithRetry: readTable returns a row twice only if its append *)
(* lost a response and a merge moved the row in between.                   *)
THEOREM RowsOnce == Spec => []NoRowTwice
<1>1. IInv => NoRowTwice
  BY DEF IInv, TableInv
<1> QED
  BY <1>1, Invariance, PTL
----------------------------------------------------------------------------
(* The refinement of the table. *)

(* The empty log is the empty table.                                       *)
LEMMA TableInits == Init => Table!TableInit
<1> SUFFICES ASSUME Init PROVE Table!TableInit
  OBVIOUS
<1>1. DOMAIN log = {} /\ lost = {}
  BY DEF Init
<1>2. TableRows = [x \in Table!Row |-> 0] /\ Applied = {} /\ Repeated = {}
  <2>1. activeFiles(log) = {}
    BY <1>1 DEF activeFiles, Adds
  <2>2. TableRows = [x \in Row |-> 0]
    BY <2>1, RowsInCounts, CountNone DEF TableRows
  <2> QED
    BY <1>1, <2>2 DEF Applied, Repeated, Table!Row, Row, Keys
<1>3. \A w \in Writers : Result(w) = "none"
  BY DEF Init, Result
<1> QED
  BY <1>1, <1>2, <1>3 DEF Table!TableInit

(* A step of w changes the result of w only. *)
LEMMA OneResult ==
    ASSUME Types, NEW w \in Writers, pc' = [pc EXCEPT ![w] = pc'[w]]
    PROVE  [u \in Writers |-> Result(u)]' = [[u \in Writers |-> Result(u)] EXCEPT ![w] = Result(w)']
BY DEF Types, TypeOK, Result

(* The rows that are seen stay while files are only added. *)
LEMMA SeenRowsStable ==
    ASSUME IInv, UNCHANGED log,
           \A f \in DOMAIN files : f \in DOMAIN files' /\ files'[f] = files[f]
    PROVE  TableRows' = TableRows /\ Applied' = Applied /\ Repeated' = Repeated
<1>1. [x \in Row |-> CountOf(files', x, activeFiles(log))] = TableRows
  BY ListedUploaded, RowsStable DEF IInv, TableInv, TableRows
<1>2. TableRows' = TableRows
  BY <1>1 DEF TableRows, RowsIn, Copies, CountOf, CopiesOf
<1> QED
  BY <1>2 DEF Applied, Repeated

(* The rows of the table and of the log are the same. *)
LEMMA SameRows == Table!Row = Row /\ \A w : Table!RowsOf(w) = RowsOf(w)
BY DEF Table!Row, Table!RowsOf, Row, RowsOf, Keys

(* A first commit of a writer does to the table what DeltaTable says ... *)
LEMMA PublishFirst ==
    ASSUME IInv, NEW w \in Writers, Publish(w), UNCHANGED files, w \notin Applied,
           lost' \in {lost, lost \cup {w}}, Repeated' = Repeated
    PROVE  Table!First(w)
<1>1. CASE Kind[w] = "append"
  <2>1. TableRows' = [x \in Row |-> TableRows[x] + IF x \in RowsOf(w) THEN 1 ELSE 0]
    BY <1>1, PublishedAppend
  <2>2. TableRows' = Table!Added(TableRows, w, 1)
    BY <2>1, SameRows DEF Table!Added
  <2> QED
    BY <1>1, <2>2 DEF Table!First
<1>2. CASE Kind[w] = "merge"
  <2>1. TableRows' = Table!Replaced(TableRows, w)
    BY <1>2, PublishedMerge, SameRows DEF mergeBatches, Table!Replaced
  <2> QED
    BY <1>2, <2>1 DEF Table!First
<1> QED
  BY <1>1, <1>2, Kinds

(* ... and a second one, after a response that was lost.                   *)
LEMMA PublishSecond ==
    ASSUME IInv, NEW w \in Writers, Publish(w), UNCHANGED files, w \in Applied,
           w \in lost \ Repeated, lost' = lost, Repeated' = Repeated \cup {w}
    PROVE  Table!Second(w)
<1>1. CASE Kind[w] = "append"
  <2>1. PICK copies \in {0, 1, 2} :
            /\ TableRows' = [x \in Row |-> TableRows[x] + IF x \in RowsOf(w) THEN copies ELSE 0]
            /\ copies = 1 <=> w \notin Applied
    BY <1>1, PublishedAppend
  <2>2. TableRows' = Table!Added(TableRows, w, copies)
    BY <2>1, SameRows DEF Table!Added
  <2>3. copies \in {0, 2}
    BY <2>1
  <2> QED
    BY <1>1, <2>2, <2>3 DEF Table!Second
<1>2. CASE Kind[w] = "merge"
  <2>1. TableRows' = Table!Replaced(TableRows, w)
    BY <1>2, PublishedMerge, SameRows DEF mergeBatches, Table!Replaced
  <2> QED
    BY <1>2, <2>1 DEF Table!Second
<1> QED
  BY <1>1, <1>2, Kinds

(* Either way the rows of the writer are in the table then.                *)
LEMMA PublishPresent ==
    ASSUME IInv, NEW w \in Writers, Publish(w), UNCHANGED files
    PROVE  \A x \in Table!RowsOf(w) : TableRows'[x] > 0
<1>1. CASE Kind[w] = "append"
  BY <1>1, PublishedAppend, SameRows
<1>2. CASE Kind[w] = "merge"
  BY <1>2, PublishedMerge, RowTypes, SameRows DEF mergeBatches
<1> QED
  BY <1>1, <1>2, Kinds

(* A commit applies its writer ... *)
LEMMA PublishApplies ==
    ASSUME IInv, NEW w \in Writers, Publish(w), UNCHANGED files, pc' = [pc EXCEPT ![w] = pc'[w]],
           \/ lost' = lost /\ pc'[w] \in {"ok", "error"}
           \/ w \notin lost /\ lost' = lost \cup {w} /\ pc'[w] \in {"read", "error"}
    PROVE  Table!Apply(w)
<1>1. /\ Applied' = Applied \cup {w}
      /\ Repeated' = Repeated \cup (IF w \in Applied THEN {w} ELSE {})
  BY PublishCounts
<1>2. pc[w] = "commit" /\ Result(w) = "none"
  BY DEF Publish, Result
<1>3. w \in Applied => w \in lost /\ w \notin Repeated
  BY <1>2 DEF IInv, WriterOK, Once, Working
<1>4. Result(w)' \in {"none", "ok", "error"}
  BY DEF Result
<1>5. [u \in Writers |-> Result(u)]' \in
          {[[u \in Writers |-> Result(u)] EXCEPT ![w] = x] : x \in {"none", "ok", "error"}}
  BY <1>4, OneResult DEF IInv
<1>6. \/ w \notin Applied /\ lost' \in {lost, lost \cup {w}} /\ Repeated' = Repeated
      \/ w \in Applied /\ w \in lost \ Repeated /\ lost' = lost /\ Repeated' = Repeated \cup {w}
  BY <1>1, <1>3
<1>7. Table!First(w) \/ Table!Second(w)
  <2>1. CASE w \notin Applied
    BY <1>6, <2>1, PublishFirst
  <2>2. CASE w \in Applied
    BY <1>6, <2>2, PublishSecond
  <2> QED
    BY <2>1, <2>2
<1>8. \A x \in Table!RowsOf(w) : TableRows'[x] > 0
  BY PublishPresent
<1> QED
  BY <1>1, <1>2, <1>5, <1>7, <1>8 DEF Table!Apply

(* ... and any other step reports a result or shows nothing. *)
LEMMA ShowsNothing ==
    ASSUME IInv, NEW w \in Writers, UNCHANGED <<log, lost>>, pc' = [pc EXCEPT ![w] = pc'[w]],
           \A f \in DOMAIN files : f \in DOMAIN files' /\ files'[f] = files[f],
           pc[w] \in Working,
           pc'[w] = "ok" => KeysOf[w] = {}
    PROVE  Table!Report(w) \/ UNCHANGED Table!tableVars
<1>1. TableRows' = TableRows /\ Applied' = Applied /\ Repeated' = Repeated
  BY SeenRowsStable
<1>2. Result(w) = "none"
  BY DEF Result, Working
<1>3. [u \in Writers |-> Result(u)]' = [[u \in Writers |-> Result(u)] EXCEPT ![w] = Result(w)']
  BY OneResult DEF IInv
<1>4. CASE pc'[w] = "error"
  BY <1>1, <1>2, <1>3, <1>4 DEF Table!Report, Result
<1>5. CASE pc'[w] = "ok"
  BY <1>1, <1>2, <1>3, <1>5 DEF Table!Report, Result
<1>6. CASE pc'[w] \notin {"ok", "error"}
  <2>1. Result(w)' = "none"
    BY <1>6 DEF Result
  <2>2. [u \in Writers |-> Result(u)]' = [u \in Writers |-> Result(u)]
    BY <1>2, <1>3, <2>1
  <2> QED
    BY <1>1, <2>2 DEF Table!tableVars
<1> QED
  BY <1>4, <1>5, <1>6
(* A step of the protocol is a write that takes effect, an outcome, or     *)
(* nothing to the table.                                                   *)
LEMMA StepsRefine ==
    ASSUME IInv, NEW w \in Writers,
           Step(w) \/ CommitSeenAsConflict(w) \/ WriterFails(w) \/ FailsAfterCommit(w)
    PROVE  Table!Apply(w) \/ Table!Report(w) \/ UNCHANGED Table!tableVars
<1>1. pc[w] \in Working /\ pc' = [pc EXCEPT ![w] = pc'[w]]
  BY DEF IInv, Types, TypeOK, Pcs, Working, Step, AppendNothing, UploadAppend, ListForAppend, ReadStaging,
     ReadTarget, UploadRewrite, CommitOK, CommitConflict, CommitSeenAsConflict, WriterFails,
     FailsAfterCommit, Publish, Retry
<1>2. CASE UNCHANGED <<log, files, lost>> /\ pc'[w] # "ok"
  BY <1>1, <1>2, ShowsNothing
<1>3. CASE AppendNothing(w)
  BY <1>1, <1>3, ShowsNothing DEF AppendNothing
<1>4. CASE UploadAppend(w)
  <2>1. dataFile(w) \notin DOMAIN files
    BY <1>4, Kinds DEF UploadAppend, dataFile, IInv, WriterOK, FileNames
  <2>2. \A f \in DOMAIN files : f \in DOMAIN files' /\ files'[f] = files[f]
    BY <1>4, <2>1 DEF UploadAppend, Upload
  <2>3. pc'[w] # "ok" /\ UNCHANGED <<log, lost>>
    BY <1>4 DEF UploadAppend, IInv, Types, TypeOK
  <2> QED
    BY <1>1, <2>2, <2>3, ShowsNothing
<1>5. CASE UploadRewrite(w)
  <2>1. pc[w] = "rewrite" /\ Kind[w] = "merge"
    BY <1>5, Kinds DEF UploadRewrite, IInv, WriterOK, Uploaded
  <2>2. dataFile(w) \notin DOMAIN files
    BY <2>1 DEF dataFile, IInv, Types, TypeOK, WriterOK, AttemptLeft, FileNames, Working
  <2>3. \A f \in DOMAIN files : f \in DOMAIN files' /\ files'[f] = files[f]
    BY <1>5, <2>2 DEF UploadRewrite, Upload
  <2>4. pc'[w] = "ok" => Rewritten(w) = NoRows
    BY <1>5 DEF UploadRewrite, IInv, Types, TypeOK
  <2>5. Rewritten(w) = NoRows => KeysOf[w] = {}
    <3> SUFFICES ASSUME Rewritten(w) = NoRows, NEW k \in KeysOf[w] PROVE FALSE
      OBVIOUS
    <3>1. [key |-> k, by |-> w] \in RowsOf(w) /\ [key |-> k, by |-> w] \in Row
      BY RowTypes DEF RowsOf
    <3> QED
      BY <3>1 DEF Rewritten, mergeBatches, NoRows
  <2> QED
    BY <1>1, <1>5, <2>3, <2>4, <2>5, ShowsNothing DEF UploadRewrite
<1>6. CASE CommitOK(w)
  <2>1. pc'[w] = "ok"
    BY <1>6 DEF CommitOK, IInv, Types, TypeOK
  <2> QED
    BY <1>1, <1>6, <2>1, PublishApplies DEF CommitOK
<1>7. CASE FailsAfterCommit(w)
  <2>1. pc'[w] = "error"
    BY <1>7 DEF FailsAfterCommit, IInv, Types, TypeOK
  <2> QED
    BY <1>1, <1>7, <2>1, PublishApplies DEF FailsAfterCommit
<1>8. CASE CommitSeenAsConflict(w)
  <2>1. pc'[w] \in {"read", "error"}
    BY <1>8 DEF CommitSeenAsConflict, Retry, IInv, Types, TypeOK
  <2> QED
    BY <1>1, <1>8, <2>1, PublishApplies DEF CommitSeenAsConflict
<1>9. CASE ListForAppend(w) \/ ReadStaging(w) \/ ReadTarget(w) \/ CommitConflict(w) \/ WriterFails(w)
  <2>1. UNCHANGED <<log, files, lost>> /\ pc'[w] # "ok"
    BY <1>9 DEF ListForAppend, ReadStaging, ReadTarget, CommitConflict, Retry, WriterFails,
       IInv, Types, TypeOK
  <2> QED
    BY <1>2, <2>1
<1> QED
  BY <1>3, <1>4, <1>5, <1>6, <1>7, <1>8, <1>9 DEF Step

(* The commit protocol implements the atomic table, for any writers and    *)
(* any faults: every write takes effect at once, on top of what is         *)
(* committed, and once; an append that lost the response of its commit may *)
(* add each of its rows twice more, and readTable then returns both.       *)
THEOREM Refinement == Spec => ImplementsTable
<1>1. IInv /\ [Next]_deltaVars => [Table!TableNext]_(Table!tableVars)
  <2> SUFFICES ASSUME IInv, [Next]_deltaVars PROVE Table!TableNext \/ UNCHANGED Table!tableVars
    OBVIOUS
  <2>1. CASE UNCHANGED deltaVars
    BY <2>1 DEF deltaVars, Table!tableVars, TableRows, RowsIn, Copies, Applied, Repeated, Result
  <2>2. CASE Next
    BY <2>2, StepsRefine DEF Next, Table!TableNext
  <2> QED
    BY <2>1, <2>2
<1> QED
  BY <1>1, TableInits, Invariance, PTL DEF Spec, ImplementsTable, Table!TableSpec

=============================================================================
