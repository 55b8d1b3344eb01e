------------------------------ MODULE DeltaLog ------------------------------
(***************************************************************************)
(* The OneLake destination's commit protocol (pkg/destination/onelake):    *)
(* concurrent ingestr processes append to, or rewrite (merge), one Delta   *)
(* table.  A data file is uploaded first; the commit is published by       *)
(* renaming a temporary file to <version>.json if that does not exist, and *)
(* a conflict is retried, an append at the next version and a rewrite from *)
(* a fresh snapshot.                                                       *)
(*                                                                         *)
(* The commits of a log are immutable and neither they nor data files are  *)
(* deleted here, so listing the log and then downloading what was listed   *)
(* reads the state at the moment of the listing.                           *)
(***************************************************************************)
EXTENDS Integers, FiniteSets

CONSTANTS
    Writers,      \* write operations, one per ingestr invocation
    Kind,         \* Writers -> {"append", "merge"}
    KeysOf,       \* Writers -> the primary keys of the rows it writes
    Groups,       \* the sets of writers to consider at work together
    MaxAttempts,  \* maxDeltaCommitAttempts
    MaxFaults     \* bound on lost responses, errors and kills

Keys == UNION {KeysOf[w] : w \in Writers}
Row == [key : Keys, by : Writers]
FileId == Writers \X (0..MaxAttempts)

ASSUME DeltaAssumption ==
    /\ Kind \in [Writers -> {"append", "merge"}]
    /\ MaxAttempts \in Nat \ {0}
    /\ MaxFaults \in Nat

VARIABLES
    log,      \* _delta_log: version -> commit, for the versions that exist
    files,    \* the uploaded data files and how often they hold each row
    pc,       \* per writer: where its operation is
    attempt,  \* per writer: conflicts so far
    next,     \* per writer: the version it will try to publish
    snap,     \* per writer: the list of files of the snapshot it rewrites
    lost,     \* writers whose response was lost
    errors    \* errors and kills so far

deltaVars == <<log, files, pc, attempt, next, snap, lost, errors>>

RowsOf(w) == {[key |-> k, by |-> w] : k \in KeysOf[w]}
RowBag(w) == [x \in Row |-> IF x \in RowsOf(w) THEN 1 ELSE 0]
NoRows == [x \in Row |-> 0]

(* ListLogVersions, and the version after the last one listed. *)
ListLogVersions == DOMAIN log

(* Mutant of nextDeltaVersion: an empty log starts at 1. *)
nextDeltaVersionFromOne ==
    IF ListLogVersions = {} THEN 1
    ELSE 1 + CHOOSE v \in ListLogVersions : \A u \in ListLogVersions : u <= v

nextDeltaVersion ==
    IF ListLogVersions = {} THEN 0
    ELSE 1 + CHOOSE v \in ListLogVersions : \A u \in ListLogVersions : u <= v

(* readDeltaSnapshot: replaying the commits in version order, removes      *)
(* before adds, leaves the files that no later commit removed.             *)
Active(l) ==
    {f \in FileId : \E v \in DOMAIN l :
        /\ f \in l[v].adds
        /\ \A u \in DOMAIN l : u > v => f \notin l[u].removes}

(* It lists them in the order of the adds.  An add enters the list if its  *)
(* file is not active at that moment, and removes do not take it out: a    *)
(* file that was removed and added again is in the list twice.             *)
Adds(l) == UNION {l[v].adds \X {v} : v \in DOMAIN l}
activeFiles(l) ==
    {d \in Adds(l) :
        /\ d[1] \in Active(l)
        /\ \A u \in DOMAIN l : u < d[2] /\ d[1] \in l[u].adds =>
             \E t \in DOMAIN l : u < t /\ t <= d[2] /\ d[1] \in l[t].removes}

(* readDeltaData reads every file of the list: how many copies of each row *)
(* it returns.                                                             *)
Copies(x, list) == UNION {{d} \X (1..files[d[1]][x]) : d \in list}
RowsIn(list) == [x \in Row |-> Cardinality(Copies(x, list))]

(* Mutant of mergeBatches: staged rows are added, nothing is replaced. *)
mergeBatchesAdds(target, w) ==
    [x \in Row |-> IF x \in RowsOf(w) THEN target[x] + 1 ELSE target[x]]

(* mergeBatches: target rows whose key is staged go, staged rows come. *)
mergeBatches(target, w) ==
    [x \in Row |-> IF x \in RowsOf(w) THEN 1
                   ELSE IF x.key \in KeysOf[w] THEN 0 ELSE target[x]]

(* An append keeps its data file over all attempts, a rewrite does not. *)
dataFile(w) == IF Kind[w] = "append" THEN <<w, 0>> ELSE <<w, attempt[w]>>

Init ==
    /\ log = [v \in {} |-> 0]
    /\ files = [f \in {} |-> NoRows]
    /\ \E g \in Groups : pc = [w \in Writers |-> IF w \in g THEN "start" ELSE "idle"]
    /\ attempt = [w \in Writers |-> 0]
    /\ next = [w \in Writers |-> 0]
    /\ snap = [w \in Writers |-> {}]
    /\ lost = {}
    /\ errors = 0

Upload(f, content) ==
    files' = [g \in DOMAIN files \cup {f} |-> IF g = f THEN content ELSE files[g]]

----------------------------------------------------------------------------
(* WriteParallel received no rows: nothing is written. *)
AppendNothing(w) ==
    /\ pc[w] = "start" /\ Kind[w] = "append" /\ KeysOf[w] = {}
    /\ pc' = [pc EXCEPT ![w] = "ok"]
    /\ UNCHANGED <<log, files, attempt, next, snap, lost, errors>>

(* writeTablesMode uploads its data file once. *)
UploadAppend(w) ==
    /\ pc[w] = "start" /\ Kind[w] = "append" /\ KeysOf[w] # {}
    /\ Upload(dataFile(w), RowBag(w))
    /\ pc' = [pc EXCEPT ![w] = "read"]
    /\ UNCHANGED <<log, attempt, next, snap, lost, errors>>

ListForAppend(w) ==
    /\ pc[w] = "read" /\ Kind[w] = "append"
    /\ next' = [next EXCEPT ![w] = nextDeltaVersion]
    /\ pc' = [pc EXCEPT ![w] = "commit"]
    /\ UNCHANGED <<log, files, attempt, snap, lost, errors>>

(* rewriteTableWithRetry has read its staging table. *)
ReadStaging(w) ==
    /\ pc[w] = "start" /\ Kind[w] = "merge"
    /\ pc' = [pc EXCEPT ![w] = "read"]
    /\ UNCHANGED <<log, files, attempt, next, snap, lost, errors>>

(* readTable of the target: the snapshot this attempt builds on. *)
ReadTarget(w) ==
    /\ pc[w] = "read" /\ Kind[w] = "merge"
    /\ snap' = [snap EXCEPT ![w] = activeFiles(log)]
    /\ next' = [next EXCEPT ![w] = nextDeltaVersion]
    /\ pc' = [pc EXCEPT ![w] = "rewrite"]
    /\ UNCHANGED <<log, files, attempt, lost, errors>>

Rewritten(w) == mergeBatches(RowsIn(snap[w]), w)

(* Mutant of UploadRewrite: the commit goes ahead without its data file. *)
UploadRewriteSkipped(w) ==
    /\ pc[w] = "rewrite"
    /\ pc' = [pc EXCEPT ![w] = "commit"]
    /\ UNCHANGED <<log, files, attempt, next, snap, lost, errors>>

(* transform and uploadRewriteData; a result with no rows has no file. *)
UploadRewrite(w) ==
    /\ pc[w] = "rewrite"
    /\ IF Rewritten(w) = NoRows THEN UNCHANGED files
       ELSE Upload(dataFile(w), Rewritten(w))
    /\ pc' = [pc EXCEPT ![w] = IF Rewritten(w) = NoRows /\ next[w] = 0 THEN "ok" ELSE "commit"]
    /\ UNCHANGED <<log, attempt, next, snap, lost, errors>>

----------------------------------------------------------------------------
(* Mutant of Commit: a rewrite does not remove the files it replaces. *)
CommitKeepsFiles(w) == [by |-> w, adds |-> {dataFile(w)}, removes |-> {}]

(* buildInitialCommit, buildAppendCommit, buildRewriteCommit: their adds   *)
(* and removes.                                                            *)
Commit(w) ==
    [by |-> w,
     adds |-> IF Kind[w] = "merge" /\ Rewritten(w) = NoRows THEN {} ELSE {dataFile(w)},
     removes |-> IF Kind[w] = "merge" /\ next[w] # 0 THEN {d[1] : d \in snap[w]} ELSE {}]

(* Mutant of Publish: a plain rename, which overwrites. *)
PublishOverwrites(w) ==
    /\ pc[w] = "commit"
    /\ log' = [v \in DOMAIN log \cup {next[w]} |-> IF v = next[w] THEN Commit(w) ELSE log[v]]

Publish(w) ==
    /\ pc[w] = "commit" /\ next[w] \notin DOMAIN log
    /\ log' = [v \in DOMAIN log \cup {next[w]} |-> IF v = next[w] THEN Commit(w) ELSE log[v]]

MoreFaults == Cardinality(lost) + errors < MaxFaults

(* RenameIfNotExists succeeds. *)
CommitOK(w) ==
    /\ Publish(w)
    /\ pc' = [pc EXCEPT ![w] = "ok"]
    /\ UNCHANGED <<files, attempt, next, snap, lost, errors>>

(* Mutant of Retry: a conflict is counted twice. *)
RetryCountedTwice(w) ==
    /\ attempt' = [attempt EXCEPT ![w] = @ + 2]
    /\ pc' = [pc EXCEPT ![w] = IF attempt[w] + 1 < MaxAttempts THEN "read" ELSE "error"]

(* errDeltaCommitConflict: try again, at most maxDeltaCommitAttempts times. *)
Retry(w) ==
    /\ attempt' = [attempt EXCEPT ![w] = @ + 1]
    /\ pc' = [pc EXCEPT ![w] = IF attempt[w] + 1 < MaxAttempts THEN "read" ELSE "error"]

(* Mutant of CommitConflict: the same version is tried over and over. *)
CommitConflictSpins(w) ==
    /\ pc[w] = "commit" /\ next[w] \in DOMAIN log
    /\ UNCHANGED deltaVars

CommitConflict(w) ==
    /\ pc[w] = "commit" /\ next[w] \in DOMAIN log
    /\ Retry(w)
    /\ UNCHANGED <<log, files, next, snap, lost, errors>>

(* The rename took effect, its response was lost, and the HTTP pipeline's  *)
(* own retry is answered with a conflict against this very commit.         *)
CommitSeenAsConflict(w) ==
    /\ Publish(w)
    /\ w \notin lost /\ MoreFaults /\ lost' = lost \cup {w}
    /\ Retry(w)
    /\ UNCHANGED <<files, next, snap, errors>>

(* Any other error, or the process is killed, before the rename... *)
WriterFails(w) ==
    /\ pc[w] \notin {"idle", "ok", "error"}
    /\ MoreFaults /\ errors' = errors + 1
    /\ pc' = [pc EXCEPT ![w] = "error"]
    /\ UNCHANGED <<log, files, attempt, next, snap, lost>>

(* ... or after it took effect. *)
FailsAfterCommit(w) ==
    /\ Publish(w)
    /\ MoreFaults /\ errors' = errors + 1
    /\ pc' = [pc EXCEPT ![w] = "error"]
    /\ UNCHANGED <<files, attempt, next, snap, lost>>

Step(w) ==
    \/ AppendNothing(w) \/ UploadAppend(w) \/ ListForAppend(w)
    \/ ReadStaging(w) \/ ReadTarget(w) \/ UploadRewrite(w)
    \/ CommitOK(w) \/ CommitConflict(w)

Next ==
    \E w \in Writers :
        Step(w) \/ CommitSeenAsConflict(w) \/ WriterFails(w) \/ FailsAfterCommit(w)

Spec == Init /\ [][Next]_deltaVars

(* A live writer keeps executing. *)
FairSpec == Spec /\ \A w \in Writers : WF_deltaVars(Step(w))

----------------------------------------------------------------------------
Pcs == {"idle", "start", "read", "rewrite", "commit", "ok", "error"}
CommitRecord == [by : Writers, adds : SUBSET FileId, removes : SUBSET FileId]

(* The shape of the variables. *)
TypeOK ==
    /\ DOMAIN log \subseteq Nat /\ \A v \in DOMAIN log : log[v] \in CommitRecord
    /\ DOMAIN files \subseteq FileId /\ \A f \in DOMAIN files : files[f] \in [Row -> Nat]
    /\ pc \in [Writers -> Pcs]
    /\ attempt \in [Writers -> 0..MaxAttempts]
    /\ next \in [Writers -> Nat]
    /\ snap \in [Writers -> SUBSET (FileId \X Nat)]
    /\ lost \in SUBSET Writers /\ errors \in 0..MaxFaults

(* The versions in the log have no gap, so every reader replays all of it. *)
Contiguous == \A v \in DOMAIN log : \A u \in 0..v : u \in DOMAIN log

(* Every file a commit adds was uploaded before the commit was visible. *)
NoDanglingFile == \A v \in DOMAIN log : log[v].adds \subseteq DOMAIN files

(* What readTable returns: the table as the destination itself reads it. *)
TableRows == RowsIn(activeFiles(log))

(* Of two merges of one primary key the later replaces the earlier: there  *)
(* is at most one row of merges with a key, and one copy of it, whichever  *)
(* commits conflicted, were lost or were repeated.                         *)
OneRowPerKey(rows) ==
    \A x, y \in Row :
        /\ rows[x] > 0 /\ rows[y] > 0 /\ x.key = y.key
        /\ Kind[x.by] = "merge" /\ Kind[y.by] = "merge"
        => x = y /\ rows[x] = 1
UniqueKeys == OneRowPerKey(TableRows)

(* No write is visible twice: the table holds a row more than once only if *)
(* the row is of an append whose response was lost, and which was repeated *)
(* after a merge had moved the row to a file of its own.  Repeated at      *)
(* once, the append adds the file that is active already.                  *)
NoRowTwice ==
    \A x \in Row : TableRows[x] > 1 =>
        /\ Kind[x.by] = "append" /\ x.by \in lost
        /\ \E v \in DOMAIN log : dataFile(x.by) \in log[v].removes

Applied == {log[v].by : v \in DOMAIN log}
Result(w) == CASE pc[w] = "ok" -> "ok" [] pc[w] = "error" -> "error" [] OTHER -> "none"

Repeated == {log[v].by : v \in {u \in DOMAIN log : \E t \in DOMAIN log : t < u /\ log[t].by = log[u].by}}

(* The commit protocol implements the table: every write takes effect      *)
(* atomically, on top of what is committed, and once; twice only if it     *)
(* never heard of the first time, with the copies DeltaTable says.         *)
Table == INSTANCE DeltaTable WITH
    rows <- TableRows, applied <- Applied, result <- [w \in Writers |-> Result(w)],
    unsure <- lost, again <- Repeated
ImplementsTable == Table!TableSpec

(* Every write ends, with success or an error: conflicts can not make a    *)
(* writer retry for ever.                                                  *)
EveryWriteEnds == <>(\A w \in Writers : pc[w] \in {"idle", "ok", "error"})
=============================================================================
