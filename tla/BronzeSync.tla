----------------------------- MODULE BronzeSync -----------------------------
(***************************************************************************)
(* The runner composed with what its ingestr processes read and write: the *)
(* change window of each entity, Bullhorn's search index, the Bronze table *)
(* and the seed load from the Data Replication database.                   *)
(*                                                                         *)
(* Records are independent of each other in all of this, so one record per *)
(* table is followed.  A version of it is named by its dateLastModified    *)
(* stamp; 0 means that there is none.  Bullhorn never gives two versions   *)
(* of a record the same stamp.                                             *)
(***************************************************************************)
EXTENDS Runner

CONSTANTS
    QueryTables,  \* tables read from the query endpoint; the others: search
    Daily,        \* DAILY_REFRESH_TABLES of the seed script
    Overlap,      \* watermark_overlap
    SecondLen,    \* ticks in a second: --interval-* and date +%s keep seconds
    MaxLag,       \* a change is visible to the API within MaxLag ticks
    ReplicaLag,   \* ... and in the replica within ReplicaLag ticks
    DayLen,       \* ... or DayLen ticks for a Daily table
    AllowReseed   \* whether a table that already has a watermark is seeded

(* MaxLag and ReplicaLag are what watermark_overlap is configured for; an  *)
(* entity list without a table has nothing to follow.                      *)
ASSUME SyncAssumption ==
    /\ Tables # {}
    /\ QueryTables \subseteq Tables /\ Daily \subseteq Tables
    /\ SecondLen \in Nat \ {0}
    /\ Overlap \in Nat /\ MaxLag \in Nat /\ ReplicaLag \in Nat /\ DayLen \in Nat
    /\ MaxLag <= Overlap /\ ReplicaLag <= Overlap
    /\ AllowReseed \in BOOLEAN

VARIABLES
    mod,       \* dateLastModified of the record in Bullhorn
    visible,   \* the version the API returns
    replica,   \* the version in the Data Replication database
    bronze,    \* the version in the Bronze table
    seedFile,  \* fabric/state/seed/<table>.json; 0 when absent
    seedJob,   \* run-seed.sh: its step, table and started_at
    win,       \* per invocation: the --interval-start and -end of its ingestr
    batch      \* per invocation: the rows its ingestr has read

sourceVars == <<mod, visible, replica>>
seedVars == <<seedFile, seedJob>>
ingestVars == <<win, batch>>
dataVars == <<sourceVars, bronze, seedVars, ingestVars>>
vars == <<runnerVars, dataVars>>

(* time.RFC3339 and date +%s drop the fraction of the second. *)
FloorSec(t) == (t \div SecondLen) * SecondLen

(* Mutant of computeIntervalStart: the overlap is not subtracted. *)
computeIntervalStartExact(watermark, seedWatermark) ==
    IF watermark # 0 THEN watermark ELSE seedWatermark

(* 0 as a start means unbounded: every stamp is at least 1. *)
computeIntervalStart(watermark, seedWatermark) ==
    IF watermark # 0 THEN watermark - Overlap
    ELSE IF seedWatermark # 0 THEN seedWatermark - Overlap
    ELSE 0

(* buildLuceneRange includes both bounds, buildJPQLRange excludes the end. *)
InWindow(e, w, stamp) ==
    /\ w.lo <= stamp
    /\ IF e \in QueryTables THEN stamp < w.hi ELSE stamp <= w.hi

ReplicaDelay(e) == IF e \in Daily THEN DayLen ELSE ReplicaLag
NoJob == [step |-> "none", table |-> EntitySeq[1], at |-> 0]
NoWindow == [lo |-> 0, hi |-> 0]
Unread == -1    \* ingestr has not fetched yet
Merged == -2    \* ingestr has merged its rows

SyncInit ==
    /\ Init
    /\ mod = [e \in Tables |-> 1]
    /\ visible = mod
    /\ replica = mod
    /\ bronze = [e \in Tables |-> 0]
    /\ seedFile = [e \in Tables |-> 0]
    /\ seedJob = NoJob
    /\ win = [r \in Runners |-> NoWindow]
    /\ batch = [r \in Runners |-> Unread]

----------------------------------------------------------------------------
(* Bullhorn and its replica. *)
Modify(e) ==
    /\ mod[e] < clock /\ clock < MaxTime
    /\ mod' = [mod EXCEPT ![e] = clock]
    /\ UNCHANGED <<runnerVars, visible, replica, bronze, seedVars, ingestVars>>

Index(e) ==
    /\ visible[e] # mod[e]
    /\ visible' = [visible EXCEPT ![e] = mod[e]]
    /\ UNCHANGED <<runnerVars, mod, replica, bronze, seedVars, ingestVars>>

Replicate(e) ==
    /\ replica[e] # mod[e]
    /\ replica' = [replica EXCEPT ![e] = mod[e]]
    /\ UNCHANGED <<runnerVars, mod, visible, bronze, seedVars, ingestVars>>

SyncTick ==
    /\ \A e \in Tables : visible[e] # mod[e] => clock < mod[e] + MaxLag
    /\ \A e \in Tables : replica[e] # mod[e] => clock < mod[e] + ReplicaDelay(e)
    /\ Tick
    /\ UNCHANGED dataVars

----------------------------------------------------------------------------
(* seed_table, run with no runner in progress. *)
SeedStart(e) ==
    /\ seedJob.step = "none"
    /\ \A r \in Runners : run[r].pc = "off"
    /\ AllowReseed \/ stateFile.wm[e] = 0
    /\ seedJob' = [step |-> "load", table |-> e, at |-> FloorSec(clock)]
    /\ UNCHANGED <<runnerVars, sourceVars, bronze, seedFile, ingestVars>>

SeedLoad ==
    /\ seedJob.step = "load"
    /\ bronze' = [bronze EXCEPT ![seedJob.table] = replica[seedJob.table]]
    /\ seedJob' = [seedJob EXCEPT !.step = "record"]
    /\ UNCHANGED <<runnerVars, sourceVars, seedFile, ingestVars>>

SeedRecord ==
    /\ seedJob.step = "record"
    /\ seedFile' = [seedFile EXCEPT ![seedJob.table] =
                      IF seedJob.table \in Daily THEN seedJob.at - DayLen ELSE seedJob.at]
    /\ seedJob' = NoJob
    /\ UNCHANGED <<runnerVars, sourceVars, bronze, ingestVars>>

(* ingestr or the shell fails: set -e ends the script. *)
SeedFails ==
    /\ seedJob.step # "none"
    /\ seedJob' = NoJob
    /\ UNCHANGED <<runnerVars, sourceVars, bronze, seedFile, ingestVars>>

----------------------------------------------------------------------------
(* runEntity computes the window and starts ingestr. *)
SyncStartEntity(r) ==
    /\ StartEntity(r)
    /\ win' = [win EXCEPT ![r] =
         [lo |-> FloorSec(computeIntervalStart(run[r].st.wm[entity(r)], seedFile[entity(r)])),
          hi |-> FloorSec(clock)]]
    /\ UNCHANGED <<sourceVars, bronze, seedVars, batch>>

(* The source reads the rows whose stamp is in the window... *)
Fetch(r) ==
    /\ run[r].pc = "ingest" /\ batch[r] = Unread
    /\ batch' = [batch EXCEPT ![r] =
         IF InWindow(entity(r), win[r], visible[entity(r)]) THEN visible[entity(r)] ELSE 0]
    /\ UNCHANGED <<runnerVars, sourceVars, bronze, seedVars, win>>

(* Mutant of Merge: the destination does not wait for the source. *)
MergeEarly(r) ==
    /\ run[r].pc = "ingest" /\ batch[r] # Merged
    /\ bronze' = IF batch[r] = 0 THEN bronze ELSE [bronze EXCEPT ![entity(r)] = batch[r]]
    /\ batch' = [batch EXCEPT ![r] = Merged]
    /\ UNCHANGED <<runnerVars, sourceVars, seedVars, win>>

(* ... and the destination merges them; a staged row always wins. *)
Merge(r) ==
    /\ run[r].pc = "ingest" /\ batch[r] >= 0
    /\ bronze' = IF batch[r] = 0 THEN bronze ELSE [bronze EXCEPT ![entity(r)] = batch[r]]
    /\ batch' = [batch EXCEPT ![r] = Merged]
    /\ UNCHANGED <<runnerVars, sourceVars, seedVars, win>>

(* ingestr exits 0 only after the merge; it may fail before or after it.   *)
(* It dies with the runner, whose container is killed as a whole.          *)
Exits(r) ==
    /\ win' = [win EXCEPT ![r] = NoWindow]
    /\ batch' = [batch EXCEPT ![r] = Unread]
    /\ UNCHANGED <<sourceVars, bronze, seedVars>>

SyncEntityOK(r) ==
    /\ batch[r] = Merged
    /\ \E n, c \in 0..MaxCalls : EntityOK(r, n, c)
    /\ Exits(r)

SyncEntityFails(r) ==
    /\ \E n, c \in 0..MaxCalls : EntityFails(r, n, c)
    /\ Exits(r)

SyncCrash(r) == Crash(r) /\ Exits(r)

(* A run is not started while the seed script is running. *)
SyncLoad(r) ==
    /\ seedJob.step = "none"
    /\ \E sel \in Selections : Load(r, sel)
    /\ UNCHANGED dataVars

SyncProceed(r) == Proceed(r) /\ UNCHANGED dataVars
SyncFails(r) == Fails(r) /\ UNCHANGED dataVars
SyncRemoveStaleLock == RemoveStaleLock /\ UNCHANGED dataVars

SyncNext ==
    \/ \E e \in Tables : Modify(e) \/ Index(e) \/ Replicate(e) \/ SeedStart(e)
    \/ SeedLoad \/ SeedRecord \/ SeedFails
    \/ SyncTick
    \/ \E r \in Runners :
        \/ SyncLoad(r) \/ SyncProceed(r) \/ SyncStartEntity(r) \/ Fetch(r) \/ Merge(r)
        \/ SyncEntityOK(r) \/ SyncEntityFails(r) \/ SyncFails(r) \/ SyncCrash(r)
    \/ SyncRemoveStaleLock

SyncSpec == SyncInit /\ [][SyncNext]_vars

(* Time passes, Bullhorn indexes, runs are scheduled again and again, a    *)
(* live process keeps executing, ingestr is not failed for ever, and the   *)
(* operator removes stale locks.                                           *)
SyncFairSpec ==
    /\ SyncSpec
    /\ WF_vars(SyncTick)
    /\ \A e \in Tables : WF_vars(Index(e)) /\ WF_vars(Replicate(e))
    /\ WF_vars(SeedLoad \/ SeedRecord \/ SeedFails)
    /\ WF_vars(SyncRemoveStaleLock)
    /\ \A r \in Runners :
        /\ SF_vars(SyncLoad(r))
        /\ SF_vars(AcquireLock(r) /\ UNCHANGED dataVars)
        /\ WF_vars(SyncProceed(r) \/ SyncStartEntity(r))
        /\ SF_vars(Fetch(r)) /\ SF_vars(Merge(r)) /\ SF_vars(SyncEntityOK(r))

----------------------------------------------------------------------------
(* The shape of the variables BronzeSync adds. *)
SyncTypeOK ==
    /\ mod \in [Tables -> 1..MaxTime]
    /\ visible \in [Tables -> 1..MaxTime]
    /\ replica \in [Tables -> 1..MaxTime]
    /\ bronze \in [Tables -> 0..MaxTime]
    /\ seedFile \in [Tables -> Int]
    /\ seedJob \in [step : {"none", "load", "record"}, table : Tables, at : Int]
    /\ win \in [Runners -> [lo : Int, hi : Int]]
    /\ batch \in [Runners -> Merged..MaxTime]

(* Where the next window of e begins, given the watermark it is based on. *)
NextLo(e, watermark) == FloorSec(computeIntervalStart(watermark, seedFile[e]))

(* No change is skipped for good: a change missing from Bronze is not      *)
(* older than the start of the next window computed from the state file,   *)
(* whatever crashed, failed, was seeded or was loaded from stale state.    *)
NoGap == \A e \in Tables : bronze[e] # mod[e] => mod[e] >= NextLo(e, stateFile.wm[e])

(* Every change reaches Bronze, if failures stop often enough for one      *)
(* ingestr after another to get through its steps and stale locks are      *)
(* removed: no state is reached from which a change can not be loaded.     *)
ChangeReachesBronze ==
    \A e \in Tables : \A v \in 1..MaxTime : mod[e] = v ~> bronze[e] >= v
=============================================================================
