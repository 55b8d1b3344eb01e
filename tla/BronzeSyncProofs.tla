-------------------------- MODULE BronzeSyncProofs --------------------------
(***************************************************************************)
(* BronzeSync implements Runner, and NoGap: no change is skipped for good, *)
(* for every number of runs and tables, every overlap, lag and rounding,   *)
(* as long as a table with a watermark is not seeded again.                *)
(***************************************************************************)
EXTENDS BronzeSync, RunnerProofs

----------------------------------------------------------------------------
(* Adding data to the runner does not change what the runner does. *)
LEMMA SyncStepIsRunnerStep == [SyncNext]_vars => [Next]_runnerVars
<1> SUFFICES ASSUME [SyncNext]_vars PROVE [Next]_runnerVars
  OBVIOUS
<1>1. ASSUME NEW e \in Tables, Modify(e) \/ Index(e) \/ Replicate(e) \/ SeedStart(e)
      PROVE  UNCHANGED runnerVars
  BY <1>1 DEF Modify, Index, Replicate, SeedStart
<1>2. CASE SeedLoad \/ SeedRecord \/ SeedFails
  BY <1>2 DEF SeedLoad, SeedRecord, SeedFails
<1>3. CASE SyncTick \/ SyncRemoveStaleLock
  BY <1>3 DEF SyncTick, SyncRemoveStaleLock, Next
<1>4. ASSUME NEW r \in Runners,
             \/ SyncLoad(r) \/ SyncProceed(r) \/ SyncStartEntity(r)
             \/ SyncEntityOK(r) \/ SyncEntityFails(r) \/ SyncFails(r) \/ SyncCrash(r)
      PROVE  Next
  BY <1>4 DEF SyncLoad, SyncProceed, SyncStartEntity, SyncEntityOK, SyncEntityFails,
              SyncFails, SyncCrash, IngestEnds, Next
<1>5. ASSUME NEW r \in Runners, Fetch(r) \/ Merge(r) PROVE UNCHANGED runnerVars
  BY <1>5 DEF Fetch, Merge
<1>6. CASE UNCHANGED vars
  BY <1>6 DEF vars
<1> QED
  BY <1>1, <1>2, <1>3, <1>4, <1>5, <1>6 DEF SyncNext

(* Every behaviour of the composed system is one of the runner, so that    *)
(* what is proved of Runner holds of BronzeSync.                           *)
THEOREM SyncImplementsRunner == SyncSpec => Spec
<1>1. SyncInit => Init
  BY DEF SyncInit
<1> QED
  BY <1>1, SyncStepIsRunnerStep, PTL DEF SyncSpec, Spec

----------------------------------------------------------------------------
(* FloorSec rounds down and keeps the order. *)
LEMMA FloorFacts ==
    ASSUME NEW a \in Int, NEW b \in Int
    PROVE  /\ FloorSec(a) \in Int
           /\ FloorSec(a) <= a
           /\ a <= b => FloorSec(a) <= FloorSec(b)
<1> DEFINE S == SecondLen
<1>1. S \in Nat \ {0}
  BY SyncAssumption
<1>2. a \div S \in Int /\ b \div S \in Int
  BY <1>1
<1>3. S * (a \div S) <= a /\ b < S * ((b \div S) + 1)
  BY <1>1
<1>4. a <= b => a \div S <= b \div S
  BY <1>1, <1>2, <1>3
<1>5. ASSUME NEW x \in Int, NEW y \in Int, x <= y PROVE x * S <= y * S
  BY <1>1, <1>5
<1> HIDE DEF S
<1>6. FloorSec(a) = (a \div S) * S /\ FloorSec(b) = (b \div S) * S
  BY DEF FloorSec, S
<1> QED
  BY <1>1, <1>2, <1>3, <1>4, <1>5, <1>6

(* The first window of a seeded table of Daily starts a day earlier. *)
BackDate(e) == IF e \in Daily THEN DayLen ELSE 0

----------------------------------------------------------------------------
(* The inductive invariant of NoGap. *)

(* The missing change of e, if there is one, is not before t. *)
Covered(e, t) == bronze[e] # mod[e] => mod[e] >= t

(* NoGap holds of the state file and of every live invocation's memory,    *)
(* because either may become the base of a window.                         *)
NoGapAnywhere ==
    \A e \in Tables :
        /\ Covered(e, NextLo(e, stateFile.wm[e]))
        /\ \A r \in Runners : run[r].pc # "off" => Covered(e, NextLo(e, run[r].st.wm[e]))

(* What Bullhorn and its replica have not published yet is young. *)
Ages ==
    \A e \in Tables :
        /\ mod[e] <= clock
        /\ visible[e] # mod[e] => clock <= mod[e] + MaxLag
        /\ replica[e] # mod[e] => clock <= mod[e] + ReplicaDelay(e)

(* The seed script runs alone, on a table without a watermark; what it did *)
(* not load is younger than what it is going to record.                    *)
SeedSafe ==
    /\ seedJob.step # "none" =>
         /\ seedJob.at <= clock
         /\ stateFile.wm[seedJob.table] = 0
         /\ \A r \in Runners : run[r].pc = "off"
    /\ seedJob.step = "record" =>
         Covered(seedJob.table, seedJob.at - BackDate(seedJob.table) - Overlap)
    /\ \A e \in Tables : seedFile[e] # 0 => seedFile[e] + BackDate(e) <= clock

(* The state of one ingestr: its window, and what is known of the record   *)
(* after the fetch and after the merge.                                    *)
Fetched(r) ==
    \/ batch[r] = mod[entity(r)]
    \/ batch[r] = 0 /\ bronze[entity(r)] = mod[entity(r)]
    \/ mod[entity(r)] >= FloorSec(run[r].now - Overlap)
IngestSafe ==
    \A r \in Runners :
        /\ run[r].pc = "ingest" =>
             /\ win[r].lo = NextLo(entity(r), run[r].st.wm[entity(r)])
             /\ win[r].hi >= FloorSec(run[r].now)
             /\ batch[r] >= 0 => Fetched(r)
             /\ batch[r] = Merged => Covered(entity(r), FloorSec(run[r].now - Overlap))
        /\ run[r].pc # "ingest" => batch[r] = Unread

(* An invocation that is not running knows nothing; one that holds the     *)
(* lock has a start time, and no seed was recorded since.                  *)
RunsSafe ==
    \A r \in Runners :
        /\ run[r].pc = "off" => run[r].st = newState
        /\ Holding(r) => run[r].now >= 1 /\ \A e \in Tables : seedFile[e] <= run[r].now

RunnerInv == TypeInv /\ LockHeld /\ StartsOrdered /\ WatermarkNeverAhead
SyncInv ==
    /\ RunnerInv /\ SyncTypeOK
    /\ Ages /\ SeedSafe /\ IngestSafe /\ RunsSafe /\ NoGapAnywhere

----------------------------------------------------------------------------
(* The runner's steps that touch no data: what they do to the states and   *)
(* to the other invocations.                                               *)
Quiet ==
    /\ stateFile' = stateFile
       \/ \E q \in Runners : run[q].pc # "off" /\ stateFile' = run[q].st
    /\ \A q \in Runners :
         /\ run'[q].pc = "ingest" => run'[q] = run[q]
         /\ run[q].pc = "off" => run'[q].pc = "off"
         /\ run'[q].pc # "off" => run'[q].st = run[q].st
         /\ run'[q].pc = "off" => run'[q].st = newState \/ run'[q] = run[q]
         /\ Holding(q)' => \/ Holding(q) /\ run'[q].now = run[q].now
                           \/ run'[q].now = clock

(* Those steps are quiet. *)
LEMMA QuietSteps ==
    ASSUME TypeInv,
           \/ \E r \in Runners : Proceed(r) \/ Fails(r) \/ Crash(r)
           \/ RemoveStaleLock \/ Tick \/ UNCHANGED runnerVars
    PROVE  Quiet
<1> USE DEF TypeInv, TypeOK, Quiet, Holding
<1>1. ASSUME NEW r \in Runners, Proceed(r) PROVE Quiet
  <2>1. CASE AcquireLock(r)
    BY <2>1 DEF AcquireLock, RunRecord
  <2>2. CASE LockExists(r) \/ Release(r)
    BY <2>2 DEF LockExists, Release, Off
  <2>3. CASE SkipEntity(r)
    BY <2>3 DEF SkipEntity, RunRecord
  <2>4. CASE SaveState(r)
    BY <2>4 DEF SaveState, RunRecord
  <2>5. CASE FinalSave(r)
    BY <2>5 DEF FinalSave, RunRecord
  <2> QED
    BY <1>1, <2>1, <2>2, <2>3, <2>4, <2>5 DEF Proceed
<1>2. ASSUME NEW r \in Runners, Fails(r) \/ Crash(r) PROVE Quiet
  <2>1. CASE LoadFails(r) \/ LockWriteFails(r) \/ ReleaseFails(r) \/ Crash(r)
    BY <2>1 DEF LoadFails, LockWriteFails, ReleaseFails, Crash, Off
  <2>2. CASE SaveFails(r)
    BY <2>2 DEF SaveFails, RunRecord
  <2>3. CASE FinalSaveFails(r)
    BY <2>3 DEF FinalSaveFails, RunRecord
  <2> QED
    BY <1>2, <2>1, <2>2, <2>3 DEF Fails
<1>3. CASE RemoveStaleLock \/ Tick \/ UNCHANGED runnerVars
  BY <1>3 DEF RemoveStaleLock, Tick, runnerVars, callVars
<1> QED
  BY <1>1, <1>2, <1>3

(* The invariant of the runner is kept by every step of the system. *)
LEMMA RunnerInvStep ==
    ASSUME RunnerInv, [SyncNext]_vars PROVE RunnerInv' /\ clock' >= clock
<1>1. [Next]_runnerVars
  BY SyncStepIsRunnerStep
<1>2. clock' >= clock
  BY <1>1, StepStarts DEF RunnerInv
<1> QED
  BY <1>1, <1>2, TypeStep, LockStep, StartsStep, WatermarkStep DEF RunnerInv

----------------------------------------------------------------------------
(* A change that is not before t - Overlap, rounded, is in every window    *)
(* computed from a watermark and a seed watermark that are not after t.    *)
LEMMA LateEnough ==
    ASSUME NEW w \in Nat, NEW sf \in Int, NEW t \in Int, NEW m \in Nat,
           w <= t, sf <= t, m >= FloorSec(t - Overlap)
    PROVE  m >= FloorSec(computeIntervalStart(w, sf))
<1>o. Overlap \in Nat
  BY SyncAssumption
<1>1. FloorSec(0) <= 0 /\ FloorSec(0) \in Int
  BY FloorFacts
<1>2. FloorSec(w - Overlap) <= FloorSec(t - Overlap) /\ FloorSec(w - Overlap) \in Int
  BY <1>o, FloorFacts
<1>3. FloorSec(sf - Overlap) <= FloorSec(t - Overlap) /\ FloorSec(sf - Overlap) \in Int
  BY <1>o, FloorFacts
<1>4. FloorSec(t - Overlap) \in Int
  BY <1>o, FloorFacts
<1> QED
  BY <1>1, <1>2, <1>3, <1>4 DEF computeIntervalStart

(* Nothing in the system is from the future: a watermark, a seed and a     *)
(* start are at most the clock; the types the arithmetic needs.            *)
LEMMA Past ==
    ASSUME SyncInv
    PROVE  /\ clock \in Nat /\ clock >= 1
           /\ \A e \in Tables :
                /\ mod[e] \in Nat /\ mod[e] >= 1 /\ bronze[e] \in Nat
                /\ visible[e] \in Nat /\ replica[e] \in Nat /\ seedFile[e] \in Int
                /\ stateFile.wm[e] \in Nat /\ stateFile.wm[e] <= clock
                /\ seedFile[e] <= clock
           /\ \A r \in Runners :
                /\ run[r].now \in Nat /\ batch[r] \in Int
                /\ win[r].lo \in Int /\ win[r].hi \in Int
                /\ run[r].pc = "ingest" => entity(r) \in Tables
                /\ Holding(r) => run[r].now <= clock
                /\ \A e \in Tables : run[r].st.wm[e] \in Nat /\ run[r].st.wm[e] <= clock
<1> USE DEF SyncInv, RunnerInv
<1>1. clock \in Nat /\ clock >= 1
  BY RunnerAssumption DEF TypeInv, TypeOK
<1>2. \A e \in Tables :
        /\ mod[e] \in Nat /\ mod[e] >= 1 /\ bronze[e] \in Nat
        /\ visible[e] \in Nat /\ replica[e] \in Nat /\ seedFile[e] \in Int
  BY DEF SyncTypeOK
<1>3. \A e \in Tables : lastOk[e] \in Nat /\ lastOk[e] <= clock
  BY DEF StartsOrdered, TypeInv, TypeOK
<1>4. \A e \in Tables : stateFile.wm[e] \in Nat /\ stateFile.wm[e] <= clock
  BY <1>1, <1>3 DEF WatermarkNeverAhead, TypeInv, TypeOK, State
<1>5. \A e \in Tables : seedFile[e] <= clock
  BY <1>1, <1>2, SyncAssumption DEF SeedSafe, BackDate
<1>6. ASSUME NEW r \in Runners
      PROVE  /\ run[r].now \in Nat /\ batch[r] \in Int
             /\ win[r].lo \in Int /\ win[r].hi \in Int
             /\ run[r].pc = "ingest" => entity(r) \in Tables
             /\ Holding(r) => run[r].now <= clock
             /\ \A e \in Tables : run[r].st.wm[e] \in Nat /\ run[r].st.wm[e] <= clock
  <2>1. run[r] \in RunRecord
    BY DEF TypeInv, TypeOK
  <2>2. run[r].now \in Nat /\ batch[r] \in Int /\ win[r].lo \in Int /\ win[r].hi \in Int
    BY <2>1 DEF RunRecord, SyncTypeOK
  <2>3. run[r].pc = "ingest" => entity(r) \in Tables
    BY <2>1, RunnerAssumption DEF TypeInv, InLoop, RunRecord, entity, Tables
  <2>4. \A e \in Tables : run[r].st.wm[e] \in Nat /\ run[r].st.wm[e] <= clock
    BY <1>1, <1>3, <2>1 DEF WatermarkNeverAhead, RunRecord, State
  <2> QED
    BY <2>2, <2>3, <2>4 DEF StartsOrdered
<1> QED
  BY <1>1, <1>2, <1>4, <1>5, <1>6

(* The parts of SyncInv that speak about data. *)
DataInv == SyncTypeOK /\ Ages /\ SeedSafe /\ IngestSafe /\ RunsSafe /\ NoGapAnywhere

(* A new change is later than every window's start. *)
LEMMA ModifyStep == ASSUME SyncInv, NEW e \in Tables, Modify(e) PROVE DataInv'
<1>t. /\ clock \in Nat /\ clock >= 1 /\ Overlap \in Nat /\ MaxLag \in Nat
      /\ \A d \in Tables : ReplicaDelay(d) \in Nat /\ BackDate(d) \in Nat
  BY Past, SyncAssumption DEF ReplicaDelay, BackDate
<1>u. /\ UNCHANGED <<clock, lock, stateFile, run, faults, lastOk, callsFile, made, strayed, kept>>
      /\ UNCHANGED <<visible, replica, bronze, seedFile, seedJob, win, batch>>
  BY DEF Modify, runnerVars, callVars, seedVars, ingestVars
<1>m. mod'[e] = clock /\ \A d \in Tables \ {e} : mod'[d] = mod[d]
  BY DEF Modify, SyncInv, SyncTypeOK
<1>f. \A t \in Nat : t <= clock => clock >= FloorSec(t - Overlap)
  BY <1>t, FloorFacts
<1>1. SyncTypeOK'
  BY <1>u DEF Modify, SyncInv, RunnerInv, TypeInv, TypeOK, SyncTypeOK
<1>2. Ages'
  BY <1>u, <1>m, <1>t DEF SyncInv, Ages, ReplicaDelay
<1>3. SeedSafe'
  <2>1. seedJob.at \in Int /\ seedJob.table \in Tables
    BY DEF SyncInv, SyncTypeOK
  <2>2. seedJob.step = "record" /\ seedJob.table = e
          => clock >= seedJob.at - BackDate(e) - Overlap
    BY <1>t, <2>1 DEF SyncInv, SeedSafe
  <2>3. seedJob.step = "record" =>
          Covered(seedJob.table, seedJob.at - BackDate(seedJob.table) - Overlap)'
    BY <1>u, <1>m, <2>1, <2>2 DEF SyncInv, SeedSafe, Covered
  <2> QED
    BY <1>u, <2>3 DEF SyncInv, SeedSafe
<1>4. IngestSafe'
  <2> SUFFICES ASSUME NEW r \in Runners, run[r].pc = "ingest"
               PROVE  /\ batch[r] >= 0 => Fetched(r)'
                      /\ batch[r] = Merged => Covered(entity(r), FloorSec(run[r].now - Overlap))'
    BY <1>u DEF SyncInv, IngestSafe, entity, NextLo
  <2>1. CASE entity(r) = e
    <3>1. clock >= FloorSec(run[r].now - Overlap)
      BY <1>f, Past DEF Holding
    <3> QED
      BY <1>u, <1>m, <2>1, <3>1 DEF Fetched, Covered, entity
  <2>2. CASE entity(r) # e
    <3>1. entity(r) \in Tables
      BY Past
    <3> QED
      BY <1>u, <1>m, <2>2, <3>1 DEF SyncInv, IngestSafe, Fetched, Covered, entity
  <2> QED
    BY <2>1, <2>2
<1>5. RunsSafe'
  BY <1>u DEF SyncInv, RunsSafe, Holding
<1>6. NoGapAnywhere'
  <2>1. \A w \in Nat : w <= clock => clock >= NextLo(e, w)
    BY <1>f, <1>t, LateEnough, Past DEF NextLo
  <2> QED
    BY <1>u, <1>m, <2>1, Past DEF SyncInv, NoGapAnywhere, Covered, NextLo
<1> QED
  BY <1>1, <1>2, <1>3, <1>4, <1>5, <1>6 DEF DataInv

(* Indexing or replicating a change moves no window and no watermark. *)
LEMMA PublishStep ==
    ASSUME SyncInv, NEW e \in Tables, Index(e) \/ Replicate(e) PROVE DataInv'
<1>u. /\ UNCHANGED <<clock, lock, stateFile, run, faults, lastOk, callsFile, made, strayed, kept>>
      /\ UNCHANGED <<mod, bronze, seedFile, seedJob, win, batch>>
  BY DEF Index, Replicate, runnerVars, callVars, seedVars, ingestVars
<1>1. SyncTypeOK' /\ Ages'
  <2>1. CASE Index(e)
    BY <2>1, <1>u DEF Index, SyncInv, SyncTypeOK, Ages, ReplicaDelay
  <2>2. CASE Replicate(e)
    BY <2>2, <1>u DEF Replicate, SyncInv, SyncTypeOK, Ages, ReplicaDelay
  <2> QED
    BY <2>1, <2>2
<1>2. SeedSafe'
  BY <1>u DEF SyncInv, SeedSafe, Covered, BackDate
<1>3. IngestSafe'
  BY <1>u DEF SyncInv, IngestSafe, Fetched, Covered, entity, NextLo
<1>4. RunsSafe' /\ NoGapAnywhere'
  BY <1>u DEF SyncInv, RunsSafe, NoGapAnywhere, Holding, Covered, NextLo
<1> QED
  BY <1>1, <1>2, <1>3, <1>4 DEF DataInv

(* The seed script's state when it is not running. *)
LEMMA NoJobType ==
    /\ NoJob.step = "none"
    /\ NoJob \in [step : {"none", "load", "record"}, table : Tables, at : Int]
<1>1. 1 \in 1..Len(EntitySeq)
  BY RunnerAssumption, SyncAssumption DEF Tables
<1>2. EntitySeq[1] \in Tables
  BY <1>1 DEF Tables
<1> QED
  BY <1>2 DEF NoJob

(* The seed: it starts on a table without a watermark, what the replica    *)
(* has not got yet is younger than the recorded watermark, and failing     *)
(* leaves what was there.                                                  *)
LEMMA SeedStep ==
    ASSUME SyncInv, ~AllowReseed,
           SeedLoad \/ SeedRecord \/ SeedFails \/ \E e \in Tables : SeedStart(e)
    PROVE  DataInv'
<1>e. PICK e \in Tables : e = seedJob.table
  BY DEF SyncInv, SyncTypeOK
<1>u. /\ UNCHANGED <<clock, lock, stateFile, run, faults, lastOk, callsFile, made, strayed, kept>>
      /\ UNCHANGED <<mod, visible, replica, win, batch>>
  BY DEF SeedLoad, SeedRecord, SeedFails, SeedStart, runnerVars, callVars, sourceVars, ingestVars
<1>t. /\ clock \in Nat /\ clock >= 1
      /\ Overlap \in Nat /\ ReplicaLag \in Nat /\ DayLen \in Nat /\ ReplicaLag <= Overlap
      /\ seedJob.at \in Int /\ e \in Tables
      /\ mod[e] \in Nat /\ mod[e] >= 1 /\ seedFile[e] \in Int
  BY <1>e, Past, SyncAssumption DEF SyncInv, SyncTypeOK
<1>a. Ages'
  BY <1>u DEF SyncInv, Ages, ReplicaDelay
<1>1. CASE \E d \in Tables : SeedStart(d)
  <2>0. PICK d \in Tables : SeedStart(d)
    BY <1>1
  <2>u. UNCHANGED <<bronze, seedFile>>
    BY <2>0 DEF SeedStart
  <2>1. FloorSec(clock) \in Int /\ FloorSec(clock) <= clock
    BY <1>t, FloorFacts
  <2>2. SyncTypeOK'
    BY <1>u, <2>0, <2>u, <2>1 DEF SeedStart, SyncInv, SyncTypeOK
  <2>3. SeedSafe'
    BY <1>u, <2>0, <2>u, <2>1 DEF SeedStart, SyncInv, SeedSafe, BackDate
  <2>4. IngestSafe'
    BY <1>u, <2>u DEF SyncInv, IngestSafe, Fetched, Covered, entity, NextLo
  <2>5. RunsSafe' /\ NoGapAnywhere'
    BY <1>u, <2>u DEF SyncInv, RunsSafe, NoGapAnywhere, Holding, Covered, NextLo
  <2> QED
    BY <1>a, <2>2, <2>3, <2>4, <2>5 DEF DataInv
<1>2. CASE SeedFails
  <2>u. UNCHANGED <<bronze, seedFile>> /\ seedJob' = NoJob
    BY <1>2 DEF SeedFails
  <2>1. NoJob.step = "none" /\ NoJob \in [step : {"none", "load", "record"}, table : Tables, at : Int]
    BY <1>t, NoJobType
  <2>2. SyncTypeOK' /\ SeedSafe'
    BY <1>u, <2>u, <2>1 DEF SyncInv, SyncTypeOK, SeedSafe, BackDate
  <2>4. IngestSafe'
    BY <1>u, <2>u DEF SyncInv, IngestSafe, Fetched, Covered, entity, NextLo
  <2>5. RunsSafe' /\ NoGapAnywhere'
    BY <1>u, <2>u DEF SyncInv, RunsSafe, NoGapAnywhere, Holding, Covered, NextLo
  <2> QED
    BY <1>a, <2>2, <2>4, <2>5 DEF DataInv
<1>3. CASE SeedLoad
  <2>u. /\ seedFile' = seedFile
        /\ bronze' = [bronze EXCEPT ![e] = replica[e]]
        /\ seedJob' = [seedJob EXCEPT !.step = "record"]
        /\ seedJob.step = "load"
    BY <1>3, <1>e DEF SeedLoad
  <2>j. /\ seedJob'.step = "record" /\ seedJob'.table = e /\ seedJob'.at = seedJob.at
        /\ seedJob.at <= clock
        /\ stateFile.wm[e] = 0
        /\ \A r \in Runners : run[r].pc = "off"
    BY <1>e, <2>u DEF SyncInv, SyncTypeOK, SeedSafe
  <2>b. bronze'[e] = replica[e] /\ \A d \in Tables \ {e} : bronze'[d] = bronze[d]
    BY <1>t, <2>u DEF SyncInv, SyncTypeOK
  <2>1. SyncTypeOK'
    BY <1>u, <1>t, <2>u DEF SyncInv, SyncTypeOK
  <2>2. replica[e] # mod[e] => mod[e] >= clock - ReplicaDelay(e)
    BY <1>t DEF SyncInv, Ages, ReplicaDelay
  <2>3. SeedSafe'
    <3>1. Covered(e, seedJob.at - BackDate(e) - Overlap)'
      BY <1>u, <1>t, <2>j, <2>b, <2>2 DEF Covered, ReplicaDelay, BackDate
    <3> QED
      BY <1>e, <1>u, <2>u, <2>j, <3>1 DEF SyncInv, SeedSafe
  <2>4. IngestSafe'
    BY <1>u, <2>j DEF SyncInv, IngestSafe
  <2>5. RunsSafe'
    BY <1>u, <2>u DEF SyncInv, RunsSafe, Holding
  <2>6. NoGapAnywhere'
    <3>1. replica[e] # mod[e] => mod[e] >= NextLo(e, 0)
      <4>1. FloorSec(seedFile[e] - Overlap) <= seedFile[e] - Overlap
            /\ FloorSec(seedFile[e] - Overlap) \in Int
        BY <1>t, FloorFacts
      <4>2. seedFile[e] # 0 /\ replica[e] # mod[e] => mod[e] >= seedFile[e] - Overlap
        BY <1>t, <2>2 DEF SyncInv, SeedSafe, BackDate, ReplicaDelay
      <4>3. FloorSec(0) <= 0 /\ FloorSec(0) \in Int
        BY FloorFacts
      <4> QED
        BY <1>t, <4>1, <4>2, <4>3 DEF NextLo, computeIntervalStart
    <3>2. Covered(e, NextLo(e, stateFile.wm[e]))'
      BY <1>u, <2>u, <2>j, <2>b, <3>1 DEF Covered, NextLo
    <3> QED
      BY <1>u, <2>u, <2>j, <2>b, <3>2 DEF SyncInv, NoGapAnywhere, Covered, NextLo
  <2> QED
    BY <1>a, <2>1, <2>3, <2>4, <2>5, <2>6 DEF DataInv
<1>4. CASE SeedRecord
  <2> DEFINE sf == seedJob.at - BackDate(e)
  <2>u. /\ bronze' = bronze /\ seedJob' = NoJob /\ seedJob.step = "record"
        /\ seedFile' = [seedFile EXCEPT ![e] = sf]
    <3>1. (IF e \in Daily THEN seedJob.at - DayLen ELSE seedJob.at) = sf
      BY <1>t DEF BackDate
    <3> HIDE DEF sf
    <3> QED
      BY <1>4, <1>e, <3>1 DEF SeedRecord
  <2>j. /\ seedJob.at <= clock
        /\ stateFile.wm[e] = 0
        /\ \A r \in Runners : run[r].pc = "off"
        /\ Covered(e, sf - Overlap)
    BY <1>e, <2>u DEF SyncInv, SyncTypeOK, SeedSafe
  <2>s. sf \in Int /\ sf + BackDate(e) <= clock
    BY <1>t, <2>j DEF BackDate
  <2>n. NoJob.step = "none" /\ NoJob \in [step : {"none", "load", "record"}, table : Tables, at : Int]
    BY <1>t, NoJobType
  <2> HIDE DEF sf
  <2>b. seedFile'[e] = sf /\ \A d \in Tables \ {e} : seedFile'[d] = seedFile[d]
    BY <1>t, <2>u DEF SyncInv, SyncTypeOK
  <2>1. SyncTypeOK'
    BY <1>u, <1>t, <2>u, <2>s, <2>n DEF SyncInv, SyncTypeOK
  <2>3. SeedSafe'
    <3>1. \A d \in Tables : seedFile'[d] # 0 => seedFile'[d] + BackDate(d) <= clock
      BY <1>t, <2>b, <2>s DEF SyncInv, SeedSafe
    <3> QED
      BY <1>u, <2>u, <2>n, <3>1 DEF SeedSafe
  <2>4. IngestSafe'
    BY <1>u, <2>j DEF SyncInv, IngestSafe
  <2>5. RunsSafe'
    BY <1>u, <2>j DEF SyncInv, RunsSafe, Holding
  <2>6. NoGapAnywhere'
    <3>1. bronze[e] # mod[e] => mod[e] >= FloorSec(computeIntervalStart(0, sf))
      <4>1. FloorSec(sf - Overlap) <= sf - Overlap /\ FloorSec(sf - Overlap) \in Int
        BY <1>t, <2>s, FloorFacts
      <4>2. FloorSec(0) <= 0 /\ FloorSec(0) \in Int
        BY FloorFacts
      <4> QED
        BY <1>t, <2>s, <2>j, <4>1, <4>2 DEF Covered, computeIntervalStart
    <3>2. Covered(e, NextLo(e, stateFile.wm[e]))'
      BY <1>u, <2>u, <2>j, <2>b, <3>1 DEF Covered, NextLo
    <3> QED
      BY <1>u, <2>u, <2>j, <2>b, <3>2 DEF SyncInv, NoGapAnywhere, Covered, NextLo
  <2> QED
    BY <1>a, <2>1, <2>3, <2>4, <2>5, <2>6 DEF DataInv
<1> QED
  BY <1>1, <1>2, <1>3, <1>4

----------------------------------------------------------------------------
(* ingestr's window begins where NoGap needs it to. *)
LEMMA StartStep ==
    ASSUME SyncInv, NEW r \in Runners, SyncStartEntity(r) PROVE DataInv'
<1>r. /\ run[r] \in RunRecord /\ run[r].pc = "loop" /\ entity(r) \in Tables
  BY RunnerAssumption
  DEF SyncInv, RunnerInv, TypeInv, TypeOK, SyncStartEntity, StartEntity, Runs, AtEnd,
      RunRecord, entity, Tables
<1>u. /\ UNCHANGED <<clock, stateFile, mod, visible, replica, bronze, seedFile, seedJob, batch>>
      /\ run' = [run EXCEPT ![r].pc = "ingest"]
      /\ win' = [win EXCEPT ![r] =
             [lo |-> NextLo(entity(r), run[r].st.wm[entity(r)]), hi |-> FloorSec(clock)]]
  BY DEF SyncStartEntity, StartEntity, sourceVars, seedVars, NextLo
<1>q. /\ run'[r].pc = "ingest" /\ run'[r].st = run[r].st /\ run'[r].now = run[r].now
      /\ entity(r)' = entity(r)
      /\ \A q \in Runners \ {r} : run'[q] = run[q]
  BY <1>r, <1>u DEF SyncInv, RunnerInv, TypeInv, TypeOK, RunRecord, entity
<1>n. /\ NextLo(entity(r), run[r].st.wm[entity(r)]) \in Int
      /\ FloorSec(clock) \in Int /\ FloorSec(run[r].now) <= FloorSec(clock)
  <2>1. computeIntervalStart(run[r].st.wm[entity(r)], seedFile[entity(r)]) \in Int
    BY <1>r, Past, SyncAssumption DEF computeIntervalStart
  <2>2. run[r].now \in Int /\ clock \in Int /\ run[r].now <= clock
    BY <1>r, Past DEF Holding
  <2> QED
    BY <2>1, <2>2, FloorFacts DEF NextLo
<1>1. SyncTypeOK'
  BY <1>u, <1>n DEF SyncInv, SyncTypeOK
<1>2. Ages'
  BY <1>u DEF SyncInv, Ages, ReplicaDelay
<1>3. SeedSafe'
  BY <1>r, <1>u DEF SyncInv, SeedSafe, BackDate
<1>4. IngestSafe'
  <2>1. ASSUME NEW q \in Runners \ {r} PROVE win'[q] = win[q] /\ entity(q)' = entity(q)
    BY <1>u, <1>q DEF SyncInv, SyncTypeOK, entity
  <2>2. /\ win'[r].lo = NextLo(entity(r), run[r].st.wm[entity(r)])
        /\ win'[r].hi >= FloorSec(run[r].now)
        /\ batch[r] = Unread
    BY <1>r, <1>u, <1>n DEF SyncInv, SyncTypeOK, IngestSafe
  <2> QED
    BY <1>u, <1>q, <2>1, <2>2
    DEF SyncInv, IngestSafe, Fetched, Covered, NextLo, Unread, Merged
<1>5. RunsSafe'
  BY <1>r, <1>u, <1>q DEF SyncInv, RunsSafe, Holding
<1>6. NoGapAnywhere'
  BY <1>r, <1>u, <1>q DEF SyncInv, NoGapAnywhere, Covered, NextLo
<1> QED
  BY <1>1, <1>2, <1>3, <1>4, <1>5, <1>6 DEF DataInv

(* What ingestr reads: the newest version, or nothing because Bronze has   *)
(* it, or there is a newer version that the next window will contain.      *)
LEMMA FetchStep ==
    ASSUME SyncInv, NEW r \in Runners, Fetch(r) PROVE DataInv'
<1> DEFINE v == visible[entity(r)]
<1>r. /\ run[r].pc = "ingest" /\ entity(r) \in Tables /\ Holding(r)
      /\ batch' = [batch EXCEPT ![r] = IF InWindow(entity(r), win[r], v) THEN v ELSE 0]
  BY Past DEF Fetch, Holding
<1>u. /\ UNCHANGED <<clock, lock, stateFile, run, faults, lastOk, callsFile, made, strayed, kept>>
      /\ UNCHANGED <<mod, visible, replica, bronze, seedFile, seedJob, win>>
  BY DEF Fetch, runnerVars, callVars, sourceVars, seedVars
<1>t. /\ v \in Nat /\ v >= 1 /\ mod[entity(r)] \in Nat /\ clock \in Nat
      /\ run[r].now \in Nat /\ run[r].now <= clock
      /\ win[r].lo \in Int /\ win[r].hi \in Int /\ Overlap \in Nat /\ MaxLag \in Nat /\ MaxLag <= Overlap
  BY <1>r, Past, SyncAssumption DEF SyncInv, SyncTypeOK
<1>f. /\ FloorSec(run[r].now - Overlap) \in Int
      /\ FloorSec(run[r].now - Overlap) <= run[r].now - Overlap
      /\ FloorSec(run[r].now - Overlap) <= FloorSec(run[r].now)
      /\ FloorSec(run[r].now) \in Int
  BY <1>t, FloorFacts
<1>1. \/ batch'[r] = mod[entity(r)]
      \/ batch'[r] = 0 /\ bronze[entity(r)] = mod[entity(r)]
      \/ mod[entity(r)] >= FloorSec(run[r].now - Overlap)
  <2>b. batch'[r] = IF InWindow(entity(r), win[r], v) THEN v ELSE 0
    BY <1>r DEF SyncInv, SyncTypeOK
  <2>1. CASE v # mod[entity(r)]
    <3>1. clock <= mod[entity(r)] + MaxLag
      BY <1>r, <2>1 DEF SyncInv, Ages
    <3> QED
      BY <1>t, <1>f, <3>1
  <2>2. CASE v = mod[entity(r)] /\ InWindow(entity(r), win[r], v)
    BY <2>2, <2>b
  <2>3. CASE v = mod[entity(r)] /\ ~InWindow(entity(r), win[r], v)
    <3>1. CASE v < win[r].lo
      <4>1. ~(mod[entity(r)] >= NextLo(entity(r), run[r].st.wm[entity(r)]))
        BY <1>r, <1>t, <2>3, <3>1 DEF SyncInv, IngestSafe
      <4>2. bronze[entity(r)] = mod[entity(r)]
        BY <1>r, <4>1 DEF SyncInv, NoGapAnywhere, Covered
      <4> QED
        BY <2>3, <2>b, <4>2
    <3>2. CASE v >= win[r].hi
      <4>1. win[r].hi >= FloorSec(run[r].now)
        BY <1>r DEF SyncInv, IngestSafe
      <4> QED
        BY <1>t, <1>f, <2>3, <3>2, <4>1
    <3> QED
      BY <1>t, <2>3, <3>1, <3>2 DEF InWindow
  <2> QED
    BY <2>1, <2>2, <2>3
<1>2. SyncTypeOK'
  <2>1. v \in Merged..MaxTime /\ 0 \in Merged..MaxTime
    BY <1>r, <1>t, RunnerAssumption DEF SyncInv, SyncTypeOK, Merged
  <2> QED
    BY <1>r, <1>u, <2>1 DEF SyncInv, SyncTypeOK
<1>3. Ages' /\ SeedSafe'
  BY <1>u DEF SyncInv, Ages, ReplicaDelay, SeedSafe, Covered, BackDate
<1>4. IngestSafe'
  <2>1. Fetched(r)' /\ batch'[r] # Merged
    <3>1. batch'[r] # Merged
      BY <1>r, <1>t DEF SyncInv, SyncTypeOK, Merged
    <3> QED
      BY <1>u, <1>1, <3>1 DEF Fetched, entity
  <2>2. \A q \in Runners \ {r} : batch'[q] = batch[q]
    BY <1>r DEF SyncInv, SyncTypeOK
  <2> QED
    BY ZenonT(60), <1>r, <1>u, <2>1, <2>2 DEF SyncInv, IngestSafe, Fetched, Covered, entity, NextLo
<1>5. RunsSafe' /\ NoGapAnywhere'
  BY <1>u DEF SyncInv, RunsSafe, Holding, NoGapAnywhere, Covered, NextLo
<1> QED
  BY <1>2, <1>3, <1>4, <1>5 DEF DataInv

(* The merge: the only change it can leave out, or put back to an older    *)
(* version, is one that every window to come will contain.                 *)
LEMMA MergeStep ==
    ASSUME SyncInv, NEW r \in Runners, Merge(r) PROVE DataInv'
<1>e. PICK e \in Tables : e = entity(r)
  BY Past DEF Merge
<1>r. /\ run[r].pc = "ingest" /\ Holding(r) /\ batch[r] >= 0 /\ batch[r] \in Int
      /\ bronze' = IF batch[r] = 0 THEN bronze ELSE [bronze EXCEPT ![e] = batch[r]]
      /\ batch' = [batch EXCEPT ![r] = Merged]
  BY <1>e, Past DEF Merge, Holding
<1>u. /\ UNCHANGED <<clock, lock, stateFile, run, faults, lastOk, callsFile, made, strayed, kept>>
      /\ UNCHANGED <<mod, visible, replica, seedFile, seedJob, win>>
  BY DEF Merge, runnerVars, callVars, sourceVars, seedVars
<1>t. /\ mod[e] \in Nat /\ mod[e] >= 1
      /\ run[r].now \in Nat /\ Overlap \in Nat
      /\ FloorSec(run[r].now - Overlap) \in Int
  BY Past, SyncAssumption, FloorFacts
<1>b. /\ bronze'[e] # mod[e] => mod[e] >= FloorSec(run[r].now - Overlap)
      /\ \A d \in Tables \ {e} : bronze'[d] = bronze[d]
  <2>1. Fetched(r)
    BY <1>r DEF SyncInv, IngestSafe
  <2> QED
    BY <1>e, <1>r, <1>t, <2>1 DEF Fetched, SyncInv, SyncTypeOK
<1>s. seedJob.step = "none"
  BY <1>r DEF SyncInv, SeedSafe
<1>1. SyncTypeOK'
  <2>1. Merged \in Merged..MaxTime
    BY RunnerAssumption DEF Merged
  <2>2. batch[r] \in 0..MaxTime
    BY <1>r, RunnerAssumption DEF SyncInv, SyncTypeOK, Merged
  <2> QED
    BY <1>r, <1>u, <2>1, <2>2 DEF SyncInv, SyncTypeOK
<1>3. Ages' /\ SeedSafe'
  BY <1>u, <1>s DEF SyncInv, Ages, ReplicaDelay, SeedSafe, Covered, BackDate
<1>4. IngestSafe'
  <2>1. \A q \in Runners \ {r} : run[q].pc # "ingest" /\ batch'[q] = batch[q]
    BY <1>r DEF SyncInv, RunnerInv, LockHeld, Holding, SyncTypeOK
  <2>2. batch'[r] = Merged
    BY <1>r DEF SyncInv, SyncTypeOK
  <2>3. Covered(entity(r), FloorSec(run[r].now - Overlap))'
    BY <1>e, <1>u, <1>b DEF Covered, entity
  <2> QED
    BY <1>r, <1>u, <2>1, <2>2, <2>3 DEF SyncInv, IngestSafe, Merged, entity, NextLo
<1>5. RunsSafe'
  BY <1>u DEF SyncInv, RunsSafe, Holding
<1>6. NoGapAnywhere'
  <2>1. lastOk[e] \in Nat /\ lastOk[e] <= run[r].now /\ seedFile[e] <= run[r].now
    BY <1>r DEF SyncInv, RunnerInv, StartsOrdered, RunsSafe, TypeInv, TypeOK
  <2>2. \A w \in Nat : w <= lastOk[e] /\ bronze'[e] # mod[e] => mod[e] >= NextLo(e, w)
    <3> SUFFICES ASSUME NEW w \in Nat, w <= lastOk[e], bronze'[e] # mod[e]
                 PROVE  mod[e] >= FloorSec(computeIntervalStart(w, seedFile[e]))
      BY DEF NextLo
    <3>1. w <= run[r].now /\ seedFile[e] \in Int
      BY <1>t, <2>1, Past
    <3> QED
      BY <1>t, <1>b, <2>1, <3>1, LateEnough
  <2>3. /\ stateFile.wm[e] \in Nat /\ stateFile.wm[e] <= lastOk[e]
        /\ \A q \in Runners : run[q].st.wm[e] \in Nat /\ run[q].st.wm[e] <= lastOk[e]
    BY Past DEF SyncInv, RunnerInv, WatermarkNeverAhead
  <2> QED
    BY <1>u, <1>b, <2>2, <2>3 DEF SyncInv, NoGapAnywhere, Covered, NextLo
<1> QED
  BY <1>1, <1>3, <1>4, <1>5, <1>6 DEF DataInv

(* The window and the rows of an invocation without an ingestr. *)
LEMMA ExitTypes ==
    NoWindow \in [lo : Int, hi : Int] /\ Unread \in Merged..MaxTime /\ Unread # Merged
BY RunnerAssumption DEF NoWindow, Unread, Merged

(* ingestr ends well: the new watermark's window begins before what the    *)
(* merge left out.                                                         *)
LEMMA EntityOKStep ==
    ASSUME SyncInv, NEW r \in Runners, SyncEntityOK(r) PROVE DataInv'
<1>e. PICK e \in Tables : e = entity(r)
  BY Past DEF SyncEntityOK, EntityOK
<1>r. /\ run[r].pc = "ingest" /\ Holding(r) /\ batch[r] = Merged
      /\ run[r].now \in Nat /\ run[r].now >= 1 /\ run[r] \in RunRecord
  BY Past DEF SyncEntityOK, EntityOK, Holding, SyncInv, RunsSafe, RunnerInv, TypeInv, TypeOK
<1>u. /\ UNCHANGED <<clock, stateFile, mod, visible, replica, bronze, seedFile, seedJob>>
      /\ win' = [win EXCEPT ![r] = NoWindow]
      /\ batch' = [batch EXCEPT ![r] = Unread]
  BY DEF SyncEntityOK, EntityOK, Exits, sourceVars, seedVars
<1>q. /\ run'[r].pc = "save" /\ run'[r].now = run[r].now
      /\ run'[r].st.wm = [run[r].st.wm EXCEPT ![e] = run[r].now]
      /\ \A q \in Runners \ {r} : run'[q] = run[q]
  <2>1. PICK n \in 0..MaxCalls : \E c \in 0..MaxCalls : EntityOK(r, n, c)
    BY DEF SyncEntityOK
  <2>2. PICK c \in 0..MaxCalls : EntityOK(r, n, c)
    BY <2>1
  <2> DEFINE s == AddCalls(run[r].st, run[r].now, c)
  <2>3. s \in State /\ s.wm = run[r].st.wm
    <3>1. c \in Nat
      BY RunnerAssumption
    <3> QED
      BY <1>r, <3>1, AddCallsFacts DEF RunRecord
  <2>4. /\ run'[r].st = [s EXCEPT !.wm[e] = run[r].now]
        /\ run'[r].pc = "save" /\ run'[r].now = run[r].now
        /\ \A q \in Runners \ {r} : run'[q] = run[q]
    BY <1>e, <1>r, <2>2 DEF EntityOK, RunRecord, SyncInv, RunnerInv, TypeInv, TypeOK
  <2> HIDE DEF s
  <2> QED
    BY <2>3, <2>4 DEF State
<1>w. /\ run'[r].st.wm[e] = run[r].now
      /\ \A d \in Tables \ {e} : run'[r].st.wm[d] = run[r].st.wm[d]
  BY <1>r, <1>q DEF RunRecord, State
<1>1. SyncTypeOK'
  BY <1>u, ExitTypes DEF SyncInv, SyncTypeOK
<1>2. Ages'
  BY <1>u DEF SyncInv, Ages, ReplicaDelay
<1>3. SeedSafe'
  BY <1>r, <1>u DEF SyncInv, SeedSafe, BackDate
<1>4. IngestSafe'
  <2>1. \A q \in Runners \ {r} : run[q].pc # "ingest" /\ batch'[q] = batch[q]
    BY <1>r, <1>u DEF SyncInv, RunnerInv, LockHeld, Holding, SyncTypeOK
  <2>2. batch'[r] = Unread
    BY <1>u DEF SyncInv, SyncTypeOK
  <2> QED
    BY <1>q, <2>1, <2>2 DEF SyncInv, IngestSafe
<1>5. RunsSafe'
  BY <1>r, <1>u, <1>q DEF SyncInv, RunsSafe, Holding
<1>6. NoGapAnywhere'
  <2>1. NextLo(e, run[r].now) = FloorSec(run[r].now - Overlap)
    BY <1>r DEF NextLo, computeIntervalStart
  <2>2. Covered(e, NextLo(e, run[r].now))
    BY <1>e, <1>r, <2>1 DEF SyncInv, IngestSafe
  <2>3. Covered(e, NextLo(e, run[r].st.wm[e]))'
    BY <1>u, <1>w, <2>2 DEF Covered, NextLo
  <2>4. \A d \in Tables \ {e} : Covered(d, NextLo(d, run[r].st.wm[d]))'
    BY <1>r, <1>u, <1>w DEF SyncInv, NoGapAnywhere, Covered, NextLo
  <2> QED
    BY <1>u, <1>q, <2>3, <2>4 DEF SyncInv, NoGapAnywhere, Covered, NextLo
<1> QED
  BY <1>1, <1>2, <1>3, <1>4, <1>5, <1>6 DEF DataInv

(* ingestr fails: no watermark moves. *)
LEMMA EntityFailsStep ==
    ASSUME SyncInv, NEW r \in Runners, SyncEntityFails(r) PROVE DataInv'
<1>r. /\ run[r].pc = "ingest" /\ Holding(r) /\ run[r] \in RunRecord
  BY DEF SyncEntityFails, EntityFails, Holding, SyncInv, RunnerInv, TypeInv, TypeOK
<1>u. /\ UNCHANGED <<clock, stateFile, mod, visible, replica, bronze, seedFile, seedJob>>
      /\ win' = [win EXCEPT ![r] = NoWindow]
      /\ batch' = [batch EXCEPT ![r] = Unread]
  BY DEF SyncEntityFails, EntityFails, Exits, sourceVars, seedVars
<1>q. /\ run'[r].pc = "loop" /\ run'[r].now = run[r].now /\ run'[r].st.wm = run[r].st.wm
      /\ \A q \in Runners \ {r} : run'[q] = run[q]
  <2>1. PICK n \in 0..MaxCalls : \E c \in 0..MaxCalls : EntityFails(r, n, c)
    BY DEF SyncEntityFails
  <2>2. PICK c \in 0..MaxCalls : EntityFails(r, n, c)
    BY <2>1
  <2>3. AddCalls(run[r].st, run[r].now, c).wm = run[r].st.wm
    <3>1. c \in Nat
      BY RunnerAssumption
    <3> QED
      BY <1>r, <3>1, AddCallsFacts DEF RunRecord
  <2>4. /\ run'[r].st = AddCalls(run[r].st, run[r].now, c)
        /\ run'[r].pc = "loop" /\ run'[r].now = run[r].now
        /\ \A q \in Runners \ {r} : run'[q] = run[q]
    BY <1>r, <2>2 DEF EntityFails, RunRecord, SyncInv, RunnerInv, TypeInv, TypeOK
  <2> QED
    BY <2>3, <2>4
<1>1. SyncTypeOK'
  BY <1>u, ExitTypes DEF SyncInv, SyncTypeOK
<1>2. Ages' /\ SeedSafe'
  BY <1>r, <1>u DEF SyncInv, Ages, ReplicaDelay, SeedSafe, BackDate
<1>4. IngestSafe'
  <2>1. \A q \in Runners \ {r} : run[q].pc # "ingest" /\ batch'[q] = batch[q]
    BY <1>r, <1>u DEF SyncInv, RunnerInv, LockHeld, Holding, SyncTypeOK
  <2>2. batch'[r] = Unread
    BY <1>u DEF SyncInv, SyncTypeOK
  <2> QED
    BY <1>q, <2>1, <2>2 DEF SyncInv, IngestSafe
<1>5. RunsSafe' /\ NoGapAnywhere'
  BY <1>r, <1>u, <1>q DEF SyncInv, RunsSafe, Holding, NoGapAnywhere, Covered, NextLo
<1> QED
  BY <1>1, <1>2, <1>4, <1>5 DEF DataInv

----------------------------------------------------------------------------
(* A quiet step of the runner, or one that ends an ingestr by a crash,     *)
(* keeps the data invariant.                                               *)
LEMMA QuietStep ==
    ASSUME SyncInv, Quiet, Ages', SyncTypeOK', clock' >= clock, clock' \in Nat,
           UNCHANGED <<mod, visible, replica, bronze, seedFile, seedJob>>,
           \A q \in Runners :
              \/ run'[q].pc # "ingest" /\ batch'[q] = Unread
              \/ /\ batch'[q] = batch[q] /\ win'[q] = win[q]
                 /\ run[q].pc = "ingest" => run'[q].pc = "ingest"
    PROVE  DataInv'
<1>c. clock \in Nat /\ clock >= 1
  BY Past
<1>1. SeedSafe'
  <2>1. \A e \in Tables : seedFile[e] # 0 => seedFile[e] + BackDate(e) <= clock'
    BY <1>c, Past, SyncAssumption DEF SyncInv, SeedSafe, BackDate
  <2>2. seedJob.step # "none" =>
          /\ seedJob.at <= clock'
          /\ stateFile'.wm[seedJob.table] = 0
          /\ \A r \in Runners : run'[r].pc = "off"
    BY <1>c DEF SyncInv, SeedSafe, Quiet, SyncTypeOK
  <2>3. seedJob.step = "record" =>
          Covered(seedJob.table, seedJob.at - BackDate(seedJob.table) - Overlap)'
    BY DEF SyncInv, SeedSafe, Covered, BackDate
  <2> QED
    BY <2>1, <2>2, <2>3 DEF SeedSafe
<1>2. IngestSafe'
  <2> SUFFICES ASSUME NEW q \in Runners
               PROVE  /\ run'[q].pc = "ingest" =>
                           /\ win'[q].lo = NextLo(entity(q), run[q].st.wm[entity(q)])'
                           /\ win'[q].hi >= FloorSec(run'[q].now)
                           /\ batch'[q] >= 0 => Fetched(q)'
                           /\ batch'[q] = Merged =>
                                Covered(entity(q), FloorSec(run[q].now - Overlap))'
                      /\ run'[q].pc # "ingest" => batch'[q] = Unread
    BY DEF IngestSafe
  <2>1. CASE run'[q].pc = "ingest"
    <3>1. run'[q] = run[q] /\ batch'[q] = batch[q] /\ win'[q] = win[q]
      BY <2>1 DEF Quiet
    <3> QED
      BY <2>1, <3>1 DEF SyncInv, IngestSafe, Fetched, Covered, entity, NextLo
  <2>2. CASE run'[q].pc # "ingest"
    BY <2>2 DEF SyncInv, IngestSafe
  <2> QED
    BY <2>1, <2>2
<1>3. RunsSafe'
  <2>1. \A e \in Tables : seedFile[e] <= clock
    BY Past
  <2> QED
    BY <1>c, <2>1 DEF SyncInv, RunsSafe, Quiet
<1>4. NoGapAnywhere'
  <2>1. \A e \in Tables : Covered(e, NextLo(e, stateFile.wm[e]))'
    BY DEF SyncInv, Quiet, NoGapAnywhere, Covered, NextLo
  <2>2. \A r \in Runners : run'[r].pc # "off" => run[r].pc # "off" /\ run'[r].st = run[r].st
    BY DEF Quiet
  <2>3. \A e \in Tables : \A r \in Runners :
          run'[r].pc # "off" => Covered(e, NextLo(e, run[r].st.wm[e]))'
    BY <2>2 DEF SyncInv, NoGapAnywhere, Covered, NextLo
  <2> QED
    BY <2>1, <2>3 DEF NoGapAnywhere
<1> QED
  BY <1>1, <1>2, <1>3, <1>4 DEF DataInv

(* A step of an invocation other than ingestr's end does not end it. *)
LEMMA KeepsIngesting ==
    ASSUME TypeInv, NEW r \in Runners, Proceed(r) \/ Fails(r)
    PROVE  \A q \in Runners : run[q].pc = "ingest" => run'[q].pc = "ingest"
<1> USE DEF TypeInv, TypeOK
<1>1. CASE Proceed(r)
  BY <1>1 DEF Proceed, AcquireLock, LockExists, SkipEntity, SaveState, FinalSave, Release, RunRecord
<1>2. CASE Fails(r)
  BY <1>2 DEF Fails, LoadFails, LockWriteFails, SaveFails, FinalSaveFails, ReleaseFails, RunRecord
<1> QED
  BY <1>1, <1>2

(* The runner's other steps keep the data invariant. *)
LEMMA OtherStep ==
    ASSUME SyncInv,
           \/ \E r \in Runners : SyncProceed(r) \/ SyncFails(r) \/ SyncCrash(r)
           \/ SyncTick \/ SyncRemoveStaleLock \/ UNCHANGED vars
    PROVE  DataInv'
<1>c. clock \in Nat /\ clock' \in Nat /\ clock' >= clock
  <2>1. [SyncNext]_vars
    BY DEF SyncNext
  <2> QED
    BY <2>1, RunnerInvStep, RunnerAssumption DEF SyncInv, RunnerInv, TypeInv, TypeOK
<1>q. Quiet
  BY QuietSteps
  DEF SyncProceed, SyncFails, SyncCrash, SyncTick, SyncRemoveStaleLock, vars, SyncInv, RunnerInv
<1>u. UNCHANGED <<mod, visible, replica, bronze, seedFile, seedJob>>
  BY DEF SyncProceed, SyncFails, SyncCrash, SyncTick, SyncRemoveStaleLock, vars, Exits,
         dataVars, sourceVars, seedVars
<1>1. ASSUME NEW r \in Runners, SyncCrash(r) PROVE DataInv'
  <2>1. /\ win' = [win EXCEPT ![r] = NoWindow] /\ batch' = [batch EXCEPT ![r] = Unread]
        /\ run'[r].pc = "off" /\ clock' = clock
    BY <1>1 DEF SyncCrash, Exits, Crash, Off, SyncInv, RunnerInv, TypeInv, TypeOK
  <2>2. SyncTypeOK'
    BY <1>u, <2>1, ExitTypes DEF SyncInv, SyncTypeOK
  <2>3. Ages'
    BY <1>u, <2>1 DEF SyncInv, Ages, ReplicaDelay
  <2>4. /\ run'[r].pc # "ingest" /\ batch'[r] = Unread
        /\ \A q \in Runners \ {r} :
             /\ batch'[q] = batch[q] /\ win'[q] = win[q]
             /\ run'[q] = run[q]
    BY <1>1, <2>1 DEF SyncCrash, Crash, SyncInv, SyncTypeOK, RunnerInv, TypeInv, TypeOK
  <2> QED
    BY <1>c, <1>q, <1>u, <2>2, <2>3, <2>4, QuietStep
<1>2. ASSUME UNCHANGED <<win, batch>>, Ages',
             \A q \in Runners : run[q].pc = "ingest" => run'[q].pc = "ingest"
      PROVE  DataInv'
  <2>1. SyncTypeOK'
    BY <1>2, <1>u DEF SyncInv, SyncTypeOK
  <2> QED
    BY <1>2, <1>c, <1>q, <1>u, <2>1, QuietStep
<1>3. ASSUME NEW r \in Runners, SyncProceed(r) \/ SyncFails(r) PROVE DataInv'
  <2>1. UNCHANGED <<win, batch>> /\ (Proceed(r) \/ Fails(r))
    BY <1>3 DEF SyncProceed, SyncFails, dataVars, ingestVars
  <2>2. clock' = clock
    BY <2>1 DEF Proceed, AcquireLock, LockExists, SkipEntity, SaveState, FinalSave, Release,
                Fails, LoadFails, LockWriteFails, SaveFails, FinalSaveFails, ReleaseFails
  <2>3. Ages'
    BY <1>u, <2>2 DEF SyncInv, Ages, ReplicaDelay
  <2> QED
    BY <1>2, <2>1, <2>3, KeepsIngesting DEF SyncInv, RunnerInv
<1>4. CASE SyncTick
  <2>1. /\ UNCHANGED <<win, batch, run>> /\ clock' = clock + 1
        /\ \A e \in Tables : visible[e] # mod[e] => clock < mod[e] + MaxLag
        /\ \A e \in Tables : replica[e] # mod[e] => clock < mod[e] + ReplicaDelay(e)
    BY <1>4 DEF SyncTick, Tick, dataVars, ingestVars
  <2>2. Ages'
    <3>1. MaxLag \in Nat /\ \A e \in Tables : ReplicaDelay(e) \in Nat /\ mod[e] \in Nat
      BY Past, SyncAssumption DEF ReplicaDelay
    <3> QED
      BY <1>c, <1>u, <2>1, <3>1 DEF SyncInv, Ages, ReplicaDelay
  <2> QED
    BY <1>2, <2>1, <2>2
<1>5. CASE SyncRemoveStaleLock \/ UNCHANGED vars
  <2>1. UNCHANGED <<win, batch, run, clock>>
    BY <1>5 DEF SyncRemoveStaleLock, RemoveStaleLock, vars, runnerVars, callVars, dataVars, ingestVars
  <2>2. Ages'
    BY <1>u, <2>1 DEF SyncInv, Ages, ReplicaDelay
  <2> QED
    BY <1>2, <2>1, <2>2
<1> QED
  BY <1>1, <1>3, <1>4, <1>5

(* An invocation loads the state file while no seed is running. *)
LEMMA LoadStep ==
    ASSUME SyncInv, NEW r \in Runners, SyncLoad(r) PROVE DataInv'
<1>u. /\ UNCHANGED <<clock, stateFile>> /\ seedJob.step = "none" /\ run[r].pc = "off"
      /\ UNCHANGED <<mod, visible, replica, bronze, seedFile, seedJob, win, batch>>
  BY DEF SyncLoad, Load, dataVars, sourceVars, seedVars, ingestVars
<1>q. /\ run'[r].pc = "loaded" /\ run'[r].st = stateFile
      /\ \A q \in Runners \ {r} : run'[q] = run[q]
  BY DEF SyncLoad, Load, Off, SyncInv, RunnerInv, TypeInv, TypeOK
<1>1. SyncTypeOK' /\ Ages' /\ SeedSafe'
  BY <1>u DEF SyncInv, SyncTypeOK, Ages, ReplicaDelay, SeedSafe, BackDate
<1>2. IngestSafe'
  BY <1>u, <1>q DEF SyncInv, IngestSafe, Fetched, Covered, entity, NextLo
<1>3. RunsSafe' /\ NoGapAnywhere'
  BY <1>u, <1>q DEF SyncInv, RunsSafe, Holding, NoGapAnywhere, Covered, NextLo
<1> QED
  BY <1>1, <1>2, <1>3 DEF DataInv

(* SyncInv holds initially: everything is as old as the clock and nothing  *)
(* has been loaded.                                                        *)
LEMMA SyncInvInit == SyncInit => SyncInv
<1> SUFFICES ASSUME SyncInit PROVE SyncInv
  OBVIOUS
<1>1. RunnerInv
  BY TypeInit, RunnerAssumption
  DEF SyncInit, Init, RunnerInv, LockHeld, Holding, StartsOrdered, WatermarkNeverAhead, Off, newState
<1>2. SyncTypeOK
  <2>1. 1 \in 1..MaxTime /\ 0 \in 0..MaxTime
    BY RunnerAssumption
  <2>2. NoJob \in [step : {"none", "load", "record"}, table : Tables, at : Int]
    BY NoJobType
  <2> QED
    BY <2>1, <2>2, ExitTypes DEF SyncInit, SyncTypeOK
<1>3. Ages
  BY SyncAssumption DEF SyncInit, Init, Ages
<1>4. SeedSafe
  BY DEF SyncInit, SeedSafe, NoJob
<1>5. IngestSafe /\ RunsSafe
  BY ExitTypes DEF SyncInit, Init, IngestSafe, RunsSafe, Holding, Off
<1>6. NoGapAnywhere
  <2>1. FloorSec(0) <= 0 /\ FloorSec(0) \in Int
    BY FloorFacts
  <2> QED
    BY <2>1 DEF SyncInit, Init, NoGapAnywhere, Covered, NextLo, computeIntervalStart, newState, Off
<1> QED
  BY <1>1, <1>2, <1>3, <1>4, <1>5, <1>6 DEF SyncInv

(* Every step keeps SyncInv. *)
LEMMA SyncInvStep == ~AllowReseed /\ SyncInv /\ [SyncNext]_vars => SyncInv'
<1> SUFFICES ASSUME ~AllowReseed, SyncInv, [SyncNext]_vars PROVE SyncInv'
  OBVIOUS
<1>1. RunnerInv'
  BY RunnerInvStep DEF SyncInv
<1>2. DataInv'
  BY ModifyStep, PublishStep, SeedStep, StartStep, FetchStep, MergeStep, EntityOKStep,
     EntityFailsStep, OtherStep, LoadStep DEF SyncNext
<1> QED
  BY <1>1, <1>2 DEF SyncInv, DataInv

(* SyncInv is an invariant, if tables with a watermark are not seeded      *)
(* again.                                                                  *)
LEMMA SyncInvariance == ASSUME ~AllowReseed PROVE SyncSpec => []SyncInv
<1>1. SyncInv /\ [SyncNext]_vars => SyncInv'
  BY SyncInvStep
<1> QED
  BY <1>1, SyncInvInit, PTL DEF SyncSpec

(* No change is skipped for good, for any set of tables and runs, any      *)
(* overlap that is at least the index and replica lag, and any rounding:   *)
(* whatever is missing from Bronze is not older than the next window.      *)
THEOREM NoChangeSkipped == ASSUME ~AllowReseed PROVE SyncSpec => []NoGap
<1>1. SyncInv => NoGap
  BY DEF SyncInv, NoGapAnywhere, NoGap, Covered
<1> QED
  BY <1>1, SyncInvariance, PTL

(* What Bullhorn, the seed script and ingestr read and write keeps its     *)
(* type, whatever lags, fails or crashes.                                  *)
THEOREM SyncTypeCorrect == ASSUME ~AllowReseed PROVE SyncSpec => []SyncTypeOK
<1>1. SyncInv => SyncTypeOK
  BY DEF SyncInv
<1> QED
  BY <1>1, SyncInvariance, PTL
=============================================================================
