---------------------------- MODULE RunnerProofs ----------------------------
(***************************************************************************)
(* Theorems about Runner, for every number of invocations, every           *)
(* configuration and every bound.                                          *)
(***************************************************************************)
EXTENDS Runner, TLAPS

----------------------------------------------------------------------------
(* Facts about the operators. *)

(* The months of two times are ordered as the times are. *)
LEMMA DivMonotone ==
    ASSUME NEW M \in Nat \ {0}, NEW a \in Nat, NEW b \in Nat, a <= b
    PROVE  a \div M \in 0..(b \div M)
<1>1. a \div M \in Nat /\ b \div M \in Nat
  OBVIOUS
<1>2. M * (a \div M) <= a /\ b < M * ((b \div M) + 1)
  OBVIOUS
<1> QED
  BY <1>1, <1>2

(* Every time of the model falls into one of its months (monthBucket). *)
LEMMA BucketType == ASSUME NEW t \in 0..MaxTime PROVE monthBucket(t) \in Months
BY DivMonotone, RunnerAssumption DEF monthBucket, Months

(* newState is a state. *)
LEMMA NewStateType == newState \in State
BY RunnerAssumption DEF newState, State

(* A process that is not running has a well-formed record. *)
LEMMA OffType == Off \in RunRecord
<1>1. 0 \in 0..MaxTime /\ 1 \in 1..(Len(EntitySeq) + 1)
  BY RunnerAssumption
<1> QED
  BY <1>1, NewStateType DEF Off, RunRecord, Phases, ExitCodes

(* AddCalls keeps the watermarks and adds to one month only. *)
LEMMA AddCallsFacts ==
    ASSUME NEW s \in State, NEW t \in 0..MaxTime, NEW n \in Nat
    PROVE  /\ AddCalls(s, t, n) \in State
           /\ AddCalls(s, t, n).wm = s.wm
           /\ AddCalls(s, t, n).calls =
                [s.calls EXCEPT ![monthBucket(t)] = @ + n]
BY BucketType DEF AddCalls, State

----------------------------------------------------------------------------
(* Type correctness.  i is incremented after ingest and after save, so     *)
(* TypeOK needs to know that both happen inside the loop.                  *)
InLoop ==
    \A r \in Runners : run[r].pc \in {"ingest", "save"} => run[r].i <= Len(EntitySeq)
TypeInv == TypeOK /\ InLoop

(* The part of TypeOK that counts calls and faults. *)
CallTypes ==
    /\ faults \in 0..MaxFaults
    /\ callsFile \in [Tables -> 0..MaxCalls]
    /\ made \in [Months -> Nat]
    /\ strayed \in [Months -> Nat]
    /\ kept \in Nat

(* TypeInv holds initially. *)
LEMMA TypeInit == Init => TypeInv
BY RunnerAssumption, NewStateType, OffType
DEF Init, TypeInv, TypeOK, InLoop, Off

(* Replacing one invocation's record by a well-formed one keeps TypeInv's  *)
(* conjuncts about run.                                                    *)
LEMMA RunUpdate ==
    ASSUME TypeInv, NEW r \in Runners, NEW rec \in RunRecord,
           run' = [run EXCEPT ![r] = rec],
           rec.pc \in {"ingest", "save"} => rec.i <= Len(EntitySeq)
    PROVE  /\ run' \in [Runners -> RunRecord]
           /\ InLoop'
BY DEF TypeInv, TypeOK, InLoop

(* The updates of an invocation's record are well-formed. *)
LEMMA RecordUpdates ==
    ASSUME NEW x \in RunRecord
    PROVE  /\ \A t \in 0..MaxTime, b \in BOOLEAN :
                [x EXCEPT !.pc = "loop", !.now = t, !.over = b] \in RunRecord
           /\ [x EXCEPT !.pc = "ingest"] \in RunRecord
           /\ \A c \in ExitCodes : [x EXCEPT !.pc = "release", !.exit = c] \in RunRecord
           /\ \A c \in ExitCodes, b \in BOOLEAN :
                [x EXCEPT !.pc = "release", !.failed = b, !.exit = c] \in RunRecord
           /\ \A s \in State : [x EXCEPT !.pc = "save", !.st = s] \in RunRecord
           /\ x.i <= Len(EntitySeq) =>
                /\ [x EXCEPT !.i = @ + 1] \in RunRecord
                /\ [x EXCEPT !.pc = "loop", !.i = @ + 1] \in RunRecord
                /\ [x EXCEPT !.pc = "loop", !.i = @ + 1, !.failed = TRUE] \in RunRecord
                /\ \A s \in State :
                     [x EXCEPT !.pc = "loop", !.i = @ + 1, !.failed = TRUE, !.st = s] \in RunRecord
<1>1. Len(EntitySeq) \in Nat
  BY RunnerAssumption
<1>2. x.i <= Len(EntitySeq) => x.i + 1 \in 1..(Len(EntitySeq) + 1)
  BY <1>1 DEF RunRecord
<1> QED
  BY <1>2 DEF RunRecord, Phases

(* Every step of an invocation preserves TypeInv. *)
LEMMA ProceedType ==
    ASSUME TypeInv, NEW r \in Runners, Proceed(r) PROVE TypeInv'
<1> USE DEF TypeInv, TypeOK, callVars
<1>l. Len(EntitySeq) \in Nat
  BY RunnerAssumption
<1>r. run[r] \in RunRecord
  OBVIOUS
<1>1. CASE AcquireLock(r)
  <2>1. PICK over \in BOOLEAN :
          run' = [run EXCEPT ![r] = [run[r] EXCEPT !.pc = "loop", !.now = clock, !.over = over]]
    <3> DEFINE x == budgetExceeded(clock, CallsThisMonth(run[r].st, clock))
    <3>1. x \in BOOLEAN
      BY DEF budgetExceeded
    <3>2. run' = [run EXCEPT ![r] = [run[r] EXCEPT !.pc = "loop", !.now = clock, !.over = x]]
      BY <1>1 DEF AcquireLock, RunRecord
    <3> HIDE DEF x
    <3> QED
      BY <3>1, <3>2
  <2>2. [run[r] EXCEPT !.pc = "loop", !.now = clock, !.over = over] \in RunRecord
    <3>1. clock \in 0..MaxTime
      BY RunnerAssumption
    <3> QED
      BY <1>r, <3>1, RecordUpdates
  <2>3. run' \in [Runners -> RunRecord] /\ InLoop'
    BY <2>1, <2>2, RunUpdate DEF RunRecord
  <2> QED
    BY <1>1, <2>3 DEF AcquireLock
<1>2. CASE LockExists(r) \/ Release(r)
  <2>1. run' \in [Runners -> RunRecord] /\ InLoop'
    BY <1>2, OffType, RunUpdate DEF LockExists, Release, Off
  <2> QED
    BY <1>2, <2>1 DEF LockExists, Release
<1>3. CASE SkipEntity(r)
  <2>1. [run[r] EXCEPT !.i = @ + 1] \in RunRecord
    <3>1. run[r].i <= Len(EntitySeq)
      BY <1>3, <1>r, <1>l DEF SkipEntity, AtEnd, RunRecord
    <3> QED
      BY <1>r, <3>1, RecordUpdates
  <2>2. run' \in [Runners -> RunRecord] /\ InLoop'
    BY <1>3, <1>r, <2>1, RunUpdate DEF SkipEntity, RunRecord
  <2> QED
    BY <1>3, <2>2 DEF SkipEntity
<1>4. CASE SaveState(r)
  <2>1. [run[r] EXCEPT !.pc = "loop", !.i = @ + 1] \in RunRecord
    BY SMTT(30), <1>4, <1>r, <1>l DEF SaveState, InLoop, RunRecord, Phases
  <2>2. run' \in [Runners -> RunRecord] /\ InLoop'
    <3>1. run' = [run EXCEPT ![r] = [run[r] EXCEPT !.pc = "loop", !.i = @ + 1]]
      BY <1>4 DEF SaveState, RunRecord
    <3>2. [run[r] EXCEPT !.pc = "loop", !.i = @ + 1].pc = "loop"
      BY <1>r DEF RunRecord
    <3> QED
      BY <2>1, <3>1, <3>2, RunUpdate
  <2>3. stateFile' \in State
    BY <1>4, <1>r DEF SaveState, RunRecord
  <2> QED
    BY <1>4, <2>2, <2>3 DEF SaveState
<1>5. CASE FinalSave(r)
  <2>1. PICK x \in ExitCodes :
          run' = [run EXCEPT ![r] = [run[r] EXCEPT !.pc = "release", !.exit = x]]
    BY <1>5 DEF FinalSave, RunRecord, exitCode, ExitCodes
  <2>2. [run[r] EXCEPT !.pc = "release", !.exit = x] \in RunRecord
    BY <1>r DEF RunRecord, Phases
  <2>3. run' \in [Runners -> RunRecord] /\ InLoop'
    BY <2>1, <2>2, RunUpdate DEF RunRecord
  <2>4. stateFile' \in State
    BY <1>5, <1>r DEF FinalSave, RunRecord
  <2> QED
    BY <1>5, <2>3, <2>4 DEF FinalSave
<1> QED
  BY <1>1, <1>2, <1>3, <1>4, <1>5 DEF Proceed

(* Whatever is read from the call-count file, the counters keep their types. *)
LEMMA CountType ==
    ASSUME TypeInv, NEW r \in Runners, NEW n \in 0..MaxCalls, NEW c \in 0..MaxCalls,
           CallCount(r, n, c) \/ NotConnected(r, n, c) \/ NotPrepared(n, c)
    PROVE  CallTypes'
<1> USE DEF TypeInv, TypeOK, CallTypes
<1>n. n \in Nat /\ c \in Nat /\ 0 \in 0..MaxCalls
  BY RunnerAssumption
<1>m. month(r) \in Months
  BY BucketType DEF month, RunRecord
<1>f. Fault => faults' \in 0..MaxFaults
  BY RunnerAssumption DEF Fault
<1>1. FileRemoved(r) \/ FileStays(r, c) => callsFile' \in [Tables -> 0..MaxCalls] /\ kept' \in Nat
  BY <1>n DEF FileRemoved, FileStays
<1>2. WrittenByClose(n, c) \/ LeftBehind(r, c) => strayed' \in [Months -> Nat]
  BY <1>n, <1>m DEF WrittenByClose, LeftBehind
<1>3. CallsMade(r, n) => made' \in [Months -> Nat]
  BY <1>n, <1>m DEF CallsMade
<1>4. CASE CallCount(r, n, c)
  BY <1>4, <1>f, <1>1, <1>2, <1>3 DEF CallCount
<1>5. CASE NotConnected(r, n, c)
  BY <1>5, <1>f, <1>1, <1>2 DEF NotConnected
<1>6. CASE NotPrepared(n, c)
  BY <1>6 DEF NotPrepared, callVars
<1> QED
  BY <1>4, <1>5, <1>6

(* So does starting ingestr, and its end. *)
LEMMA IngestType ==
    ASSUME TypeInv, NEW r \in Runners, StartEntity(r) \/ IngestEnds(r) PROVE TypeInv'
<1> USE DEF TypeInv, TypeOK, CallTypes, callVars
<1>l. Len(EntitySeq) \in Nat
  BY RunnerAssumption
<1>r. run[r] \in RunRecord
  OBVIOUS
<1>n. run[r].now \in 0..MaxTime /\ run[r].st \in State
  BY <1>r DEF RunRecord
<1>c. \A c \in 0..MaxCalls : c \in Nat
  BY RunnerAssumption
<1>1. CASE StartEntity(r)
  <2>1. run[r].i <= Len(EntitySeq)
    BY <1>1, <1>r, <1>l DEF StartEntity, Runs, AtEnd, RunRecord
  <2>2. [run[r] EXCEPT !.pc = "ingest"] \in RunRecord
    BY <1>r, RecordUpdates
  <2>3. run' \in [Runners -> RunRecord] /\ InLoop'
    BY <1>1, <1>r, <2>1, <2>2, RunUpdate DEF StartEntity, RunRecord
  <2> QED
    BY <1>1, <2>3 DEF StartEntity
<1>2. ASSUME NEW n \in 0..MaxCalls, NEW c \in 0..MaxCalls, run[r].pc = "ingest",
             CallCount(r, n, c) \/ NotConnected(r, n, c) \/ NotPrepared(n, c)
      PROVE  CallTypes'
  BY <1>2, CountType
<1>3. ASSUME NEW n \in 0..MaxCalls, NEW c \in 0..MaxCalls, EntityFails(r, n, c)
      PROVE  TypeInv'
  <2>1. AddCalls(run[r].st, run[r].now, c) \in State
    BY <1>n, <1>c, AddCallsFacts
  <2>2. run[r].i <= Len(EntitySeq)
    BY <1>3 DEF EntityFails, InLoop
  <2> DEFINE rec == [run[r] EXCEPT !.pc = "loop", !.i = @ + 1, !.failed = TRUE,
                                   !.st = AddCalls(run[r].st, run[r].now, c)]
  <2>3. rec \in RunRecord
    BY <1>r, <2>1, <2>2, RecordUpdates
  <2>4. run' = [run EXCEPT ![r] = rec] /\ rec.pc = "loop"
    BY <1>3, <1>r DEF EntityFails, RunRecord
  <2> HIDE DEF rec
  <2>5. run' \in [Runners -> RunRecord] /\ InLoop'
    BY <2>3, <2>4, RunUpdate
  <2> QED
    BY <1>2, <1>3, <2>5 DEF EntityFails
<1>4. ASSUME NEW n \in 0..MaxCalls, NEW c \in 0..MaxCalls, EntityOK(r, n, c)
      PROVE  TypeInv'
  <2> DEFINE s == AddCalls(run[r].st, run[r].now, c)
             t == [s EXCEPT !.wm[entity(r)] = run[r].now]
             rec == [run[r] EXCEPT !.pc = "save", !.st = t]
  <2>1. s \in State
    BY <1>n, <1>c, AddCallsFacts
  <2>2. run[r].i <= Len(EntitySeq)
    BY <1>4 DEF EntityOK, InLoop
  <2>3. run' = [run EXCEPT ![r] = rec]
    BY <1>4, <1>r DEF EntityOK, RunRecord
  <2> HIDE DEF s
  <2>4. t \in State
    BY <1>n, <2>1 DEF State
  <2> HIDE DEF t
  <2>5. rec \in RunRecord /\ rec.i = run[r].i
    <3>1. rec \in RunRecord
      BY <1>r, <2>4, RecordUpdates
    <3> QED
      BY <1>r, <3>1 DEF RunRecord
  <2> HIDE DEF rec
  <2>6. run' \in [Runners -> RunRecord] /\ InLoop'
    BY <2>2, <2>3, <2>5, RunUpdate
  <2>7. lastOk' \in [Tables -> 0..MaxTime]
    BY <1>4, <1>n DEF EntityOK
  <2> QED
    BY <1>2, <1>4, <2>6, <2>7 DEF EntityOK
<1> QED
  BY <1>1, <1>3, <1>4 DEF IngestEnds

(* Nor does a kill while ingestr runs disturb them. *)
LEMMA KilledType ==
    ASSUME TypeInv, NEW r \in Runners, IngestKilled(r)
    PROVE  /\ callsFile' \in [Tables -> 0..MaxCalls]
           /\ made' \in [Months -> Nat]
           /\ \A m \in Months : made[m] <= made'[m]
           /\ UNCHANGED <<strayed, kept>>
<1>1. PICK n \in 0..MaxCalls :
        /\ CallsMade(r, n)
        /\ \E x \in {0, n, callsFile[entity(r)]} : callsFile' = [callsFile EXCEPT ![entity(r)] = x]
        /\ UNCHANGED <<strayed, kept>>
  BY DEF IngestKilled
<1>2. n \in Nat /\ 0 \in 0..MaxCalls /\ month(r) \in Months
  BY RunnerAssumption, BucketType DEF month, TypeInv, TypeOK, RunRecord
<1>3. entity(r) \in Tables => callsFile[entity(r)] \in 0..MaxCalls
  BY DEF TypeInv, TypeOK
<1>4. callsFile' \in [Tables -> 0..MaxCalls]
  BY <1>1, <1>2, <1>3 DEF TypeInv, TypeOK
<1>5. made' \in [Months -> Nat] /\ \A m \in Months : made[m] <= made'[m]
  BY <1>1, <1>2 DEF CallsMade, TypeInv, TypeOK
<1> QED
  BY <1>1, <1>4, <1>5

(* So does every failure and crash. *)
LEMMA FailsType ==
    ASSUME TypeInv, NEW r \in Runners, Fails(r) \/ Crash(r) PROVE TypeInv'
<1> USE DEF TypeInv, TypeOK, CallTypes, callVars
<1>l. Len(EntitySeq) \in Nat
  BY RunnerAssumption
<1>r. run[r] \in RunRecord
  OBVIOUS
<1>f. Fault => faults' \in 0..MaxFaults
  BY RunnerAssumption DEF Fault
<1>1. CASE LoadFails(r) \/ LockWriteFails(r) \/ ReleaseFails(r)
  <2>1. run' \in [Runners -> RunRecord] /\ InLoop'
    BY <1>1, OffType, RunUpdate DEF LoadFails, LockWriteFails, ReleaseFails, Off
  <2> QED
    BY <1>1, <1>f, <2>1 DEF LoadFails, LockWriteFails, ReleaseFails
<1>2. CASE SaveFails(r)
  <2>1. [run[r] EXCEPT !.pc = "loop", !.i = @ + 1, !.failed = TRUE] \in RunRecord
    BY <1>2, <1>r, RecordUpdates DEF SaveFails, InLoop
  <2>2. run' \in [Runners -> RunRecord] /\ InLoop'
    <3>1. run' = [run EXCEPT ![r] = [run[r] EXCEPT !.pc = "loop", !.i = @ + 1, !.failed = TRUE]]
      BY <1>2 DEF SaveFails, RunRecord
    <3>2. [run[r] EXCEPT !.pc = "loop", !.i = @ + 1, !.failed = TRUE].pc = "loop"
      BY <1>r DEF RunRecord
    <3> QED
      BY <2>1, <3>1, <3>2, RunUpdate
  <2> QED
    BY <1>2, <1>f, <2>2 DEF SaveFails
<1>3. CASE FinalSaveFails(r)
  <2>1. [run[r] EXCEPT !.pc = "release", !.failed = TRUE, !.exit = "entityFailed"] \in RunRecord
    BY <1>r, RecordUpdates DEF ExitCodes
  <2>2. run' \in [Runners -> RunRecord] /\ InLoop'
    <3>1. run' = [run EXCEPT ![r] = [run[r] EXCEPT !.pc = "release", !.failed = TRUE,
                                                   !.exit = "entityFailed"]]
      BY <1>3, <1>r, Zenon DEF FinalSaveFails, exitCode
    <3> QED
      BY <1>r, <2>1, <3>1, RunUpdate DEF RunRecord
  <2> QED
    BY <1>3, <1>f, <2>2 DEF FinalSaveFails
<1>4. CASE Crash(r)
  <2>1. run' \in [Runners -> RunRecord] /\ InLoop'
    BY <1>4, OffType, RunUpdate DEF Crash, Off
  <2>2. CallTypes'
    <3>1. CASE IngestKilled(r)
      BY <1>4, <1>f, <3>1, KilledType DEF Crash
    <3>2. CASE UNCHANGED callVars
      BY <1>4, <1>f, <3>2 DEF Crash
    <3> QED
      BY <1>4, <3>1, <3>2 DEF Crash
  <2> QED
    BY <1>4, <2>1, <2>2 DEF Crash
<1> QED
  BY <1>1, <1>2, <1>3, <1>4 DEF Fails

(* Every step preserves TypeInv. *)
LEMMA TypeStep == TypeInv /\ [Next]_runnerVars => TypeInv'
<1> SUFFICES ASSUME TypeInv, [Next]_runnerVars PROVE TypeInv'
  OBVIOUS
<1>1. ASSUME NEW r \in Runners, NEW sel \in Selections, Load(r, sel) PROVE TypeInv'
  <2>1. [Off EXCEPT !.pc = "loaded", !.st = stateFile, !.sel = sel] \in RunRecord
    BY OffType, RunnerAssumption DEF TypeInv, TypeOK, RunRecord, Phases
  <2>2. run' \in [Runners -> RunRecord] /\ InLoop'
    BY <1>1, <2>1, OffType, RunUpdate DEF Load, RunRecord
  <2> QED
    BY <1>1, <2>2 DEF Load, TypeInv, TypeOK, callVars
<1>2. CASE RemoveStaleLock \/ Tick
  BY <1>2, RunnerAssumption DEF RemoveStaleLock, Tick, TypeInv, TypeOK, InLoop, callVars
<1>3. CASE UNCHANGED runnerVars
  BY <1>3 DEF runnerVars, callVars, TypeInv, TypeOK, InLoop
<1> QED
  BY <1>1, <1>2, <1>3, ProceedType, IngestType, FailsType DEF Next

(* The variables of the runner always have their types: every step of      *)
(* main.run, of a crash and of the operator stays within the state space.  *)
THEOREM TypeCorrect == Spec => []TypeOK
<1>1. Spec => []TypeInv
  BY TypeInit, TypeStep, PTL DEF Spec
<1> QED
  BY <1>1, PTL DEF TypeInv

----------------------------------------------------------------------------
(* Mutual exclusion: the lock file names the run that is in progress, so   *)
(* that a crashed run's lock is removed before another run begins.         *)
(* Every step preserves LockHeld.                                          *)
LEMMA LockStep ==
    ASSUME TypeInv, LockHeld, [Next]_runnerVars PROVE LockHeld'
<1> USE DEF TypeInv, TypeOK, LockHeld, Holding
<1>1. ASSUME NEW r \in Runners, Proceed(r) PROVE LockHeld'
  <2>1. CASE AcquireLock(r)
    BY <2>1, RunnerAssumption DEF AcquireLock, RunRecord
  <2>2. CASE LockExists(r)
    BY <2>2 DEF LockExists, Off
  <2>3. CASE SkipEntity(r)
    BY <2>3 DEF SkipEntity, RunRecord
  <2>4. CASE SaveState(r)
    BY <2>4 DEF SaveState, RunRecord
  <2>5. CASE FinalSave(r)
    BY <2>5 DEF FinalSave, RunRecord
  <2>6. CASE Release(r)
    BY <2>6 DEF Release, Off
  <2> QED
    BY <1>1, <2>1, <2>2, <2>3, <2>4, <2>5, <2>6 DEF Proceed
<1>2. ASSUME NEW r \in Runners, StartEntity(r) \/ IngestEnds(r) PROVE LockHeld'
  <2>1. CASE StartEntity(r)
    BY <2>1 DEF StartEntity, Runs, RunRecord
  <2>2. ASSUME NEW n, NEW c, EntityOK(r, n, c) \/ EntityFails(r, n, c) PROVE LockHeld'
    BY <2>2 DEF EntityOK, EntityFails, RunRecord
  <2> QED
    BY <1>2, <2>1, <2>2 DEF IngestEnds
<1>3. ASSUME NEW r \in Runners, Fails(r) \/ Crash(r) PROVE LockHeld'
  <2>1. CASE LoadFails(r) \/ ReleaseFails(r) \/ Crash(r)
    BY <2>1 DEF LoadFails, ReleaseFails, Crash, Off
  <2>2. CASE LockWriteFails(r)
    BY <2>2, RunnerAssumption DEF LockWriteFails, Off
  <2>3. CASE SaveFails(r)
    BY <2>3 DEF SaveFails, RunRecord
  <2>4. CASE FinalSaveFails(r)
    BY <2>4 DEF FinalSaveFails, RunRecord
  <2> QED
    BY <1>3, <2>1, <2>2, <2>3, <2>4 DEF Fails
<1>4. ASSUME NEW r \in Runners, NEW sel \in Selections, Load(r, sel) PROVE LockHeld'
  BY <1>4 DEF Load, Off
<1>5. CASE RemoveStaleLock
  BY <1>5 DEF RemoveStaleLock
<1>6. CASE Tick \/ UNCHANGED runnerVars
  BY <1>6 DEF Tick, runnerVars
<1> QED
  BY <1>1, <1>2, <1>3, <1>4, <1>5, <1>6 DEF Next

(* At most one invocation is between AcquireLock and Release: the lock     *)
(* file created with O_EXCL excludes every other one, although it outlives *)
(* the runs that crash and the operator removes it then.                   *)
THEOREM MutualExclusion == Spec => []OneRunAtATime
<1>1. Init => LockHeld
  BY DEF Init, LockHeld, Holding, Off
<1>2. Spec => [](TypeInv /\ LockHeld)
  BY <1>1, TypeInit, TypeStep, LockStep, PTL DEF Spec
<1>3. LockHeld => OneRunAtATime
  BY DEF LockHeld, OneRunAtATime
<1> QED
  BY <1>2, <1>3, PTL

----------------------------------------------------------------------------
(* How state travels: except when ingestr ends, a step only copies whole   *)
(* states between the file and the invocations, or starts from newState.   *)
CopiesState ==
    /\ UNCHANGED <<lastOk, strayed>>
    /\ \A m \in Months : made[m] <= made'[m]
    /\ stateFile' = stateFile \/ \E r \in Runners : stateFile' = run[r].st
    /\ \A r \in Runners : \/ run'[r].st = run[r].st
                            \/ run'[r].st = stateFile
                            \/ run'[r].st = newState

(* Every step that does not end an ingestr only copies states. *)
LEMMA StepCopies ==
    ASSUME TypeInv, [Next]_runnerVars
    PROVE  CopiesState \/ \E r \in Runners : IngestEnds(r)
<1> USE DEF TypeInv, TypeOK, CopiesState, callVars
<1>1. ASSUME NEW r \in Runners, Proceed(r) PROVE CopiesState
  <2>1. CASE AcquireLock(r)
    BY <2>1 DEF AcquireLock, RunRecord
  <2>2. CASE LockExists(r) \/ Release(r)
    BY <2>2 DEF LockExists, Release, Off
  <2>3. CASE SkipEntity(r)
    BY <2>3 DEF SkipEntity, RunRecord
  <2>4. CASE SaveState(r)
    BY <2>4 DEF SaveState, RunRecord
  <2>5. CASE FinalSave(r)
    BY <2>5 DEF FinalSave, RunRecord
  <2> QED
    BY <1>1, <2>1, <2>2, <2>3, <2>4, <2>5 DEF Proceed
<1>2. ASSUME NEW r \in Runners, StartEntity(r) PROVE CopiesState
  BY <1>2 DEF StartEntity, RunRecord
<1>3. ASSUME NEW r \in Runners, Fails(r) \/ Crash(r) PROVE CopiesState
  <2>1. CASE LoadFails(r) \/ LockWriteFails(r) \/ ReleaseFails(r)
    BY <2>1 DEF LoadFails, LockWriteFails, ReleaseFails, Off
  <2>2. CASE SaveFails(r)
    BY <2>2 DEF SaveFails, RunRecord
  <2>3. CASE FinalSaveFails(r)
    BY <2>3 DEF FinalSaveFails, RunRecord
  <2>4. CASE Crash(r)
    <3>1. UNCHANGED strayed /\ \A m \in Months : made[m] <= made'[m]
      BY <2>4, KilledType DEF Crash
    <3> QED
      BY <2>4, <3>1 DEF Crash, Off
  <2> QED
    BY <1>3, <2>1, <2>2, <2>3, <2>4 DEF Fails
<1>4. ASSUME NEW r \in Runners, NEW sel \in Selections, Load(r, sel) PROVE CopiesState
  BY <1>4 DEF Load, Off
<1>5. CASE RemoveStaleLock \/ Tick \/ UNCHANGED runnerVars
  BY <1>5 DEF RemoveStaleLock, Tick, runnerVars
<1> QED
  BY <1>1, <1>2, <1>3, <1>4, <1>5 DEF Next

(* What the end of an ingestr that made n calls, of which the runner read  *)
(* c, does to the histories and the states: the x it did not make itself   *)
(* are strayed.                                                            *)
IngestEffect(r, n, c) ==
    /\ \E x \in Nat : /\ c <= n + x
                     /\ strayed' = [strayed EXCEPT ![month(r)] = @ + x]
    /\ run[r].pc = "ingest"
    /\ made' = [made EXCEPT ![month(r)] = @ + n]
    /\ run'[r].st.calls = [run[r].st.calls EXCEPT ![month(r)] = @ + c]
    /\ \/ lastOk' = lastOk /\ run'[r].st.wm = run[r].st.wm
       \/ /\ lastOk' = [lastOk EXCEPT ![entity(r)] = run[r].now]
          /\ run'[r].st.wm = [run[r].st.wm EXCEPT ![entity(r)] = run[r].now]
    /\ \A q \in Runners \ {r} : run'[q] = run[q]
    /\ run'[r].now = run[r].now
    /\ UNCHANGED <<stateFile, clock, lock>>

(* Every end of an ingestr has that effect. *)
LEMMA IngestEffects ==
    ASSUME TypeInv, NEW r \in Runners, IngestEnds(r)
    PROVE  \E n \in Nat, c \in Nat : IngestEffect(r, n, c)
<1> USE DEF TypeInv, TypeOK, IngestEffect
<1>1. PICK n \in 0..MaxCalls, c \in 0..MaxCalls : EntityOK(r, n, c) \/ EntityFails(r, n, c)
  BY DEF IngestEnds
<1>2. n \in Nat /\ c \in Nat
  BY RunnerAssumption
<1>m. month(r) \in Months
  BY BucketType DEF month, RunRecord
<1>c. /\ made' = [made EXCEPT ![month(r)] = @ + n]
      /\ \E x \in Nat : c <= n + x /\ strayed' = [strayed EXCEPT ![month(r)] = @ + x]
  <2>1. CallCount(r, n, c) \/ NotConnected(r, n, c) \/ NotPrepared(n, c)
    BY <1>1 DEF EntityOK, EntityFails
  <2>2. CallCount(r, n, c) => made' = [made EXCEPT ![month(r)] = @ + n]
    BY DEF CallCount, CallsMade
  <2>3. NotConnected(r, n, c) \/ NotPrepared(n, c) => made' = [made EXCEPT ![month(r)] = @ + n]
    BY <1>m DEF NotConnected, NotPrepared, callVars
  <2>4. WrittenByClose(n, c) \/ NotPrepared(n, c)
          => c <= n + 0 /\ strayed' = [strayed EXCEPT ![month(r)] = @ + 0]
    BY <1>2, <1>m DEF WrittenByClose, NotPrepared, callVars
  <2>5. LeftBehind(r, c) => c <= n + c /\ strayed' = [strayed EXCEPT ![month(r)] = @ + c]
    BY <1>2 DEF LeftBehind
  <2>6. WrittenByClose(n, c) \/ NotPrepared(n, c) \/ LeftBehind(r, c)
    BY <2>1 DEF CallCount, NotConnected
  <2> QED
    BY <1>2, <2>1, <2>2, <2>3, <2>4, <2>5, <2>6
<1>3. run[r] \in RunRecord /\ run[r].now \in 0..MaxTime /\ run[r].st \in State
  BY DEF RunRecord
<1> DEFINE s == AddCalls(run[r].st, run[r].now, c)
<1>4. /\ s \in State
      /\ s.wm = run[r].st.wm
      /\ s.calls = [run[r].st.calls EXCEPT ![month(r)] = @ + c]
  BY <1>2, <1>3, AddCallsFacts DEF month
<1>5. CASE EntityFails(r, n, c)
  <2>1. run'[r].st = s /\ run'[r].now = run[r].now /\ \A q \in Runners \ {r} : run'[q] = run[q]
    BY <1>3, <1>5 DEF EntityFails, RunRecord
  <2> HIDE DEF s
  <2> QED
    BY <1>2, <1>c, <1>4, <1>5, <2>1 DEF EntityFails
<1>6. CASE EntityOK(r, n, c)
  <2>1. /\ run'[r].st = [s EXCEPT !.wm[entity(r)] = run[r].now]
        /\ run'[r].now = run[r].now
        /\ \A q \in Runners \ {r} : run'[q] = run[q]
    BY <1>3, <1>6 DEF EntityOK, RunRecord
  <2> HIDE DEF s
  <2>2. /\ run'[r].st.wm = [s.wm EXCEPT ![entity(r)] = run[r].now]
        /\ run'[r].st.calls = s.calls
    BY <1>4, <2>1 DEF State
  <2>3. /\ run'[r].st.wm = [run[r].st.wm EXCEPT ![entity(r)] = run[r].now]
        /\ run'[r].st.calls = [run[r].st.calls EXCEPT ![month(r)] = @ + c]
    BY <1>4, <2>2
  <2>4. /\ run[r].pc = "ingest" /\ lastOk' = [lastOk EXCEPT ![entity(r)] = run[r].now]
        /\ UNCHANGED <<stateFile, clock, lock>>
    BY <1>6 DEF EntityOK
  <2>5. IngestEffect(r, n, c)
    BY <1>c, <2>1, <2>3, <2>4
  <2> QED
    BY <1>2, <2>5
<1> QED
  BY <1>1, <1>5, <1>6

----------------------------------------------------------------------------
(* Runs start in the order in which they hold the lock. *)
StartsOrdered ==
    /\ \A e \in Tables : lastOk[e] <= clock
    /\ \A r \in Runners : Holding(r) =>
         run[r].now <= clock /\ \A e \in Tables : lastOk[e] <= run[r].now

(* A run's start is fixed when it takes the lock, and time does not run    *)
(* backwards.                                                              *)
LEMMA StepStarts ==
    ASSUME TypeInv, [Next]_runnerVars
    PROVE  /\ clock' >= clock
           /\ \A r \in Runners : Holding(r)' =>
                \/ Holding(r) /\ run'[r].now = run[r].now
                \/ run'[r].now = clock /\ UNCHANGED clock
<1> USE DEF TypeInv, TypeOK, Holding
<1> DEFINE Goal == /\ clock' >= clock
                   /\ \A r \in Runners : Holding(r)' =>
                        \/ Holding(r) /\ run'[r].now = run[r].now
                        \/ run'[r].now = clock /\ UNCHANGED clock
<1>1. ASSUME NEW r \in Runners, Proceed(r) PROVE Goal
  <2>1. CASE AcquireLock(r)
    BY <2>1 DEF AcquireLock, RunRecord
  <2>2. CASE LockExists(r) \/ Release(r)
    BY <2>2 DEF LockExists, Release, Off
  <2>3. CASE SkipEntity(r)
    BY <2>3 DEF SkipEntity, RunRecord
  <2>4. CASE SaveState(r)
    BY <2>4 DEF SaveState, RunRecord
  <2>5. CASE FinalSave(r)
    BY <2>5 DEF FinalSave, RunRecord
  <2> QED
    BY <1>1, <2>1, <2>2, <2>3, <2>4, <2>5 DEF Proceed
<1>2. ASSUME NEW r \in Runners, StartEntity(r) PROVE Goal
  BY <1>2 DEF StartEntity, Runs, RunRecord
<1>3. ASSUME NEW r \in Runners, IngestEnds(r) PROVE Goal
  <2>1. /\ run[r].pc = "ingest" /\ run'[r].now = run[r].now /\ UNCHANGED clock
        /\ \A q \in Runners \ {r} : run'[q] = run[q]
    BY <1>3, IngestEffects DEF IngestEffect
  <2> QED
    BY <2>1
<1>4. ASSUME NEW r \in Runners, Fails(r) \/ Crash(r) PROVE Goal
  <2>1. CASE LoadFails(r) \/ LockWriteFails(r) \/ ReleaseFails(r) \/ Crash(r)
    BY <2>1 DEF LoadFails, LockWriteFails, ReleaseFails, Crash, Off
  <2>2. CASE SaveFails(r)
    BY <2>2 DEF SaveFails, RunRecord
  <2>3. CASE FinalSaveFails(r)
    BY <2>3 DEF FinalSaveFails, RunRecord
  <2> QED
    BY <1>4, <2>1, <2>2, <2>3 DEF Fails
<1>5. ASSUME NEW r \in Runners, NEW sel \in Selections, Load(r, sel) PROVE Goal
  BY <1>5 DEF Load, Off
<1>6. CASE RemoveStaleLock \/ Tick \/ UNCHANGED runnerVars
  BY <1>6 DEF RemoveStaleLock, Tick, runnerVars
<1> QED
  BY <1>1, <1>2, <1>3, <1>4, <1>5, <1>6 DEF Next

(* StartsOrdered is preserved: only the run that holds the lock moves      *)
(* lastOk, to its own start.                                               *)
LEMMA StartsStep ==
    ASSUME TypeInv, LockHeld, StartsOrdered, [Next]_runnerVars PROVE StartsOrdered'
<1>t. /\ clock \in Nat /\ clock' \in Nat
      /\ \A r \in Runners : run[r].now \in Nat /\ run'[r].now \in Nat
      /\ \A e \in Tables : lastOk[e] \in Nat /\ lastOk'[e] \in Nat
  <2>1. TypeInv'
    BY TypeStep
  <2> QED
    BY SMTT(30), <2>1, RunnerAssumption DEF TypeInv, TypeOK, RunRecord
<1>1. CASE CopiesState
  BY <1>1, <1>t, StepStarts DEF CopiesState, StartsOrdered
<1>2. ASSUME NEW r \in Runners, IngestEnds(r) PROVE StartsOrdered'
  <2>1. Holding(r) /\ UNCHANGED clock /\ run'[r].now = run[r].now
    BY <1>2, IngestEffects DEF IngestEffect, Holding
  <2>2. \A q \in Runners \ {r} : ~Holding(q) /\ run'[q] = run[q]
    BY <1>2, <2>1, IngestEffects DEF IngestEffect, LockHeld
  <2>3. \A e \in Tables : lastOk'[e] \in {lastOk[e], run[r].now}
    BY <1>2, IngestEffects DEF IngestEffect, TypeInv, TypeOK
  <2> QED
    BY <1>t, <2>1, <2>2, <2>3 DEF StartsOrdered, Holding
<1> QED
  BY <1>1, <1>2, StepCopies

(* WatermarkNeverAhead is preserved: copies keep it, and the run whose     *)
(* ingestr succeeded moves watermark and history together.                 *)
LEMMA WatermarkStep ==
    ASSUME TypeInv, LockHeld, StartsOrdered, WatermarkNeverAhead, [Next]_runnerVars
    PROVE  WatermarkNeverAhead'
<1>1. TypeInv' /\ LockHeld' /\ StartsOrdered'
  BY TypeStep, LockStep, StartsStep
<1>t. /\ \A e \in Tables : stateFile.wm[e] \in Nat /\ lastOk[e] \in Nat /\ lastOk'[e] \in Nat
      /\ \A r \in Runners : run[r].now \in Nat /\ run[r].st \in State /\ run'[r].st \in State
  BY SMTT(30), <1>1 DEF TypeInv, TypeOK, RunRecord, State
<1>2. ASSUME CopiesState PROVE WatermarkNeverAhead'
  <2>1. \A e \in Tables : newState.wm[e] <= lastOk[e]
    BY <1>t DEF newState
  <2>2. \A e \in Tables : stateFile'.wm[e] <= lastOk[e]
    BY <1>2 DEF CopiesState, WatermarkNeverAhead
  <2>3. \A r \in Runners : \A e \in Tables : run'[r].st.wm[e] <= lastOk[e]
    BY <1>2, <2>1 DEF CopiesState, WatermarkNeverAhead
  <2>4. lastOk' = lastOk
    BY <1>2 DEF CopiesState
  <2> QED
    BY <1>t, <2>2, <2>3, <2>4 DEF WatermarkNeverAhead
<1>3. ASSUME NEW r \in Runners, IngestEnds(r) PROVE WatermarkNeverAhead'
  <2>1. Holding(r)
    BY <1>3, IngestEffects DEF IngestEffect, Holding
  <2>a. \/ lastOk' = lastOk /\ run'[r].st.wm = run[r].st.wm
        \/ /\ lastOk' = [lastOk EXCEPT ![entity(r)] = run[r].now]
           /\ run'[r].st.wm = [run[r].st.wm EXCEPT ![entity(r)] = run[r].now]
    BY <1>3, IngestEffects DEF IngestEffect
  <2>b. lastOk \in [Tables -> Nat] /\ run[r].st.wm \in [Tables -> Nat]
    BY <1>t DEF TypeInv, TypeOK, State
  <2>2. \A e \in Tables : lastOk[e] <= lastOk'[e]
    BY <1>t, <2>1, <2>a, <2>b DEF StartsOrdered
  <2>3. \A q \in Runners \ {r} : run'[q] = run[q]
    BY <1>3, IngestEffects DEF IngestEffect
  <2>4. stateFile' = stateFile
    BY <1>3, IngestEffects DEF IngestEffect
  <2>5. \A e \in Tables : run'[r].st.wm[e] <= lastOk'[e]
    BY <1>t, <2>a, <2>b DEF WatermarkNeverAhead
  <2>6. \A q \in Runners \ {r} : \A e \in Tables : run'[q].st.wm[e] <= lastOk'[e]
    BY <1>t, <2>2, <2>3 DEF WatermarkNeverAhead, State
  <2> QED
    BY <1>t, <2>2, <2>4, <2>5, <2>6 DEF WatermarkNeverAhead
<1> QED
  BY <1>1, <1>2, <1>3, StepCopies

(* No watermark is ahead of the data: whatever is loaded from a stale      *)
(* file, saved twice, not saved or lost in a crash, the watermark of a     *)
(* table is at most the start of the last run that loaded the table.       *)
THEOREM WatermarkSafe == Spec => []WatermarkNeverAhead
<1> DEFINE Inv == TypeInv /\ LockHeld /\ StartsOrdered /\ WatermarkNeverAhead
<1>1. Init => Inv
  BY TypeInit, RunnerAssumption
  DEF Init, LockHeld, Holding, StartsOrdered, WatermarkNeverAhead, Off, newState
<1>2. Inv /\ [Next]_runnerVars => Inv'
  BY TypeStep, LockStep, StartsStep, WatermarkStep
<1> QED
  BY <1>1, <1>2, PTL DEF Spec

(* A month's total is at most the calls made by that month's runs and the  *)
(* counts they found in call-count files of earlier runs: no interleaving  *)
(* of stale loads, saves, failures and kills adds anything else, for any   *)
(* number of runs and tables.                                              *)
THEOREM CallsSafe == Spec => []CallsExplained
<1> DEFINE Inv == TypeInv /\ CallsExplained
<1>1. Init => Inv
  BY TypeInit, RunnerAssumption DEF Init, CallsExplained, States, Off, newState
<1>2. ASSUME Inv, [Next]_runnerVars PROVE Inv'
  <2>1. TypeInv'
    BY <1>2, TypeStep
  <2>t. /\ \A m \in Months : made[m] \in Nat /\ strayed[m] \in Nat
        /\ \A m \in Months : made'[m] \in Nat /\ strayed'[m] \in Nat
        /\ \A s \in States : \A m \in Months : s.calls[m] \in Nat
    <3>1. \A s \in States : s \in State
      BY <1>2 DEF TypeInv, TypeOK, RunRecord, States
    <3>2. \A s \in State : \A m \in Months : s.calls[m] \in Nat
      BY DEF State
    <3>3. /\ \A m \in Months : made[m] \in Nat /\ strayed[m] \in Nat
          /\ \A m \in Months : made'[m] \in Nat /\ strayed'[m] \in Nat
      BY <1>2, <2>1 DEF TypeInv, TypeOK
    <3> QED
      BY <3>1, <3>2, <3>3
  <2>2. ASSUME CopiesState PROVE CallsExplained'
    <3>1. \A m \in Months : newState.calls[m] = 0
      BY DEF newState
    <3>2. \A s \in States' : s \in States \/ s = newState
      BY <2>2 DEF CopiesState, States
    <3>3. \A m \in Months : made[m] <= made'[m] /\ strayed'[m] = strayed[m]
      BY <2>2 DEF CopiesState
    <3> QED
      BY <1>2, <2>t, <3>1, <3>2, <3>3 DEF CallsExplained
  <2>3. ASSUME NEW r \in Runners, IngestEnds(r) PROVE CallsExplained'
    <3>0. PICK n \in Nat, c \in Nat : IngestEffect(r, n, c)
      BY <1>2, <2>3, IngestEffects
    <3>1. PICK x \in Nat : c <= n + x /\ strayed' = [strayed EXCEPT ![month(r)] = @ + x]
      BY <3>0 DEF IngestEffect
    <3>2. \A m \in Months : /\ made'[m] = IF m = month(r) THEN made[m] + n ELSE made[m]
                            /\ strayed'[m] = IF m = month(r) THEN strayed[m] + x ELSE strayed[m]
                            /\ run'[r].st.calls[m] = IF m = month(r) THEN run[r].st.calls[m] + c
                                                                   ELSE run[r].st.calls[m]
      <4>1. \A m \in Months : made'[m] = IF m = month(r) THEN made[m] + n ELSE made[m]
        BY <1>2, <3>0 DEF IngestEffect, TypeInv, TypeOK
      <4>2. \A m \in Months : strayed'[m] = IF m = month(r) THEN strayed[m] + x ELSE strayed[m]
        BY <1>2, <3>1 DEF TypeInv, TypeOK
      <4>3. run[r].st.calls \in [Months -> Nat]
        BY <1>2 DEF TypeInv, TypeOK, RunRecord, State
      <4>4. \A m \in Months : run'[r].st.calls[m] = IF m = month(r) THEN run[r].st.calls[m] + c
                                                                   ELSE run[r].st.calls[m]
        BY <3>0, <4>3 DEF IngestEffect
      <4> QED
        BY <4>1, <4>2, <4>4
    <3>3. \A s \in States' : s \in States \/ s = run'[r].st
      BY <3>0 DEF IngestEffect, States
    <3>4. \A s \in States : \A m \in Months : s.calls[m] <= made'[m] + strayed'[m]
      BY <1>2, <2>t, <3>2 DEF CallsExplained
    <3>5. \A m \in Months : run'[r].st.calls[m] <= made'[m] + strayed'[m]
      BY <1>2, <2>t, <3>1, <3>2 DEF CallsExplained, States
    <3> QED
      BY <3>3, <3>4, <3>5 DEF CallsExplained
  <2> QED
    BY <2>1, <2>2, <2>3, StepCopies, <1>2
<1> QED
  BY <1>1, <1>2, PTL DEF Spec

----------------------------------------------------------------------------
(* The exit code.  A run that has not failed has, for every table it is    *)
(* past, skipped it or set its watermark; it gives up the lock only after  *)
(* a save of that state, and nobody else saves in between.                 *)

(* The tables before the n-th that the run x had to load are up to date. *)
UpToDate(x, n) ==
    \A k \in 1..n :
        EntitySeq[k] \in x.sel /\ shouldRunEntity(EntitySeq[k], x.over) =>
            x.st.wm[EntitySeq[k]] = x.now

(* What is true of the record x of a run when the state file is f. *)
RunHonest(x, f) ==
    /\ x.pc = "loaded" => x.i = 1
    /\ x.pc \in {"loop", "ingest", "save", "release"} /\ ~x.failed => UpToDate(x, x.i - 1)
    /\ x.pc = "save" => x.st.wm[EntitySeq[x.i]] = x.now
    /\ x.pc = "release" => /\ x.exit = exitCode(x.failed, x.over)
                           /\ ~x.failed => x.i > Len(EntitySeq) /\ f = x.st

RunsHonest == \A r \in Runners : RunHonest(run[r], stateFile)

(* An invocation's own step keeps its record honest. *)
LEMMA OwnStepHonest ==
    ASSUME TypeInv, NEW r \in Runners, RunHonest(run[r], stateFile),
           \/ \E sel \in Selections : Load(r, sel)
           \/ Proceed(r) \/ StartEntity(r) \/ IngestEnds(r) \/ Fails(r) \/ Crash(r)
    PROVE  RunHonest(run'[r], stateFile')
<1> DEFINE x == run[r]
           y == run'[r]
<1>l. Len(EntitySeq) \in Nat
  BY RunnerAssumption
<1>t. x \in RunRecord /\ run \in [Runners -> RunRecord]
  BY DEF TypeInv, TypeOK
<1>i. x.i \in Nat \ {0} /\ x.i <= Len(EntitySeq) + 1
  BY <1>l, <1>t DEF RunRecord
<1>1. ASSUME y.pc = "off" \/ (y.pc = "loaded" /\ y.i = 1) PROVE RunHonest(y, stateFile')
  BY <1>1 DEF RunHonest
<1>2. CASE \E sel \in Selections : Load(r, sel)
  BY <1>1, <1>2, <1>t DEF Load, Off
<1>3. CASE LockExists(r) \/ Release(r) \/ Crash(r) \/ LoadFails(r) \/ LockWriteFails(r) \/ ReleaseFails(r)
  BY <1>1, <1>3, <1>t
  DEF LockExists, Release, Crash, LoadFails, LockWriteFails, ReleaseFails, Off
<1>4. CASE AcquireLock(r)
  <2>1. y.pc = "loop" /\ y.i = x.i /\ x.pc = "loaded"
    BY <1>4, <1>t DEF AcquireLock, RunRecord
  <2> QED
    BY <2>1 DEF RunHonest, UpToDate
<1>5. CASE SkipEntity(r)
  <2>1. /\ y.pc = "loop" /\ x.pc = "loop" /\ y.i = x.i + 1 /\ y.failed = x.failed
        /\ y.sel = x.sel /\ y.over = x.over /\ y.st = x.st /\ y.now = x.now
    BY <1>5, <1>t DEF SkipEntity, RunRecord
  <2>2. ~(EntitySeq[x.i] \in x.sel /\ shouldRunEntity(EntitySeq[x.i], x.over))
    BY <1>5 DEF SkipEntity, Runs, entity
  <2>3. ~x.failed => UpToDate(y, x.i)
    <3>1. ~x.failed => UpToDate(x, x.i - 1)
      BY <2>1 DEF RunHonest
    <3>2. \A k \in 1..x.i : k \in 1..(x.i - 1) \/ k = x.i
      BY <1>i
    <3> QED
      BY <2>1, <2>2, <3>1, <3>2 DEF UpToDate
  <2> QED
    BY <1>i, <2>1, <2>3 DEF RunHonest
<1>6. CASE StartEntity(r)
  <2>1. /\ y.pc = "ingest" /\ x.pc = "loop" /\ y.i = x.i /\ y.failed = x.failed
        /\ y.sel = x.sel /\ y.over = x.over /\ y.st = x.st /\ y.now = x.now
    BY <1>6, <1>t DEF StartEntity, Runs, RunRecord
  <2>2. ~x.failed => UpToDate(x, x.i - 1)
    BY <2>1 DEF RunHonest
  <2>3. ~y.failed => UpToDate(y, y.i - 1)
    BY <2>1, <2>2 DEF UpToDate
  <2> QED
    BY <2>1, <2>3 DEF RunHonest
<1>7. CASE IngestEnds(r)
  <2>1. PICK n \in Nat, c \in Nat : EntityOK(r, n, c) \/ EntityFails(r, n, c)
    BY <1>7, RunnerAssumption DEF IngestEnds
  <2>2. CASE EntityFails(r, n, c)
    <3>1. y.pc = "loop" /\ y.failed = TRUE
      BY <1>t, <2>2 DEF EntityFails, RunRecord
    <3> QED
      BY <3>1 DEF RunHonest
  <2>3. CASE EntityOK(r, n, c)
    <3> DEFINE s == AddCalls(x.st, x.now, c)
               z == [s EXCEPT !.wm[EntitySeq[x.i]] = x.now]
    <3>1. s \in State /\ s.wm = x.st.wm
      BY ZenonT(60), <1>t, AddCallsFacts DEF RunRecord
    <3>2. x.pc = "ingest" /\ y = [x EXCEPT !.pc = "save", !.st = z]
      BY <1>t, <2>3 DEF EntityOK, entity
    <3>z. z.wm = [x.st.wm EXCEPT ![EntitySeq[x.i]] = x.now]
      BY <3>1 DEF State
    <3> HIDE DEF s, z
    <3>3. /\ y.pc = "save" /\ y.i = x.i /\ y.failed = x.failed
          /\ y.sel = x.sel /\ y.over = x.over /\ y.now = x.now
          /\ y.st.wm = [x.st.wm EXCEPT ![EntitySeq[x.i]] = x.now]
      BY <1>t, <3>2, <3>z DEF RunRecord
    <3>4. x.i <= Len(EntitySeq)
      BY <3>2 DEF TypeInv, InLoop
    <3>5. x.st.wm \in [Tables -> 0..MaxTime] /\ \A k \in 1..Len(EntitySeq) : EntitySeq[k] \in Tables
      BY <1>t DEF RunRecord, State, Tables
    <3>6. ~x.failed => UpToDate(x, x.i - 1)
      BY <3>2 DEF RunHonest
    <3>7. ~x.failed => UpToDate(y, x.i - 1)
      <4>1. \A k \in 1..(x.i - 1) : EntitySeq[k] \in Tables
        BY <1>i, <1>l, <3>4, <3>5
      <4>2. \A t \in Tables : y.st.wm[t] = x.st.wm[t] \/ y.st.wm[t] = x.now
        BY <3>3, <3>5
      <4> QED
        BY <3>3, <3>6, <4>1, <4>2 DEF UpToDate
    <3>8. y.st.wm[EntitySeq[y.i]] = y.now
      BY <1>i, <1>l, <3>3, <3>4, <3>5
    <3> QED
      BY <3>3, <3>7, <3>8 DEF RunHonest
  <2> QED
    BY <2>1, <2>2, <2>3
<1>8. CASE SaveState(r)
  <2>1. /\ y.pc = "loop" /\ x.pc = "save" /\ y.i = x.i + 1 /\ y.failed = x.failed
        /\ y.sel = x.sel /\ y.over = x.over /\ y.st = x.st /\ y.now = x.now
    BY <1>8, <1>t DEF SaveState, RunRecord
  <2>2. ~x.failed => UpToDate(y, x.i)
    <3>1. /\ ~x.failed => UpToDate(x, x.i - 1)
          /\ x.st.wm[EntitySeq[x.i]] = x.now
      BY <2>1 DEF RunHonest
    <3>2. \A k \in 1..x.i : k \in 1..(x.i - 1) \/ k = x.i
      BY <1>i
    <3> QED
      BY <2>1, <3>1, <3>2 DEF UpToDate
  <2> QED
    BY <1>i, <2>1, <2>2 DEF RunHonest
<1>9. CASE SaveFails(r)
  <2>1. y.pc = "loop" /\ y.failed = TRUE
    BY <1>9, <1>t DEF SaveFails, RunRecord
  <2> QED
    BY <2>1 DEF RunHonest
<1>10. CASE FinalSave(r)
  <2>1. /\ y.pc = "release" /\ x.pc = "loop" /\ y.i = x.i /\ y.failed = x.failed
        /\ y.sel = x.sel /\ y.over = x.over /\ y.st = x.st /\ y.now = x.now
        /\ y.exit = exitCode(x.failed, x.over) /\ stateFile' = x.st
    BY <1>10, <1>t DEF FinalSave, RunRecord
  <2>2. x.i > Len(EntitySeq)
    BY <1>10 DEF FinalSave, AtEnd
  <2>3. ~x.failed => UpToDate(y, y.i - 1)
    BY <2>1 DEF RunHonest, UpToDate
  <2> QED
    BY <2>1, <2>2, <2>3 DEF RunHonest
<1>11. CASE FinalSaveFails(r)
  <2>1. y.pc = "release" /\ y.failed = TRUE /\ y.over = x.over /\ y.exit = exitCode(TRUE, x.over)
    BY <1>11, <1>t DEF FinalSaveFails, RunRecord
  <2> QED
    BY <2>1 DEF RunHonest
<1> QED
  BY <1>2, <1>3, <1>4, <1>5, <1>6, <1>7, <1>8, <1>9, <1>10, <1>11 DEF Proceed, Fails

(* A step of one invocation leaves the records of the others alone, and    *)
(* only the holder of the lock writes the state file.                      *)
LEMMA OthersUntouched ==
    ASSUME TypeInv, NEW r \in Runners,
           \/ \E sel \in Selections : Load(r, sel)
           \/ Proceed(r) \/ StartEntity(r) \/ IngestEnds(r) \/ Fails(r) \/ Crash(r)
    PROVE  /\ \A q \in Runners \ {r} : run'[q] = run[q]
           /\ stateFile' = stateFile \/ Holding(r)
<1>t. run \in [Runners -> RunRecord]
  BY DEF TypeInv, TypeOK
<1>1. CASE \E sel \in Selections : Load(r, sel)
  BY <1>t, <1>1 DEF Load
<1>2. CASE Proceed(r)
  BY <1>t, <1>2
  DEF Proceed, AcquireLock, LockExists, SkipEntity, SaveState, FinalSave, Release, Holding
<1>3. CASE StartEntity(r) \/ IngestEnds(r)
  BY <1>t, <1>3 DEF StartEntity, IngestEnds, EntityOK, EntityFails
<1>4. CASE Fails(r) \/ Crash(r)
  BY <1>t, <1>4
  DEF Fails, LoadFails, LockWriteFails, SaveFails, FinalSaveFails, ReleaseFails, Crash
<1> QED
  BY <1>1, <1>2, <1>3, <1>4

(* Every step keeps all records honest: a run that has computed its exit   *)
(* code still holds the lock, so that its save is not overwritten.         *)
LEMMA HonestStep ==
    ASSUME TypeInv, LockHeld, RunsHonest, [Next]_runnerVars PROVE RunsHonest'
<1>1. ASSUME NEW r \in Runners,
             \/ \E sel \in Selections : Load(r, sel)
             \/ Proceed(r) \/ StartEntity(r) \/ IngestEnds(r) \/ Fails(r) \/ Crash(r)
      PROVE  RunsHonest'
  <2>1. RunHonest(run'[r], stateFile')
    BY <1>1, OwnStepHonest DEF RunsHonest
  <2>2. /\ \A q \in Runners \ {r} : run'[q] = run[q]
        /\ stateFile' = stateFile \/ Holding(r)
    BY <1>1, OthersUntouched
  <2>3. ASSUME NEW q \in Runners \ {r} PROVE RunHonest(run'[q], stateFile')
    <3>1. run'[q] = run[q] /\ RunHonest(run[q], stateFile)
      BY <2>2 DEF RunsHonest
    <3>2. CASE stateFile' = stateFile
      BY <3>1, <3>2
    <3>3. CASE Holding(r)
      <4>1. run[q].pc # "release"
        BY <3>3 DEF LockHeld, Holding
      <4> QED
        BY <3>1, <4>1 DEF RunHonest
    <3> QED
      BY <2>2, <3>2, <3>3
  <2> QED
    BY <2>1, <2>3 DEF RunsHonest
<1>2. CASE RemoveStaleLock \/ Tick \/ UNCHANGED runnerVars
  BY <1>2 DEF RemoveStaleLock, Tick, runnerVars, RunsHonest
<1> QED
  BY <1>1, <1>2 DEF Next

(* Exit code 0 means that the state file has this run's start for every    *)
(* selected table, 2 that it has it for every critical one: no failed load *)
(* or save goes unreported (exitCode), and no stale writer undoes the last *)
(* save while the lock is held.                                            *)
THEOREM ExitCodeTrue == Spec => []ExitCodeHonest
<1> DEFINE Inv == TypeInv /\ LockHeld /\ RunsHonest
<1>1. Init => Inv
  BY TypeInit DEF Init, LockHeld, Holding, RunsHonest, RunHonest, Off
<1>2. Inv /\ [Next]_runnerVars => Inv'
  BY TypeStep, LockStep, HonestStep
<1>3. ASSUME Inv PROVE ExitCodeHonest
  <2> SUFFICES ASSUME NEW r \in Runners, run[r].pc = "release",
                      NEW e \in run[r].sel,
                      run[r].exit = "ok" \/ (run[r].exit = "budgetWarning" /\ e \in Critical)
               PROVE  stateFile.wm[e] = run[r].now
    BY DEF ExitCodeHonest
  <2>1. RunHonest(run[r], stateFile) /\ run[r] \in RunRecord
    BY <1>3 DEF RunsHonest, TypeInv, TypeOK
  <2>2. ~run[r].failed /\ (e \in Critical \/ ~run[r].over)
    BY <2>1 DEF RunHonest, exitCode
  <2>3. PICK k \in 1..Len(EntitySeq) : e = EntitySeq[k]
    BY <2>1 DEF RunRecord, Tables
  <2>4. run[r].i > Len(EntitySeq) /\ stateFile = run[r].st /\ UpToDate(run[r], run[r].i - 1)
    BY <2>1, <2>2 DEF RunHonest
  <2>5. k \in 1..(run[r].i - 1)
    BY <2>1, <2>4, RunnerAssumption DEF RunRecord
  <2> QED
    BY <2>2, <2>3, <2>4, <2>5 DEF UpToDate, shouldRunEntity
<1> QED
  BY <1>1, <1>2, <1>3, PTL DEF Spec
=============================================================================
