------------------------------- MODULE Runner -------------------------------
(***************************************************************************)
(* The scheduled runner (fabric/runner): invocations of main.run that      *)
(* share a state file and an exclusive-create lock file.  An invocation    *)
(* loads the state file, takes the lock, decides once whether the month is *)
(* over budget, runs ingestr for each configured entity and saves the      *)
(* state.  It may crash between any two steps.                             *)
(*                                                                         *)
(* The change window handed to ingestr, and what it loads, is added by     *)
(* BronzeSync; refresh tokens and the subscription cursor have modules of  *)
(* their own.  Times are ticks, 0 is Go's zero time.Time.                  *)
(***************************************************************************)
EXTENDS Integers, Sequences
LOCAL INSTANCE Functions

CONSTANTS
    Runners,      \* invocation slots: processes that may run at once
    NoLock,       \* the lock file does not exist
    EntitySeq,    \* cfg.Entities: table names in configuration order
    Critical,     \* the tables with critical: true
    Selections,   \* table sets AFC_SCHEDULE_GROUP can select in one run
    MonthLen,     \* ticks in a month
    HourLen,      \* ticks in the hour that floors the elapsed time
    Limit,        \* monthly_call_limit
    FracNum,      \* budget_threshold_fraction = FracNum / FracDen
    FracDen,
    MaxTime,      \* bound on the clock
    MaxCalls,     \* bound on the API calls made by one month's runs
    MaxFaults     \* bound on crashes and I/O errors

Tables == {EntitySeq[k] : k \in 1..Len(EntitySeq)}
Months == 0..(MaxTime \div MonthLen)

ASSUME RunnerAssumption ==
    /\ NoLock \notin Runners
    /\ EntitySeq \in Seq(Tables)
    /\ \A j, k \in 1..Len(EntitySeq) : EntitySeq[j] = EntitySeq[k] => j = k
    /\ Critical \subseteq Tables
    /\ Selections \subseteq SUBSET Tables
    /\ MonthLen \in Nat \ {0} /\ HourLen \in Nat \ {0}
    /\ Limit \in Nat \ {0}
    /\ FracNum \in Nat \ {0} /\ FracDen \in Nat \ {0} /\ FracNum <= FracDen
    /\ MaxTime \in Nat \ {0} /\ MaxCalls \in Nat /\ MaxFaults \in Nat

VARIABLES
    clock,      \* time.Now(), shared
    lock,       \* the lock file: NoLock, or the invocation that created it
    stateFile,  \* the state file: watermarks and calls per month
    run,        \* per invocation: program counter and locals of main.run
    faults,     \* faults injected so far
    lastOk,     \* history: start of the last run that loaded the table
    callsFile,  \* per table: the count in its call-count file, 0 if there is none
    made,       \* history: API calls made by the runs started in each month
    strayed,    \* history: calls a month's runs took from files left by others
    kept        \* history: calls read from files that could not be removed

callVars == <<callsFile, made, strayed, kept>>
runnerVars == <<clock, lock, stateFile, run, faults, lastOk, callVars>>

(* State, as kept in memory and in the file (newState when absent). *)
State == [wm : [Tables -> 0..MaxTime], calls : [Months -> Nat]]
newState == [wm |-> [e \in Tables |-> 0], calls |-> [m \in Months |-> 0]]

monthBucket(t) == t \div MonthLen
CallsThisMonth(s, t) == s.calls[monthBucket(t)]
AddCalls(s, t, n) == [s EXCEPT !.calls[monthBucket(t)] = @ + n]

(* projectedMonthEndCalls and budgetExceeded, cross-multiplied:            *)
(*   calls / (elapsed / month) > limit * num / den                         *)
elapsed(t) == IF t % MonthLen < HourLen THEN HourLen ELSE t % MonthLen
budgetExceeded(t, calls) ==
    calls * MonthLen * FracDen > Limit * FracNum * elapsed(t)

shouldRunEntity(e, over) == e \in Critical \/ ~over

(* Locals of one invocation.  Nothing in the system reads the exit code,   *)
(* so it is forgotten when the process is gone.                            *)
Phases == {"off", "loaded", "loop", "ingest", "save", "release"}
ExitCodes == {"none", "ok", "entityFailed", "budgetWarning"}
Off == [pc |-> "off", exit |-> "none", st |-> newState, now |-> 0,
        sel |-> {}, i |-> 1, over |-> FALSE, failed |-> FALSE]

Holding(r) == run[r].pc \in {"loop", "ingest", "save", "release"}
entity(r) == EntitySeq[run[r].i]
AtEnd(r) == run[r].i > Len(EntitySeq)
Runs(r) == /\ run[r].pc = "loop"
           /\ ~AtEnd(r)
           /\ entity(r) \in run[r].sel
           /\ shouldRunEntity(entity(r), run[r].over)

Fault == faults < MaxFaults /\ faults' = faults + 1

Init ==
    /\ clock = 1
    /\ lock = NoLock
    /\ stateFile = newState
    /\ run = [r \in Runners |-> Off]
    /\ faults = 0
    /\ lastOk = [e \in Tables |-> 0]
    /\ callsFile = [e \in Tables |-> 0]
    /\ made = [m \in Months |-> 0]
    /\ strayed = [m \in Months |-> 0]
    /\ kept = 0

----------------------------------------------------------------------------
(* LoadConfig, NewSecretStore and LoadState succeed.  The state is read    *)
(* before the lock is taken.                                               *)
Load(r, sel) ==
    /\ run[r].pc = "off"
    /\ run' = [run EXCEPT ![r] =
                [Off EXCEPT !.pc = "loaded", !.st = stateFile, !.sel = sel]]
    /\ UNCHANGED <<clock, lock, stateFile, faults, lastOk, callVars>>

(* One of the three fails: run returns exitEntityFailed. *)
LoadFails(r) ==
    /\ run[r].pc = "off"
    /\ Fault
    /\ run' = [run EXCEPT ![r] = Off]
    /\ UNCHANGED <<clock, lock, stateFile, lastOk, callVars>>

(* Mutant of AcquireLock: the lock file is opened without O_EXCL. *)
AcquireLockShared(r) ==
    /\ run[r].pc = "loaded"
    /\ lock' = r
    /\ run' = [run EXCEPT ![r].pc = "loop", ![r].now = clock]
    /\ UNCHANGED <<clock, stateFile, faults, lastOk, callVars>>

(* O_CREATE|O_EXCL succeeds; run then reads its start time and fixes the   *)
(* budget decision for the whole invocation.                               *)
AcquireLock(r) ==
    /\ run[r].pc = "loaded"
    /\ lock = NoLock
    /\ lock' = r
    /\ run' = [run EXCEPT ![r].pc = "loop", ![r].now = clock,
                 ![r].over = budgetExceeded(clock, CallsThisMonth(run[r].st, clock))]
    /\ UNCHANGED <<clock, stateFile, faults, lastOk, callVars>>

LockExists(r) ==
    /\ run[r].pc = "loaded"
    /\ lock # NoLock
    /\ run' = [run EXCEPT ![r] = Off]
    /\ UNCHANGED <<clock, lock, stateFile, faults, lastOk, callVars>>

(* The file is created, writing the pid line fails: it is left behind. *)
LockWriteFails(r) ==
    /\ run[r].pc = "loaded"
    /\ lock = NoLock
    /\ Fault
    /\ lock' = r
    /\ run' = [run EXCEPT ![r] = Off]
    /\ UNCHANGED <<clock, stateFile, lastOk, callVars>>

(* Mutant of SkipEntity: the loop is not ended by the end of the list. *)
SkipEntityUnbounded(r) ==
    /\ run[r].pc = "loop"
    /\ ~Runs(r)
    /\ run' = [run EXCEPT ![r].i = @ + 1]
    /\ UNCHANGED <<clock, lock, stateFile, faults, lastOk, callVars>>

(* Not in the schedule group, or non-critical in an over-budget run. *)
SkipEntity(r) ==
    /\ run[r].pc = "loop"
    /\ ~AtEnd(r)
    /\ ~Runs(r)
    /\ run' = [run EXCEPT ![r].i = @ + 1]
    /\ UNCHANGED <<clock, lock, stateFile, faults, lastOk, callVars>>

(* runEntity up to cmd.Run. *)
StartEntity(r) ==
    /\ Runs(r)
    /\ run' = [run EXCEPT ![r].pc = "ingest"]
    /\ UNCHANGED <<clock, lock, stateFile, faults, lastOk, callVars>>

(* The call-count file of the entity.  Its defer removes it, but not when  *)
(* the runner is killed, and nothing removes it before ingestr is started. *)
month(r) == monthBucket(run[r].now)
CallsMade(r, n) == /\ made[month(r)] + n <= MaxCalls
                   /\ made' = [made EXCEPT ![month(r)] = @ + n]
FileRemoved(r) == /\ callsFile' = [callsFile EXCEPT ![entity(r)] = 0]
                  /\ UNCHANGED kept
FileStays(r, c) == /\ callsFile' = [callsFile EXCEPT ![entity(r)] = c]
                   /\ kept' = kept + c

(* What runEntity reads: the count the source's Close wrote, or what an    *)
(* earlier run left there, 0 if that was nothing or has been truncated.    *)
WrittenByClose(n, c) == c = n /\ UNCHANGED strayed
LeftBehind(r, c) == /\ c \in {0, callsFile[entity(r)]}
                    /\ strayed' = [strayed EXCEPT ![month(r)] = @ + c]

(* Mutant of CallCount: the file is never removed. *)
CallCountKept(r, n, c) ==
    /\ CallsMade(r, n)
    /\ \/ /\ WrittenByClose(n, c) /\ UNCHANGED faults
          /\ callsFile' = [callsFile EXCEPT ![entity(r)] = c] /\ UNCHANGED kept
       \/ LeftBehind(r, c) /\ UNCHANGED <<callsFile, kept>> /\ Fault

(* ingestr made n calls and runEntity reads the count c: Close wrote it,   *)
(* and os.Remove may fail; or ingestr was killed before Close.             *)
CallCount(r, n, c) ==
    /\ CallsMade(r, n)
    /\ \/ WrittenByClose(n, c) /\ FileRemoved(r) /\ UNCHANGED faults
       \/ WrittenByClose(n, c) /\ FileStays(r, c) /\ Fault
       \/ LeftBehind(r, c) /\ FileRemoved(r) /\ Fault

(* Connect fails before Close is deferred, or ingestr is not even started: *)
(* no API call, and a file of an earlier run is read as if it were ours.   *)
NotConnected(r, n, c) ==
    /\ n = 0 /\ UNCHANGED made
    /\ LeftBehind(r, c)
    /\ \/ FileRemoved(r) /\ UNCHANGED faults
       \/ FileStays(r, c) /\ Fault

(* runEntity fails before its defers: no lakehouse or no refresh token. *)
NotPrepared(n, c) == n = 0 /\ c = 0 /\ UNCHANGED <<faults, callVars>>

(* Mutant of EntityFails: the watermark is set before the error is seen. *)
EntityFailsAdvanced(r, n, c) ==
    /\ run[r].pc = "ingest"
    /\ CallCount(r, n, c) \/ NotConnected(r, n, c) \/ NotPrepared(n, c)
    /\ run' = [run EXCEPT ![r].pc = "loop", ![r].i = @ + 1, ![r].failed = TRUE,
                 ![r].st = [AddCalls(@, run[r].now, c) EXCEPT !.wm[entity(r)] = run[r].now]]
    /\ UNCHANGED <<clock, lock, stateFile, lastOk>>

(* runEntity returns an error: the calls it read are recorded in memory,   *)
(* the watermark stays, nothing is saved.                                  *)
EntityFails(r, n, c) ==
    /\ run[r].pc = "ingest"
    /\ CallCount(r, n, c) \/ NotConnected(r, n, c) \/ NotPrepared(n, c)
    /\ run' = [run EXCEPT ![r].pc = "loop", ![r].i = @ + 1, ![r].failed = TRUE,
                          ![r].st = AddCalls(@, run[r].now, c)]
    /\ UNCHANGED <<clock, lock, stateFile, lastOk>>

(* runEntity succeeds: the watermark becomes the start of the run. *)
EntityOK(r, n, c) ==
    /\ run[r].pc = "ingest"
    /\ CallCount(r, n, c)
    /\ run' = [run EXCEPT ![r].pc = "save",
                 ![r].st = [AddCalls(@, run[r].now, c) EXCEPT !.wm[entity(r)] = run[r].now]]
    /\ lastOk' = [lastOk EXCEPT ![entity(r)] = run[r].now]
    /\ UNCHANGED <<clock, lock, stateFile>>

(* Mutant of SaveState: the loop does not move on after a save. *)
SaveStateRepeats(r) ==
    /\ run[r].pc = "save"
    /\ stateFile' = run[r].st
    /\ run' = [run EXCEPT ![r].pc = "loop"]
    /\ UNCHANGED <<clock, lock, faults, lastOk, callVars>>

(* State.Save: temp file and rename, so all or nothing.  Then              *)
(* rotateTokenIfPresent, which can not fail here (see Handoff).            *)
SaveState(r) ==
    /\ run[r].pc = "save"
    /\ stateFile' = run[r].st
    /\ run' = [run EXCEPT ![r].pc = "loop", ![r].i = @ + 1]
    /\ UNCHANGED <<clock, lock, faults, lastOk, callVars>>

SaveFails(r) ==
    /\ run[r].pc = "save"
    /\ Fault
    /\ run' = [run EXCEPT ![r].pc = "loop", ![r].i = @ + 1, ![r].failed = TRUE]
    /\ UNCHANGED <<clock, lock, stateFile, lastOk, callVars>>

(* Mutant of exitCode: the budget warning hides a failed entity. *)
exitCodeBudgetFirst(failed, over) ==
    IF over THEN "budgetWarning" ELSE IF failed THEN "entityFailed" ELSE "ok"

exitCode(failed, over) ==
    IF failed THEN "entityFailed" ELSE IF over THEN "budgetWarning" ELSE "ok"

(* The save after the loop, and the exit code computed from it. *)
FinalSave(r) ==
    /\ run[r].pc = "loop"
    /\ AtEnd(r)
    /\ stateFile' = run[r].st
    /\ run' = [run EXCEPT ![r].pc = "release",
                          ![r].exit = exitCode(run[r].failed, run[r].over)]
    /\ UNCHANGED <<clock, lock, faults, lastOk, callVars>>

FinalSaveFails(r) ==
    /\ run[r].pc = "loop"
    /\ AtEnd(r)
    /\ Fault
    /\ run' = [run EXCEPT ![r].pc = "release", ![r].failed = TRUE,
                          ![r].exit = exitCode(TRUE, run[r].over)]
    /\ UNCHANGED <<clock, lock, stateFile, lastOk, callVars>>

(* The deferred Release removes the path, whoever created it. *)
Release(r) ==
    /\ run[r].pc = "release"
    /\ lock' = NoLock
    /\ run' = [run EXCEPT ![r] = Off]
    /\ UNCHANGED <<clock, stateFile, faults, lastOk, callVars>>

(* os.Remove fails and its error is dropped. *)
ReleaseFails(r) ==
    /\ run[r].pc = "release"
    /\ Fault
    /\ run' = [run EXCEPT ![r] = Off]
    /\ UNCHANGED <<clock, lock, stateFile, lastOk, callVars>>

(* Killed while ingestr runs, which dies with it: what an earlier run left *)
(* in the file is still there, or truncated, or Close has replaced it.     *)
IngestKilled(r) ==
    \E n \in 0..MaxCalls :
        /\ CallsMade(r, n)
        /\ \E x \in {0, n, callsFile[entity(r)]} :
             callsFile' = [callsFile EXCEPT ![entity(r)] = x]
        /\ UNCHANGED <<strayed, kept>>

(* The process is killed: memory is lost, a held lock file stays. *)
Crash(r) ==
    /\ run[r].pc # "off"
    /\ Fault
    /\ run' = [run EXCEPT ![r] = Off]
    /\ IF run[r].pc = "ingest" THEN IngestKilled(r) ELSE UNCHANGED callVars
    /\ UNCHANGED <<clock, lock, stateFile, lastOk>>

(* The operator deletes a lock file that no live run holds. *)
RemoveStaleLock ==
    /\ lock \in Runners
    /\ ~Holding(lock)
    /\ lock' = NoLock
    /\ UNCHANGED <<clock, stateFile, run, faults, lastOk, callVars>>

Tick ==
    /\ clock < MaxTime
    /\ clock' = clock + 1
    /\ UNCHANGED <<lock, stateFile, run, faults, lastOk, callVars>>

(* The steps of an invocation once it is loaded, other than ingestr's. *)
Proceed(r) ==
    \/ AcquireLock(r) \/ LockExists(r) \/ SkipEntity(r)
    \/ SaveState(r) \/ FinalSave(r) \/ Release(r)
Fails(r) ==
    \/ LoadFails(r) \/ LockWriteFails(r) \/ SaveFails(r)
    \/ FinalSaveFails(r) \/ ReleaseFails(r)
IngestEnds(r) ==
    \E n, c \in 0..MaxCalls : EntityOK(r, n, c) \/ EntityFails(r, n, c)

Next ==
    \/ \E r \in Runners :
        \/ \E sel \in Selections : Load(r, sel)
        \/ Proceed(r) \/ StartEntity(r) \/ IngestEnds(r)
        \/ Fails(r) \/ Crash(r)
    \/ RemoveStaleLock
    \/ Tick

Spec == Init /\ [][Next]_runnerVars

----------------------------------------------------------------------------
RunRecord == [pc : Phases, exit : ExitCodes, st : State, now : 0..MaxTime,
              sel : SUBSET Tables, i : 1..(Len(EntitySeq) + 1),
              over : BOOLEAN, failed : BOOLEAN]

(* The shape of the variables of Runner. *)
TypeOK ==
    /\ clock \in 1..MaxTime
    /\ lock \in Runners \cup {NoLock}
    /\ stateFile \in State
    /\ run \in [Runners -> RunRecord]
    /\ faults \in 0..MaxFaults
    /\ lastOk \in [Tables -> 0..MaxTime]
    /\ callsFile \in [Tables -> 0..MaxCalls]
    /\ made \in [Months -> Nat]
    /\ strayed \in [Months -> Nat]
    /\ kept \in Nat

(* A run between AcquireLock and Release owns the lock file. *)
LockHeld == \A r \in Runners : Holding(r) => lock = r

(* At most one invocation is between AcquireLock and Release, whatever     *)
(* crashes, failed lock writes and operator clean-ups happened before.     *)
OneRunAtATime ==
    \A r, q \in Runners : Holding(r) /\ Holding(q) => r = q

(* No watermark, in the file or in memory, is later than the start of the  *)
(* last run whose ingestr succeeded for that table: neither a stale load   *)
(* nor a failed or repeated save can advance it past loaded data.          *)
WatermarkNeverAhead ==
    /\ \A e \in Tables : stateFile.wm[e] <= lastOk[e]
    /\ \A r \in Runners : \A e \in Tables : run[r].st.wm[e] <= lastOk[e]

(* What a month's total consists of, in the file and in every run's        *)
(* memory: calls made by that month's runs, and counts those runs found in *)
(* files of earlier ones; stale loads and repeated saves add nothing.      *)
States == {stateFile} \cup {run[r].st : r \in Runners}
CallsExplained ==
    \A s \in States : \A m \in Months : s.calls[m] <= made[m] + strayed[m]

(* The calls of a run are counted once: over all months, what is recorded  *)
(* and what files still hold is never more than what was made.  A month    *)
(* may be charged with calls of a killed run of another one, but only a    *)
(* file that could not be removed is ever added twice.                     *)
CallsCountedOnce ==
    /\ CallsExplained
    /\ LET uncounted == SumFunction(made) + kept - SumFunction(callsFile)
       IN  \A c \in {s.calls : s \in States} : SumFunction(c) <= uncounted

(* The exit code is honest when the lock is given up: 0 means that every   *)
(* selected table's watermark in the state file is the start of this run,  *)
(* 2 that every selected critical table's is.                              *)
ExitCodeHonest ==
    \A r \in Runners : run[r].pc = "release" =>
        /\ run[r].exit = "ok" =>
             \A e \in run[r].sel : stateFile.wm[e] = run[r].now
        /\ run[r].exit = "budgetWarning" =>
             \A e \in run[r].sel \cap Critical : stateFile.wm[e] = run[r].now

(* Every invocation ends, whether it crashes, finds the lock taken or      *)
(* works through its entities: nothing waits for another run.              *)
EveryRunEnds == \A r \in Runners : run[r].pc # "off" ~> run[r].pc = "off"
=============================================================================
