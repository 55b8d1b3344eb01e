--------------------------- MODULE ReconcileProofs ---------------------------
(***************************************************************************)
(* Proofs about the hand-off between runner and source with the            *)
(* reconciliation job beside them, for every list of tables, all bounds    *)
(* and any number of runs, crashes and passes.                             *)
(***************************************************************************)
EXTENDS Reconcile, FiniteSetTheorems, TLAPS

(* An entity is being run. *)
AtEntity == pc \notin {"idle", "next"} => i \in 1..Len(EntitySeq)

(* The token of a session is the newest one, and no store has it yet: the  *)
(* job can not spend it.                                                   *)
Sessions == {"persist", "work", "poll", "queued", "load"}
NewestToken == pc \in Sessions => tok = valid /\ \A k \in StoreKinds : store[k] < valid
NoneNewer ==
    /\ \A k \in StoreKinds : store[k] <= valid
    /\ \A t \in Tables : tokenFile[t] <= valid

SessionInv == AtEntity /\ NewestToken /\ NoneNewer /\ TokenDurableBeforeUse

(* What is known of the constants. *)
LEMMA ConstantTypes ==
    /\ Len(EntitySeq) \in Nat
    /\ \A n \in 1..Len(EntitySeq) : EntitySeq[n] \in Tables
    /\ CfgStore \in StoreKinds /\ EnvStore \in StoreKinds
    /\ MaxBatch \in Nat /\ MaxBatch > 0 /\ MaxTokens \in Nat /\ MaxTokens > 0
    /\ EnvToken \in Nat /\ FirstEvents \in Nat /\ MaxEvents \in Nat /\ FirstEvents <= MaxEvents
    /\ MaxFaults \in Nat /\ MaxLoadFaults \in Nat
    /\ PageSize \in Nat /\ PageSize > 0 /\ MaxRecords \in Nat /\ MaxEvents <= MaxRecords
BY SMTT(30), HandoffAssumption, ReconcileAssumption DEF Tables

(* A run that has not begun has no session, and every store the token. *)
LEMMA InitSession == Init => TypeOK /\ SessionInv
BY ConstantTypes
   DEF Init, TypeOK, SessionInv, AtEntity, NewestToken, Sessions, NoneNewer,
       TokenDurableBeforeUse, NoFile

(* The entity at hand is a table. *)
LEMMA EntityIsTable ==
    ASSUME AtEntity, pc \notin {"idle", "next"}
    PROVE  e \in Tables /\ i \in 1..Len(EntitySeq)
BY ConstantTypes DEF AtEntity, e

(* State.Save writes what is in memory, or fails.                          *)
LEMMA SaveKeepsTypes ==
    ASSUME TypeOK, SaveState
    PROVE  saved' \in 0..MaxEvents /\ faults' \in 0..MaxFaults
<1>1. /\ mem \in 0..MaxEvents /\ saved \in 0..MaxEvents
      /\ faults \in Nat /\ faults <= MaxFaults /\ MaxFaults \in Nat
  BY ConstantTypes DEF TypeOK
<1>2. CASE saved' = mem /\ UNCHANGED faults
  BY <1>1, <1>2
<1>3. CASE UNCHANGED saved /\ Fault
  BY <1>1, <1>3 DEF Fault
<1> QED
  BY <1>2, <1>3 DEF SaveState

(* Every step of runner and source keeps the types and the session. *)
LEMMA NextKeepsSession ==
    ASSUME TypeOK, SessionInv, Next
    PROVE  TypeOK' /\ SessionInv'
<1> USE ConstantTypes
<1> USE DEF TypeOK, SessionInv, AtEntity, NewestToken, Sessions, NoneNewer,
            TokenDurableBeforeUse, tokenVars, cursorVars, Fault
<1>1. CASE Delete
  BY <1>1 DEF Delete, e
<1>2. CASE Reissue
  <2>1. valid' \in 1..MaxTokens /\ \A k \in StoreKinds : store'[k] = valid'
    BY <1>2 DEF Reissue
  <2>2. store' \in [StoreKinds -> 0..MaxTokens]
    BY <1>2, <2>1 DEF Reissue
  <2>3. \A t \in Tables : tokenFile'[t] <= valid'
    BY SMTT(30), <1>2, <2>1 DEF Reissue, NoFile
  <2> QED
    BY <1>2, <2>1, <2>2, <2>3 DEF Reissue
<1>3. CASE StartRun
  BY <1>3 DEF StartRun
<1>4. CASE BeginEntity
  <2>1. currentRefreshToken \in Nat
    BY DEF currentRefreshToken
  <2>2. e \in Tables
    BY <1>4 DEF BeginEntity, e
  <2> QED
    BY <1>4, <2>1, <2>2 DEF BeginEntity
<1>5. CASE BeginFails
  <2>1. e \in Tables /\ i' \in 1..(Len(EntitySeq) + 1) /\ faults' \in 0..MaxFaults
    BY <1>5 DEF BeginFails, e
  <2>2. /\ tokenFile' \in [Tables -> 1..MaxTokens \cup {NoFile}]
        /\ \A t \in Tables : tokenFile'[t] <= valid
    <3>1. CASE tokenFile' = tokenFile
      BY <3>1
    <3>2. CASE tokenFile' = [tokenFile EXCEPT ![e] = NoFile]
      BY SMTT(30), <2>1, <3>2 DEF NoFile
    <3> QED
      BY <1>5, <3>1, <3>2 DEF BeginFails
  <2>3. UNCHANGED <<valid, store, tok, cursorVars, pc, loadFaults>> /\ pc = "next"
    BY <1>5 DEF BeginFails
  <2> QED
    BY <2>1, <2>2, <2>3
<1>6. CASE ConnectFails
  BY <1>6 DEF ConnectFails
<1>7. CASE Refresh
  <2>1. valid' \in 1..MaxTokens /\ valid' = valid + 1 /\ tok' = valid' /\ pc' = "persist"
    BY <1>7 DEF Refresh
  <2>2. \A k \in StoreKinds : store'[k] < valid'
    BY <1>7, <2>1 DEF Refresh
  <2>3. \A t \in Tables : tokenFile'[t] <= valid'
    BY <1>7, <2>1 DEF Refresh, NoFile
  <2> QED
    BY <1>7, <2>1, <2>2, <2>3 DEF Refresh
<1>8. CASE RefreshRefused
  BY <1>8 DEF RefreshRefused
<1>9. CASE RefreshLost
  <2>1. valid' \in 1..MaxTokens /\ valid' = valid + 1 /\ pc' = "failed"
    BY <1>9 DEF RefreshLost
  <2>2. \A t \in Tables : tokenFile'[t] <= valid'
    BY <1>9, <2>1 DEF RefreshLost, NoFile
  <2> QED
    BY <1>9, <2>1, <2>2 DEF RefreshLost
<1>10. CASE Persist
  <2>1. e \in Tables /\ i \in 1..Len(EntitySeq)
    BY <1>10, EntityIsTable DEF Persist
  <2>2. tok = valid
    BY <1>10 DEF Persist
  <2>3. /\ tokenFile' \in [Tables -> 1..MaxTokens \cup {NoFile}]
        /\ tokenFile'[e] = valid
        /\ \A t \in Tables : tokenFile'[t] <= valid
    BY <1>10, <2>1, <2>2 DEF Persist
  <2>4. e' = e
    BY <1>10 DEF Persist, e
  <2> QED
    BY <1>10, <2>1, <2>2, <2>3, <2>4 DEF Persist
<1>11. CASE PersistFails
  BY <1>11 DEF PersistFails
<1>12. CASE SessionExpires
  BY <1>12 DEF SessionExpires
<1>13. CASE IngestEnds
  <2>1. pc = "work" /\ pc' \in {"ok", "failed"} /\ loadFaults' \in 0..MaxLoadFaults
    BY SMTT(30), <1>13 DEF IngestEnds
  <2>2. UNCHANGED <<tokenVars, cursorVars, i, faults>>
    BY <1>13 DEF IngestEnds
  <2> QED
    BY <2>1, <2>2
<1>14. CASE Poll
  <2>1. batch' \in (0..MaxEvents) \X (0..MaxEvents)
    <3> DEFINE from == IF cursorFile = NoFile THEN 0 ELSE cursorFile
               to == Min2(from + MaxBatch, events)
    <3>1. from \in 0..MaxEvents /\ events \in 0..MaxEvents
      BY DEF NoFile
    <3>2. to \in 0..MaxEvents
      BY <3>1 DEF Min2
    <3>3. batch' = <<from, to>>
      BY <1>14 DEF Poll
    <3> QED
      BY <3>1, <3>2, <3>3
  <2>2. e' = e
    BY <1>14 DEF Poll, e
  <2> QED
    BY <1>14, <2>1, <2>2 DEF Poll
<1>15. CASE SaveCursor
  <2>1. batch[2] \in 0..MaxEvents
    OBVIOUS
  <2>2. e' = e
    BY <1>15 DEF SaveCursor, e
  <2> QED
    BY <1>15, <2>1, <2>2 DEF SaveCursor
<1>16. CASE SaveCursorFails
  BY <1>16 DEF SaveCursorFails
<1>17. CASE DestinationLoads
  <2>1. batch[1] \in 0..MaxEvents /\ batch[2] \in 0..MaxEvents
    OBVIOUS
  <2>2. deleted' \in SUBSET (1..MaxEvents)
    <3>1. (batch[1] + 1)..batch[2] \subseteq 1..MaxEvents
      BY <2>1
    <3> QED
      BY <1>17, <3>1 DEF DestinationLoads
  <2>3. pc = "load" /\ pc' = "ok"
    BY <1>17 DEF DestinationLoads
  <2>4. UNCHANGED <<tokenVars, events, cursorFile, saved, mem, batch, i, faults, loadFaults>>
    BY <1>17 DEF DestinationLoads
  <2> QED
    BY <2>2, <2>3, <2>4
<1>18. CASE DestinationFails
  BY <1>18 DEF DestinationFails
<1>19. CASE RunEntityReturns
  <2>1. e \in Tables /\ i \in 1..Len(EntitySeq)
    BY <1>19, EntityIsTable DEF RunEntityReturns
  <2>2. /\ tokenFile' \in [Tables -> 1..MaxTokens \cup {NoFile}]
        /\ \A t \in Tables : tokenFile'[t] <= valid
    BY <1>19, <2>1 DEF RunEntityReturns, NoFile
  <2>3. mem' \in 0..MaxEvents /\ cursorFile' \in 0..MaxEvents \cup {NoFile}
    BY <1>19 DEF RunEntityReturns, NoFile
  <2>4. i' \in 1..(Len(EntitySeq) + 1) /\ pc' \in {"save", "next"} /\ (pc' = "save" => i' = i)
    BY <1>19, <2>1 DEF RunEntityReturns
  <2> QED
    BY <1>19, <2>1, <2>2, <2>3, <2>4 DEF RunEntityReturns
<1>20. CASE SaveAndRotate
  <2>1. e \in Tables /\ i \in 1..Len(EntitySeq)
    BY <1>20, EntityIsTable DEF SaveAndRotate
  <2>2. saved' \in 0..MaxEvents /\ faults' \in 0..MaxFaults
    BY <1>20, SaveKeepsTypes DEF SaveAndRotate
  <2>3. /\ store' \in [StoreKinds -> 0..MaxTokens]
        /\ \A k \in StoreKinds : store'[k] <= valid
    BY <1>20, <2>1 DEF SaveAndRotate, NoFile
  <2> QED
    BY SMTT(30), <1>20, <2>1, <2>2, <2>3 DEF SaveAndRotate
<1>21. CASE FinishRun
  <2>1. saved' \in 0..MaxEvents /\ faults' \in 0..MaxFaults
    BY <1>21, SaveKeepsTypes DEF FinishRun
  <2> QED
    BY SMTT(30), <1>21, <2>1 DEF FinishRun
<1>22. CASE Crash
  BY <1>22 DEF Crash
<1> QED
  BY <1>1, <1>2, <1>3, <1>4, <1>5, <1>6, <1>7, <1>8, <1>9, <1>10, <1>11, <1>12, <1>13,
     <1>14, <1>15, <1>16, <1>17, <1>18, <1>19, <1>20, <1>21, <1>22 DEF Next

----------------------------------------------------------------------------
(* The cursor: what the saved one, the runner's and, while the table with  *)
(* the subscription is run, the file's stand for is recorded, but for the  *)
(* batch that is on its way to the destination.                            *)
CursorSet ==
    /\ saved > 0
    /\ pc # "idle" => mem > 0
    /\ cursorFile # NoFile => cursorFile > 0
    /\ pc \in {"poll", "queued", "load"} => e = Sub
    /\ pc = "work" => e # Sub
    /\ e = Sub /\ pc \notin {"idle", "next", "save"} => cursorFile # NoFile

CursorCovered ==
    loadFaults = 0 =>
        /\ 1..saved \subseteq deleted
        /\ 1..mem \subseteq deleted
        /\ e = Sub /\ pc \notin {"idle", "next", "save", "load"} => 1..cursorFile \subseteq deleted
        /\ pc \in {"queued", "load"} => 1..batch[1] \subseteq deleted
        /\ pc = "load" => cursorFile = batch[2] \/ 1..cursorFile \subseteq deleted

CursorInv == CursorSet /\ CursorCovered

(* The first cursor stands for events that are recorded.                   *)
LEMMA InitCursor == ASSUME FirstEvents # 0, Init PROVE CursorInv
BY ConstantTypes DEF Init, CursorInv, CursorSet, CursorCovered, NoFile

(* Every step of runner and source keeps the cursor safe. *)
LEMMA NextKeepsCursor ==
    ASSUME TypeOK, CursorInv, Next
    PROVE  CursorInv'
<1> USE ConstantTypes
<1> USE DEF TypeOK, CursorInv, CursorSet, CursorCovered, NoFile, Fault, tokenVars, cursorVars, e
<1>1. CASE Delete
  BY <1>1 DEF Delete
<1>2. CASE Reissue
  BY <1>2 DEF Reissue
<1>3. CASE StartRun
  BY <1>3 DEF StartRun
<1>4. CASE BeginEntity
  BY <1>4 DEF BeginEntity
<1>5. CASE BeginFails
  BY <1>5 DEF BeginFails
<1>6. CASE ConnectFails
  BY <1>6 DEF ConnectFails
<1>7. CASE Refresh
  BY <1>7 DEF Refresh
<1>8. CASE RefreshRefused
  BY <1>8 DEF RefreshRefused
<1>9. CASE RefreshLost
  BY <1>9 DEF RefreshLost
<1>10. CASE Persist
  BY <1>10 DEF Persist
<1>11. CASE PersistFails
  BY <1>11 DEF PersistFails
<1>12. CASE SessionExpires
  BY <1>12 DEF SessionExpires
<1>13. CASE IngestEnds
  BY <1>13 DEF IngestEnds
<1>14. CASE Poll
  BY <1>14 DEF Poll, Min2
<1>15. CASE SaveCursor
  BY <1>15 DEF SaveCursor
<1>16. CASE SaveCursorFails
  BY <1>16 DEF SaveCursorFails
<1>17. CASE DestinationLoads
  <2>1. batch[1] \in Nat /\ batch[2] \in Nat /\ saved \in Nat /\ mem \in Nat
    OBVIOUS
  <2>2. ASSUME loadFaults = 0
        PROVE  /\ 1..saved \subseteq deleted' /\ 1..mem \subseteq deleted'
               /\ 1..batch[1] \subseteq deleted' /\ 1..batch[2] \subseteq deleted'
    BY <1>17, <2>1, <2>2 DEF DestinationLoads
  <2>3. ASSUME loadFaults = 0
        PROVE  1..cursorFile \subseteq deleted'
    BY <1>17, <2>1, <2>2, <2>3 DEF DestinationLoads
  <2> QED
    BY <1>17, <2>2, <2>3 DEF DestinationLoads
<1>18. CASE DestinationFails
  BY <1>18 DEF DestinationFails
<1>19. CASE RunEntityReturns
  BY <1>19 DEF RunEntityReturns
<1>20. CASE SaveAndRotate
  BY <1>20 DEF SaveAndRotate, SaveState
<1>21. CASE FinishRun
  BY <1>21 DEF FinishRun, SaveState
<1>22. CASE Crash
  BY <1>22 DEF Crash
<1> QED
  BY <1>1, <1>2, <1>3, <1>4, <1>5, <1>6, <1>7, <1>8, <1>9, <1>10, <1>11, <1>12, <1>13,
     <1>14, <1>15, <1>16, <1>17, <1>18, <1>19, <1>20, <1>21, <1>22 DEF Next

----------------------------------------------------------------------------
(* The job: what the pages read so far hold. *)
Listing == rpc \in {"list", "record", "done"}
JobInv ==
    /\ start \in Nat /\ since \in Nat \X Nat
    /\ Listing => since[1] <= created /\ since[2] <= events
    /\ rpc = "list" /\ events = since[2] =>
           \A r \in Live : r <= since[1] /\ r <= events + start => r \in ids
    /\ rpc = "record" /\ events = since[2] => \A r \in Live : r <= since[1] => r \in ids
    /\ GapsAreFound

IInv == ReconcileTypeOK /\ SessionInv /\ JobInv

(* IInv holds initially.                                                   *)
LEMMA InitInv == ReconcileInit => IInv
<1> SUFFICES ASSUME ReconcileInit PROVE IInv
  OBVIOUS
<1>1. Init /\ TypeOK /\ SessionInv
  BY InitSession DEF ReconcileInit
<1>2. created \in 0..MaxRecords /\ events \in Nat
  BY <1>1, ConstantTypes DEF ReconcileInit, TypeOK
<1>3. ReconcileTypeOK
  BY <1>1, <1>2, ConstantTypes DEF ReconcileInit, ReconcileTypeOK
<1>4. JobInv
  BY <1>2 DEF ReconcileInit, JobInv, Listing, GapsAreFound
<1> QED
  BY <1>1, <1>3, <1>4 DEF IInv

(* Deletions only grow, by one. *)
LEMMA EventsGrow == ASSUME Next PROVE events' = events \/ events' = events + 1
BY DEF Next, Delete, Reissue, StartRun, BeginEntity, BeginFails, ConnectFails, Refresh,
       RefreshRefused, RefreshLost, Persist, PersistFails, SessionExpires, IngestEnds, Poll,
       SaveCursor, SaveCursorFails, DestinationLoads, DestinationFails, RunEntityReturns,
       SaveAndRotate, FinishRun, Crash, tokenVars, cursorVars

(* A load adds records to Bronze, a deletion takes one from Bullhorn;      *)
(* neither adds to the gaps a pass has to find.                            *)
LEMMA RunnerStepKeepsInv == ASSUME IInv, RunnerStep PROVE IInv'
<1>1. TypeOK' /\ SessionInv'
  BY NextKeepsSession DEF IInv, ReconcileTypeOK, RunnerStep
<1>2. events \in Nat /\ created \in Nat /\ (events' = events \/ events' = events + 1)
  BY EventsGrow, ConstantTypes DEF IInv, ReconcileTypeOK, TypeOK, RunnerStep
<1>3. UNCHANGED <<created, rpc, bronzeKeys, ids, start, recorded, since>>
  BY DEF RunnerStep, jobVars
<1>4. bronze \subseteq bronze' /\ bronze' \subseteq 1..created
  BY <1>2 DEF IInv, ReconcileTypeOK, RunnerStep, Live
<1>5. ReconcileTypeOK'
  BY <1>1, <1>3, <1>4 DEF IInv, ReconcileTypeOK
<1>6. JobInv'
  <2>1. since[1] \in Nat /\ since[2] \in Nat
    BY DEF IInv, JobInv
  <2>2. Listing /\ events' = since[2] => events' = events /\ Live' = Live
    BY <1>2, <1>3, <2>1 DEF IInv, JobInv, Live
  <2>3. Listing' = Listing
    BY <1>3 DEF Listing
  <2>4. Listing => since[2] <= events'
    BY <1>2, <2>1 DEF IInv, JobInv
  <2> QED
    BY <1>2, <1>3, <2>1, <2>2, <2>3, <2>4 DEF IInv, JobInv, GapsAreFound, Listing
<1> QED
  BY <1>1, <1>5, <1>6 DEF IInv

(* A step of the job or of Bullhorn leaves runner and source alone, and a  *)
(* login finds no session: the token of a session is in no store.          *)
LEMMA LoginKeepsInv == ASSUME IInv, Login PROVE IInv'
<1> USE DEF IInv, ReconcileTypeOK, Login, cursorVars, recordVars
<1>1. pc \notin Sessions
  BY ConstantTypes DEF SessionInv, NewestToken, TypeOK
<1>2. valid \in Nat /\ valid' = valid + 1 /\ valid' \in 1..MaxTokens
  BY ConstantTypes DEF TypeOK
<1>3. TypeOK'
  BY <1>2 DEF TypeOK
<1>4. NoneNewer'
  BY <1>2, ConstantTypes DEF SessionInv, NoneNewer, TypeOK, NoFile
<1>5. SessionInv'
  BY <1>1, <1>4 DEF SessionInv, AtEntity, NewestToken, Sessions, TokenDurableBeforeUse
<1>6. JobInv'
  BY DEF JobInv, Listing, GapsAreFound
<1> QED
  BY <1>3, <1>5, <1>6

(* The token the job spends is in a store, so it is not that of a session. *)
LEMMA JobKeepsSession ==
    ASSUME IInv, UNCHANGED handoffVars
    PROVE  TypeOK' /\ SessionInv'
BY DEF IInv, ReconcileTypeOK, handoffVars, tokenVars, cursorVars, TypeOK, SessionInv, AtEntity,
       NewestToken, Sessions, NoneNewer, TokenDurableBeforeUse, e

(* A new record is behind all pages read so far.                           *)
LEMMA CreateKeepsInv == ASSUME IInv, Create PROVE IInv'
<1>1. TypeOK' /\ SessionInv'
  BY JobKeepsSession DEF Create
<1>2. created \in Nat /\ created' = created + 1 /\ created' \in 0..MaxRecords /\ events \in Nat
  BY ConstantTypes DEF Create, IInv, ReconcileTypeOK, TypeOK
<1>3. UNCHANGED <<events, bronze, rpc, bronzeKeys, ids, start, recorded, since>>
  BY DEF Create, handoffVars, cursorVars, jobVars
<1>4. ReconcileTypeOK'
  BY <1>1, <1>2, <1>3 DEF IInv, ReconcileTypeOK
<1>5. JobInv'
  <2>1. since[1] \in Nat /\ since[2] \in Nat
    BY DEF IInv, JobInv
  <2> QED
    BY <1>2, <1>3, <2>1 DEF IInv, JobInv, Listing, GapsAreFound, Live
<1> QED
  BY <1>1, <1>4, <1>5 DEF IInv

(* A pass begins with the keys that Bronze has.                            *)
LEMMA ListKeysKeepsInv == ASSUME IInv, ListKeys PROVE IInv'
<1>1. TypeOK' /\ SessionInv'
  BY JobKeepsSession DEF ListKeys
<1>2. created \in Nat /\ events \in Nat
  BY ConstantTypes DEF IInv, ReconcileTypeOK, TypeOK
<1>3. ReconcileTypeOK'
  BY <1>1 DEF IInv, ReconcileTypeOK, ListKeys, recordVars
<1>4. JobInv'
  BY <1>2 DEF JobInv, Listing, GapsAreFound, Live, ListKeys, recordVars, handoffVars, cursorVars
<1> QED
  BY <1>1, <1>3, <1>4 DEF IInv

(* How many ids a page has. *)
LEMMA PageSizes ==
    ASSUME events \in Nat, created \in Nat, start \in Nat
    PROVE  Cardinality(Page(start)) < PageSize => created < events + start + PageSize
<1> DEFINE a == events + start + 1
           b == Min2(events + start + PageSize, created)
<1>1. a \in Int /\ b \in Int
  BY ConstantTypes DEF Min2
<1>2. Cardinality(a..b) = IF a > b THEN 0 ELSE b - a + 1
  BY <1>1, FS_Interval
<1>3. Page(start) = a..b
  BY DEF Page
<1> QED
  BY <1>2, <1>3, ConstantTypes DEF Min2

(* A page extends the ids to the new offset; a short one is the last.      *)
LEMMA FetchPageKeepsInv == ASSUME IInv, FetchPage PROVE IInv'
<1>1. TypeOK' /\ SessionInv'
  BY JobKeepsSession DEF FetchPage
<1>2. /\ created \in Nat /\ events \in Nat /\ start \in Nat
      /\ since[1] \in Nat /\ since[2] \in Nat /\ PageSize \in Nat
  BY ConstantTypes DEF IInv, ReconcileTypeOK, TypeOK, JobInv
<1>3. UNCHANGED <<events, created, bronze, bronzeKeys, recorded, since>>
  BY DEF FetchPage, handoffVars, cursorVars, recordVars
<1>4. Page(start) \subseteq 1..created
  BY <1>2 DEF Page, Min2
<1>5. ReconcileTypeOK'
  BY <1>1, <1>3, <1>4 DEF IInv, ReconcileTypeOK, FetchPage
<1>6. ASSUME events = since[2], NEW r \in Live, r <= since[1], r <= events + start + PageSize
      PROVE  r \in ids'
  <2>1. r <= events + start => r \in ids
    BY <1>6 DEF IInv, JobInv, FetchPage
  <2>2. r > events + start => r \in Page(start)
    BY <1>2, <1>6 DEF Page, Min2, Live
  <2> QED
    BY <1>2, <2>1, <2>2 DEF FetchPage, Live
<1>7. rpc' = "record" => created < events + start + PageSize
  BY <1>2, PageSizes DEF FetchPage
<1>8. JobInv'
  <2>1. start' = start + PageSize /\ start' \in Nat /\ Live' = Live /\ rpc' \in {"list", "record"}
    BY <1>2, <1>3 DEF FetchPage, Live
  <2>2. events' = since'[2] => \A r \in Live' : r <= since'[1] /\ r <= events' + start' => r \in ids'
    BY <1>2, <1>3, <1>6, <2>1 DEF Live
  <2>3. rpc' = "record" /\ events' = since'[2] => \A r \in Live' : r <= since'[1] => r \in ids'
    BY <1>2, <1>3, <1>6, <1>7, <2>1 DEF Live
  <2>4. since'[1] <= created' /\ since'[2] <= events' /\ since' \in Nat \X Nat
    BY <1>3 DEF IInv, JobInv, Listing, FetchPage
  <2> QED
    BY <2>1, <2>2, <2>3, <2>4 DEF JobInv, GapsAreFound
<1> QED
  BY <1>1, <1>5, <1>8 DEF IInv

(* The difference has every gap.                                           *)
LEMMA RecordKeepsInv == ASSUME IInv, Record PROVE IInv'
<1>1. TypeOK' /\ SessionInv'
  BY JobKeepsSession DEF Record
<1>2. UNCHANGED <<events, created, bronze, bronzeKeys, ids, start, since>> /\ Live' = Live
  BY DEF Record, handoffVars, cursorVars, recordVars, Live
<1>3. recorded' = recorded \cup (ids \ bronzeKeys) /\ rpc = "record" /\ rpc' = "done"
  BY DEF Record, diffKeys
<1>4. ReconcileTypeOK'
  BY <1>1, <1>2, <1>3 DEF IInv, ReconcileTypeOK
<1>5. JobInv'
  BY <1>2, <1>3 DEF IInv, JobInv, Listing, GapsAreFound
<1> QED
  BY <1>1, <1>4, <1>5 DEF IInv

(* A pass that ends promises nothing more.                                 *)
LEMMA EndPassKeepsInv == ASSUME IInv, EndPass PROVE IInv'
<1>1. TypeOK' /\ SessionInv'
  BY JobKeepsSession DEF EndPass
<1>2. ReconcileTypeOK'
  BY <1>1 DEF IInv, ReconcileTypeOK, EndPass, recordVars
<1>3. JobInv'
  BY DEF JobInv, Listing, GapsAreFound, EndPass
<1> QED
  BY <1>1, <1>2, <1>3 DEF IInv

(* Every step keeps IInv.                                                  *)
LEMMA NextKeepsInv == ASSUME IInv, [ReconcileNext]_reconcileVars PROVE IInv'
<1>1. CASE UNCHANGED reconcileVars
  <2>1. TypeOK' /\ SessionInv'
    BY <1>1, JobKeepsSession DEF reconcileVars
  <2> QED
    BY <1>1, <2>1 DEF IInv, ReconcileTypeOK, JobInv, Listing, GapsAreFound, Live,
       reconcileVars, recordVars, jobVars, handoffVars, cursorVars
<1> QED
  BY <1>1, RunnerStepKeepsInv, CreateKeepsInv, LoginKeepsInv, ListKeysKeepsInv,
     FetchPageKeepsInv, RecordKeepsInv, EndPassKeepsInv DEF ReconcileNext

----------------------------------------------------------------------------
(* The types, the session and the pages hold in every reachable state.     *)
THEOREM Invariance == ReconcileSpec => []IInv
BY InitInv, NextKeepsInv, PTL DEF ReconcileSpec

(* The variables of Handoff and Reconcile keep their types. *)
THEOREM ReconcileTypeCorrect == ReconcileSpec => []ReconcileTypeOK
<1>1. IInv => ReconcileTypeOK
  BY DEF IInv
<1> QED
  BY <1>1, Invariance, PTL

(* persistToken: while a session is in use its token is the newest one and *)
(* on disk, and nobody else can spend it.  Whether anybody reads the file  *)
(* afterwards is not its subject.                                          *)
THEOREM SessionDurable == ReconcileSpec => []TokenDurableBeforeUse
<1>1. IInv => TokenDurableBeforeUse
  BY DEF IInv, SessionInv
<1> QED
  BY <1>1, Invariance, PTL

(* ListIDs and diffKeys: a pass that saw no deletion records every id that *)
(* Bullhorn had and Bronze had not, whatever was created, loaded, crashed  *)
(* or rotated meanwhile.                                                   *)
THEOREM GapsFound == ReconcileSpec => []GapsAreFound
<1>1. IInv => GapsAreFound
  BY DEF IInv, JobInv
<1> QED
  BY <1>1, Invariance, PTL

(* runEntity and readSubscription: once a first cursor is saved, no crash  *)
(* and no I/O error of runner or source makes the saved cursor skip an     *)
(* event, unless the destination failed.                                   *)
THEOREM CrashSafe == ASSUME FirstEvents # 0 PROVE ReconcileSpec => []CrashLosesNoEvent
<1>1. ReconcileInit => CursorInv
  BY InitCursor DEF ReconcileInit
<1>2. IInv /\ CursorInv /\ [ReconcileNext]_reconcileVars => CursorInv'
  <2> SUFFICES ASSUME IInv, CursorInv, [ReconcileNext]_reconcileVars PROVE CursorInv'
    OBVIOUS
  <2>1. CASE RunnerStep
    BY <2>1, NextKeepsCursor DEF IInv, ReconcileTypeOK, RunnerStep
  <2>2. CASE ~RunnerStep
    <3>1. UNCHANGED <<cursorVars, pc, i, loadFaults>>
      BY <2>2 DEF ReconcileNext, Create, Login, ListKeys, FetchPage, Record, EndPass,
         reconcileVars, handoffVars
    <3> QED
      BY <3>1 DEF CursorInv, CursorSet, CursorCovered, cursorVars, e
  <2> QED
    BY <2>1, <2>2
<1>3. CursorInv => CrashLosesNoEvent
  BY DEF CursorInv, CursorCovered, CrashLosesNoEvent
<1> QED
  BY <1>1, <1>2, <1>3, Invariance, PTL DEF ReconcileSpec
=============================================================================
