------------------------------- MODULE Handoff -------------------------------
(***************************************************************************)
(* What runEntity and the Bullhorn source hand to each other through       *)
(* files: the rotated refresh token (token_output) and the event           *)
(* subscription's requestId (state_path), and where the runner puts them   *)
(* afterwards (secret store, state file).                                  *)
(*                                                                         *)
(* One invocation at a time, as the run lock ensures; it may crash.  The   *)
(* token server accepts only the newest token it issued.  A requestId is   *)
(* used as a cursor: it stands for the DELETED events up to it, which are  *)
(* numbered from 1; 0 is the empty cursor.                                 *)
(***************************************************************************)
EXTENDS Integers, Sequences

CONSTANTS
    EntitySeq,    \* the tables of a run, in order
    Sub,          \* the table with endpoint: subscription
    StoreKinds,   \* the kinds of secret store
    CfgStore,     \* runner.secret_store: the store rotated tokens go to
    EnvStore,     \* AFC_SECRET_STORE_KIND: the store tokens are read from
    EnvToken,     \* BULLHORN_REFRESH_TOKEN, 0 when not set
    MaxBatch,     \* maxEvents of one poll
    FirstEvents,  \* events recorded before the first modelled run
    MaxEvents,    \* bound on events
    MaxTokens,    \* bound on tokens issued
    MaxFaults,    \* bound on crashes and I/O errors of the runner and source
    MaxLoadFaults \* bound on failures of the destination

Tables == {EntitySeq[k] : k \in 1..Len(EntitySeq)}
NoFile == -1

ASSUME HandoffAssumption ==
    /\ EntitySeq \in Seq(Tables)
    /\ CfgStore \in StoreKinds /\ EnvStore \in StoreKinds
    /\ {MaxBatch, MaxTokens} \subseteq Nat \ {0}
    /\ {EnvToken, FirstEvents, MaxEvents, MaxFaults, MaxLoadFaults} \subseteq Nat
    /\ FirstEvents <= MaxEvents

VARIABLES
    valid,       \* the only refresh token the server accepts
    store,       \* secret stores: the bullhorn_refresh_token each holds, or 0
    tokenFile,   \* afc-token-<table>.json per table, or NoFile
    tok,         \* the source's creds.refreshToken
    events,      \* DELETED events so far
    deleted,     \* the events recorded in deleted_records
    cursorFile,  \* afc-subscription-state.json, or NoFile
    saved,       \* SubscriptionRequestID in the state file
    mem,         \* SubscriptionRequestID in the runner's memory
    batch,       \* the events <<from, to>> of the poll
    pc, i,       \* the runner's step, and the entity it is at
    faults, loadFaults

tokenVars == <<valid, store, tokenFile, tok>>
cursorVars == <<events, deleted, cursorFile, saved, mem, batch>>
handoffVars == <<tokenVars, cursorVars, pc, i, faults, loadFaults>>

e == EntitySeq[i]
Min2(a, b) == IF a < b THEN a ELSE b
Fault == faults < MaxFaults /\ faults' = faults + 1

(* currentRefreshToken: the environment wins over the secret store. *)
currentRefreshToken == IF EnvToken # 0 THEN EnvToken ELSE store[EnvStore]

Init ==
    /\ valid = 1
    /\ store = [k \in StoreKinds |-> 1]
    /\ tokenFile = [t \in Tables |-> NoFile]
    /\ tok = 0
    /\ events = FirstEvents
    /\ deleted = 1..FirstEvents
    /\ cursorFile = NoFile
    /\ saved = FirstEvents
    /\ mem = 0
    /\ batch = <<0, 0>>
    /\ pc = "idle" /\ i = 1
    /\ faults = 0 /\ loadFaults = 0

----------------------------------------------------------------------------
(* Environment: an event happens; an operator authorises again and stores  *)
(* the new token.                                                          *)
Delete ==
    /\ events < MaxEvents
    /\ events' = events + 1
    /\ UNCHANGED <<tokenVars, deleted, cursorFile, saved, mem, batch, pc, i, faults, loadFaults>>

Reissue ==
    /\ pc \in {"idle", "next"}
    /\ valid < MaxTokens
    /\ valid' = valid + 1
    /\ store' = [k \in StoreKinds |-> valid']
    /\ UNCHANGED <<tokenFile, tok, cursorVars, pc, i, faults, loadFaults>>

(* main.run has loaded the state and taken the lock. *)
StartRun ==
    /\ pc = "idle"
    /\ mem' = saved
    /\ pc' = "next" /\ i' = 1
    /\ UNCHANGED <<tokenVars, events, deleted, cursorFile, saved, batch, faults, loadFaults>>

(* The beginning of runEntity; an empty cursor is not written, and leaves  *)
(* whatever file a crash left there.                                       *)
BeginEntity ==
    /\ pc = "next" /\ i <= Len(EntitySeq)
    /\ tok' = currentRefreshToken
    /\ cursorFile' = IF e = Sub /\ mem # 0 THEN mem ELSE cursorFile
    /\ pc' = "refresh"
    /\ UNCHANGED <<valid, store, tokenFile, events, deleted, saved, mem, batch, i, faults, loadFaults>>

(* runEntity fails before it starts ingestr: the secret store can not be   *)
(* read, or (its deferred clean-up of the token file already registered)   *)
(* the cursor can not be written.                                          *)
BeginFails ==
    /\ pc = "next" /\ i <= Len(EntitySeq) /\ Fault
    /\ tokenFile' \in {tokenFile, [tokenFile EXCEPT ![e] = NoFile]}
    /\ i' = i + 1
    /\ UNCHANGED <<valid, store, tok, cursorVars, pc, loadFaults>>

(* Connect fails before the token is spent: parseURI (which the runner's   *)
(* URI fails unless BULLHORN_CLIENT_ID carries a client_secret too), data  *)
(* centre discovery, or the token request does not reach the server.       *)
ConnectFails ==
    /\ pc = "refresh" /\ Fault
    /\ pc' = "failed"
    /\ UNCHANGED <<tokenVars, cursorVars, i, loadFaults>>

(* refreshAccessToken: the server rotates the token. *)
Refresh ==
    /\ pc = "refresh" /\ tok = valid
    /\ valid < MaxTokens
    /\ valid' = valid + 1
    /\ tok' = valid'
    /\ pc' = "persist"
    /\ UNCHANGED <<store, tokenFile, cursorVars, i, faults, loadFaults>>

RefreshRefused ==
    /\ pc = "refresh" /\ tok # valid
    /\ pc' = "failed"
    /\ UNCHANGED <<tokenVars, cursorVars, i, faults, loadFaults>>

(* The answer is lost; the HTTP client's retry presents the spent token. *)
RefreshLost ==
    /\ pc = "refresh" /\ tok = valid
    /\ valid < MaxTokens /\ Fault
    /\ valid' = valid + 1
    /\ pc' = "failed"
    /\ UNCHANGED <<store, tokenFile, tok, cursorVars, i, loadFaults>>

(* Mutant of Persist: a token that replaces one already written is kept    *)
(* in memory only.                                                         *)
PersistOnce ==
    /\ pc = "persist"
    /\ tokenFile' = [tokenFile EXCEPT ![e] = IF @ = NoFile THEN tok ELSE @]
    /\ pc' = IF e = Sub THEN "poll" ELSE "work"
    /\ UNCHANGED <<valid, store, tok, cursorVars, i, faults, loadFaults>>

(* persistToken, before the token is used for any request. *)
Persist ==
    /\ pc = "persist"
    /\ tokenFile' = [tokenFile EXCEPT ![e] = tok]
    /\ pc' = IF e = Sub THEN "poll" ELSE "work"
    /\ UNCHANGED <<valid, store, tok, cursorVars, i, faults, loadFaults>>

PersistFails ==
    /\ pc = "persist" /\ Fault
    /\ pc' = "failed"
    /\ UNCHANGED <<tokenVars, cursorVars, i, loadFaults>>

(* A 401 makes doRequest authenticate again with the token it holds. *)
SessionExpires ==
    /\ pc \in {"work", "poll"} /\ Fault
    /\ pc' = "refresh"
    /\ UNCHANGED <<tokenVars, cursorVars, i, loadFaults>>

(* ingestr ends for a table without a cursor. *)
IngestEnds ==
    /\ pc = "work"
    /\ \/ pc' = "ok" /\ UNCHANGED loadFaults
       \/ pc' = "failed" /\ loadFaults < MaxLoadFaults /\ loadFaults' = loadFaults + 1
    /\ UNCHANGED <<tokenVars, cursorVars, i, faults>>

----------------------------------------------------------------------------
(* Mutant of Poll: the cursor names the next event, not the last one. *)
PollNext ==
    /\ pc = "poll"
    /\ LET from == IF cursorFile = NoFile THEN 0 ELSE cursorFile
       IN  batch' = <<from, Min2(from + MaxBatch, events) + 1>>
    /\ pc' = "queued"
    /\ UNCHANGED <<tokenVars, events, deleted, cursorFile, saved, mem, i, faults, loadFaults>>

(* readSubscription polls from the cursor in the file and queues a batch... *)
Poll ==
    /\ pc = "poll"
    /\ LET from == IF cursorFile = NoFile THEN 0 ELSE cursorFile
       IN  batch' = <<from, Min2(from + MaxBatch, events)>>
    /\ pc' = "queued"
    /\ UNCHANGED <<tokenVars, events, deleted, cursorFile, saved, mem, i, faults, loadFaults>>

(* Mutant of SaveCursor: the source keeps the cursor in the state file. *)
SaveCursorInState ==
    /\ pc = "queued"
    /\ saved' = IF batch[2] > 0 THEN batch[2] ELSE saved
    /\ pc' = "load"
    /\ UNCHANGED <<tokenVars, events, deleted, cursorFile, mem, batch, i, faults, loadFaults>>

(* ... and then saves the new cursor, and closes the channel. *)
SaveCursor ==
    /\ pc = "queued"
    /\ cursorFile' = IF batch[2] > 0 THEN batch[2] ELSE cursorFile
    /\ pc' = "load"
    /\ UNCHANGED <<tokenVars, events, deleted, saved, mem, batch, i, faults, loadFaults>>

SaveCursorFails ==
    /\ pc = "queued" /\ Fault
    /\ pc' = "failed"
    /\ UNCHANGED <<tokenVars, cursorVars, i, loadFaults>>

(* The destination writes once the channel is closed. *)
DestinationLoads ==
    /\ pc = "load"
    /\ deleted' = deleted \cup (batch[1] + 1)..batch[2]
    /\ pc' = "ok"
    /\ UNCHANGED <<tokenVars, events, cursorFile, saved, mem, batch, i, faults, loadFaults>>

DestinationFails ==
    /\ pc = "load"
    /\ loadFaults < MaxLoadFaults /\ loadFaults' = loadFaults + 1
    /\ pc' = "failed"
    /\ UNCHANGED <<tokenVars, cursorVars, i, faults>>

----------------------------------------------------------------------------
(* State.Save writes the cursor, or fails and leaves the old file. *)
SaveState ==
    \/ saved' = mem /\ UNCHANGED faults
    \/ UNCHANGED saved /\ Fault

(* runEntity returns, with or without an error: its deferred functions     *)
(* take the cursor over and remove the cursor file and the token file.     *)
RunEntityReturns ==
    /\ pc \in {"ok", "failed"}
    /\ mem' = IF e = Sub /\ cursorFile # NoFile THEN cursorFile ELSE mem
    /\ cursorFile' = IF e = Sub THEN NoFile ELSE cursorFile
    /\ tokenFile' = [tokenFile EXCEPT ![e] = NoFile]
    /\ IF pc = "ok" THEN pc' = "save" /\ UNCHANGED i ELSE pc' = "next" /\ i' = i + 1
    /\ UNCHANGED <<valid, store, tok, events, deleted, saved, batch, faults, loadFaults>>

(* After a success: State.Save, then rotateTokenIfPresent even if the save *)
(* failed.                                                                 *)
SaveAndRotate ==
    /\ pc = "save"
    /\ SaveState
    /\ store' = IF tokenFile[e] # NoFile THEN [store EXCEPT ![CfgStore] = tokenFile[e]]
                ELSE store
    /\ pc' = "next" /\ i' = i + 1
    /\ UNCHANGED <<valid, tokenFile, tok, events, deleted, cursorFile, mem, batch, loadFaults>>

(* After the loop: State.Save and exit. *)
FinishRun ==
    /\ pc = "next" /\ i > Len(EntitySeq)
    /\ SaveState
    /\ pc' = "idle" /\ i' = 1
    /\ mem' = 0 /\ tok' = 0 /\ batch' = <<0, 0>>
    /\ UNCHANGED <<valid, store, tokenFile, events, deleted, cursorFile, loadFaults>>

(* Runner and source are killed; the files stay. *)
Crash ==
    /\ pc # "idle" /\ Fault
    /\ pc' = "idle" /\ i' = 1
    /\ mem' = 0 /\ tok' = 0 /\ batch' = <<0, 0>>
    /\ UNCHANGED <<valid, store, tokenFile, events, deleted, cursorFile, saved, loadFaults>>

Next ==
    \/ Delete \/ Reissue
    \/ StartRun \/ BeginEntity \/ BeginFails \/ ConnectFails
    \/ Refresh \/ RefreshRefused \/ RefreshLost \/ Persist \/ PersistFails
    \/ SessionExpires \/ IngestEnds
    \/ Poll \/ SaveCursor \/ SaveCursorFails \/ DestinationLoads \/ DestinationFails
    \/ RunEntityReturns \/ SaveAndRotate \/ FinishRun \/ Crash

Spec == Init /\ [][Next]_handoffVars

----------------------------------------------------------------------------
(* The shape of the variables. *)
TypeOK ==
    /\ valid \in 1..MaxTokens
    /\ store \in [StoreKinds -> 0..MaxTokens]
    /\ tokenFile \in [Tables -> 1..MaxTokens \cup {NoFile}]
    /\ tok \in Nat
    /\ events \in 0..MaxEvents
    /\ deleted \in SUBSET (1..MaxEvents)
    /\ cursorFile \in 0..MaxEvents \cup {NoFile}
    /\ saved \in 0..MaxEvents /\ mem \in 0..MaxEvents
    /\ batch \in (0..MaxEvents) \X (0..MaxEvents)
    /\ pc \in {"idle", "next", "refresh", "persist", "work", "poll", "queued", "load",
               "ok", "failed", "save"}
    /\ i \in 1..(Len(EntitySeq) + 1)
    /\ faults \in 0..MaxFaults /\ loadFaults \in 0..MaxLoadFaults

(* "Persist the new refresh token before it is used for any request": at  *)
(* every request of a session, also after a 401 rotated the token mid-run, *)
(* the one token that the server accepts is the source's, and is in the    *)
(* token file; a login of the job, which takes its token from a store,     *)
(* can not spend it meanwhile.  This is the source's half of the hand-over *)
(* and no more: what becomes of the token after the session, or after a    *)
(* crash, which leaves a file that nobody reads, is the runner's half      *)
(* (RotatedTokenPickedUp).                                                 *)
TokenDurableBeforeUse ==
    pc \in {"work", "poll", "queued", "load"} => tok = valid /\ tokenFile[e] = valid

(* A crash or an I/O error of runner or source loses no event, wherever it *)
(* falls between the poll, the cursor file, the write and the save: unless *)
(* the destination itself failed, every event up to the saved cursor is in *)
(* deleted_records.  (Init is a state with a first cursor already saved.)  *)
CrashLosesNoEvent == loadFaults = 0 => 1..saved \subseteq deleted

(* The cursor is advanced only after the write ("the runner's own          *)
(* requestId-after-write rule"): every event up to the saved cursor is in  *)
(* deleted_records, so none is skipped by the next poll.                   *)
CursorAfterWrite == 1..saved \subseteq deleted

(* rotateTokenIfPresent: "the next entity invocation (and the next run)    *)
(* picks it up instead of the now-invalidated previous token": between     *)
(* entities and runs, the token that would be used is the valid one.       *)
RotatedTokenPickedUp ==
    pc \in {"idle", "next"} /\ faults = 0 => currentRefreshToken = valid
=============================================================================
