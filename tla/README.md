# A verification of the Bullhorn to Fabric connector

The repository is a fork of the data mover `ingestr` with a Bullhorn source, a
OneLake (Delta Lake) destination and, under `fabric/`, the programs that run it:
a scheduled runner, a seed script and a reconciliation job. The modules here
model two parts of it: the connector's own logic, that is what the runner, its
`ingestr` processes, the source, the destination and the reconciliation job do
to the state they share, and the streaming core of `ingestr`, that is how a
change-data-capture run gets from a write-ahead log to durable tables and comes
back after it died. The rest of `src/` is some two hundred readers and writers
of one API or database each, and is not modelled.

Paths below are relative to `src/`.

## Inventory

| Component | State it keeps | Operations | Interacts through |
| --- | --- | --- | --- |
| Runner (`fabric/runner/main.go`, `state.go`, `lock.go`, `plan.go`, `budget.go`, `config.go`) | state file (watermarks, calls per month, event cursor), lock file, its copy of the state in memory | `run`: load, lock, budget decision, one `runEntity` per entity, save, rotate, exit code | state file, lock file, `ingestr` child processes and their files |
| Seed script (`fabric/seed/run-seed.sh`) | one watermark file per table | load a table from Data Replication, record a watermark | Bronze tables, `fabric/state/seed` |
| Bullhorn source (`pkg/source/bullhorn`) | REST session, OAuth tokens, call count, event cursor file, token file | connect, page through a window, poll events, close | HTTP, files named by the runner, a channel to the destination |
| Secret stores (`fabric/runner/secretstore.go`) | the refresh token and others | get, set | file or Key Vault |
| Reconciler (`fabric/reconcile`) | none | log in, list keys, list ids, record the difference; compare counts | Bullhorn API, SQL endpoint, `ingestr` |
| OneLake destination (`pkg/destination/onelake`, `internal/adlsutil`) | Delta log and data files, a metadata cache | append, merge (copy-on-write), replace, drop, evolve the schema | one storage account, shared by all writers |
| Merge strategy (`pkg/strategy/merge.go`, `staging.go`) | a staging table | prepare, stage, merge, clean up | source and destination |
| PostgreSQL CDC source (`pkg/source/postgres_cdc`) | decoder, per-table filter, accumulator, stream position, replication slot | receive, decode, drain, emit, discover tables, snapshot, confirm | replication protocol, a channel of results, `Committer` |
| Streaming flush loop (`pkg/strategy/streaming.go`) | buffers, tokens, snapshot positions, pending truncates | buffer, flush, truncate, persist, commit, drain, shut down | source channel, destination tables, state manager, `CommitStream` |
| CDC state manager (`pkg/strategy/cdc_state.go`), run lease and incarnations (`pkg/destination/postgres`) | a state table of events, an advisory lock, what this run knows complete | resume, begin run, bind, invalidate, persist, fence, supersede, prune | destination database |

What makes each of them correct:

* **Runner.** One run at a time; a watermark moves only with a load; the
  calls of a run are counted once; an exit code that tells the truth; a crash anywhere costs a
  repeated load and nothing else.
* **Window and seed.** No change falls between two windows, in spite of index
  lag, replica lag, second precision and open or closed ends; every change
  arrives in the end.
* **Hand-off.** The token that will be used is the one the server accepts; the
  event cursor is never ahead of the events written.
* **Reconciler.** What Bullhorn has and Bronze lacks is found although neither
  stands still; the token it spends is nobody else's.
* **Paging.** Every record of the window is sent once.
* **Delta commits.** Every write is atomic, serialised and at most once.
* **CDC source.** The slot and the resume positions never pass a row that is not
  durable; a token covers what it says; nothing aborted is emitted.
* **Flush loop.** Wherever a run dies, what resumes restores the tables.
* **State manager.** A table resumes only from a position whose rows it has; a
  run that was overtaken certifies nothing.

The hard behaviour is in the gaps between processes: two invocations that
overlap, kills between a load, a save and a hand-off, results that are read
from files after somebody removed them, queries that are evaluated again for
every page, optimistic commits that conflict, responses that are lost, leases
that die before their holder knows, tokens that lag behind rows. `PROJECT.json`
lists these hazards at their lines, with the properties about them or the reason
why there is none.

## Modules

```
Runner ------- BronzeSync         Handoff ------- Reconcile         DeltaLog --refines--> DeltaTable
  |                |                                  |                 |
RunnerProofs   BronzeSyncProofs                 ReconcileProofs     DeltaLogProofs

Paging         PostgresStream          Streaming          CDCState
  |            (log to channel)        (channel to        (state of a table,
PagingProofs         |                  tables)            many runs)
                     |                     |                  |
           PostgresStreamProofs        StreamingProofs    CDCStateProofs
```

A line is EXTENDS, but for the refinement. PostgresStream, Streaming and
CDCState cut one pipeline at its two interfaces: each has the neighbours that it
needs in reduced form (PostgresStream a flush that writes, persists and
confirms; Streaming a source that sends a log and a state that is kept or lost;
CDCState a flush loop that writes up to a position).

**Runner.** An invocation of `run` is a process with a program counter: `off`,
`loaded` (state read, lock not yet taken, as in the code), `loop`, `ingest`,
`save`, `release`. Its locals (`st`, `now`, `over`, `failed`, the position in the
entity list) are a record; the state file, the lock file and the clock are
shared. Each early return, each failing save and a kill at every point are
actions. An operator removes a lock file that no live run holds. The call-count
file of each table (`callsFile`) is shared too: `Close` writes it, but only once
`Connect` has succeeded; `runEntity` reads whatever it finds after `cmd.Run` and
removes it in a defer, which a kill skips (`CallCount`, `NotConnected`,
`IngestKilled`). So a run can read the count of an earlier one. History variables
are `lastOk`, the start of the last run that loaded a table; `made`, the calls
really made; `strayed`, counts that a run took from files it did not write; and
`kept`, counts in files that could not be removed. The budget test is cross-multiplied, so it
needs no fractions. `rotateTokenIfPresent` can add a failure after a save in
principle; it never does, because the file it reads is gone (see Handoff).

**BronzeSync** extends Runner with what the `ingestr` processes read and write.
Records do not influence each other here, so one record per table is followed; a
version is named by its `dateLastModified`. `Modify`, `Index` and `Replicate`
are Bullhorn, its search index and the replica; time can not pass a lag bound
(`SyncTick`). `SyncStartEntity` is the window computation of `runEntity`
with the truncation to seconds, `Fetch` the read through `InWindow` (closed end
for search, open for query), `Merge` the call of the merge itself (what the
strategy does to its staging table before and after is not here), `Seed*` the seed script.
`Fetch` reads the one record at one moment; what paging does to a window of
several records is the subject of Paging.

**Handoff** models the files between `runEntity` and the source: the refresh
token in `token_output` and the event cursor in `state_path`, with the secret
stores and the state file behind them. The source connects and refreshes, keeps
the new token on disk before it uses it, is sent back by a 401 in the middle of
its work (which rotates the token again), polls, and queues a batch. The server accepts only the newest token
(`valid`). A `requestId` stands for the events up to it. One invocation at a
time, which MutualExclusion of RunnerProofs justifies. Init is a state after a
first successful poll, with a saved cursor.

**Reconcile** extends Handoff with the reconciliation job in keys mode, for one
table whose records are created, deleted (the events of Handoff) and loaded by
the runner meanwhile. `Login` spends a token of a store and drops the new one,
as `exchangeRefreshToken` does; `ListKeys`, `FetchPage` and `Record` are the
two listings and the difference. Nothing locks the job out while the runner
works. `ListIDs` sends no order; ids are taken to come in id order.

**Paging** models one load record by record: `paginateAndSend` moves an offset
through a query evaluated afresh for each page, while records leave the window
(modified again) and enter it (the index catches up).

**DeltaTable** is what the destination promises: each write takes effect
atomically and on top of what took effect before; it counts how often a reader is
handed each row, since a write that never heard of its own success may be repeated:
a merge then replaces its rows by themselves, an append adds no copy, or two. **DeltaLog** is the
commit protocol: upload, read the log, publish `<version>.json` by a rename that
fails if it exists, retry an append at the next version and a merge from a fresh
snapshot, with errors, kills on either side of the rename and a rename whose
response is lost. A data file is named after its writer and attempt, as in the
code, so an append that is repeated adds the same path again. `activeFiles` is the
list that `readDeltaSnapshot` returns, as a set of pairs of file and version: a
path enters it at every add that finds it inactive, and a remove does not take it
out, so a path that was added, removed and added again is in it twice. Files hold
bags of rows, and `RowsIn` reads every entry of the list, as `readDeltaData` does,
so a merge takes such rows twice into its new file. `ImplementsTable` states the
refinement, with what that read returns as the table.

**PostgresStream** is the source in streaming mode over a log of interleaved
transactions, some of them sent while in progress: the walsender as a cursor on
the log (`sent` is the last record it is through with, `part` what it sent of the
transaction whose commit is next, `NextOfStream` its next message), decoder
(`Decode`: buffered rows per transaction, stream blocks, commit, abort),
`Turn`, which drains a committed transaction in chunks, the per-table filter
(`ShouldFilterChange` with its boundary exception), accumulator (`Add` keeps the
rows of a table and the commit LSN of the first) and `Emit`, idle tokens,
discovery and snapshot of a late table, a results channel of bounded size, and a
pipeline that makes batches durable, persists and confirms. `Crash` loses all but
the slot and the destination. Rows are named by the LSN of their record, which is
the order the code appends them in, so its slices are sets here.

**Streaming** is the flush loop: `BufferResult`, `BeginFlush` with the
invalidation of keyless tables before anything is written, the per-table steps
`AppendRows`, `WriteStaging`, `MergeStaging`, `ResetStaging` in any interleaving
(the flushes of several tables may be concurrent), `Persist`, `CommitStream`,
truncates of a snapshot or of the log with the invalidation before them,
`Shutdown` with its drain and final flush, and failures at every step. A row is
named by its position in the log, so a table is a set of positions and a merge
keeps the newest of each key.

**CDCState** is the state manager of one table, run by processes that overlap
when a lease is lost: the server frees it at once, the process notices at its
next step or never (`LoseSession`, `NoticeLoss`; a kill is both).
`Certifies` and `ResumePosition` say what a set of events means; the actions are
the lines of `Resume`, `BeginRun`, `Bind`, `InvalidateSnapshot`, the guarded
write, `Persist` with fence, capture and recheck, `invalidateAfterFenceLoss`, and
`pruneSuperseded` in batches, of which one may fail, which ends the loop with the
rest due (a deletion that takes effect and is reported as failed is left out). `Replace` is somebody else who drops the table and
makes it anew. `Capture` merges the fence check with the capture of the
incarnation that follows it.

Operators whose comment begins with "Mutant of" are deliberately wrong variants
of the definition they name: each property is known to fail with one of them in
its place.

## Runs and bounds

| Run | Shows | Bounds, and why they are enough |
| --- | --- | --- |
| runner | TypeOK, OneRunAtATime, WatermarkNeverAhead, CallsCountedOnce, ExitCodeHonest | two invocations, two tables (one critical), two ticks, in different months, one call, one fault: a stale load, a crash with a stale lock, a call count left behind and read by the next run, one that can not be removed, a failed save and an over-budget run all happen; the theorems have no bounds |
| bronze_sync | SyncTypeOK, NoGap, ChangeReachesBronze, EveryRunEnds | one invocation and one daily search table, four ticks, seconds of two ticks, lags of one, one fault: both roundings and a crash with a stale lock happen. Query tables, longer lags and overlapping invocations are covered by the theorem NoChangeSkipped |
| delta_log | TypeOK, NoRowTwice, Contiguous, NoDanglingFile, UniqueKeys, ImplementsTable, EveryWriteEnds | an append, a merge of two keys, one of one of them, and writes without rows, in two groups; three attempts (the code has more; three are enough to run out), two faults of any kind: a lost response, a merge in between and the repeated append that is then read twice all happen |
| handoff | ReconcileTypeOK, TokenDurableBeforeUse, CrashLosesNoEvent, GapsAreFound | two entities, three events, four tokens, three faults, one failing load, five records in pages of two: repeated crashes with leftover files, a job that logs in between two entities, and lists of three pages that grow |
| paging | TypeOK, SkippedOnlyBehindLeaver, DuplicateOnlyBehindEntrant, PagingEnds | five records, pages of two: up to three pages |
| postgres_stream | TypeOK, NothingSkipped, TokenCoversEmitted, AbortedNeverEmitted, RowsArrive, SlotCatchesUp | three logs of a transaction with two rows and one with one: one inside the other and streamed in progress, adjacent commits, an abort; a late table, drains of one row, a channel of two, one crash. All tables have keys here, because of the run keyless_boundary |
| streaming | TypeOK, ResumeRestores, DoubledOnlyIfLoose, StopLeavesNothing, TablesFollowLog | three logs of up to four records over a keyed and a keyless table, one with a truncate of the keyed one, one with a truncate of the keyless one, one with a key written twice; flushes of two rows, a channel of two, two faults: a flush that fails, and the run after it too |
| cdc_state | TypeOK, ResumeSafe, OvertakenRunIsInert, PruneKeepsAnswer, Converges | two processes, two positions, keyed and keyless, one lost session, crash or failing deletion at any step, one replacement at any step, pruning from two events on; two attempts to supersede (eight in the code): a run that lost its fence retries, and two that did can overtake each other's attempts |

Four more runs show disagreements between the code and what its documents or
comments say of it (see "findings" in `PROJECT.json` for the quotes):

* **token_lost.** `runEntity` defers the removal of the token file, which
  therefore happens before `rotateTokenIfPresent` reads it. The rotated token is
  never stored and the next entity presents an invalidated one, without any
  fault. One store is configured and no environment token, so nothing else can
  be the cause.
* **cursor_lost.** The event cursor moves on when the batch is queued, and
  `runEntity` takes it over even if `ingestr` failed. The events of a failed
  load are skipped.
* **keyless_boundary.** After a restart a table without a key drops the
  transaction that commits at the very position it resumes from. The exception
  for a snapshot boundary is kept in memory only, so a crash between a
  snapshot and the next transaction loses that transaction's rows.
* **missed_delete.** Reconciliation looks for ids that Bronze lacks, never for
  ids that Bullhorn lost: a deletion whose event was skipped stays unrecorded.

Deadlock is not checked: every system here has states where nothing is left to
do (the clock, faults, events and writers are bounded).

### Observed while reading

* The runner's source URI carries no `client_secret`, which `parseURI` requires
  (`pkg/source/bullhorn/bullhorn.go:746`); `README.md:242` names the store
  `azure_key_vault`, the code accepts `keyvault`.
* The month's total of calls can be overwritten: the state is loaded before the
  lock is taken (`fabric/runner/main.go:110`), so an invocation that loads while
  another one runs, and locks after it, saves over its total (`README.md:289`
  says the runner tracks calls per calendar month).
* A runner that is killed leaves its call-count file behind
  (`fabric/runner/main.go:212` is a defer), and nothing removes it before the next
  `ingestr` of that table starts. If that one fails in `Connect`
  (`pkg/pipeline/pipeline.go:107`), `Close` does not rewrite the file, and the
  count of the earlier run is added to the month of this one. That count was not
  recorded before, so the sum over all months is not too high, but a month's total
  can be. Only a failing `os.Remove` makes a count be added twice. CallsCountedOnce
  says this.
* The budget decision is fixed at the start of a run, so a long run can pass the
  allowance.
* Seeding a table that has a watermark puts older rows over newer ones, and the
  recorded seed watermark is never looked at (`fabric/runner/plan.go:15`,
  `fabric/seed/run-seed.sh:22`). NoGap and NoChangeSkipped assume that it is not
  done (`AllowReseed = FALSE`).
* A record modified between two pages leaves the window, the rest moves up, and
  a record is skipped (`pkg/source/bullhorn/bullhorn.go:440`, against the
  completeness of `README.md:40`). SkippedOnlyBehindLeaver says exactly when.
* An append whose rename response is lost adds the same path again, which changes
  nothing, unless a merge rewrote the file in between: then its rows come back
  beside the rewritten ones. The destination's own reader lists the path twice
  (`pkg/destination/onelake/delta_io.go:212`: `order` has it from either add) and reads
  the rows three times in all; other Delta readers see the path once, and the rows
  twice, until the next merge writes what the destination read. NoRowTwice states
  when, DeltaTable how often.
* The reconciler drops the refresh token it is given, so the store it was read
  from is stale afterwards and the next run that reads it fails. Count mode
  compares all rows of Bronze with the changes of the last 24 hours in Bullhorn.
  What keys mode writes to `deleted_records` are live records that Bronze lacks.
* With `Kinds = {TRUE}` and CertifiedRowsPresent as the invariant, TLC finds a
  keyless table that is replaced between Bind and Capture of one flush and
  certified with rows missing: `InvalidateSnapshot` forgets the bound incarnation
  (`pkg/strategy/cdc_state.go:256`), so nothing compares it. `unpinned` in
  ResumeSafe names that window. `late` names the other: a run that another one has
  overtaken truncates, since it reads its fence only when it persists. Two
  processes are enough for that when the first one has lost its lease and not
  noticed. With four it happens to the holder of the lease as well: another one
  invalidates a keyless table, so the holder resumes from nothing; a second one,
  which had read the state before, completes the table in a new generation; a
  third one reads that; the holder begins a generation, the third one the next;
  then the holder truncates and the third one certifies what it appended. Hence
  `late` asks who has begun and not who holds the lease.
* Rows of a keyless table can be doubled after a crash when a token lags behind
  the rows of a flush (`loose`); `docs/getting-started/cdc.md:27` promises no
  more than at-least-once for it.

## Fairness

* BronzeSync (`SyncFairSpec`): time passes and Bullhorn publishes its changes
  (weak); a live process keeps executing (weak on its own steps); the scheduler
  starts runs again and again, and a run gets the lock if it is free again and
  again (strong); `ingestr` is not failed for ever (strong on `Fetch`, `Merge`
  and `SyncEntityOK`, each of which competes with a failure); the operator
  removes stale locks (weak). Without the last, one crash stops all
  runs: that is what the lock file's own error message says. Faults are
  bounded, but a failing entity is not a fault and can happen for ever.
* DeltaLog (`FairSpec`): a live writer keeps executing; nothing about the order
  of writers.
* Paging (`FairSpec`): the server answers each page in the end. The code waits
  out a 429 without a limit, so it can not do without.
* PostgresStream (`FairSpec`): weak fairness of the reader, of the discovery of
  tables, of the pipeline, of the status messages and of a restart, each a
  goroutine or a supervisor of its own. Crashes are bounded.
* Streaming (`FairSpec`): weak fairness of the source, a restarted run included,
  and of the loop as a whole; nothing about which table of a flush goes first, or
  about when the ticker flushes while there is something else to do.
* CDCState (`FairSpec`): some process goes on or is started again, as long as one
  can. Nothing says which, so a process without its lease may never notice.

Faults are bounded everywhere: a system that fails for ever need not get
anywhere. Handoff and Reconcile have no liveness property: token_lost shows that
a second entity may never connect again.

## Proofs

All theorems hold for every value of the constants that satisfies the named
assumptions.

* **RunnerProofs.** `TypeCorrect`. TypeOK is strengthened by `InLoop` (ingest
  and save happen inside the list, so the index stays in range).
  `MutualExclusion` follows from the inductive `LockHeld`: a run that is between
  `AcquireLock` and `Release` is the one the lock file names. It relies on the
  operator removing only stale lock files. `WatermarkSafe`: watermarks only
  travel by copies of whole states (`StepCopies`), except when `ingestr`
  succeeds, when watermark and history move together. That needs
  `StartsOrdered`, that the holder's start is not before any `lastOk`, which in
  turn needs mutual exclusion. `CallsSafe` is the same argument for the totals: what a month's total consists of
  (`CallsExplained`). That no count is added twice (CallsCountedOnce) sums over
  months and tables and is model-checked only.
  `ExitCodeTrue` rests on `RunsHonest`: a run that has not failed has the
  watermark of every table it is past and had to load (`UpToDate`), and when it
  has computed its exit code the file holds that very state, which nobody
  overwrites while the lock is held (`LockHeld` again).
* **BronzeSyncProofs.** `SyncImplementsRunner`: the composition adds data, not
  behaviour, to the runner. `NoChangeSkipped`: `NoGap` follows from the
  inductive `SyncInv`. NoGap alone is not inductive: what a run in progress
  will save matters, so it is stated for every live invocation's memory too
  (`NoGapAnywhere`); what `ingestr` has read but not merged must be the newest
  version, or be superseded by a change late enough for the next window
  (`IngestSafe`); what is not published is young (`Ages`); what the seed did not
  load is younger than what it is going to record (`SeedSafe`); and a run's start
  is not before a seed's (`RunsSafe`). `SyncTypeCorrect` is a part of it.
  Assumptions: index and replica lag are at most the overlap (`SyncAssumption`;
  the day's lag of a daily table may be anything), the seed script and the runner
  do not run at the same time, and tables with a watermark are not seeded again.
* **ReconcileProofs.** `ReconcileTypeCorrect`; `SessionDurable`, the source's half of
  the hand-over and no more (a crash still strands the next run, which reads the
  store and not the file), from `SessionInv`: the token of a session is the newest one, is in the token file
  and in no store, which is why the job, whose token comes from a store, can not
  invalidate it. `CrashSafe`, from `CursorInv`: what the state file, the runner's
  memory and the cursor file stand for is recorded, but for the batch in flight,
  and a crash then leaves a cursor file that the next run writes over before it
  polls, unless the destination failed. It assumes a saved cursor
  (`FirstEvents # 0`): `fabric/runner/main.go:222` does not write the cursor file
  without one, so a leftover of a crashed first run is read. `GapsFound`, from
  `JobInv`: as long as nothing is deleted, the ids listed so far include all up
  to the offset, for any page size.
* **DeltaLogProofs.** `TypeCorrect`, `LogContiguous`, `NoFileDangles`,
  `KeysUnique`, `RowsOnce` and `Refinement`, all from `IInv`. Its table part says
  that versions are a prefix of the numbers (`Prefix`), that a commit adds its
  writer's own file (`CommitsOwn`), that the list a reader makes is finite and has
  every active file (`Listing`), and that an appended row is in a file of somebody
  else only if a merge has removed its own (`Moved`). Its writer part says, for each
  writer, which files it has (`FileNames`), that a merge adds a file no commit has
  (`NewName`), that a repeated write has lost a response, once (`Once`), and that a
  merge that is about to publish has read the very list that the table now is
  (`Fresh`). The rename's failure on an existing target is what makes the latter
  stable. The proof counts copies: `CountOf` of a list with one entry more is that
  of the list and of the entry's file, of a list of one file it is the file's. So
  an append that is published enters its path once if the path is inactive, and a
  second time if a merge had removed it (`Enters`), which is DeltaTable's two; a
  merge leaves its own file alone in the list. The refinement maps a
  successful rename to the write taking effect and every other step to a change of
  the outcome or to nothing.
* **PagingProofs.** `PagingTypeCorrect`, `SkipsHaveLeavers` and
  `DuplicatesHaveEntrants`, from `PagingInv`: what was sent is behind the offset
  unless an entrant pushed it on (`SentBehind`), what was not sent is ahead of it
  unless a leaver moved it up (`UnsentAhead`). The last page needs a fact about
  positions: they are taken from 1 to the number of records without a hole
  (`RankTaken`, an injection between sets of one cardinality), so a page that is
  short has nothing behind it (`PageFull`).

* **StreamingProofs.** `StreamTypeCorrect` and `StopComplete`, from `StreamInv`:
  an uncommitted position is marked as one (`Tokens`, through every exit of the
  loop), nothing can be buffered behind the flush that ends a run, and the steps
  of a flush happen inside it (`Steps`), so a table that is still in one keeps the
  run from ending. It assumes finitely many tables and logs of positions.
  `ResumeExact` (ResumeRestores) follows from `ResumeInv`. ResumeRestores alone is
  not inductive: it says nothing of rows that are buffered, in a flush or in the
  channel, which the next flush may claim. The invariant says of every table of a
  running stream that what it has (`Have`), as a truncate or a snapshot in the
  channel will leave it (`Base`), and the rows still to come (`Arriving`) follow
  the log up to the position the source read to (`Follows`); that a position a
  flush may claim, the pending one, the confirmed one or the one the run found
  complete, is restored by the rows that flush will have written (`ClaimsOK`,
  `FlushOK`, `ChannelOK`); and that what the state claims is restored by the
  destination alone (`Certified`), which is all that a crash leaves.
  `DoublesAreLoose` (DoubledOnlyIfLoose) follows from `DoubleInv`: of a keyless
  table that is not loose the rows in the destination are older than those to be
  flushed and these than what comes (`Tight`), a table of which nothing is claimed
  is empty until its snapshot (`Bare`), but in a flush that will claim all it
  wrote. A flush drops the claim before it appends, so a crash in between leaves a
  table that is read from its snapshot again. Both hold for any logs, with
  truncates and keys written again, any flush and channel size and any number of
  faults.
* **PostgresStreamProofs.** For any logs (`IsLog`: a transaction ends once, after
  its rows), tables, chunk, threshold, channel and number of crashes. `StreamTypes`
  and `AbortedNeverLeaves` follow from `StreamInv`: no position is ahead of what
  was read of the log (`Bounds`), the decoder has of every transaction in progress
  what the walsender sent of it, and nothing else (`HoldsRows`), every commit below
  its position or its low water mark was sent (`Reached`), and the accumulator
  knows a commit LSN that none of its rows is older than (`Gathered`). `ChannelOK`
  bounds the channel and says that a table is not sent before it is known.
  `KeyedSkipNothing` and `KeyedTokensCover`, and from them `NothingIsSkipped` and
  `TokensAreCovered` when every table has a key, need `CoverInv`. Neither property
  is inductive: a token is safe because of what the reader still holds, and a
  resume because of what tokens and snapshots were sent before. `Covered` says of
  a table that what is committed before a token in the channel is with the
  pipeline or in the channel up to there (`Tokened`); that its snapshot truncates
  a table without state, with nothing of the table before it, and that the
  position that ends it is behind no position of the stream (`Snapped`); that
  every position in the state, the slot, or about to be confirmed is one whose rows
  were written, before or after the flush in progress (`StateOK`); and that the
  reader has handed on, or holds, everything up to where the walsender and the
  filter are (`ReaderOK`). The filter drops what is older than a position it has
  processed, so what it drops was delivered. A table without a key is also filtered
  at that position, which after a restart is a transaction it does not have: the
  finding of keyless_boundary, and the reason for the hypothesis. Sends happen at
  once (`Capacity`), a crash loses the channel whole, and the log does not change.
* **CDCStateProofs.** `StateTypeCorrect`, `PruneHarmless` and `OvertakenHarmless`,
  from `StateInv`, which says what a run can know: events of older generations,
  and its own, which are in the table unless a later generation has begun
  (`Knows`), and that no two runs share an id. What a run resumes from is decided
  by the latest generation alone, so events of older ones may go (`SameFrom`); of
  the latest one those may go that have a preferred one of their kind beside them
  (`Preferred`), and the one that pruning keeps is such (`KeptIsPreferred`). Of a
  generation that two runs began neither is certified (`Contested`), which is why
  what an overtaken run writes is inert. The lease is not used: the theorem holds
  for any number of runs that all believe they have it.

  `ResumesWhatIsThere` (ResumeSafe) needs two invariants more. `RunsInv` says what
  is known of events and of the table, windows or not: for every event that is in
  the table or was read by anybody, the run that wrote it has its run event there,
  or one of a later generation is (`Begun`); what a run wrote is in its generation
  and no further than the run is; which incarnation a run has pinned, at each
  step. `RowsInv` says what the table holds, outside the two windows: what is
  certified, and, for a run that nobody has overtaken and whose table was not
  replaced, what it resumed from and what it has written (`Keeps`). A step of
  another one can take rows away in two ways. After a replacement no event speaks
  of the new incarnation, so nothing is certified, and every run finds its pin
  gone, but for the keyless one that forgot it (`ReplaceKeeps`). A run that
  truncates and was not overtaken is alone in the latest generation
  (`NobodyElse`) and has only a marker in it (`SnapshotInProgress`): nothing is
  certified, every other run is behind, and one that has only read the state and
  found something to resume from read it before that generation began
  (`TruncateKeeps`). What a run completes that is alone in the latest generation
  it has written (`CompletionHolds`), and the events without a position take no
  answer further (`AnswerShrinks`). TLC also checked both invariants, on the
  instance of cdc_state.

Only model-checked: the liveness properties, for which the prover has no rule
(fairness and ENABLED). Every invariant and every action property of the passing
runs is a theorem. No recursive definition is used.

## Not modelled

Row contents (allowlist, timestamp and Arrow conversion, Parquet), HTTP details,
logging, URIs, the authorization-code flow. Child processes are killed with the
runner, as a container is: an `ingestr` that survives its runner is outside the
model. Bullhorn is modelled from how the code uses it: one stamp per version,
answers in id order, a `requestId` as a cursor.

Of the reconciler: count mode (it changes nothing but its log), loading the
entity list, the log row of a failed entity. Of the OneLake destination: drop
and replace, schema evolution and its metadata cache, checkpoints, files mode.
Of the merge strategy: its staging table; BronzeSync and Paging use its result.
Of the PostgreSQL source: heartbeats, batch mode with its barrier, rebuilds of
changed or re-created tables, subtransactions, TRUNCATE, TOAST and the compaction
of a batch. Of the flush loop: late tables and changed schemas, the legacy slot
finalizer, runs without a state manager. Of the state manager: claims of
targets, late-snapshot boundaries, source incarnations and schema fingerprints,
full refresh, completed swaps, other destinations than PostgreSQL.

Of `ingestr` itself: the CLI and pipeline wiring, the other sources and
destinations and the batch strategies. Each is a sequential translation of rows
with no protocol between them; the other CDC sources use the flush loop and the
state manager that are modelled.

## Plan

Next modules, most important first:

1. *SchemaEvolution*: `ApplySchemaEvolution`, the metadata cache and
   `checkRewritableDeltaTable` with concurrent writers, over DeltaLog.
2. *ReplaceTable*: `DropTable`, `dropFirst` and the version restart.
3. *MergeStrategy*: prepare, stage, merge and clean-up with kills in between;
   refines the Fetch and Merge of BronzeSync.
4. Handoff extended by the first run (no cursor saved) and by the environment
   token; Runner by the cost of non-critical entities under the allowance.
5. CDCState for several tables with claims; Streaming over CDCState instead of
   its reduced state.

Next theorems: that CDCState and Streaming, composed, refine the reduced state
manager that Streaming has; the invariants of the next modules.
