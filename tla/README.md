# Verification of existora2pg

existora2pg copies an Oracle schema to PostgreSQL: it extracts metadata, plans
tasks, creates tables, copies rows with a pool of workers, adds constraints and
validates. Every job's state is kept in SQLite so that a run that failed, was
cancelled or was killed can be resumed. This directory holds TLA+ models of that
program, TLC runs on small instances and proofs checked by TLAPS.

## Inventory of the system

| Part | Source | State it keeps | Operations | What makes it correct |
|---|---|---|---|---|
| Engine phases | `internal/migration/engine.go` | phase, run id, plan | `Run`, `Resume`, one method per phase | phases in order; an error ends the run; a resume does what the run left undone |
| Data phase | `engine.go` 586-878 | job lookup, per-table semaphores, attempts | cleanup, copy, retry, record | every source row in the target once; nothing recorded that is not there |
| Worker pool | `internal/migration/worker.go` | task channel, first error, failure counter | `Run` | every task runs at most once; the pool drains; cancellation stops it |
| Job store | `internal/jobstore/store.go` | runs, jobs and their states | `SetRunning`, `SetCompleted`, `SetFailed`, `MarkFailedAsRetrying`, ... | states survive a crash and are enough to resume |
| COPY pipeline | `internal/postgres/writer.go` 307-598, `internal/oracle/reader.go` | two batch buffers, a batch channel, one connection | reader goroutine, batcher, writer goroutine, batch retry | rows of a batch are committed in order, once; a failed copy stops everybody |
| Plan | `internal/migration/plan.go`, `internal/oracle/chunker.go` | ordered tables, tasks, chunk lists | `BuildPlan`, chunk resolution, interleaving | the tasks cover the source and do not overlap; parents before children |
| DDL and naming | `internal/postgres/ddl.go`, `writer.go` | - | text of statements, names | one object, one name everywhere |
| API control | `pkg/api/handlers.go`, `projects.go`, `server.go` | active migrations, projects, phases | start, cancel, resume, reset, delete, status | one migration per project; no run deleted while it is used |
| Progress | `pkg/api/progress.go` | subscribers' channels | subscribe, send, close | no send on a closed channel; the last event arrives |
| Validation | `internal/validate/validator.go` | - | compare counts | a mismatch is reported |
| Updater | `internal/updater/updater.go` | downloaded file, old executable | check, download, swap | a broken download is never installed |
| Configuration | `internal/config/config.go` | - | load, defaults, target modes | - |
| Extraction, PL/SQL, types | `internal/oracle/extractor.go`, `internal/plsql`, `internal/schema` | - | SQL and text | - |
| CLI, desktop, web | `internal/cli`, `cmd`, `web/frontend` | - | glue | - |

How they interact: the API (or the CLI) calls `Engine.Run` or `Engine.Resume` in a
goroutine with a cancellable context. The engine asks the plan for tasks, the store
for pending jobs, and hands the tasks to the worker pool. A worker runs one task
function: it claims the job in the store, cleans the target up, starts an Oracle
reader goroutine and calls `CopyData`, which starts a writer goroutine. Progress goes
back through callbacks and the log to the broadcaster and so to the browser.

Hard behaviour: workers interleave on one table (chunks, partitions) whose cleanup is
a TRUNCATE; a failure can come at any point between two commits or between a commit
and the store's update; the same context cancels copying *and* the store's updates,
so a cancelled run leaves RUNNING jobs; a resume rebuilds the plan from statistics
that may have changed; many errors are logged and ignored.

## Modules

| Module | What it is |
|---|---|
| `LoadLedger` | abstract specification: which jobs are in the target and recorded |
| `DataMigration` | the data phase over the worker pool and the job store, crash, cancel, `Resume`, `resetFailedChunkedTables`; implements `LoadLedger` |
| `BatchCopy` | abstract specification of one `CopyData` call: a growing prefix of the source, one result |
| `CopyPipeline` | `CopyData` with the Oracle reader goroutine and the writer goroutine; implements `BatchCopy` |
| `EnginePhases` | `Run` and `Resume` over all phases, on one partitioned and one plain table |
| `MigrationPlan` | from the schema to the ordered list of tasks: sorting, pruning, chunks, splicing, interleaving |
| `ProjectControl` | the API's maps of active migrations and phases, its background runs and its event channels |
| `ProgressEvents` | from log messages of workers to the events and job lists a browser sees |
| `Updater` | downloading, extracting and installing a new version of the program |
| `*_proofs` | theorems about `DataMigration`, `CopyPipeline`, `EnginePhases`, `ProjectControl`, `MigrationPlan`, `ProgressEvents`, `Updater` |
| `FoldLemmas` | lemmas about sums and folds of the community modules, for every finite set, and about left folds and flattening, for every sequence |
| `*MC` | the instances TLC checks; `DataMigrationCasesMC` is one outside the conditions of the theorems |

How they fit together: `MigrationPlan` makes the tasks that `DataMigration` and
`EnginePhases` start from; a task's copy in `DataMigration` is what `BatchCopy` promises
and `CopyPipeline` delivers; `EnginePhases` puts the data phase between the phases
before and after it and keeps of it only what those can see; `ProjectControl` starts
and cancels the engine as one goroutine, whose end `DataMigration` (`PoolTerminates`)
justifies; `ProgressEvents` listens to the same workers.

### DataMigration and the code

A job is its id in the store; ids follow the plan's order, which is the order of the
pool's channel. A member of `Row` is *one batch*: what `CopyData` commits in one
transaction. `db` counts its copies in the target.

| State | In the code |
|---|---|
| `engine` | where `Run`/`Resume` stands: `ready` (before `executeDataMigration`), `pool` (inside `WorkerPool.Run`), `constraints` (what follows), `succeeded`/`failed` (returned), `down` (process gone), `scan`, `reset` (first part of `Resume`) |
| `job` | column `state` of the data jobs |
| `plan` | rows of each task in the current `MigrationPlan`; a job missing from `DOMAIN plan` is one whose key the plan no longer produces |
| `queue`, `pc`, `task`, `attempt`, `todo` | `taskCh`, the workers, `attempt` of the pipeline loop, rows not committed yet |
| `retrying` | the snapshot `jobs` that `isRetry` is read from |
| `cancelled`, `failed` | `ctx.Err() != nil`, `firstErr != nil` |
| `resetTables`, `resetJobs` | what `resetFailedChunkedTables` has still to do |

`StartData` is the head of `executeDataMigration`; `Take` to `Finish` are the worker's
task function in its order (semaphore, `SetRunning`, cleanup, copy, retry loop,
`SetCompleted`/`SetFailed`); `ReturnError` is the pool's error branch; `PoolDone` is
`wg.Wait`. `AfterData` stands for everything after the data phase as far as the data
is concerned: it fails when ctx is done or the store fails, and succeeds otherwise.
`Resume`, `Scan`, `ResetTable`, `ResetJob` and `Replan` are `Engine.Resume` up to the data
phase. A store operation, a TRUNCATE and a COPY fail when ctx is done (`OpFails`), or
because the environment fails (`Fault`).

Left out of the data phase: the back-off delays and the circuit breaker's cool-down
(they only delay), progress logging, and the way a batch is committed (a commit in
flight at a crash is `CopyRow` followed by `Crash`). `copy` faults stand for Oracle and
PostgreSQL errors, in `Replan` also for a failed extraction. A fault of the watchdog
is a `copy` fault. `Init` is the state after a DDL phase that succeeded.

### CopyPipeline and the code

One call of `CopyData` for one task. Rows are numbered in cursor order, so the FIFO
channel `rowCh` is the interval `got+1..sent` and a batch is an interval too.

| State | In the code |
|---|---|
| `rpc`, `sent`, `rowErr` | the goroutine of `Reader.Read`: at `rows.Next`, at the send, at the send of its error, ended; rows and error it has put in `rowCh` |
| `mpc`, `tries` | `CopyData`: acquiring its first connection, SET, the read loop, a full batch at `batchCh <-`, the final one, `close(batchCh)`, `<-writerDoneCh`, returned |
| `from`, `got`, `bytes`, `readErr`, `result` | `batch` is `from..got`, `batchBytes`, `readErr`, what is returned |
| `batchCh`, `closed`, `writerErr` | the batch channel, its close, what is in `writerErrCh` |
| `wpc`, `cur`, `attempt`, `wErr` | the writer goroutine: its place, the batch in hand, `attempt`, `wr.err` |
| `conn`, `held`, `acquired` | the writer's connection, the connections checked out of the pool, how many were taken |
| `db` | copies of each row committed |

`ReadNext`, `ReadSend`, `ReadFail` are the reader; `Acquire` to `Collect` are `CopyData`
in its order; `TakeBatch` to `ReleaseDeferred` are the writer goroutine. A COMMIT has
three outcomes: done, failed, and done without the client knowing (`lost_ack`, or ctx
ended while it was under way). `Interrupted` is the ctx and `writerErrCh` branch of
each select; Go may choose any ready branch, so it competes with the others.
`PipelineCancel` is the deferred `pipelineCancel` of the task function, `Cancel` a
cancelled run or the watchdog.

Left out: the queries and what a row holds, value transformation, statistics, the
length of delays and time limits (`connect` faults stand for a pool that stays empty).
`ReadPaginated` has the same sends, its pages are the rows of one cursor here.

`DataMigration` relies on exactly what `BatchCopy` promises: its `Open` to `CopyDone`
are one call that commits batches in order, each once, and then returns one result.
Its theorems on the target therefore also assume that no COMMIT's answer is lost, the
condition of `BatchCopyImplemented`.

### EnginePhases and the code

The whole of `Engine.Run` and `Engine.Resume`, one statement of PostgreSQL or of the
store per step. `pc` is the phase, `todo` the jobs its loop has not finished, which it takes
in the order `Earlier` gives (`First` is the next one), `at` the statement of that one. A statement fails by chance (`Fails`), because ctx is
done, or because PostgreSQL has to refuse it (`Refused`): a TRUNCATE of a table another
one refers to, a second primary key, a reference to a table without a key, a LOGGED table
that refers to an UNLOGGED one, a partition with an empty range.

| State | In the code |
|---|---|
| `exists`, `whole`, `logged`, `keys`, `refs` | the tables of the target: there, with their partitions, LOGGED, with a primary key; the foreign keys |
| `rows`, `old` | copies of each batch of a task (2 stands for more), tables with rows no task copies |
| `jobs` | the jobs of the latest run |
| `call`, `result` | `Run` or `Resume` at work, how the last one ended (`panic`: the nil summary) |
| `unsaved`, `warned`, `unconverted` | errors the code ignores or only logs: a lost change of state, a primary key, SET LOGGED |

`InitJob` is `initJobs`, with its rule for SKIPPED jobs; `ExecuteDDL` to `CreatePartitions`
are `executeDDL` in the five target modes; `ClaimTask` to `LeaveTasks` the data phase with
one worker, two batches to a task and no retry inside a run; `ConvertToLogged`, `PassOne`,
`PassTwo` and `Validate` are the phases after it; `Summary` is the end with
`GetRunSummary`. `StartRun` and `StartResume` may be called whenever the engine is
idle, as often as one likes: faults are bounded, calls are not.

`Blocked` lists the states of the target from which no `Run` succeeds although nothing
fails by chance; it is part of the property `RunAgainSucceeds`. TLC finds a run that never
succeeds as soon as any one of these reasons is left out. Indexes, sequences, views, comments and triggers are left
out: their failure is a warning and nothing later depends on them.

### MigrationPlan and the code

Rowids are numbers. A segment (a partition, or a table without partitions) holds an
interval of them; a chunk is an interval, a hash bucket the rowids with one value of
`Hash`, so "every row is read once" can be said of any list of tasks.

`Build` is `BuildPlan` (with `TopoSort`, `ResolvePartitions`, `NeedsChunking` and the
placeholders), `ResolvePartitionTable`, `ResolveTable` and `ResolveOraHash` are one
iteration, or the whole, of the three resolutions, `OrderTasks` is
`interleaveTasksByTable`. The chunker's answers are inputs: any estimate, any cut of a
segment in chunks, an error, and a list that breaks off because `rows.Err` is not
looked at. Assumed of Oracle: chunk ids are ordered like the rowids the chunks start at
and the chunks of one segment follow one another. Workers and batch size are positive, as
the configuration's defaults make them.

### ProjectControl and the code

A handler is split where another request can come in between: `ReadProject` (the
project is read from the database) and `Enter` or `Refuse` (under the lock of
`activeMigs`); `ReadCancel` and `CallCancel`; `ReadReset`, `DropTables`,
`DeleteLatestRun` in a loop, `RunsDeleted`, `ClearPhase`. The background goroutine is
`EngineCreates` or `EngineResumes`, any number of `NextPhase` and sends, `EngineEnds`, then
its cleanup: `Unlist`, `TakeChannels`, `CloseChannel`, `GoroutineEnds`. A `Send` is
`BeginSend` (the copy of the list under the read lock) and one `Deliver` or `SendPanics`
for each channel, because the sends come after the unlock.

Runs and channels are numbered in the order they start, so `closedBy` and `panics` can say
who used a channel of whom. `Overlap` tells whether a project may be started while an
earlier run of it has left `activeMigs` and still closes its channels (the code lets it);
`Crashes` whether the process may die. `ResumeMigration` continues the newest run of the
store, which may belong to another project: `works` is that run.

### ProgressEvents and the code

`Start` to `Fail` are the worker with each message it logs; `Handle` is
`progressLogHandler.Handle` with `chunkAggregator.Update` (`Counted`, `Emits`,
`BuildEvent`) and `chunkStatsAggregator`; `Send` is `throttledSend` and the broadcast, a
step of its own because the event is sent after the aggregator's unlock. What happens
between two `Tick`s happens within one second, so a throttle is a flag that `Tick`
clears. A group is one line of the browser's list. `Resume` clears the aggregators and the
statistics, as `newProgressLogger` does. `ListState` and `SummaryState` are `GetJobs` and
`buildRunSummaryWithTiming`.

### Updater and the code

One `Request` is a call of `ApplyUpdate` or `ApplyLocalUpdate`, one action per call of the
operating system, each of which may fail. A file has two pieces, so a copy can be cut in the
middle; it is `blank` after O_TRUNC. A request writes through its open file (`fd`), which
keeps its identity when the name moves. On Windows an open file or the running image cannot
be replaced or removed; elsewhere it can. `Replace` is the rename of Unix, `MoveAway`,
`Install` and `Rollback` the two renames of Windows and the way back. `Die` may come
anywhere, `Launch` starts what has the executable's name. The archives are the package
(Windows, .zip), the release (.tar.gz, which `Fetch` cannot open) and a .zip made by
hand without a directory at the top.

`spoilt` remembers what takes the promise away: two requests at a time (`overlap`), an archive
of another platform (`foreign`), a death between the two renames (`gap`), a rollback
that failed (`rollback`).

## Runs

| Run | Instance | Shows |
|---|---|---|
| `data_exact` | 4 jobs, 7 batches, 2 workers, 3 faults of {cancel, crash, copy, store} | `TypeOK`, `TargetExact`, `NoJobLeftBehind`, `CompletedExact`, `OnlyOwnRowsRemoved`, refinement of `LoadLedger` |
| `data_live` | as above, also failing TRUNCATEs, fairness | `NothingLost`, `PoolTerminates`, `EventuallySucceeds` |
| `copy_batches` | 4 rows, batches of 2 rows or 2 bytes, 1 retry, 2 faults of {cancel, connect, copy, commit, read} | `TypeOK`, `OwnConnection`, refinement of `BatchCopy` |
| `copy_live` | 6 batches of one row, UNLOGGED (`batchCh` holds 4), 3 faults, also lost answers, fairness | `NoRowMissing`, `CopyReturns` |
| `phases` | a partitioned parent with two tasks and a child, 11 configurations, 2 faults of {pg, store, oracle, cancel, crash}, fairness | `TypeOK`, `SuccessMeansSettled`, `PreparedSuccessIsExact`, `KeysBeforeReferences`, `LoggedAfterRun`, `RunAgainSucceeds` |
| `plan` | 72 schemas, 2 global strategies, every failure of the chunker | `TypeOK`, `RowsReadOnceInPlace`, `JobsAreDistinct`, `ChunksAreBounded`, `ParentsFirst`, `PruningIsExact`, `WorkersSpread` |
| `control` | 1 project, 2 clients, 2 background runs, 1 listener with a buffer of 1, crashes, fairness | `TypeOK`, `OneEngine`, `IdlePhase`, `PanicNeedsOverlap`, `StreamEnds` |
| `progress` | 2 workers, 2 chunks of a partition and another partition, 2 batches each, 1 failure, 1 resume | `TypeOK`, `CompletionIsTold`, `NoFalseCompletion`, `RowsNotOverstated`, `ListMatchesSummary` |
| `updater` | both platforms, 2 requests, 3 archives, 2 faults and any number of deaths | `TypeOK`, `StaysRunnable`, `AnswerIsTrue` |
| `sub_chunk_resume` | one partition in two sub-chunks | a disagreement, see below |
| `plan_splice` | a large table behind a large partitioned one | a disagreement, see below |
| `reset_others` | 2 projects, 1 client | a disagreement, see below |

### Bounds

* `data_*`: two workers and two chunks of one table are enough for every conflict of two
  tasks on one table; the limit of one worker on table `c` makes a worker wait for a slot;
  three faults allow a fault, a cancel or crash, and another fault after the resume; what three
  faults cannot show is left to the theorems, which have no bound. One
  pipeline retry (`PipelineRetries = 1`, 3 in the code) distinguishes first, repeated and
  exhausted attempts. Resumptions are not bounded. Workers are symmetric in the safety run;
  the liveness run uses no symmetry.
* `copy_*`: the sizes of the rows are chosen so that a batch is ended once by rows, once by
  a single large row, and the last one is partial; in `copy_batches` `rowCh` holds one row
  and `batchCh` two batches, in `copy_live` there are more batches than `batchCh` holds, so
  every send can block.
* `phases`: the parent has 800 rows, above the threshold (500 here, 500000 in the code) at
  which counts become estimates, and statistics within the tolerance of one percent, far off,
  or at its very edge; the child has two rows and is compared exactly. Between them the eleven
  configurations use each of the five modes and each option at least once, and each reason
  of `Blocked` is the only one in some of them; two faults allow one that leaves something
  behind and one in the call that has to cope with it.
* `plan`: a segment has 12 rowids and a batch one row, so a table of 12 rows is "more than
  ten batches", the hash strategy makes 8 chunks (the minimum), and `MCCuts` contains
  fewer, as many and more chunks than the plan wants. The ranges cover every pair of bounds
  over three partitions with and without an upper bound; references include a chain in the
  wrong order, circles, a table that refers to itself and one outside the schema.
* `control`: two runs of one project are what overlaps; two clients are two requests at a
  time; a buffer of one event is full after one (64 in the code).
* `progress`: two chunks of one line can start, report and end in one second or in
  different ones; the third task of the same table shares the throttle of its table.
* `updater`: two requests are what overlaps; a file of two pieces can be whole, half
  written or mixed; two faults are an error and the error of the way back.

The deadlock check is off where the system may really stop: `CopyData` returns, a plan is
ready, nobody sends a request or starts the program any more.

### Fairness

`DataMigration`: `WF` on each worker, on the engine's own steps and on the steps of a
resumption: they are goroutines the Go scheduler runs, every store operation has a busy
timeout, and the 30-minute watchdog ends a pipeline without progress. No fairness on
faults. `EventuallySucceeds` also needs the operator to resume (`OperatorResumes`).

`CopyPipeline`: `WF` on each of the three goroutines, whose database calls return because of
the watchdog, the time limits of `Acquire` and the deferred `pipelineCancel`.

`EnginePhases`: `WF` on the engine's steps, `SF` on `StartRun`: an operator who may always
call `Resume` instead sometimes calls `Run`. Nothing is assumed of `Resume`.

`ProjectControl`: a cancelled engine ends (`SF`, because its end waits for the sends of its
workers; this is what `PoolTerminates` and `CopyReturns` show), a send in progress goes on
and the cleanup of a goroutine goes on (`WF`; neither blocks), and a connected client reads
(`WF`). A run that nobody cancels may take for ever.

### Disagreements between the code and its comments, each shown by a run

* `sub_chunk_resume`: a partition in sub-chunks is not reset on resume (the reset looks for
  keys that start with `chunk:`), although `engine.go:266` says that all chunks of the table
  must run again; rows of a failed sub-chunk are duplicated.
* `plan_splice`: the placeholder indices of `ResolveChunks` are stale once
  `ResolvePartitionChunks` has replaced placeholders in front of them, although
  `plan.go:594` says they remain valid; the chunks of one table overwrite tasks of another.
* `reset_others`: resetting a project deletes the runs of every project, although
  `handlers.go:1238` speaks of this project's.

The models show more that is worth knowing. Each of these is a condition of a theorem or of
a property; without the condition TLC finds a counterexample:

* in `truncate_partition` mode each sub-chunk of a partition truncates it on its first
  attempt, under its siblings (`SeparateTasks`);
* the cleanup of a retry truncates a table in append mode too (`ReplacingModes`);
* a chunk that could not be reset stays COMPLETED with its rows truncated, and a failing
  cleanup before a retry is ignored (`CleanupSucceeds`);
* when the process dies, or is cancelled, between the TRUNCATE of a chunked table and the
  reset of its chunks, and the next resume fails to read the list of jobs or to truncate the
  table, which is only logged (`engine.go:270`, `engine.go:1241`), the chunks that were COMPLETED are
  not copied again and the run reports success without their rows. `NothingLost` is then
  false; TLC needs three faults to find it, the proof attempt found it first
  (`RestartsSucceed`);
* a resume drops jobs without a task in the new plan and reports success (`StablePlan`);
* a COMMIT whose answer is lost is repeated (`NoLostAnswer`);
* a run that starts while the one before still closes its channels may send on a closed
  channel, which ends the server (`Overlap` in `PanicNeedsOverlap`);
* a list of chunks that breaks off is taken for complete (`short` in `RowsReadOnceInPlace`);
* two updates at a time write the same `.new` file (`overlap` in `StaysRunnable`), and a
  `.zip` of another platform is installed without a question (`foreign`);
* a change of state that the store refuses is ignored in some places, so a run may report
  success with a constraint that failed (`unsaved` in `SuccessMeansSettled`).

Two more are left open by the properties as they are stated: after a batch retry the
connection acquired for it is never returned to the pool (`OwnConnection` only says that
there is never more than one and that it is not used after its release), and a reader that
sends its error after everybody stopped listening stays blocked (`CopyReturns` speaks of
`CopyData` and its writer).

## Proofs

Everything below is proved by TLAPS for all values of the constants.

| Module | Theorem | Conditions | Property |
|---|---|---|---|
| `DataMigration_proofs` | `TypeCorrect` | - | `TypeOK` |
| | `NoJobIsLeftBehind` | `StablePlan` | `NoJobLeftBehind` |
| | `CleanupsStayApart` | `StablePlan`, `SeparateTasks` | `OnlyOwnRowsRemoved` |
| | `CompletedIsExact` | all four | `CompletedExact` |
| | `TargetIsExact` | all four | `TargetExact` |
| | `NoRowIsLost` | `StablePlan`, `SeparateTasks`, `RestartsSucceed` | `NothingLost` |
| | `LedgerImplemented` | all four | `ImplementsLedger` |
| `CopyPipeline_proofs` | `TypeCorrect` | - | `TypeOK` |
| | `ConnectionIsOwned` | - | `OwnConnection` |
| | `NoRowIsMissing` | - | `NoRowMissing` |
| | `BatchCopyImplemented` | `NoLostAnswer` | `ImplementsBatchCopy` |
| `EnginePhases_proofs` | `TypeCorrect` | - | `TypeOK` |
| | `SuccessIsSettled` | - | `SuccessMeansSettled` |
| | `SuccessIsExact` | - | `PreparedSuccessIsExact` |
| | `KeysComeFirst` | - | `KeysBeforeReferences` |
| | `RunConvertsTables` | - | `LoggedAfterRun` |
| `ProjectControl_proofs` | `TypeCorrect` | - | `TypeOK` |
| | `OneEngineAtATime` | - | `OneEngine` |
| | `NoGhostPhase` | - | `IdlePhase` |
| | `OnlyOverlapPanics` | - | `PanicNeedsOverlap` |
| `MigrationPlan_proofs` | `PruningIsCorrect` | - | `PruningIsExact` |
| | `ParentsComeFirst` | - | `ParentsFirst` |
| | `PlanIsTyped` | - | `TypeOK` |
| | `EveryTaskHasItsJob` | - | `JobsAreDistinct` |
| | `BucketsAreBounded` | - | `ChunksAreBounded` |
| | `RowsHaveOneReader` | - | `RowsReadOnceInPlace` |
| | `BucketsTakeTurns` | - | `WorkersSpread` |
| | `MergeKeepsRowids` | the chunks follow one another | merged chunks cover the same rowids, no more than the target |
| `ProgressEvents_proofs` | `TypeCorrect` | - | `TypeOK` |
| | `CompletionIsTrue` | - | `NoFalseCompletion` |
| | `AllDoneIsTold` | - | `CompletionIsTold` |
| | `RowsAreNotOverstated` | - | `RowsNotOverstated` |
| | `ListAndSummaryAgree` | - | `ListMatchesSummary` |
| `Updater_proofs` | `TypeCorrect` | - | `TypeOK` |
| | `AlwaysRunnable` | - | `StaysRunnable` |
| | `AnswersAreTrue` | - | `AnswerIsTrue` |

**DataMigration.** The four conditions are operators of the module: `StablePlan` (a resume
builds the same plan), `SeparateTasks` (the tasks of one table are whole-table chunks or
distinct partitions), `ReplacingModes` (no append; `truncate_partition` only on partitioned
tasks) and `CleanupSucceeds` (no TRUNCATE and no chunk reset fails). None can be dropped:
see the list above. `TypeInv` adds to `TypeOK` where workers can be outside the pool and
that the plan has every job in hand. `ControlInv` ties the store to the workers: a job has one holder, a
queued job is as in the snapshot, a job being worked on is RUNNING, and, as long as nothing
failed, a job that is not COMPLETED is queued or held; so when the pool returns without error
nothing is left. `RowInv` says what the target holds for each state of a job: nothing for
PENDING, exactly its rows for COMPLETED while the engine relies on it, and between those
the progress of the worker that holds it. The delicate part is a crash or cancellation in the
middle of `resetFailedChunkedTables`: a COMPLETED chunk may then be without rows, but only
while another chunk of its table is still unsettled (`LostOnlyIfRestarting`), which makes the
next resume reset the table again. `NoRowIsLost` has an invariant of its own, `LoadInv`, because it
holds in append mode and when TRUNCATEs before an attempt fail, where `RowInv` does not: of
a job that counts as done every row is there at least once. It needs only that the reset of a
chunked table does not fail by chance (`RestartsSucceed`).

**CopyPipeline.** `QueueInv` says that the batch in the writer's hand, the batches in
`batchCh` and the one being filled follow each other without a gap or an overlap, so there is
always a row `UpTo` before which everything has been handed to COMMIT. `StageInv` relates the
places of the three goroutines: a channel closed or an error kept implies where the others
can be, and no error means that the last batch was sent and taken. `Covered` (every row before
`UpTo` is in the target unless the writer gave up) needs no assumption. `Exactly` (and no row
more, each once) needs that a COMMIT reported as failed did not happen; when ctx is done it
may have, and the invariant then says that the writer is about to give up and will not repeat
it.

**EnginePhases.** Nothing is assumed of the tables, the foreign keys, the configurations or
the failures. The invariant follows the phases. `Control` says which jobs each phase can have
left and which statements each has. `RunJobs` says, for a call of `Run`, what every kind of job
is at each phase: what is not left over is settled, that is COMPLETED, or its last save failed
unnoticed (`unsaved`); this gives `SuccessMeansSettled`. `DataJobs` is the part that also holds
of `Resume`, which goes through the data phase with jobs of an earlier call: when the phase is
left without an error, every data job is COMPLETED or never was. For the rows, `Prepared` says
that a DDL job about to be saved has an empty table behind it, `Target` that a table that is
gone has no rows and that batches are committed in order, and `RowsOfJobs` what the target holds
of a task for each state of its job and each statement of its copy, for the tables
`PreparedSuccessIsExact` is about; the delicate step is a DDL job of another table of the same
run, and a task of the same table, neither of which may touch those rows (`TaskByTask`).
`KeyJobs` needs that a constraints job that has ended has had its primary key tried, in this
call or in an earlier one, and that the first job in pass one at its key is RUNNING, so a resume
repeats it. `Logging` is `LoggedAfterRun` on the way. Because a phase takes its jobs in a fixed
order, `Earlier` is shown to be a strict order on which every two jobs of a phase compare; the
sorting of the code itself stays in `MigrationPlan`.

**ProjectControl.** `OneEngine` is not inductive: a run that ends must be the one the map
names, which needs that runs are numbered in order (`NumberedInv`), and the phase may be
written by an engine, by the end of a run and by a reset, so `IdlePhase` needs that a run
about to leave the map has already written its last phase (`EndedPhase`). `CloserInv`: a run
still closing is older than the one listed, and only with `Overlap`. For the channels,
`RegisteredInv` (a registered channel is open), `ClosingInv` (a channel somebody is about to
close is open and nobody else's) and `TargetInv` (a channel somebody is about to send on was
closed, if at all, by an earlier run of the project) give that a channel is never closed twice,
and never under the sends of its own run, because `EngineEnds` waits for the workers.

**MigrationPlan.** `PruningIsCorrect` turns "some value is in both" into a witness, the
larger of the two lower bounds (`LeastCommon`), and is then arithmetic. `MergeKeepsRowids`
is about the operator `MergeChunks` for a list and a target of any length: groups of
`Len \div target` chunks, the first `Len % target` one longer, end where the next begins.

`ParentsComeFirst` is about `topoSortTables`, for a schema of any size with any references.
`VisitExists` shows that the recursive function exists (by induction on `Room`, the number of
tables a walk has not opened, which every nested visit makes smaller). `VisitLeads`, by the same
induction, is the meaning of a visit: the order goes on from what it was (`Follows`), stays
`Ordered` (each table is behind those it refers to, unless they need it themselves), and its
table is in it or open (`Dealt`). What a visit needs for that (`MayVisit`) is that every open
table needs the one it visits. `TopoSortIsOrdered` follows for the whole walk, and `OnlyPicks`
carries it over to the order without the skipped tables.

The other theorems are about the task list, and rest on one inductive invariant, `PlanIInv`:
from `BuildPlan` on, the list is a plan under way (`UnderWay`, `PlanInv`). Its parts:
* `Listed`: no two tasks have the same job key, and each is of a wanted table.
* `Sound`: the tasks of a table are within its limits, and, unless placeholders may be displaced,
  read each selected row once and the others never. "Within its limits" is said with a list
  that has all chunks of the partition (`Bounded`), not with `Cardinality`, which every splice
  would have to be counted through; the theorem counts once, at the end (`AtMost`).
* `Waiting`, `Ascend`: `partQ` and `tableQ` are in the order of the list, and the placeholders
  a waiting partitioned table points at are exactly the tasks of that table (`Holds`). Resolving
  the places from the last one back is what keeps this: a splice moves only what is behind it,
  and what is behind it waits no more (`SpliceOrigin`, `HoldsBefore`, `PutTasks`).

Of a table without partitions `Holds` is known only if no placeholder is displaced. If one is,
its stale index removes a task of another table; `JobsAreDistinct` and `ChunksAreBounded` survive
because what is put in has keys of its own and only a whole task or a chunk is lost, and
`RowsReadOnceInPlace` does not (run `plan_splice`). The tasks that are put in come from `Split`:
what one task, hash tasks, or the rowid tasks of a list that was read up to some chunk, merged or
not, read of one partition (`WholeSplits`, `HashSplits`, `RowidSplits`); `Planned` is the same
of a whole table. `ResolveOraHash`, `BuildPlan` and the interleaving are folds; each is unfolded
into the list after each element, and the invariant goes from one to the next by induction.

`InterleaveByTable` is shown to be one turn after the other, each with the r-th task of every
bucket that has so many (`InterleaveIs`). Place by place the turns ascend and a turn has no
two tasks of one bucket (`TurnAt`), so no bucket has had more than one task in each turn, and
one with a task left has had one in every turn before the present one (`TurnsSpread`).

**ProgressEvents.** `CountInv` gives the counters of `chunkAggregator` their meaning: `total`
is the number of tasks of the group that this run has started, `done` the number it has told
of, and `failed` stays 0 because the message of a failure is not recognised. When the two
numbers agree the two sets do, since one is part of the other, so every started task is done.
`HeldInv` says which worker has a task and what the store says of it meanwhile. `ToldInv` adds
that an event that counts every finished task has been sent or is in some worker's hand
(`Pending`): the step that ends the last started task builds it, because `Emits` does not
throttle it. For the rows, `Fresh` is what a run may report of a task (nothing while a task
waits to be copied again, though its old rows are still there) and `Finished` what it may add to
the statistics; `RowInv` bounds every report by the sum of `Fresh` over the group, and every
step is shown to let these sums only grow, except `Resume`, which forgets all reports. `KindInv`
is what `TypeOK` needs beyond that.

**FoldLemmas.** A fold of the community modules is a function chosen with CHOOSE, and its
lemmas need induction. The library's induction theorems take a predicate as an operator, which the
installed provers cannot instantiate; `NumberInduction` and `SubsetInduction` take a set in its
place. `FoldExists` shows that the chosen function exists, the lemmas about `Sum` that the
order in which a fold takes the elements does not matter. A left fold over a sequence takes the
places in their order, because the community modules choose the largest place of the set each
time (`MaxOfInterval`, `LeftFoldPrefix`); so it has an equation for each element
(`LeftFoldExists`). `FlattenPlaces` says where the elements of each part are in a flattened
sequence, and `PlacesCover` that there are no others.

**Updater.** `OpenInv` (a request that does not write has no open file, and what it writes
exists) needs nothing. `CalmInv` holds as long as requests did not overlap: there is one busy
request (`Single`), and for it `Shape` (which of the files are there at each step),
`Progress` (how much of the new file is written) and `NativeArchive`. `Runnable` then
follows from where that request is.

The properties were checked by TLC on the instances before they were proved.

Only model-checked: every liveness property, since the prover has no rule for
fairness.

## Plan

1. `DataMigration`, `CopyPipeline`: done, checked, proved.
2. `EnginePhases`, `MigrationPlan`, `ProjectControl`, `ProgressEvents`, `Updater`: done,
   checked, proved.

## Not modelled

* PL/SQL conversion: text rewritten by regular expressions, without state.
* The extractor's SQL and the mapping of types: queries and a table.
* CLI, desktop shell, web front end, logging: glue around the engine and the API.
* Loading and defaulting of the YAML configuration; creating and editing projects,
  connection tests and discovery: request plumbing without an interleaving that matters.
* Indexes, sequences, views and triggers: statements whose failure is a warning.
* The retry of a pipeline together with the leftovers of its earlier attempts (reader
  goroutines and watchdogs that live until the task returns): only their number grows.
