--------------------------- MODULE DataMigration ---------------------------
(***************************************************************************)
(* The data phase of a migration run and its resumption:                   *)
(* Engine.executeDataMigration over WorkerPool.Run, the data jobs of the   *)
(* SQLite job store, the rows that are durable in PostgreSQL, and the part *)
(* of Engine.Resume that prepares a second attempt.                        *)
(*                                                                         *)
(* A job is numbered by its id in the store; ids follow the plan's order,  *)
(* which is the order of the pool's task channel.  A member of Row stands  *)
(* for one batch of rows: what CopyData commits in one transaction.  How   *)
(* CopyData commits a batch is the subject of module CopyPipeline.         *)
(***************************************************************************)
EXTENDS Integers, FiniteSets

CONSTANTS
  Table, Partition, NoPartition,
  NumJobs,              (* number of data jobs of the run                      *)
  TableOf, PartOf,      (* [Job -> Table], [Job -> Partition or NoPartition]   *)
  Chunked,              (* the jobs whose task is one chunk (task.Chunk # nil) *)
  Row, RowTable, RowPart, (* target rows and the child table each one lives in *)
  Old,                  (* rows the target holds before the run                *)
  Plans,                (* plans BuildPlan may return: job -> its source rows  *)
  Mode, MaxParallel,    (* per table: target mode, parallelism limit (0: none) *)
  Worker,
  PipelineRetries,      (* maxPipelineRetries of a task that is not a chunk    *)
  Faults,               (* kinds of failure the environment may produce        *)
  MaxFaults             (* bound on the number of failures in a behaviour      *)

Job == 1..NumJobs
NoJob == 0
Modes == {"recreate", "truncate", "append", "truncate_partition"}
(* "copy" stands for what Oracle and PostgreSQL do to reads and inserts,     *)
(* "store" for the job store; the last three are failures the code only logs. *)
FaultKinds == {"cancel", "crash", "copy", "store", "truncate", "reset", "mark"}

ASSUME ConstantsAssumption ==
  /\ NumJobs \in Nat
  /\ NoPartition \notin Partition
  /\ TableOf \in [Job -> Table]
  /\ PartOf \in [Job -> Partition \cup {NoPartition}]
  /\ Chunked \subseteq Job
  /\ RowTable \in [Row -> Table]
  /\ RowPart \in [Row -> Partition \cup {NoPartition}]
  /\ Old \subseteq Row
  /\ Mode \in [Table -> Modes]
  /\ MaxParallel \in [Table -> Nat]
  /\ Worker # {}
  /\ PipelineRetries \in Nat
  /\ Faults \subseteq FaultKinds
  /\ MaxFaults \in Nat

(* Rows the source holds: each must be in the target once when all is done. *)
Source == Row \ Old

(* The conditions under which the data phase is exact (theorem TargetIsExact *)
(* of DataMigration_proofs): no partition is split in sub-chunks and the     *)
(* tasks of a table are separate chunks or separate partitions; the target   *)
(* mode replaces what a task loads; the plan is the same when a run is       *)
(* resumed; the statements that remove rows of an earlier attempt succeed.   *)
SeparateTasks ==
  /\ \A j \in Chunked : PartOf[j] = NoPartition
  /\ \A i, j \in Job : i # j /\ TableOf[i] = TableOf[j] =>
       \/ i \in Chunked /\ j \in Chunked
       \/ /\ i \notin Chunked /\ j \notin Chunked
          /\ PartOf[i] # NoPartition /\ PartOf[j] # NoPartition
          /\ PartOf[i] # PartOf[j]
ReplacingModes ==
  /\ \A t \in Table : Mode[t] # "append"
  /\ \A j \in Job : Mode[TableOf[j]] = "truncate_partition" => PartOf[j] # NoPartition
StablePlan == \A p, q \in Plans : p = q /\ DOMAIN p = Job
CleanupSucceeds == Faults \cap {"truncate", "reset", "mark"} = {}

(* Enough for theorem NoRowIsLost: a resumption that starts a chunked table *)
(* over gets through its statements, or its process dies or is cancelled.   *)
RestartsSucceed == Faults \cap {"reset", "mark"} = {}

(* A plan maps some jobs (those whose key it still produces) to disjoint   *)
(* sets of source rows of the job's table and partition.  DOMAIN p # Job   *)
(* when a later plan no longer has a task for a job.                       *)
IsPlan(p) ==
  /\ DOMAIN p \subseteq Job
  /\ \A j \in DOMAIN p :
       /\ p[j] \subseteq Source
       /\ \A r \in p[j] : /\ RowTable[r] = TableOf[j]
                          /\ PartOf[j] # NoPartition => RowPart[r] = PartOf[j]
  /\ \A i, j \in DOMAIN p : i # j => p[i] \cap p[j] = {}

ASSUME PlansAssumption == \A p \in Plans : IsPlan(p)

VARIABLES
  engine,     (* where Run / Resume stands                                    *)
  job,        (* the store: state of each data job                            *)
  plan,       (* the plan the engine holds                                    *)
  db,         (* the target: number of copies of each row                     *)
  queue,      (* jobs whose task is still in taskCh                           *)
  retrying,   (* jobs that were RETRYING in the GetPendingJobs snapshot       *)
  pc,         (* per worker: where it stands in its task                      *)
  task,       (* per worker: the job of its task                              *)
  attempt,    (* per worker: pipeline attempt                                 *)
  todo,       (* per worker: rows CopyData has not committed yet              *)
  cancelled,  (* ctx is done                                                  *)
  failed,     (* firstErr of the pool is set                                  *)
  resetTables,(* tables resetFailedChunkedTables has not visited yet          *)
  resetJobs,  (* chunk jobs of the truncated table not yet set to RETRYING    *)
  faults      (* failures so far                                              *)

storeVars == <<job, db, plan>>
poolVars == <<queue, retrying, failed>>
workerVars == <<pc, task, attempt, todo>>
resetVars == <<resetTables, resetJobs>>
vars == <<engine, job, plan, db, queue, retrying, pc, task, attempt, todo,
          cancelled, failed, resetTables, resetJobs, faults>>

JobState == {"PENDING", "RUNNING", "FAILED", "COMPLETED", "RETRYING"}
EngineState == {"scan", "reset", "ready", "pool", "constraints",
                "succeeded", "failed", "down"}
Active == {"scan", "reset", "ready", "pool", "constraints"}
WorkerState == {"idle", "sem", "start", "clean", "open", "copy", "retry",
                "finish", "exit"}

TypeOK ==
  /\ engine \in EngineState
  /\ job \in [Job -> JobState]
  /\ plan \in Plans
  /\ db \in [Row -> Nat]
  /\ queue \subseteq Job
  /\ retrying \subseteq Job
  /\ pc \in [Worker -> WorkerState]
  /\ task \in [Worker -> Job \cup {NoJob}]
  /\ attempt \in [Worker -> Nat]
  /\ todo \in [Worker -> SUBSET Row]
  /\ cancelled \in BOOLEAN
  /\ failed \in BOOLEAN
  /\ resetTables \subseteq Table
  /\ resetJobs \subseteq Job
  /\ faults \in 0..MaxFaults
-----------------------------------------------------------------------------
(* The environment fails in way k (bounded by MaxFaults). *)
Fault(k) == k \in Faults /\ faults < MaxFaults /\ faults' = faults + 1
NoFault == UNCHANGED faults

(* An operation that takes ctx fails: because ctx is done, or in way k. *)
OpFails(k) == (cancelled /\ NoFault) \/ Fault(k)

TableRows(t) == {r \in Row : RowTable[r] = t}
PartRows(t, p) == {r \in TableRows(t) : RowPart[r] = p}
Truncated(R) == [r \in Row |-> IF r \in R THEN 0 ELSE db[r]]

(* The jobs GetPendingJobs selects. *)
Pending == {j \in Job : job[j] \in {"PENDING", "RETRYING"}}

(* After createRun, initJobs and executeDDL: recreated and truncated tables *)
(* are empty, the two incremental modes leave the old rows alone.           *)
Init ==
  /\ engine = "ready"
  /\ plan \in {p \in Plans : DOMAIN p = Job /\ UNION {p[j] : j \in Job} = Source}
  /\ job = [j \in Job |-> "PENDING"]
  /\ db = [r \in Row |-> IF /\ r \in Old
                            /\ Mode[RowTable[r]] \in {"append", "truncate_partition"}
                         THEN 1 ELSE 0]
  /\ queue = {} /\ retrying = {}
  /\ pc = [w \in Worker |-> "exit"]
  /\ task = [w \in Worker |-> NoJob]
  /\ attempt = [w \in Worker |-> 0]
  /\ todo = [w \in Worker |-> {}]
  /\ cancelled = FALSE /\ failed = FALSE
  /\ resetTables = {} /\ resetJobs = {}
  /\ faults = 0
-----------------------------------------------------------------------------
(* GetPendingJobs, the job-to-task lookup (a job without a task is dropped  *)
(* from the work list and nothing else happens to it), the filled and       *)
(* closed task channel and the start of the workers.                        *)
StartData ==
  /\ engine = "ready"
  /\ ~cancelled
  /\ IF Pending = {}
     THEN /\ engine' = "constraints"
          /\ UNCHANGED <<queue, retrying, failed, pc>>
     ELSE /\ engine' = "pool"
          /\ queue' = Pending \cap DOMAIN plan
          /\ retrying' = {j \in Job : job[j] = "RETRYING"}
          /\ pc' = [w \in Worker |-> "idle"]
          /\ failed' = FALSE
  /\ NoFault
  /\ UNCHANGED <<storeVars, task, attempt, todo, cancelled, resetVars>>

(* GetPendingJobs fails and the run ends with its error. *)
StartDataFails ==
  /\ engine = "ready"
  /\ OpFails("store")
  /\ engine' = "failed"
  /\ UNCHANGED <<storeVars, poolVars, workerVars, cancelled, resetVars>>
-----------------------------------------------------------------------------
(* The worker forgets its task when the task function has returned. *)
Drop(w) ==
  /\ task' = [task EXCEPT ![w] = NoJob]
  /\ attempt' = [attempt EXCEPT ![w] = 0]
  /\ todo' = [todo EXCEPT ![w] = {}]

(* The task function returned an error: a worker stops if ctx is done,      *)
(* otherwise the first error is kept and the worker goes on.                *)
ReturnError(w) ==
  /\ Drop(w)
  /\ IF cancelled
     THEN pc' = [pc EXCEPT ![w] = "exit"] /\ UNCHANGED failed
     ELSE pc' = [pc EXCEPT ![w] = "idle"] /\ failed' = TRUE

(* Mutant: a worker looks at ctx before it receives and does not drain the  *)
(* channel.                                                                 *)
TakeSpinsMutant(w) ==
  /\ pc[w] = "idle"
  /\ \/ /\ cancelled
        /\ UNCHANGED <<queue, task, pc>>
     \/ /\ queue = {}
        /\ ~cancelled
        /\ pc' = [pc EXCEPT ![w] = "exit"]
        /\ UNCHANGED <<queue, task>>
     \/ \E j \in queue :
          /\ ~cancelled
          /\ \A i \in queue : j <= i
          /\ queue' = queue \ {j}
          /\ pc' = [pc EXCEPT ![w] = "sem"]
          /\ task' = [task EXCEPT ![w] = j]
  /\ NoFault
  /\ UNCHANGED <<engine, storeVars, retrying, failed, attempt, todo, cancelled, resetVars>>

(* range over taskCh: the next task in channel order, dropped if ctx is     *)
(* done; the worker returns when the channel is empty.                      *)
Take(w) ==
  /\ pc[w] = "idle"
  /\ \/ /\ queue = {}
        /\ pc' = [pc EXCEPT ![w] = "exit"]
        /\ UNCHANGED <<queue, task>>
     \/ \E j \in queue :
          /\ \A i \in queue : j <= i
          /\ queue' = queue \ {j}
          /\ IF cancelled
             THEN pc' = [pc EXCEPT ![w] = "exit"] /\ UNCHANGED task
             ELSE /\ pc' = [pc EXCEPT ![w] = "sem"]
                  /\ task' = [task EXCEPT ![w] = j]
  /\ NoFault
  /\ UNCHANGED <<engine, storeVars, retrying, failed, attempt, todo, cancelled, resetVars>>

(* Workers that hold a slot of table t's semaphore. *)
Holders(t) == {w \in Worker : /\ pc[w] \notin {"idle", "sem", "exit"}
                              /\ TableOf[task[w]] = t}
HasSlot(t) == MaxParallel[t] = 0 \/ Cardinality(Holders(t)) < MaxParallel[t]

AcquireSlot(w) ==
  /\ pc[w] = "sem"
  /\ \/ /\ HasSlot(TableOf[task[w]])
        /\ pc' = [pc EXCEPT ![w] = "start"]
        /\ UNCHANGED <<task, attempt, todo, failed>>
     \/ /\ MaxParallel[TableOf[task[w]]] # 0
        /\ cancelled
        /\ ReturnError(w)
  /\ NoFault
  /\ UNCHANGED <<engine, storeVars, queue, retrying, cancelled, resetVars>>

(* SetRunning; if the store fails the function returns before any change. *)
Start(w) ==
  /\ pc[w] = "start"
  /\ \/ /\ ~cancelled
        /\ job' = [job EXCEPT ![task[w]] = "RUNNING"]
        /\ pc' = [pc EXCEPT ![w] = "clean"]
        /\ NoFault
        /\ UNCHANGED <<task, attempt, todo, failed>>
     \/ /\ OpFails("store")
        /\ ReturnError(w)
        /\ UNCHANGED job
  /\ UNCHANGED <<engine, plan, db, queue, retrying, cancelled, resetVars>>

(* What TruncatePartition or TruncateTable removes for job j. *)
OwnRows(j) == IF PartOf[j] # NoPartition THEN PartRows(TableOf[j], PartOf[j])
                                         ELSE TableRows(TableOf[j])

(* What the cleanup before an attempt truncates. A chunk is never cleaned   *)
(* up on its own; a first attempt cleans up only in truncate_partition mode. *)
NoCleanupMutant(j, again) == {}
CleanupOfChunksMutant(j, again) == IF again THEN OwnRows(j) ELSE {}
Cleanup(j, again) ==
  IF again
  THEN IF j \in Chunked THEN {} ELSE OwnRows(j)
  ELSE IF Mode[TableOf[j]] = "truncate_partition" /\ PartOf[j] # NoPartition
       THEN OwnRows(j) ELSE {}

(* TruncateTable / TruncatePartition; the task goes on whether or not the   *)
(* statement succeeded, and it cannot succeed once ctx is done.             *)
Clean(w) ==
  /\ pc[w] = "clean"
  /\ \/ /\ ~cancelled
        /\ db' = Truncated(Cleanup(task[w], attempt[w] > 0 \/ task[w] \in retrying))
        /\ NoFault
     \/ /\ OpFails("truncate")
        /\ UNCHANGED db
  /\ pc' = [pc EXCEPT ![w] = "open"]
  /\ UNCHANGED <<engine, job, plan, poolVars, task, attempt, todo, cancelled, resetVars>>

(* CopyData gets its connection and the reader starts on the task's rows. *)
Open(w) ==
  /\ pc[w] = "open"
  /\ ~cancelled
  /\ pc' = [pc EXCEPT ![w] = "copy"]
  /\ todo' = [todo EXCEPT ![w] = plan[task[w]]]
  /\ NoFault
  /\ UNCHANGED <<engine, storeVars, poolVars, task, attempt, cancelled, resetVars>>

(* One batch is committed. *)
CopyRow(w) ==
  /\ pc[w] = "copy"
  /\ ~cancelled
  /\ \E r \in todo[w] : /\ db' = [db EXCEPT ![r] = @ + 1]
                        /\ todo' = [todo EXCEPT ![w] = @ \ {r}]
  /\ NoFault
  /\ UNCHANGED <<engine, job, plan, poolVars, pc, task, attempt, cancelled, resetVars>>

(* CopyData returns an error: ctx done, or Oracle or PostgreSQL failed.     *)
(* What was committed stays.                                                *)
CopyFails(w) ==
  /\ pc[w] \in {"open", "copy"}
  /\ OpFails("copy")
  /\ pc' = [pc EXCEPT ![w] = "retry"]
  /\ todo' = [todo EXCEPT ![w] = {}]
  /\ UNCHANGED <<engine, storeVars, poolVars, task, attempt, cancelled, resetVars>>

CopyDone(w) ==
  /\ pc[w] = "copy"
  /\ todo[w] = {}
  /\ pc' = [pc EXCEPT ![w] = "finish"]
  /\ NoFault
  /\ UNCHANGED <<engine, storeVars, poolVars, task, attempt, todo, cancelled, resetVars>>

(* Retries of the pipeline; a chunk gets none. *)
RetriesForAllMutant(j) == PipelineRetries
RetriesOf(j) == IF j \in Chunked THEN 0 ELSE PipelineRetries

(* Back-off and next attempt. *)
RetryPipeline(w) ==
  /\ pc[w] = "retry"
  /\ ~cancelled
  /\ attempt[w] < RetriesOf(task[w])
  /\ attempt' = [attempt EXCEPT ![w] = @ + 1]
  /\ pc' = [pc EXCEPT ![w] = "clean"]
  /\ NoFault
  /\ UNCHANGED <<engine, storeVars, poolVars, task, todo, cancelled, resetVars>>

(* SetFailed after the last attempt, or when ctx is done: with a done ctx   *)
(* the store rejects the update and the job stays RUNNING.                  *)
GiveUp(w) ==
  /\ pc[w] = "retry"
  /\ cancelled \/ attempt[w] >= RetriesOf(task[w])
  /\ \/ ~cancelled /\ NoFault /\ job' = [job EXCEPT ![task[w]] = "FAILED"]
     \/ OpFails("store") /\ UNCHANGED job
  /\ ReturnError(w)
  /\ UNCHANGED <<engine, plan, db, queue, retrying, cancelled, resetVars>>

(* SetCompleted; if the store fails the job stays RUNNING. *)
Finish(w) ==
  /\ pc[w] = "finish"
  /\ \/ /\ ~cancelled
        /\ job' = [job EXCEPT ![task[w]] = "COMPLETED"]
        /\ pc' = [pc EXCEPT ![w] = "idle"]
        /\ Drop(w)
        /\ NoFault
        /\ UNCHANGED failed
     \/ /\ OpFails("store")
        /\ ReturnError(w)
        /\ UNCHANGED job
  /\ UNCHANGED <<engine, plan, db, queue, retrying, cancelled, resetVars>>

WorkerStep(w) ==
  /\ engine = "pool"
  /\ \/ Take(w) \/ AcquireSlot(w) \/ Start(w) \/ Clean(w)
     \/ Open(w) \/ CopyRow(w) \/ CopyFails(w) \/ CopyDone(w)
     \/ RetryPipeline(w) \/ GiveUp(w) \/ Finish(w)
-----------------------------------------------------------------------------
(* wg.Wait returns; Run returns firstErr, which a cancellation leaves nil. *)
PoolDone ==
  /\ engine = "pool"
  /\ \A w \in Worker : pc[w] = "exit"
  /\ engine' = IF failed THEN "failed" ELSE "constraints"
  /\ NoFault
  /\ UNCHANGED <<storeVars, poolVars, workerVars, cancelled, resetVars>>

(* What follows the data phase, as far as it depends on ctx: the next store *)
(* operation fails when ctx is done.                                        *)
AfterData ==
  /\ engine = "constraints"
  /\ \/ ~cancelled /\ NoFault /\ engine' = "succeeded"
     \/ OpFails("store") /\ engine' = "failed"
  /\ UNCHANGED <<storeVars, poolVars, workerVars, cancelled, resetVars>>

(* The user cancels the run. *)
Cancel ==
  /\ engine \in Active
  /\ ~cancelled
  /\ Fault("cancel")
  /\ cancelled' = TRUE
  /\ UNCHANGED <<engine, storeVars, poolVars, workerVars, resetVars>>

(* The process dies: the store and the target remain. *)
Crash ==
  /\ engine \in Active
  /\ Fault("crash")
  /\ engine' = "down"
  /\ queue' = {} /\ retrying' = {} /\ failed' = FALSE /\ cancelled' = FALSE
  /\ pc' = [w \in Worker |-> "exit"]
  /\ task' = [w \in Worker |-> NoJob]
  /\ attempt' = [w \in Worker |-> 0]
  /\ todo' = [w \in Worker |-> {}]
  /\ resetTables' = {} /\ resetJobs' = {}
  /\ UNCHANGED storeVars
-----------------------------------------------------------------------------
(* Tables with a chunk job (partition "chunk:<i>") in state RETRYING. A     *)
(* chunk of a partition ("<P>:chunk:<i>") does not count.                   *)
TableChunks(t) == {j \in Chunked : TableOf[j] = t /\ PartOf[j] = NoPartition}
ScanTooEarlyMutant == {t \in Table : \E j \in TableChunks(t) : job[j] = "FAILED"}
ToReset == {t \in Table : \E j \in TableChunks(t) : job[j] = "RETRYING"}

(* MarkFailedAsRetrying. *)
RunningForgottenMutant(s) == IF s = "FAILED" THEN "RETRYING" ELSE s
MisspeltMutant(s) == IF s \in {"FAILED", "RUNNING"} THEN "RETRY" ELSE s
Retried(s) == IF s \in {"FAILED", "RUNNING"} THEN "RETRYING" ELSE s

(* Mutant: a resumption that goes on with the ctx of the cancelled run. *)
OldContextMutant ==
  /\ engine \in {"down", "failed", "succeeded"}
  /\ engine' = "scan"
  /\ job' = [j \in Job |-> Retried(job[j])]
  /\ NoFault
  /\ UNCHANGED <<plan, db, poolVars, workerVars, resetVars, cancelled>>

(* Resume up to MarkFailedAsRetrying, with a context of its own. *)
Resume ==
  /\ engine \in {"down", "failed", "succeeded"}
  /\ engine' = "scan"
  /\ cancelled' = FALSE
  /\ job' = [j \in Job |-> Retried(job[j])]
  /\ NoFault
  /\ UNCHANGED <<plan, db, poolVars, workerVars, resetVars>>

(* The GetJobsByPhase of resetFailedChunkedTables, whose error is only      *)
(* logged.                                                                  *)
Scan ==
  /\ engine = "scan"
  /\ engine' = "reset"
  /\ \/ ~cancelled /\ resetTables' = ToReset /\ NoFault
     \/ resetTables' = {} /\ OpFails("reset")
  /\ resetJobs' = {}
  /\ UNCHANGED <<storeVars, poolVars, workerVars, cancelled>>

(* Truncate one chunked table; on failure its jobs are left as they are. *)
ResetTable(t) ==
  /\ engine = "reset"
  /\ t \in resetTables /\ resetJobs = {}
  /\ resetTables' = resetTables \ {t}
  /\ \/ /\ ~cancelled
        /\ db' = Truncated(TableRows(t))
        /\ resetJobs' = TableChunks(t)
        /\ NoFault
     \/ /\ OpFails("reset")
        /\ UNCHANGED <<db, resetJobs>>
  /\ UNCHANGED <<engine, job, plan, poolVars, workerVars, cancelled>>

(* UpdateState of one chunk job; a failure is only logged. *)
ResetJob(j) ==
  /\ engine = "reset"
  /\ j \in resetJobs
  /\ resetJobs' = resetJobs \ {j}
  /\ \/ ~cancelled /\ NoFault /\ job' = [job EXCEPT ![j] = "RETRYING"]
     \/ OpFails("mark") /\ UNCHANGED job
  /\ UNCHANGED <<engine, plan, db, poolVars, workerVars, cancelled, resetTables>>

(* The metadata is extracted again and a new plan is built from it. *)
Replan ==
  /\ engine = "reset"
  /\ resetTables = {} /\ resetJobs = {}
  /\ \/ ~cancelled /\ NoFault /\ engine' = "ready" /\ plan' \in Plans
     \/ OpFails("copy") /\ engine' = "failed" /\ UNCHANGED plan
  /\ UNCHANGED <<job, db, poolVars, workerVars, cancelled, resetVars>>

ResumeStep == \/ Scan
              \/ \E t \in Table : ResetTable(t)
              \/ \E j \in Job : ResetJob(j)
              \/ Replan

Next ==
  \/ StartData \/ StartDataFails
  \/ \E w \in Worker : WorkerStep(w)
  \/ PoolDone \/ AfterData
  \/ Cancel \/ Crash
  \/ Resume \/ ResumeStep

Spec == Init /\ [][Next]_vars

(* The Go scheduler runs every goroutine and the 30-minute watchdog ends a  *)
(* pipeline that hangs; the operator resumes a run that did not succeed.    *)
Fairness ==
  /\ WF_vars(StartData \/ StartDataFails)
  /\ \A w \in Worker : WF_vars(WorkerStep(w))
  /\ WF_vars(PoolDone \/ AfterData)
  /\ WF_vars(ResumeStep)
OperatorResumes == WF_vars(Resume)

FairSpec == Spec /\ Fairness
ResumedSpec == Spec /\ Fairness /\ OperatorResumes
-----------------------------------------------------------------------------
(* The rows a migrated table must not keep: everything old in a recreated   *)
(* or truncated table, the migrated partitions in truncate_partition mode.  *)
Superseded(r) ==
  \/ Mode[RowTable[r]] \in {"recreate", "truncate"}
  \/ /\ Mode[RowTable[r]] = "truncate_partition"
     /\ \E j \in Job : TableOf[j] = RowTable[r] /\ PartOf[j] = RowPart[r]
Expected(r) == IF r \in Source THEN 1 ELSE IF Superseded(r) THEN 0 ELSE 1

(* Once a run reports success, the target holds every source row exactly    *)
(* once and every old row that the target mode does not replace (the        *)
(* engine returning nil from executeDataMigration, engine.go 189 and 309).  *)
TargetExact == engine = "succeeded" => \A r \in Row : db[r] = Expected(r)

(* The same without "once": no source row is missing, even when the errors  *)
(* of the TRUNCATEs before a retry were ignored and in every target mode    *)
(* (engine.go 743 goes on after a failed cleanup).                          *)
NothingLost == engine = "succeeded" => \A r \in Source : db[r] > 0

(* No success is reported while a data job is still to be done.             *)
NoJobLeftBehind == engine = "succeeded" => \A j \in Job : job[j] = "COMPLETED"

Exact(j) == \A r \in plan[j] : db[r] = 1

(* While the engine relies on the store (from GetPendingJobs on), a job     *)
(* recorded as COMPLETED has each of its rows in the target exactly once:   *)
(* "resume without re-migrating completed tables".                          *)
CompletedExact ==
  engine \in {"ready", "pool", "constraints", "succeeded"} =>
    \A j \in DOMAIN plan : job[j] = "COMPLETED" => Exact(j)

(* A worker's cleanup only ever removes rows of the worker's own task, so   *)
(* it cannot destroy what another worker copied or is copying.              *)
OnlyOwnRowsRemoved ==
  [][engine = "pool" =>
       \A j \in DOMAIN plan :
         (\E r \in plan[j] : db'[r] < db[r]) =>
            \E w \in Worker : pc[w] = "clean" /\ task[w] = j]_vars

(* The ledger this module implements: a job is on it when it is COMPLETED   *)
(* and its rows are in the target exactly once.                             *)
Recorded == {j \in DOMAIN plan : job[j] = "COMPLETED" /\ Exact(j)}
ChunkGroups == {TableChunks(t) : t \in Table}
Ledger == INSTANCE LoadLedger WITH Groups <- ChunkGroups, loaded <- Recorded,
                                   done <- (engine = "succeeded")

(* Every step of the engine, the pool, a failure or a resumption is a step  *)
(* of the ledger or changes nothing a user was promised.                    *)
ImplementsLedger == Ledger!LedgerSpec

(* The pool always drains: no worker waits for ever for a slot or a task. *)
PoolTerminates == engine = "pool" ~> engine # "pool"

(* If the operator keeps resuming and failures stop, the run succeeds. *)
EventuallySucceeds == []<>(engine = "succeeded")
=============================================================================
