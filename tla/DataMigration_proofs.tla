------------------------ MODULE DataMigration_proofs ------------------------
(***************************************************************************)
(* Proofs about DataMigration: type correctness, that no data job is left  *)
(* behind when a run succeeds, that no row is lost, and that the target is *)
(* exact.                                                                  *)
(***************************************************************************)
EXTENDS DataMigration, TLAPS

Busy == {"clean", "open", "copy", "retry", "finish"}

-----------------------------------------------------------------------------
(* Placement: outside the pool no worker runs; a worker in its task function *)
(* holds a job, and the plan has the rows of every job in hand or queued.    *)

WorkersRest == engine # "pool" => \A w \in Worker : pc[w] = "exit"

TaskHeld == \A w \in Worker : task[w] = NoJob <=> pc[w] \in {"idle", "exit"}

TaskPlanned == /\ \A w \in Worker : task[w] # NoJob => task[w] \in DOMAIN plan
               /\ engine = "pool" => queue \subseteq DOMAIN plan

TypeInv == TypeOK /\ WorkersRest /\ TaskHeld /\ TaskPlanned

-----------------------------------------------------------------------------
(* Control: who holds which job, and what the store says of it. *)

OneHolder == \A w \in Worker :
               task[w] # NoJob => /\ \A v \in Worker : task[v] = task[w] => v = w
                                  /\ task[w] \notin queue

(* A job that nobody has started yet is in the state of the snapshot. *)
Waiting(j) == job[j] = IF j \in retrying THEN "RETRYING" ELSE "PENDING"
JobMatchesWorker ==
  engine = "pool" =>
    /\ \A j \in queue : Waiting(j)
    /\ \A w \in Worker : /\ pc[w] \in {"sem", "start"} => Waiting(task[w])
                         /\ pc[w] \in Busy => job[task[w]] = "RUNNING"

NoneInDoubt == engine \in {"scan", "reset", "ready"} =>
                 \A j \in Job : job[j] \notin {"RUNNING", "FAILED"}

(* As long as nothing failed, a job that is not done is queued or held. *)
JobTracked ==
  engine = "pool" =>
    \/ failed \/ cancelled
    \/ \A j \in Job : \/ job[j] = "COMPLETED" \/ j \in queue
                      \/ \E w \in Worker : task[w] = j

QueueDrained == engine = "pool" =>
                  \A w \in Worker : pc[w] = "exit" => queue = {} \/ cancelled

AllDone == /\ engine = "constraints" => cancelled \/ \A j \in Job : job[j] = "COMPLETED"
           /\ engine = "succeeded" => \A j \in Job : job[j] = "COMPLETED"

ControlInv == /\ OneHolder /\ JobMatchesWorker
              /\ NoneInDoubt /\ JobTracked /\ QueueDrained /\ AllDone

-----------------------------------------------------------------------------
(* Rows: what the target holds of a job's rows, for each state of the job. *)

Blank(j) == \A r \in plan[j] : db[r] = 0

(* No row of an older load is left in the partition that job j reloads. *)
Clear(j) ==
  Mode[TableOf[j]] = "truncate_partition" =>
    \A r \in Old : RowTable[r] = TableOf[j] /\ RowPart[r] = PartOf[j] => db[r] = 0

Good(j) == Exact(j) /\ Clear(j)

OldRows ==
  \A r \in Old :
    /\ Mode[RowTable[r]] \in {"recreate", "truncate"} => db[r] = 0
    /\ ~Superseded(r) => db[r] = 1

PendingBlank == \A j \in Job : job[j] = "PENDING" => Blank(j)

CompletedGood == engine \in {"ready", "pool", "constraints", "succeeded"} =>
                   \A j \in Job : job[j] = "COMPLETED" => Good(j)

RetriedChunkBlank == engine \in {"ready", "pool"} =>
                       \A j \in Chunked : job[j] = "RETRYING" => Blank(j)

CopyProgress(w) ==
  LET j == task[w] IN
  /\ pc[w] = "clean" /\ (j \in Chunked \/ (attempt[w] = 0 /\ j \notin retrying)) => Blank(j)
  /\ pc[w] = "open" => cancelled \/ (Blank(j) /\ Clear(j))
  /\ pc[w] = "copy" => /\ todo[w] \subseteq plan[j]
                       /\ \A r \in todo[w] : db[r] = 0
                       /\ \A r \in plan[j] \ todo[w] : db[r] = 1
                       /\ Clear(j)
  /\ pc[w] = "finish" => Good(j)

Unsettled(k) == job[k] \in {"RETRYING", "FAILED", "RUNNING"}

(* A completed chunk may have lost its rows while its table is started over; *)
(* the chunk that caused this is still to be done.                           *)
LostOnlyIfRestarting ==
  engine \in {"down", "failed", "scan", "reset"} =>
    \A j \in Job : job[j] = "COMPLETED" =>
      \/ Good(j)
      \/ j \in Chunked /\ \E k \in TableChunks(TableOf[j]) : Unsettled(k)

ResetTarget ==
  engine = "reset" =>
    /\ \A t \in resetTables : \E k \in TableChunks(t) : job[k] = "RETRYING"
    /\ \A j \in resetJobs : /\ j \in Chunked
                            /\ TableOf[j] \notin resetTables
                            /\ \E k \in TableChunks(TableOf[j]) : job[k] = "RETRYING"

(* A table with a chunk to retry is still to be truncated, or is empty and  *)
(* its other chunks are or will be set to RETRYING.                         *)
ResetProgress ==
  engine = "reset" /\ ~cancelled =>
    \A k \in Chunked : job[k] = "RETRYING" =>
      \/ TableOf[k] \in resetTables
      \/ \A j \in TableChunks(TableOf[k]) :
           Blank(j) /\ (job[j] = "RETRYING" \/ j \in resetJobs)

RowInv == /\ OldRows /\ PendingBlank /\ CompletedGood /\ RetriedChunkBlank
          /\ \A w \in Worker : CopyProgress(w)
          /\ LostOnlyIfRestarting /\ ResetTarget /\ ResetProgress

-----------------------------------------------------------------------------
LEMMA InitType == Init => TypeOK
<1> SUFFICES ASSUME Init PROVE TypeOK
  OBVIOUS
<1> USE DEF Init
<1>1. db \in [Row -> Nat]
  <2> DEFINE kept(r) == r \in Old /\ Mode[RowTable[r]] \in {"append", "truncate_partition"}
  <2>1. \A r \in Row : (IF kept(r) THEN 1 ELSE 0) \in Nat
    OBVIOUS
  <2>2. db = [r \in Row |-> IF kept(r) THEN 1 ELSE 0]
    OBVIOUS
  <2> HIDE DEF kept
  <2>3. QED
    BY <2>1, <2>2
<1>2. faults \in 0..MaxFaults
  BY ConstantsAssumption
<1>3. /\ engine \in EngineState /\ job \in [Job -> JobState] /\ plan \in Plans
      /\ queue \subseteq Job /\ retrying \subseteq Job
      /\ resetTables \subseteq Table /\ resetJobs \subseteq Job
  BY DEF EngineState, JobState
<1>4. /\ pc \in [Worker -> WorkerState] /\ task \in [Worker -> Job \cup {NoJob}]
      /\ attempt \in [Worker -> Nat] /\ todo \in [Worker -> SUBSET Row]
  BY DEF WorkerState
<1>5. cancelled \in BOOLEAN /\ failed \in BOOLEAN
  OBVIOUS
<1>6. QED
  BY <1>1, <1>2, <1>3, <1>4, <1>5 DEF TypeOK

(* What the task function's return does to the worker. *)
LEMMA ReturnErrorType ==
  ASSUME TypeOK, NEW w \in Worker, ReturnError(w)
  PROVE  /\ pc' \in [Worker -> WorkerState]
         /\ task' \in [Worker -> Job \cup {NoJob}]
         /\ attempt' \in [Worker -> Nat]
         /\ todo' \in [Worker -> SUBSET Row]
         /\ failed' \in BOOLEAN
<1>1. CASE cancelled
  BY <1>1 DEF TypeOK, ReturnError, Drop, WorkerState
<1>2. CASE ~cancelled
  BY <1>2 DEF TypeOK, ReturnError, Drop, WorkerState
<1>3. QED
  BY <1>1, <1>2

(* The rows CopyData reads are rows of the plan. *)
LEMMA OpenRows ==
  ASSUME TypeInv, NEW w \in Worker, pc[w] = "open"
  PROVE  plan[task[w]] \in SUBSET Row
<1>1. task[w] \in DOMAIN plan
  BY DEF TypeInv, TaskHeld, TaskPlanned
<1>2. IsPlan(plan)
  BY PlansAssumption DEF TypeInv, TypeOK
<1>3. QED
  BY <1>1, <1>2 DEF IsPlan, Source

LEMMA CrashType == ASSUME TypeOK, Crash PROVE TypeOK'
<1>1. /\ pc' \in [Worker -> WorkerState] /\ task' \in [Worker -> Job \cup {NoJob}]
      /\ attempt' \in [Worker -> Nat] /\ todo' \in [Worker -> SUBSET Row]
  BY DEF Crash, WorkerState
<1>2. engine' \in EngineState /\ cancelled' \in BOOLEAN /\ failed' \in BOOLEAN
  BY DEF Crash, EngineState
<1>3. /\ queue' \subseteq Job /\ retrying' \subseteq Job
      /\ resetTables' \subseteq Table /\ resetJobs' \subseteq Job
  BY DEF Crash
<1>4. job' \in [Job -> JobState] /\ plan' \in Plans /\ db' \in [Row -> Nat]
  BY DEF Crash, TypeOK, storeVars
<1>5. faults' \in 0..MaxFaults
  BY ConstantsAssumption DEF Crash, TypeOK, Fault
<1>6. QED
  BY <1>1, <1>2, <1>3, <1>4, <1>5 DEF TypeOK

LEMMA ResumeType == ASSUME TypeOK, Resume PROVE TypeOK'
<1>1. job' \in [Job -> JobState]
  BY DEF Resume, Retried, TypeOK, JobState
<1>2. resetTables' \subseteq Table /\ resetJobs' \subseteq Job
  BY DEF Resume, resetVars, TypeOK
<1>3. engine' \in EngineState /\ cancelled' \in BOOLEAN /\ failed' \in BOOLEAN
  BY DEF Resume, EngineState, poolVars, TypeOK
<1>4. /\ plan' \in Plans /\ db' \in [Row -> Nat]
      /\ queue' \subseteq Job /\ retrying' \subseteq Job
  BY DEF Resume, poolVars, TypeOK
<1>5. /\ pc' \in [Worker -> WorkerState] /\ task' \in [Worker -> Job \cup {NoJob}]
      /\ attempt' \in [Worker -> Nat] /\ todo' \in [Worker -> SUBSET Row]
  BY DEF Resume, workerVars, TypeOK
<1>6. faults' \in 0..MaxFaults
  BY DEF Resume, TypeOK, NoFault
<1>7. QED
  BY <1>1, <1>2, <1>3, <1>4, <1>5, <1>6 DEF TypeOK

LEMMA StepType == TypeInv /\ [Next]_vars => TypeOK'
<1> SUFFICES ASSUME TypeInv, [Next]_vars PROVE TypeOK'
  OBVIOUS
<1>0. TypeOK
  BY DEF TypeInv
<1> USE <1>0, ConstantsAssumption DEF TypeOK, EngineState, JobState, WorkerState, OpFails, Fault, NoFault,
            storeVars, poolVars, workerVars, resetVars
<1>1. CASE StartData
  BY <1>1 DEF StartData, Pending
<1>2. CASE StartDataFails
  BY <1>2 DEF StartDataFails
<1>3. ASSUME NEW w \in Worker, WorkerStep(w) PROVE TypeOK'
  <2>1. CASE Take(w)
    <3>1. CASE queue = {}
      BY <2>1, <3>1 DEF Take
    <3>2. ASSUME NEW j \in queue, queue' = queue \ {j},
                 IF cancelled
                 THEN pc' = [pc EXCEPT ![w] = "exit"] /\ UNCHANGED task
                 ELSE /\ pc' = [pc EXCEPT ![w] = "sem"]
                      /\ task' = [task EXCEPT ![w] = j]
          PROVE  TypeOK'
      BY <2>1, <3>2 DEF Take
    <3>3. QED
      BY <2>1, <3>1, <3>2 DEF Take
  <2>2. CASE AcquireSlot(w)
    <3>1. CASE ReturnError(w)
      BY <2>2, <3>1, ReturnErrorType DEF AcquireSlot
    <3>2. CASE ~ReturnError(w)
      BY <2>2, <3>2 DEF AcquireSlot
    <3>3. QED
      BY <3>1, <3>2
  <2>3. CASE Start(w)
    <3>1. CASE ReturnError(w)
      BY <2>3, <3>1, ReturnErrorType DEF Start
    <3>2. CASE ~ReturnError(w)
      BY <2>3, <3>2 DEF Start
    <3>3. QED
      BY <3>1, <3>2
  <2>4. CASE Clean(w)
    BY <1>3, <2>4 DEF WorkerStep, Clean, Truncated
  <2>5. CASE Open(w)
    <3>1. todo' \in [Worker -> SUBSET Row]
      BY <2>5, OpenRows DEF Open
    <3>2. QED
      BY <2>5, <3>1 DEF Open
  <2>6. CASE CopyRow(w)
    BY <1>3, <2>6 DEF WorkerStep, CopyRow
  <2>7. CASE CopyFails(w)
    BY <1>3, <2>7 DEF WorkerStep, CopyFails
  <2>8. CASE CopyDone(w)
    BY <1>3, <2>8 DEF WorkerStep, CopyDone
  <2>9. CASE RetryPipeline(w)
    BY <1>3, <2>9 DEF WorkerStep, RetryPipeline
  <2>10. CASE GiveUp(w)
    <3>1. job' \in [Job -> JobState]
      BY <2>10 DEF GiveUp
    <3>2. QED
      BY <2>10, <3>1, ReturnErrorType DEF GiveUp
  <2>11. CASE Finish(w)
    <3>1. CASE ReturnError(w)
      BY <2>11, <3>1, ReturnErrorType DEF Finish
    <3>2. CASE ~ReturnError(w)
      BY <2>11, <3>2 DEF Finish, Drop
    <3>3. QED
      BY <3>1, <3>2
  <2>12. QED
    BY <1>3, <2>1, <2>2, <2>3, <2>4, <2>5, <2>6, <2>7, <2>8, <2>9, <2>10, <2>11
    DEF WorkerStep
<1>4. CASE PoolDone
  BY <1>4 DEF PoolDone
<1>5. CASE AfterData
  BY <1>5 DEF AfterData
<1>6. CASE Cancel
  BY <1>6 DEF Cancel
<1>7. CASE Crash
  BY <1>7, CrashType
<1>8. CASE Resume
  BY <1>8, ResumeType
<1>9. ASSUME NEW t \in Table, ResetTable(t) PROVE TypeOK'
  BY <1>9 DEF ResetTable, Truncated, TableChunks
<1>10. ASSUME NEW j \in Job, ResetJob(j) PROVE TypeOK'
  BY <1>10 DEF ResetJob
<1>11. CASE Replan
  BY <1>11 DEF Replan
<1>12. CASE Scan
  BY <1>12 DEF Scan, ToReset
<1>13. CASE UNCHANGED vars
  BY <1>13 DEF vars
<1>14. QED
  BY <1>1, <1>2, <1>3, <1>4, <1>5, <1>6, <1>7, <1>8, <1>9, <1>10, <1>11, <1>12, <1>13
  DEF Next, ResumeStep

LEMMA JobIsNumber == \A j \in Job : j # NoJob
  BY DEF Job, NoJob

LEMMA StepPlaced == TypeInv /\ [Next]_vars => (WorkersRest /\ TaskHeld /\ TaskPlanned)'
<1> SUFFICES ASSUME TypeInv, [Next]_vars
             PROVE  (WorkersRest /\ TaskHeld /\ TaskPlanned)'
  OBVIOUS
<1> USE DEF TypeInv, TypeOK, WorkersRest, TaskHeld, TaskPlanned, NoJob,
            storeVars, poolVars, workerVars, resetVars
<1>1. CASE StartData
  BY <1>1 DEF StartData
<1>2. CASE StartDataFails
  BY <1>2 DEF StartDataFails
<1>3. ASSUME NEW w \in Worker, WorkerStep(w)
      PROVE  (WorkersRest /\ TaskHeld /\ TaskPlanned)'
  <2>1. CASE Take(w)
    <3>1. CASE queue = {}
      BY <1>3, <2>1, <3>1 DEF WorkerStep, Take
    <3>2. ASSUME NEW j \in queue, queue' = queue \ {j},
                 IF cancelled
                 THEN pc' = [pc EXCEPT ![w] = "exit"] /\ UNCHANGED task
                 ELSE /\ pc' = [pc EXCEPT ![w] = "sem"]
                      /\ task' = [task EXCEPT ![w] = j]
          PROVE  (WorkersRest /\ TaskHeld /\ TaskPlanned)'
      <4>1. j # NoJob
        BY JobIsNumber
      <4>2. CASE cancelled
        BY <1>3, <2>1, <3>2, <4>2 DEF WorkerStep, Take
      <4>3. CASE ~cancelled
        BY <1>3, <2>1, <3>2, <4>1, <4>3 DEF WorkerStep, Take
      <4>4. QED
        BY <4>2, <4>3
    <3>3. QED
      BY <2>1, <3>1, <3>2 DEF Take
  <2>2. CASE ReturnError(w) /\ UNCHANGED <<engine, plan, queue>>
    BY <1>3, <2>2 DEF WorkerStep, ReturnError, Drop
  <2>3. CASE AcquireSlot(w)
    BY <1>3, <2>2, <2>3 DEF WorkerStep, AcquireSlot
  <2>4. CASE Start(w)
    BY <1>3, <2>2, <2>4 DEF WorkerStep, Start
  <2>5. CASE Clean(w) \/ Open(w) \/ CopyRow(w) \/ CopyFails(w) \/ CopyDone(w) \/ RetryPipeline(w)
    BY <1>3, <2>5
    DEF WorkerStep, Clean, Open, CopyRow, CopyFails, CopyDone, RetryPipeline
  <2>6. CASE GiveUp(w)
    BY <2>2, <2>6 DEF GiveUp
  <2>7. CASE Finish(w)
    BY <1>3, <2>2, <2>7 DEF WorkerStep, Finish, Drop
  <2>8. QED
    BY <1>3, <2>1, <2>3, <2>4, <2>5, <2>6, <2>7 DEF WorkerStep
<1>4. CASE PoolDone \/ AfterData \/ Cancel
  BY <1>4 DEF PoolDone, AfterData, Cancel
<1>5. CASE Crash
  BY <1>5 DEF Crash
<1>6. CASE Resume
  BY <1>6 DEF Resume
<1>7. CASE ResumeStep
  BY <1>7 DEF ResumeStep, Scan, ResetTable, ResetJob, Replan
<1>8. CASE UNCHANGED vars
  BY <1>8 DEF vars
<1>9. QED
  BY <1>1, <1>2, <1>3, <1>4, <1>5, <1>6, <1>7, <1>8 DEF Next

LEMMA TypeInvariance == Spec => []TypeInv
<1>1. Init => TypeInv
  BY InitType DEF Init, TypeInv, WorkersRest, TaskHeld, TaskPlanned
<1>2. TypeInv /\ [Next]_vars => TypeInv'
  BY StepType, StepPlaced DEF TypeInv
<1>3. QED
  BY <1>1, <1>2, PTL DEF Spec

(* Every reachable state is well typed, for every plan and any number of    *)
(* workers, jobs and failures.                                              *)
THEOREM TypeCorrect == Spec => []TypeOK
<1>1. TypeInv => TypeOK
  BY DEF TypeInv
<1>2. QED
  BY <1>1, TypeInvariance, PTL

-----------------------------------------------------------------------------
LEMMA StepControl ==
  ASSUME StablePlan, TypeInv, TypeInv', ControlInv, [Next]_vars
  PROVE  ControlInv'
<1>0. DOMAIN plan = Job
  BY DEF StablePlan, TypeInv, TypeOK
<1> USE DEF ControlInv, OneHolder, JobMatchesWorker, Waiting, NoneInDoubt,
            JobTracked, QueueDrained, AllDone, Busy,
            storeVars, poolVars, workerVars, resetVars
<1>1. CASE StartData
  <2>1. \A j \in Job : job[j] \in {"PENDING", "RETRYING", "COMPLETED"}
    BY <1>1 DEF StartData, TypeInv, TypeOK, JobState
  <2>2. \A w \in Worker : task[w] = NoJob
    BY <1>1 DEF StartData, TypeInv, TypeOK, WorkersRest, TaskHeld
  <2>3. CASE Pending = {}
    BY <1>1, <2>1, <2>2, <2>3 DEF StartData, Pending, TypeInv, TypeOK
  <2>4. CASE Pending # {}
    BY <1>0, <1>1, <2>1, <2>2, <2>4 DEF StartData, Pending, TypeInv, TypeOK
  <2>5. QED
    BY <2>3, <2>4
<1>2. CASE StartDataFails
  BY <1>2 DEF StartDataFails
<1>3. ASSUME NEW w \in Worker, WorkerStep(w) PROVE ControlInv'
  <2> USE DEF TypeInv, TypeOK, TaskHeld
  <2>1. CASE Take(w)
    BY <1>3, <2>1, JobIsNumber DEF WorkerStep, Take
  <2>2. CASE ReturnError(w) /\ UNCHANGED <<engine, job, queue, retrying, cancelled>>
    BY <1>3, <2>2 DEF WorkerStep, ReturnError, Drop
  <2>3. CASE AcquireSlot(w)
    BY <1>3, <2>2, <2>3 DEF WorkerStep, AcquireSlot
  <2>4. CASE Start(w)
    BY <1>3, <2>2, <2>4 DEF WorkerStep, Start
  <2>5. CASE Clean(w) \/ Open(w) \/ CopyRow(w) \/ CopyFails(w) \/ CopyDone(w) \/ RetryPipeline(w)
    BY <1>3, <2>5
    DEF WorkerStep, Clean, Open, CopyRow, CopyFails, CopyDone, RetryPipeline
  <2>6. CASE GiveUp(w)
    BY <1>3, <2>2, <2>6 DEF WorkerStep, GiveUp, ReturnError, Drop
  <2>7. CASE Finish(w)
    BY <1>3, <2>2, <2>7 DEF WorkerStep, Finish, Drop
  <2>8. QED
    BY <1>3, <2>1, <2>3, <2>4, <2>5, <2>6, <2>7 DEF WorkerStep
<1>4. CASE PoolDone
  <2>1. \A w \in Worker : task[w] = NoJob
    BY <1>4 DEF PoolDone, TypeInv, TypeOK, TaskHeld
  <2>2. \E w \in Worker : pc[w] = "exit"
    BY <1>4, ConstantsAssumption DEF PoolDone
  <2>3. failed \/ cancelled \/ \A j \in Job : job[j] = "COMPLETED"
    BY <1>4, <2>1, <2>2, JobIsNumber DEF PoolDone
  <2>4. QED
    BY <1>4, <2>3 DEF PoolDone, TypeInv, TypeOK
<1>5. CASE AfterData
  BY <1>5 DEF AfterData
<1>6. CASE Cancel
  BY <1>6 DEF Cancel
<1>7. CASE Crash
  BY <1>7 DEF Crash
<1>8. CASE Resume
  BY <1>8 DEF Resume, Retried, TypeInv, TypeOK, JobState
<1>9. CASE ResumeStep
  BY <1>9 DEF ResumeStep, Scan, ResetTable, ResetJob, Replan, TypeInv, TypeOK
<1>10. CASE UNCHANGED vars
  BY <1>10 DEF vars
<1>11. QED
  BY <1>1, <1>2, <1>3, <1>4, <1>5, <1>6, <1>7, <1>8, <1>9, <1>10 DEF Next

LEMMA ControlInvariance == ASSUME StablePlan PROVE Spec => []ControlInv
<1>1. Init => ControlInv
  BY DEF Init, ControlInv, OneHolder, JobMatchesWorker, NoneInDoubt, JobTracked,
         QueueDrained, AllDone
<1>2. TypeInv /\ TypeInv' /\ ControlInv /\ [Next]_vars => ControlInv'
  BY StepControl
<1>3. QED
  BY <1>1, <1>2, TypeInvariance, PTL DEF Spec

(* When the plan does not change, executeDataMigration and Resume report    *)
(* success only with every data job COMPLETED, whatever was cancelled,      *)
(* killed or failed before, for any number of jobs and workers.             *)
THEOREM NoJobIsLeftBehind == ASSUME StablePlan PROVE Spec => []NoJobLeftBehind
<1>1. ControlInv => NoJobLeftBehind
  BY DEF ControlInv, AllDone, NoJobLeftBehind
<1>2. QED
  BY <1>1, ControlInvariance, PTL

-----------------------------------------------------------------------------
LEMMA PlanFacts ==
  ASSUME StablePlan, TypeInv
  PROVE  /\ DOMAIN plan = Job
         /\ \A j \in Job : \A r \in plan[j] :
              /\ r \in Row /\ r \notin Old
              /\ RowTable[r] = TableOf[j]
              /\ PartOf[j] # NoPartition => RowPart[r] = PartOf[j]
         /\ \A i, j \in Job : \A r \in plan[i] : r \in plan[j] => i = j
<1>1. plan \in Plans
  BY DEF TypeInv, TypeOK
<1>2. DOMAIN plan = Job
  BY <1>1 DEF StablePlan
<1>3. IsPlan(plan)
  BY <1>1, PlansAssumption
<1>4. \A i, j \in Job : \A r \in plan[i] : r \in plan[j] => i = j
  BY <1>2, <1>3 DEF IsPlan
<1>5. QED
  BY <1>2, <1>3, <1>4 DEF IsPlan, Source

LEMMA SamePlan ==
  ASSUME StablePlan, TypeInv, TypeInv'
  PROVE  plan' = plan
  BY DEF StablePlan, TypeInv, TypeOK

LEMMA CleanupRows ==
  ASSUME SeparateTasks, NEW j \in Job, NEW again, NEW r \in Cleanup(j, again)
  PROVE  /\ j \notin Chunked
         /\ r \in Row
         /\ RowTable[r] = TableOf[j]
         /\ PartOf[j] # NoPartition => RowPart[r] = PartOf[j]
<1>1. CASE PartOf[j] # NoPartition
  <2>1. Cleanup(j, again) \subseteq PartRows(TableOf[j], PartOf[j])
    BY <1>1 DEF Cleanup, OwnRows
  <2>2. j \notin Chunked
    BY <1>1 DEF SeparateTasks
  <2>3. QED
    BY <1>1, <2>1, <2>2 DEF PartRows, TableRows
<1>2. CASE PartOf[j] = NoPartition
  <2>1. Cleanup(j, again) \subseteq TableRows(TableOf[j])
    BY <1>2 DEF Cleanup, OwnRows
  <2>2. j \notin Chunked
    BY <1>2 DEF Cleanup, OwnRows
  <2>3. QED
    BY <1>2, <2>1, <2>2 DEF TableRows
<1>3. QED
  BY <1>1, <1>2

(* A cleanup removes no row of another task. *)
LEMMA CleanupOwn ==
  ASSUME StablePlan, SeparateTasks, TypeInv, NEW i \in Job, NEW j \in Job, i # j,
         NEW again
  PROVE  Cleanup(j, again) \cap plan[i] = {}
<1> SUFFICES ASSUME NEW r \in plan[i], r \in Cleanup(j, again) PROVE FALSE
  OBVIOUS
<1>1. /\ RowTable[r] = TableOf[i]
      /\ PartOf[i] # NoPartition => RowPart[r] = PartOf[i]
  BY PlanFacts
<1>2. /\ j \notin Chunked
      /\ RowTable[r] = TableOf[j]
      /\ PartOf[j] # NoPartition => RowPart[r] = PartOf[j]
  BY CleanupRows
<1>3. /\ PartOf[i] # NoPartition /\ PartOf[j] # NoPartition
      /\ PartOf[i] # PartOf[j]
  BY <1>1, <1>2 DEF SeparateTasks
<1>4. QED
  BY <1>1, <1>2, <1>3

(* A repeated task that is not a chunk starts from nothing. *)
LEMMA CleanupAgain ==
  ASSUME StablePlan, TypeInv, NEW j \in Job, j \notin Chunked,
         NEW again, again, NEW r \in plan[j]
  PROVE  r \in Cleanup(j, again)
<1>1. /\ r \in Row /\ RowTable[r] = TableOf[j]
      /\ PartOf[j] # NoPartition => RowPart[r] = PartOf[j]
  BY PlanFacts
<1>2. CASE PartOf[j] # NoPartition
  BY <1>1, <1>2 DEF Cleanup, OwnRows, PartRows, TableRows
<1>3. CASE PartOf[j] = NoPartition
  BY <1>1, <1>3 DEF Cleanup, OwnRows, TableRows
<1>4. QED
  BY <1>2, <1>3

(* What a cleanup removes of the rows that were there before the run is     *)
(* superseded, and it removes all an older load left in the partition.      *)
LEMMA CleanupOld ==
  ASSUME ReplacingModes, SeparateTasks, NEW j \in Job, NEW again, NEW r \in Old
  PROVE  /\ r \in Cleanup(j, again) => Superseded(r)
         /\ Mode[TableOf[j]] = "truncate_partition" /\ RowTable[r] = TableOf[j]
              /\ RowPart[r] = PartOf[j] => r \in Cleanup(j, again)
<1>1. r \in Row /\ TableOf[j] \in Table
  BY ConstantsAssumption
<1>2. Mode[TableOf[j]] \in {"recreate", "truncate", "truncate_partition"}
  BY <1>1, ConstantsAssumption DEF ReplacingModes, Modes
<1>3. Mode[TableOf[j]] = "truncate_partition" => PartOf[j] # NoPartition /\ j \notin Chunked
  BY DEF ReplacingModes, SeparateTasks
<1>4. ASSUME r \in Cleanup(j, again) PROVE Superseded(r)
  <2>1. /\ RowTable[r] = TableOf[j]
        /\ PartOf[j] # NoPartition => RowPart[r] = PartOf[j]
    BY <1>4, CleanupRows
  <2>2. CASE Mode[TableOf[j]] = "truncate_partition"
    BY <1>3, <2>1, <2>2 DEF Superseded
  <2>3. CASE Mode[TableOf[j]] # "truncate_partition"
    BY <1>2, <2>1, <2>3 DEF Superseded
  <2>4. QED
    BY <2>2, <2>3
<1>5. ASSUME Mode[TableOf[j]] = "truncate_partition", RowTable[r] = TableOf[j],
             RowPart[r] = PartOf[j]
      PROVE  r \in Cleanup(j, again)
  BY <1>1, <1>3, <1>5 DEF Cleanup, OwnRows, TableRows, PartRows
<1>6. QED
  BY <1>4, <1>5

-----------------------------------------------------------------------------
(* A step that leaves the rows of job j alone and adds no old row keeps     *)
(* what is known of them.                                                   *)
LEMMA RowsKept ==
  ASSUME plan' = plan, NEW j \in Job,
         \A r \in plan[j] : db'[r] = db[r],
         \A r \in Old : db[r] = 0 => db'[r] = 0
  PROVE  /\ Blank(j) => Blank(j)'
         /\ Good(j) => Good(j)'
         /\ Clear(j) => Clear(j)'
  BY DEF Blank, Good, Exact, Clear

(* A truncation empties what it truncates and leaves the rest alone. *)
LEMMA TruncatedRows ==
  ASSUME TypeInv, NEW R, db' = Truncated(R), NEW r \in Row
  PROVE  /\ r \in R => db'[r] = 0
         /\ r \notin R => db'[r] = db[r]
         /\ db[r] = 0 => db'[r] = 0
  BY DEF Truncated, TypeInv, TypeOK

(* Worker steps that change no row: what they say of their own task. *)
LEMMA QuietStep ==
  ASSUME TypeInv, TypeInv', RowInv, NEW w \in Worker, engine = "pool",
         UNCHANGED <<engine, plan, db, retrying, cancelled, resetTables, resetJobs>>,
         \A v \in Worker \ {w} : /\ pc'[v] = pc[v] /\ task'[v] = task[v]
                                /\ attempt'[v] = attempt[v] /\ todo'[v] = todo[v],
         \A j \in Job : \/ job'[j] = job[j]
                        \/ job'[j] \in {"RUNNING", "FAILED"}
                        \/ job'[j] = "COMPLETED" /\ Good(j),
         CopyProgress(w)'
  PROVE  RowInv'
<1>1. \A j \in Job : /\ Blank(j) => Blank(j)'
                     /\ Good(j) => Good(j)'
                     /\ Clear(j) => Clear(j)'
  BY DEF Blank, Good, Exact, Clear
<1>2. OldRows'
  BY DEF RowInv, OldRows, Superseded
<1>3. PendingBlank'
  BY <1>1 DEF RowInv, PendingBlank
<1>4. CompletedGood'
  BY <1>1 DEF RowInv, CompletedGood
<1>5. RetriedChunkBlank'
  BY <1>1, ConstantsAssumption DEF RowInv, RetriedChunkBlank
<1>6. ASSUME NEW v \in Worker, v # w PROVE CopyProgress(v)'
  <2>1. CopyProgress(v)
    BY DEF RowInv
  <2>2. /\ pc'[v] = pc[v] /\ task'[v] = task[v]
        /\ attempt'[v] = attempt[v] /\ todo'[v] = todo[v]
    BY <1>6
  <2>3. QED
    BY <2>1, <2>2 DEF CopyProgress, Blank, Good, Exact, Clear
<1>7. LostOnlyIfRestarting' /\ ResetTarget' /\ ResetProgress'
  BY DEF LostOnlyIfRestarting, ResetTarget, ResetProgress
<1>8. QED
  BY <1>2, <1>3, <1>4, <1>5, <1>6, <1>7 DEF RowInv

(* A step that leaves worker v and the rows of its task alone. *)
LEMMA OtherTask ==
  ASSUME NEW v \in Worker, CopyProgress(v),
         UNCHANGED <<plan, retrying, cancelled>>,
         /\ pc'[v] = pc[v] /\ task'[v] = task[v]
         /\ attempt'[v] = attempt[v] /\ todo'[v] = todo[v],
         \A r \in plan[task[v]] : db'[r] = db[r],
         \A r \in Old : db[r] = 0 => db'[r] = 0
  PROVE  CopyProgress(v)'
<1>1. CASE pc[v] = "clean"
  BY <1>1 DEF CopyProgress, Blank
<1>2. CASE pc[v] = "open"
  BY <1>2 DEF CopyProgress, Blank, Clear
<1>3. CASE pc[v] = "copy"
  BY <1>3 DEF CopyProgress, Clear
<1>4. CASE pc[v] = "finish"
  BY <1>4 DEF CopyProgress, Good, Exact, Clear
<1>5. CASE pc[v] \notin {"clean", "open", "copy", "finish"}
  BY <1>5 DEF CopyProgress
<1>6. QED
  BY <1>1, <1>2, <1>3, <1>4, <1>5

LEMMA CleanRows ==
  ASSUME StablePlan, SeparateTasks, ReplacingModes, CleanupSucceeds,
         TypeInv, TypeInv', ControlInv, RowInv,
         NEW w \in Worker, engine = "pool", Clean(w)
  PROVE  RowInv'
<1> DEFINE j == task[w]
           again == attempt[w] > 0 \/ j \in retrying
<1>1. j \in Job /\ job[j] = "RUNNING"
  BY DEF Clean, TypeInv, TypeOK, TaskHeld, ControlInv, JobMatchesWorker, Busy
<1>2. \A v \in Worker : v # w => task[v] # j
  BY <1>1, JobIsNumber DEF ControlInv, OneHolder
<1>3. /\ pc[w] = "clean" /\ pc'[w] = "open"
      /\ \A v \in Worker : v # w => pc'[v] = pc[v]
      /\ UNCHANGED <<engine, job, plan, retrying, task, attempt, todo, cancelled, resetTables, resetJobs>>
  BY DEF Clean, poolVars, resetVars, TypeInv, TypeOK
<1>4. CASE cancelled
  <2>1. UNCHANGED db
    BY <1>4 DEF Clean, OpFails, Fault, CleanupSucceeds
  <2>2. CopyProgress(w)'
    BY <1>3, <1>4 DEF CopyProgress
  <2>3. QED
    BY <1>3, <2>1, <2>2, QuietStep
<1>5. CASE ~cancelled
  <2>1. db' = Truncated(Cleanup(j, again))
    BY <1>5 DEF Clean, OpFails, Fault, CleanupSucceeds
  <2> HIDE DEF again
  <2>2. \A r \in Row : /\ r \in Cleanup(j, again) => db'[r] = 0
                       /\ r \notin Cleanup(j, again) => db'[r] = db[r]
                       /\ db[r] = 0 => db'[r] = 0
    BY <2>1, TruncatedRows
  <2>3. \A r \in Old : r \in Row
    BY ConstantsAssumption
  <2>4. \A i \in Job : \A r \in plan[i] : r \in Row
    BY PlanFacts
  <2>5. ASSUME NEW i \in Job, i # j
        PROVE  /\ Blank(i) => Blank(i)'
               /\ Good(i) => Good(i)'
               /\ Clear(i) => Clear(i)'
               /\ \A r \in plan[i] : db'[r] = db[r]
    <3>1. \A r \in plan[i] : r \notin Cleanup(j, again)
      BY <1>1, <2>5, CleanupOwn
    <3>2. \A r \in plan[i] : db'[r] = db[r]
      BY <2>2, <2>4, <3>1
    <3>3. \A r \in Old : db[r] = 0 => db'[r] = 0
      BY <2>2, <2>3
    <3>4. QED
      BY <1>3, <3>2, <3>3, RowsKept
  <2>6. OldRows'
    <3>1. \A r \in Old : r \in Cleanup(j, again) => Superseded(r)
      BY <1>1, CleanupOld
    <3>2. QED
      BY <2>2, <2>3, <3>1 DEF RowInv, OldRows, Superseded
  <2>7. Clear(j)'
    <3>1. \A r \in Old : Mode[TableOf[j]] = "truncate_partition" /\ RowTable[r] = TableOf[j]
              /\ RowPart[r] = PartOf[j] => r \in Cleanup(j, again)
      BY <1>1, CleanupOld
    <3>2. QED
      BY <1>3, <2>2, <2>3, <3>1 DEF Clear
  <2>8. Blank(j)'
    <3>1. CASE Blank(j)
      BY <1>1, <1>3, <2>2, <2>4, <3>1 DEF Blank
    <3>2. CASE ~Blank(j)
      <4>1. j \notin Chunked /\ again
        BY <1>3, <3>2 DEF RowInv, CopyProgress, TypeInv, TypeOK, again
      <4>2. \A r \in plan[j] : r \in Cleanup(j, again)
        BY <1>1, <4>1, CleanupAgain
      <4>3. QED
        BY <1>1, <1>3, <2>2, <2>4, <4>2 DEF Blank
    <3>3. QED
      BY <3>1, <3>2
  <2>9. CopyProgress(w)'
    BY <1>3, <2>7, <2>8 DEF CopyProgress, Blank, Clear
  <2>10. ASSUME NEW v \in Worker, v # w PROVE CopyProgress(v)'
    <3>1. CopyProgress(v)
      BY DEF RowInv
    <3>2. CASE pc[v] \in {"clean", "open", "copy", "finish"}
      <4>1. task[v] \in Job /\ task[v] # j
        BY <1>2, <2>10, <3>2 DEF TypeInv, TypeOK, TaskHeld
      <4>2. \A r \in plan[task[v]] : db'[r] = db[r]
        BY <2>5, <4>1
      <4>3. QED
        BY <1>3, <2>2, <2>3, <2>10, <3>1, <4>2, OtherTask
    <3>3. CASE pc[v] \notin {"clean", "open", "copy", "finish"}
      BY <1>3, <2>10, <3>3 DEF CopyProgress
    <3>4. QED
      BY <3>2, <3>3
  <2>11. PendingBlank' /\ CompletedGood' /\ RetriedChunkBlank'
    <3>1. Chunked \subseteq Job
      BY ConstantsAssumption
    <3>2. QED
      BY <1>1, <1>3, <2>5, <3>1 DEF RowInv, PendingBlank, CompletedGood, RetriedChunkBlank
  <2>12. LostOnlyIfRestarting' /\ ResetTarget' /\ ResetProgress'
    BY <1>3 DEF LostOnlyIfRestarting, ResetTarget, ResetProgress
  <2>13. QED
    BY <2>6, <2>9, <2>10, <2>11, <2>12 DEF RowInv
<1>6. QED
  BY <1>4, <1>5

LEMMA CopyRowRows ==
  ASSUME StablePlan, TypeInv, TypeInv', ControlInv, RowInv,
         NEW w \in Worker, engine = "pool", CopyRow(w)
  PROVE  RowInv'
<1> DEFINE j == task[w]
<1>1. j \in Job /\ job[j] = "RUNNING"
  BY DEF CopyRow, TypeInv, TypeOK, TaskHeld, ControlInv, JobMatchesWorker, Busy
<1>2. \A v \in Worker : v # w => task[v] # j
  BY <1>1, JobIsNumber DEF ControlInv, OneHolder
<1>3. PICK r \in todo[w] : /\ db' = [db EXCEPT ![r] = @ + 1]
                           /\ todo' = [todo EXCEPT ![w] = @ \ {r}]
  BY DEF CopyRow
<1>4. /\ pc[w] = "copy"
      /\ UNCHANGED <<engine, job, plan, retrying, pc, task, attempt, cancelled, resetTables, resetJobs>>
  BY DEF CopyRow, poolVars, resetVars
<1>5. CopyProgress(w)
  BY DEF RowInv
<1>6. r \in plan[j] /\ db[r] = 0 /\ r \in Row /\ r \notin Old
  BY <1>1, <1>4, <1>5, PlanFacts DEF CopyProgress
<1>7. \A s \in Row : db'[s] = IF s = r THEN 1 ELSE db[s]
  BY <1>3, <1>6 DEF TypeInv, TypeOK
<1>8. \A s \in Old : db'[s] = db[s]
  BY <1>6, <1>7, ConstantsAssumption
<1>9. ASSUME NEW i \in Job, i # j
      PROVE  /\ Blank(i) => Blank(i)'
             /\ Good(i) => Good(i)'
             /\ Clear(i) => Clear(i)'
             /\ \A s \in plan[i] : db'[s] = db[s]
  <2>1. \A s \in plan[i] : s \in Row /\ s # r
    BY <1>1, <1>6, <1>9, PlanFacts
  <2>2. \A s \in plan[i] : db'[s] = db[s]
    BY <1>7, <2>1
  <2>3. QED
    BY <1>4, <1>8, <2>2, RowsKept
<1>10. OldRows'
  BY <1>8 DEF RowInv, OldRows, Superseded
<1>11. CopyProgress(w)'
  <2>1. Clear(j)'
    BY <1>4, <1>5, <1>8 DEF CopyProgress, Clear
  <2>2. \A s \in plan[j] : s \in Row
    BY <1>1, PlanFacts
  <2>3. todo'[w] = todo[w] \ {r}
    BY <1>3 DEF TypeInv, TypeOK
  <2>4. /\ todo'[w] \subseteq plan[j]
        /\ \A s \in todo'[w] : db'[s] = 0
        /\ \A s \in plan[j] \ todo'[w] : db'[s] = 1
    BY <1>4, <1>5, <1>7, <2>2, <2>3 DEF CopyProgress
  <2>5. QED
    BY <1>4, <2>1, <2>4 DEF CopyProgress, Clear
<1>12. ASSUME NEW v \in Worker, v # w PROVE CopyProgress(v)'
  <2>1. CopyProgress(v) /\ todo'[v] = todo[v]
    BY <1>3, <1>12 DEF RowInv, TypeInv, TypeOK
  <2>2. CASE pc[v] \in {"clean", "open", "copy", "finish"}
    <3>1. task[v] \in Job /\ task[v] # j
      BY <1>2, <1>12, <2>2 DEF TypeInv, TypeOK, TaskHeld
    <3>2. \A s \in plan[task[v]] : db'[s] = db[s]
      BY <1>9, <3>1
    <3>3. QED
      BY <1>4, <1>8, <2>1, <3>2, OtherTask
  <2>3. CASE pc[v] \notin {"clean", "open", "copy", "finish"}
    BY <1>4, <2>3 DEF CopyProgress
  <2>4. QED
    BY <2>2, <2>3
<1>13. PendingBlank' /\ CompletedGood' /\ RetriedChunkBlank'
  <2>1. Chunked \subseteq Job
    BY ConstantsAssumption
  <2>2. QED
    BY <1>1, <1>4, <1>9, <2>1 DEF RowInv, PendingBlank, CompletedGood, RetriedChunkBlank
<1>14. LostOnlyIfRestarting' /\ ResetTarget' /\ ResetProgress'
  BY <1>4 DEF LostOnlyIfRestarting, ResetTarget, ResetProgress
<1>15. QED
  BY <1>10, <1>11, <1>12, <1>13, <1>14 DEF RowInv

LEMMA WorkerRows ==
  ASSUME StablePlan, SeparateTasks, ReplacingModes, CleanupSucceeds,
         TypeInv, TypeInv', ControlInv, RowInv,
         NEW w \in Worker, WorkerStep(w)
  PROVE  RowInv'
<1> USE DEF storeVars, poolVars, resetVars
<1>0. engine = "pool" /\ CopyProgress(w) /\ w \in Worker
  BY DEF WorkerStep, RowInv
<1>1. CASE Take(w)
  <2>1. pc'[w] \in {"exit", "sem"}
    BY <1>0, <1>1 DEF Take, TypeInv, TypeOK
  <2>2. CopyProgress(w)'
    BY <2>1 DEF CopyProgress
  <2>3. \A v \in Worker \ {w} : pc'[v] = pc[v] /\ task'[v] = task[v]
    BY <1>0, <1>1 DEF Take, TypeInv, TypeOK
  <2>4. QED
    BY <1>0, <1>1, <2>2, <2>3, QuietStep DEF Take
<1>2. ASSUME ReturnError(w), UNCHANGED <<engine, plan, db, retrying, cancelled, resetTables, resetJobs>>,
             \A j \in Job : \/ job'[j] = job[j]
                            \/ job'[j] \in {"RUNNING", "FAILED"}
      PROVE  RowInv'
  <2>1. pc'[w] \in {"exit", "idle"}
    BY <1>2 DEF ReturnError, TypeInv, TypeOK
  <2>2. CopyProgress(w)'
    BY <2>1 DEF CopyProgress
  <2>3. \A v \in Worker \ {w} : /\ pc'[v] = pc[v] /\ task'[v] = task[v]
                                /\ attempt'[v] = attempt[v] /\ todo'[v] = todo[v]
    BY <1>2 DEF ReturnError, Drop, TypeInv, TypeOK
  <2>4. QED
    BY <1>0, <1>2, <2>2, <2>3, QuietStep
<1>3. CASE AcquireSlot(w)
  <2>1. CASE ReturnError(w)
    BY <1>2, <1>3, <2>1 DEF AcquireSlot
  <2>2. CASE ~ReturnError(w)
    <3>1. /\ pc'[w] = "start" /\ UNCHANGED <<task, attempt, todo>>
          /\ \A v \in Worker \ {w} : pc'[v] = pc[v]
      BY <1>3, <2>2 DEF AcquireSlot, TypeInv, TypeOK
    <3>2. CopyProgress(w)'
      BY <3>1 DEF CopyProgress
    <3>3. QED
      BY <1>0, <1>3, <3>1, <3>2, QuietStep DEF AcquireSlot
  <2>3. QED
    BY <2>1, <2>2
<1>4. CASE Start(w)
  <2>1. CASE ReturnError(w)
    <3>1. /\ \A j \in Job : job'[j] = job[j] \/ job'[j] = "RUNNING"
          /\ UNCHANGED <<engine, plan, db, retrying, cancelled, resetTables, resetJobs>>
      BY <1>4 DEF Start, TypeInv, TypeOK
    <3>2. QED
      BY <1>2, <2>1, <3>1
  <2>2. CASE ~ReturnError(w)
    <3>1. /\ pc[w] = "start" /\ pc'[w] = "clean"
          /\ UNCHANGED <<engine, plan, db, retrying, cancelled, resetTables, resetJobs, task, attempt, todo>>
          /\ \A v \in Worker \ {w} : pc'[v] = pc[v]
          /\ \A j \in Job : job'[j] = job[j] \/ job'[j] = "RUNNING"
      BY <1>4, <2>2 DEF Start, TypeInv, TypeOK
    <3>2. task[w] \in Job /\ Waiting(task[w])
      BY <1>0, <3>1 DEF TypeInv, TypeOK, TaskHeld, ControlInv, JobMatchesWorker
    <3>3. task[w] \in Chunked \/ task[w] \notin retrying => Blank(task[w])
      BY <1>0, <3>2 DEF Waiting, RowInv, PendingBlank, RetriedChunkBlank
    <3>4. CopyProgress(w)'
      BY <3>1, <3>3 DEF CopyProgress, Blank
    <3>5. QED
      BY <1>0, <3>1, <3>4, QuietStep
  <2>3. QED
    BY <2>1, <2>2
<1>5. CASE Clean(w)
  BY <1>0, <1>5, CleanRows
<1>6. CASE Open(w)
  <2>1. /\ pc[w] = "open" /\ ~cancelled /\ pc'[w] = "copy" /\ todo'[w] = plan[task[w]]
        /\ UNCHANGED <<engine, job, plan, db, retrying, cancelled, resetTables, resetJobs, task, attempt>>
        /\ \A v \in Worker \ {w} : pc'[v] = pc[v] /\ todo'[v] = todo[v]
    BY <1>6 DEF Open, TypeInv, TypeOK
  <2>2. Blank(task[w]) /\ Clear(task[w])
    BY <1>0, <2>1 DEF CopyProgress
  <2>3. CopyProgress(w)'
    BY <2>1, <2>2 DEF CopyProgress, Blank, Clear
  <2>4. QED
    BY <1>0, <2>1, <2>3, QuietStep
<1>7. CASE CopyRow(w)
  BY <1>0, <1>7, CopyRowRows
<1>8. CASE CopyFails(w)
  <2>1. /\ pc'[w] = "retry"
        /\ UNCHANGED <<engine, job, plan, db, retrying, cancelled, resetTables, resetJobs, task, attempt>>
        /\ \A v \in Worker \ {w} : pc'[v] = pc[v] /\ todo'[v] = todo[v]
    BY <1>8 DEF CopyFails, TypeInv, TypeOK
  <2>2. CopyProgress(w)'
    BY <2>1 DEF CopyProgress
  <2>3. QED
    BY <1>0, <2>1, <2>2, QuietStep
<1>9. CASE CopyDone(w)
  <2>1. /\ pc[w] = "copy" /\ todo[w] = {} /\ pc'[w] = "finish"
        /\ UNCHANGED <<engine, job, plan, db, retrying, cancelled, resetTables, resetJobs, task, attempt, todo>>
        /\ \A v \in Worker \ {w} : pc'[v] = pc[v]
    BY <1>9 DEF CopyDone, TypeInv, TypeOK
  <2>2. Good(task[w])
    BY <1>0, <2>1 DEF CopyProgress, Good, Exact
  <2>3. CopyProgress(w)'
    BY <2>1, <2>2 DEF CopyProgress, Good, Exact, Clear
  <2>4. QED
    BY <1>0, <2>1, <2>3, QuietStep
<1>10. CASE RetryPipeline(w)
  <2>1. /\ pc'[w] = "clean" /\ attempt'[w] = attempt[w] + 1 /\ attempt[w] < RetriesOf(task[w])
        /\ UNCHANGED <<engine, job, plan, db, retrying, cancelled, resetTables, resetJobs, task, todo>>
        /\ \A v \in Worker \ {w} : pc'[v] = pc[v] /\ attempt'[v] = attempt[v]
    BY <1>10 DEF RetryPipeline, TypeInv, TypeOK
  <2>2. task[w] \notin Chunked /\ attempt'[w] # 0
    BY <2>1 DEF RetriesOf, TypeInv, TypeOK
  <2>3. CopyProgress(w)'
    BY <2>1, <2>2 DEF CopyProgress
  <2>4. QED
    BY <1>0, <2>1, <2>3, QuietStep
<1>11. CASE GiveUp(w)
  <2>1. \A j \in Job : job'[j] = job[j] \/ job'[j] = "FAILED"
    BY <1>11 DEF GiveUp, TypeInv, TypeOK
  <2>2. QED
    BY <1>2, <1>11, <2>1 DEF GiveUp
<1>12. CASE Finish(w)
  <2>1. CASE ReturnError(w) /\ UNCHANGED job
    BY <1>2, <1>12, <2>1 DEF Finish
  <2>2. CASE ~(ReturnError(w) /\ UNCHANGED job)
    <3>1. /\ pc[w] = "finish" /\ pc'[w] = "idle"
          /\ job' = [job EXCEPT ![task[w]] = "COMPLETED"]
          /\ UNCHANGED <<engine, plan, db, retrying, cancelled, resetTables, resetJobs>>
      BY <1>12, <2>2 DEF Finish, TypeInv, TypeOK
    <3>2. \A v \in Worker \ {w} : /\ pc'[v] = pc[v] /\ task'[v] = task[v]
                                  /\ attempt'[v] = attempt[v] /\ todo'[v] = todo[v]
      BY <1>12, <2>2 DEF Finish, Drop, TypeInv, TypeOK
    <3>3. Good(task[w])
      BY <1>0, <3>1 DEF CopyProgress
    <3>4. \A j \in Job : job'[j] = job[j] \/ (job'[j] = "COMPLETED" /\ Good(j))
      BY <3>1, <3>3 DEF TypeInv, TypeOK
    <3>5. CopyProgress(w)'
      BY <3>1 DEF CopyProgress
    <3>6. QED
      BY <1>0, <3>1, <3>2, <3>4, <3>5, QuietStep
  <2>3. QED
    BY <2>1, <2>2
<1>13. QED
  BY <1>1, <1>3, <1>4, <1>5, <1>6, <1>7, <1>8, <1>9, <1>10, <1>11, <1>12 DEF WorkerStep

LEMMA ResetTableRows ==
  ASSUME StablePlan, SeparateTasks, ReplacingModes, CleanupSucceeds,
         TypeInv, TypeInv', ControlInv, RowInv,
         NEW t \in Table, ResetTable(t)
  PROVE  RowInv'
<1>1. /\ engine = "reset" /\ engine' = "reset" /\ t \in resetTables /\ resetJobs = {}
      /\ resetTables' = resetTables \ {t}
      /\ UNCHANGED <<job, plan, retrying, pc, task, attempt, todo, cancelled>>
  BY DEF ResetTable, poolVars, workerVars
<1>2. \A w \in Worker : CopyProgress(w)'
  BY <1>1 DEF TypeInv, WorkersRest, CopyProgress
<1>3. CompletedGood' /\ RetriedChunkBlank'
  BY <1>1 DEF CompletedGood, RetriedChunkBlank
<1>4. CASE cancelled
  <2>1. UNCHANGED <<db, resetJobs>>
    BY <1>4 DEF ResetTable, OpFails, Fault, CleanupSucceeds
  <2>2. \A j \in Job : (Blank(j) => Blank(j)') /\ (Good(j) => Good(j)')
    BY <1>1, <2>1 DEF Blank, Good, Exact, Clear
  <2>3. OldRows' /\ PendingBlank'
    BY <1>1, <2>1, <2>2 DEF RowInv, OldRows, Superseded, PendingBlank
  <2>4. LostOnlyIfRestarting'
    BY <1>1, <2>2 DEF RowInv, LostOnlyIfRestarting, Unsettled
  <2>5. ResetTarget' /\ ResetProgress'
    BY <1>1, <1>4, <2>1 DEF RowInv, ResetTarget, ResetProgress
  <2>6. QED
    BY <1>2, <1>3, <2>3, <2>4, <2>5 DEF RowInv
<1>5. CASE ~cancelled
  <2>1. db' = Truncated(TableRows(t)) /\ resetJobs' = TableChunks(t)
    BY <1>5 DEF ResetTable, OpFails, Fault, CleanupSucceeds
  <2>2. \A r \in Row : /\ RowTable[r] = t => db'[r] = 0
                       /\ RowTable[r] # t => db'[r] = db[r]
                       /\ db[r] = 0 => db'[r] = 0
    <3>1. \A r \in Row : r \in TableRows(t) <=> RowTable[r] = t
      BY DEF TableRows
    <3>2. QED
      BY <2>1, <3>1, TruncatedRows
  <2>3. \A r \in Old : r \in Row
    BY ConstantsAssumption
  <2>4. PICK k \in TableChunks(t) : job[k] = "RETRYING"
    BY <1>1 DEF RowInv, ResetTarget
  <2>5. k \in Job /\ k \in Chunked /\ TableOf[k] = t /\ PartOf[k] = NoPartition
    BY <2>4, ConstantsAssumption DEF TableChunks
  <2>6. Mode[t] \in {"recreate", "truncate"}
    BY <2>5, ConstantsAssumption DEF ReplacingModes, Modes
  <2>7. OldRows'
    BY <2>2, <2>3, <2>6 DEF RowInv, OldRows, Superseded
  <2>8. \A j \in Job : \A r \in plan[j] : r \in Row /\ RowTable[r] = TableOf[j]
    BY PlanFacts
  <2>9. \A j \in Job : Blank(j) => Blank(j)'
    BY <1>1, <2>2, <2>8 DEF Blank
  <2>10. ASSUME NEW j \in Job, TableOf[j] # t PROVE Good(j) => Good(j)'
    BY <1>1, <2>2, <2>3, <2>8, <2>10 DEF Good, Exact, Clear
  <2>11. PendingBlank'
    BY <1>1, <2>9 DEF RowInv, PendingBlank
  <2>12. ASSUME NEW j \in Job, job[j] = "COMPLETED"
         PROVE  \/ Good(j)'
                \/ j \in Chunked /\ \E i \in TableChunks(TableOf[j]) : Unsettled(i)'
    <3>1. CASE TableOf[j] = t
      <4>1. j # k
        BY <2>4, <2>12
      <4>2. j \in Chunked
        BY <2>5, <3>1, <4>1 DEF SeparateTasks
      <4>3. Unsettled(k)'
        BY <1>1, <2>4 DEF Unsettled
      <4>4. QED
        BY <2>4, <3>1, <4>2, <4>3
    <3>2. CASE TableOf[j] # t
      BY <1>1, <2>10, <2>12, <3>2 DEF RowInv, LostOnlyIfRestarting, Unsettled
    <3>3. QED
      BY <3>1, <3>2
  <2>13. LostOnlyIfRestarting'
    BY <1>1, <2>12 DEF LostOnlyIfRestarting
  <2>14. ResetTarget'
    <3>1. \A j \in resetJobs' : j \in Chunked /\ TableOf[j] = t
      BY <2>1 DEF TableChunks
    <3>2. \A u \in resetTables' : \E i \in TableChunks(u) : job[i] = "RETRYING"
      BY <1>1 DEF RowInv, ResetTarget
    <3>3. QED
      BY <1>1, <2>4, <3>1, <3>2 DEF ResetTarget
  <2>15. ResetProgress'
    <3>1. ASSUME NEW i \in Chunked, job[i] = "RETRYING"
          PROVE  \/ TableOf[i] \in resetTables'
                 \/ \A j \in TableChunks(TableOf[i]) :
                      Blank(j)' /\ (job[j] = "RETRYING" \/ j \in resetJobs')
      <4>1. \A j \in TableChunks(TableOf[i]) : j \in Job /\ TableOf[j] = TableOf[i]
        BY ConstantsAssumption DEF TableChunks
      <4>2. CASE TableOf[i] = t
        <5>1. \A j \in TableChunks(t) : Blank(j)'
          BY <1>1, <2>2, <2>8, <4>1, <4>2 DEF Blank
        <5>2. QED
          BY <2>1, <4>2, <5>1
      <4>3. CASE TableOf[i] # t
        <5>1. \/ TableOf[i] \in resetTables
              \/ \A j \in TableChunks(TableOf[i]) : Blank(j) /\ job[j] = "RETRYING"
          BY <1>1, <1>5, <3>1 DEF RowInv, ResetProgress
        <5>2. QED
          BY <1>1, <2>9, <4>1, <4>3, <5>1
      <4>4. QED
        BY <4>2, <4>3
    <3>2. QED
      BY <1>1, <3>1 DEF ResetProgress
  <2>16. QED
    BY <1>2, <1>3, <2>7, <2>11, <2>13, <2>14, <2>15 DEF RowInv
<1>6. QED
  BY <1>4, <1>5

LEMMA ResetJobRows ==
  ASSUME StablePlan, SeparateTasks, CleanupSucceeds,
         TypeInv, TypeInv', RowInv,
         NEW k \in Job, ResetJob(k)
  PROVE  RowInv'
<1>1. /\ engine = "reset" /\ engine' = "reset" /\ k \in resetJobs
      /\ resetJobs' = resetJobs \ {k}
      /\ UNCHANGED <<db, plan, retrying, pc, task, attempt, todo, cancelled, resetTables>>
  BY DEF ResetJob, poolVars, workerVars
<1>2. \A w \in Worker : CopyProgress(w)'
  BY <1>1 DEF TypeInv, WorkersRest, CopyProgress
<1>3. CompletedGood' /\ RetriedChunkBlank'
  BY <1>1 DEF CompletedGood, RetriedChunkBlank
<1>4. \A j \in Job : \/ job'[j] = job[j] /\ j # k
                     \/ job'[j] = "RETRYING"
                     \/ job'[j] = job[j] /\ cancelled
  BY DEF ResetJob, OpFails, Fault, CleanupSucceeds, TypeInv, TypeOK
<1>5. \A j \in Job : (Blank(j) => Blank(j)') /\ (Good(j) => Good(j)')
  BY <1>1 DEF Blank, Good, Exact, Clear
<1>6. OldRows' /\ PendingBlank'
  BY <1>1, <1>4, <1>5 DEF RowInv, OldRows, Superseded, PendingBlank
<1>7. \A t : \A j \in TableChunks(t) : j \in Job /\ j \in Chunked /\ TableOf[j] = t
  BY ConstantsAssumption DEF TableChunks
<1>8. LostOnlyIfRestarting'
  <2>1. \A j \in Job : Unsettled(j) => Unsettled(j)'
    BY <1>4 DEF Unsettled
  <2>2. \A j \in Job : job'[j] = "COMPLETED" => job[j] = "COMPLETED"
    BY <1>4
  <2>3. QED
    BY <1>1, <1>5, <1>7, <2>1, <2>2 DEF RowInv, LostOnlyIfRestarting
<1>9. ResetTarget'
  BY <1>1, <1>4, <1>7 DEF RowInv, ResetTarget
<1>10. ASSUME ~cancelled, NEW i \in Chunked, job'[i] = "RETRYING"
       PROVE  \/ TableOf[i] \in resetTables
              \/ \A j \in TableChunks(TableOf[i]) :
                   Blank(j)' /\ (job'[j] = "RETRYING" \/ j \in resetJobs')
  <2>1. PICK h \in Chunked : TableOf[h] = TableOf[i] /\ job[h] = "RETRYING"
    <3>1. CASE i = k
      BY <1>1, <1>7, <3>1 DEF RowInv, ResetTarget
    <3>2. CASE i # k
      BY <1>4, <1>10, <3>2, ConstantsAssumption
         DEF ResetJob, TypeInv, TypeOK, OpFails, Fault, CleanupSucceeds
    <3>3. QED
      BY <3>1, <3>2
  <2>2. \/ TableOf[i] \in resetTables
        \/ \A j \in TableChunks(TableOf[i]) : Blank(j) /\ (job[j] = "RETRYING" \/ j \in resetJobs)
    BY <1>1, <1>10, <2>1 DEF RowInv, ResetProgress
  <2>3. \A j \in TableChunks(TableOf[i]) :
          job[j] = "RETRYING" \/ j \in resetJobs => job'[j] = "RETRYING" \/ j \in resetJobs'
    BY <1>1, <1>4, <1>7, <1>10
  <2>4. QED
    BY <1>5, <1>7, <2>2, <2>3
<1>11. ResetProgress'
  BY <1>1, <1>10 DEF ResetProgress
<1>12. QED
  BY <1>2, <1>3, <1>6, <1>8, <1>9, <1>11 DEF RowInv

LEMMA ResumeRows ==
  ASSUME TypeInv, TypeInv', RowInv, Resume
  PROVE  RowInv'
<1>1. /\ engine \in {"down", "failed", "succeeded"} /\ engine' = "scan"
      /\ UNCHANGED <<db, plan, retrying, pc, task, attempt, todo>>
  BY DEF Resume, poolVars, workerVars
<1>2. \A j \in Job : job'[j] = IF job[j] \in {"FAILED", "RUNNING"} THEN "RETRYING" ELSE job[j]
  BY DEF Resume, Retried
<1>3. \A w \in Worker : CopyProgress(w)'
  BY <1>1 DEF TypeInv, WorkersRest, CopyProgress
<1>4. CompletedGood' /\ RetriedChunkBlank'
  BY <1>1 DEF CompletedGood, RetriedChunkBlank
<1>5. \A j \in Job : (Blank(j) => Blank(j)') /\ (Good(j) => Good(j)')
  BY <1>1 DEF Blank, Good, Exact, Clear
<1>6. OldRows' /\ PendingBlank'
  BY <1>1, <1>2, <1>5 DEF RowInv, OldRows, Superseded, PendingBlank
<1>7. LostOnlyIfRestarting'
  <2>1. \A j \in Job : Unsettled(j) => Unsettled(j)'
    BY <1>2 DEF Unsettled
  <2>2. \A j \in Job : job'[j] = "COMPLETED" => job[j] = "COMPLETED"
    BY <1>2
  <2>3. \A t : \A j \in TableChunks(t) : j \in Job
    BY ConstantsAssumption DEF TableChunks
  <2>4. QED
    BY <1>1, <1>5, <2>1, <2>2, <2>3 DEF RowInv, LostOnlyIfRestarting, CompletedGood
<1>8. ResetTarget' /\ ResetProgress'
  BY <1>1 DEF ResetTarget, ResetProgress
<1>9. QED
  BY <1>3, <1>4, <1>6, <1>7, <1>8 DEF RowInv

(* A scan that succeeds finds the table of every chunk to retry. *)
LEMMA ScanRows ==
  ASSUME SeparateTasks, CleanupSucceeds, TypeInv, TypeInv', RowInv, Scan
  PROVE  RowInv'
<1>1. /\ engine = "scan" /\ engine' = "reset" /\ resetJobs' = {}
      /\ \/ ~cancelled /\ resetTables' = ToReset
         \/ cancelled /\ resetTables' = {}
      /\ UNCHANGED <<job, db, plan, retrying, pc, task, attempt, todo, cancelled>>
  BY DEF Scan, storeVars, poolVars, workerVars, OpFails, Fault, CleanupSucceeds
<1>2. \A w \in Worker : CopyProgress(w)'
  BY <1>1 DEF TypeInv, WorkersRest, CopyProgress
<1>3. CompletedGood' /\ RetriedChunkBlank'
  BY <1>1 DEF CompletedGood, RetriedChunkBlank
<1>4. \A j \in Job : (Blank(j) => Blank(j)') /\ (Good(j) => Good(j)')
  BY <1>1 DEF Blank, Good, Exact, Clear
<1>5. OldRows' /\ PendingBlank'
  BY <1>1, <1>4 DEF RowInv, OldRows, Superseded, PendingBlank
<1>6. LostOnlyIfRestarting'
  BY <1>1, <1>4 DEF RowInv, LostOnlyIfRestarting, Unsettled
<1>7. ResetTarget'
  BY <1>1 DEF ResetTarget, ToReset
<1>8. ResetProgress'
  <2>1. ASSUME ~cancelled, NEW k \in Chunked, job[k] = "RETRYING"
        PROVE  TableOf[k] \in resetTables'
    <3>1. k \in TableChunks(TableOf[k]) /\ TableOf[k] \in Table
      BY ConstantsAssumption DEF TableChunks, SeparateTasks
    <3>2. QED
      BY <1>1, <2>1, <3>1 DEF ToReset
  <2>2. QED
    BY <1>1, <2>1 DEF ResetProgress
<1>9. QED
  BY <1>2, <1>3, <1>5, <1>6, <1>7, <1>8 DEF RowInv

(* When the engine is ready again no chunk is left half reset. *)
LEMMA ReplanRows ==
  ASSUME StablePlan, SeparateTasks, TypeInv, TypeInv', ControlInv, RowInv, Replan
  PROVE  RowInv'
<1>1. /\ engine = "reset" /\ engine' \in {"ready", "failed"}
      /\ engine' = "ready" => ~cancelled
      /\ resetTables = {} /\ resetJobs = {}
      /\ UNCHANGED <<job, db, retrying, pc, task, attempt, todo, cancelled, resetTables, resetJobs>>
  BY DEF Replan, poolVars, workerVars, resetVars
<1>2. plan' = plan
  BY SamePlan
<1>3. \A w \in Worker : CopyProgress(w)'
  BY <1>1 DEF TypeInv, WorkersRest, CopyProgress
<1>4. \A j \in Job : (Blank(j) => Blank(j)') /\ (Good(j) => Good(j)')
  BY <1>1, <1>2 DEF Blank, Good, Exact, Clear
<1>5. OldRows' /\ PendingBlank'
  BY <1>1, <1>4 DEF RowInv, OldRows, Superseded, PendingBlank
<1>6. LostOnlyIfRestarting'
  BY <1>1, <1>4 DEF RowInv, LostOnlyIfRestarting, Unsettled
<1>7. ResetTarget' /\ ResetProgress'
  BY <1>1 DEF ResetTarget, ResetProgress
<1>8. ~cancelled => \A k \in Chunked : job[k] = "RETRYING" =>
                      \A j \in TableChunks(TableOf[k]) : Blank(j) /\ job[j] = "RETRYING"
  BY <1>1 DEF RowInv, ResetProgress
<1>9. \A j \in Chunked : j \in Job /\ j \in TableChunks(TableOf[j])
  BY ConstantsAssumption DEF TableChunks, SeparateTasks
<1>10. CompletedGood'
  <2>1. ASSUME ~cancelled, NEW j \in Job, job[j] = "COMPLETED" PROVE Good(j)
    <3>1. SUFFICES ASSUME j \in Chunked, NEW k \in TableChunks(TableOf[j]), Unsettled(k)
                   PROVE  FALSE
      BY <1>1, <2>1 DEF RowInv, LostOnlyIfRestarting
    <3>2. k \in Chunked /\ k \in Job /\ TableOf[k] = TableOf[j]
      BY ConstantsAssumption DEF TableChunks
    <3>3. job[k] = "RETRYING"
      BY <1>1, <3>1, <3>2 DEF Unsettled, ControlInv, NoneInDoubt
    <3>4. job[j] = "RETRYING"
      BY <1>8, <1>9, <2>1, <3>1, <3>2, <3>3
    <3>5. QED
      BY <2>1, <3>4
  <2>2. QED
    BY <1>1, <1>4, <2>1 DEF CompletedGood
<1>11. RetriedChunkBlank'
  BY <1>1, <1>4, <1>8, <1>9 DEF RetriedChunkBlank
<1>12. QED
  BY <1>3, <1>5, <1>6, <1>7, <1>10, <1>11 DEF RowInv

(* Steps of the engine, a cancellation and a crash change no row. *)
LEMMA EngineRows ==
  ASSUME StablePlan, TypeInv, TypeInv', RowInv,
         StartData \/ StartDataFails \/ PoolDone \/ AfterData \/ Cancel \/ Crash
  PROVE  RowInv'
<1> USE DEF storeVars, poolVars, workerVars, resetVars
<1>1. UNCHANGED <<job, db, plan>>
  BY DEF StartData, StartDataFails, PoolDone, AfterData, Cancel, Crash
<1>2. \A j \in Job : /\ Blank(j) => Blank(j)'
                     /\ Good(j) => Good(j)'
                     /\ Unsettled(j) => Unsettled(j)'
  BY <1>1 DEF Blank, Good, Exact, Clear, Unsettled
<1>3. OldRows' /\ PendingBlank'
  BY <1>1, <1>2 DEF RowInv, OldRows, Superseded, PendingBlank
<1>4. CompletedGood' /\ RetriedChunkBlank'
  <2>1. engine' \in {"ready", "pool", "constraints", "succeeded"} =>
          engine \in {"ready", "pool", "constraints", "succeeded"}
    BY DEF StartData, StartDataFails, PoolDone, AfterData, Cancel, Crash
  <2>2. engine' \in {"ready", "pool"} => engine \in {"ready", "pool"}
    BY DEF StartData, StartDataFails, PoolDone, AfterData, Cancel, Crash
  <2>3. QED
    BY <1>1, <1>2, <2>1, <2>2, ConstantsAssumption
       DEF RowInv, CompletedGood, RetriedChunkBlank
<1>5. ASSUME NEW w \in Worker PROVE CopyProgress(w)'
  <2>1. \/ pc'[w] \in {"idle", "exit"}
        \/ UNCHANGED <<pc, task, attempt, todo, retrying>> /\ (cancelled => cancelled')
    BY DEF StartData, StartDataFails, PoolDone, AfterData, Cancel, Crash
  <2>2. CASE pc'[w] \in {"idle", "exit"}
    BY <2>2 DEF CopyProgress
  <2>3. CASE UNCHANGED <<pc, task, attempt, todo, retrying>> /\ (cancelled => cancelled')
    <3>1. CopyProgress(w)
      BY DEF RowInv
    <3>2. QED
      BY <1>1, <2>3, <3>1 DEF CopyProgress, Blank, Good, Exact, Clear
  <2>4. QED
    BY <2>1, <2>2, <2>3
<1>6. LostOnlyIfRestarting'
  <2>1. engine' \in {"down", "failed", "scan", "reset"} =>
          engine \in {"ready", "pool", "constraints", "succeeded", "scan", "reset"}
    BY DEF StartData, StartDataFails, PoolDone, AfterData, Cancel, Crash, Active
  <2>2. \A t : \A k \in TableChunks(t) : k \in Job
    BY ConstantsAssumption DEF TableChunks
  <2>3. QED
    BY <1>1, <1>2, <2>1, <2>2 DEF RowInv, LostOnlyIfRestarting, CompletedGood
<1>7. ResetTarget' /\ ResetProgress'
  <2>1. engine' = "reset" => UNCHANGED <<engine, resetTables, resetJobs>> /\ (cancelled => cancelled')
    BY DEF StartData, StartDataFails, PoolDone, AfterData, Cancel, Crash
  <2>2. ResetTarget'
    BY <1>1, <2>1 DEF RowInv, ResetTarget
  <2>3. ResetProgress'
    BY <1>1, <2>1 DEF RowInv, ResetProgress, Blank
  <2>4. QED
    BY <2>2, <2>3
<1>8. QED
  BY <1>3, <1>4, <1>5, <1>6, <1>7 DEF RowInv

LEMMA StepRows ==
  ASSUME StablePlan, SeparateTasks, ReplacingModes, CleanupSucceeds,
         TypeInv, TypeInv', ControlInv, RowInv, [Next]_vars
  PROVE  RowInv'
<1>1. CASE \E w \in Worker : WorkerStep(w)
  BY <1>1, WorkerRows
<1>2. CASE Resume
  BY <1>2, ResumeRows
<1>3. CASE ResumeStep
  BY <1>3, ScanRows, ResetTableRows, ResetJobRows, ReplanRows DEF ResumeStep
<1>4. CASE StartData \/ StartDataFails \/ PoolDone \/ AfterData \/ Cancel \/ Crash
  BY <1>4, EngineRows
<1>5. CASE UNCHANGED vars
  <2>1. \A j \in Job : Unsettled(j) = Unsettled(j)'
    BY <1>5 DEF vars, Unsettled
  <2>2. \A w \in Worker : CopyProgress(w)'
    BY <1>5 DEF vars, RowInv, CopyProgress, Blank, Good, Exact, Clear
  <2>3. OldRows' /\ PendingBlank' /\ CompletedGood' /\ RetriedChunkBlank'
    BY <1>5 DEF vars, RowInv, OldRows, Superseded, PendingBlank, CompletedGood,
                RetriedChunkBlank, Blank, Good, Exact, Clear
  <2>4. LostOnlyIfRestarting' /\ ResetTarget' /\ ResetProgress'
    BY <1>5 DEF vars, RowInv, LostOnlyIfRestarting, ResetTarget, ResetProgress,
                Blank, Good, Exact, Clear, Unsettled
  <2>5. QED
    BY <2>2, <2>3, <2>4 DEF RowInv
<1>6. QED
  BY <1>1, <1>2, <1>3, <1>4, <1>5 DEF Next

-----------------------------------------------------------------------------
LEMMA InitRows == Init => RowInv
<1> SUFFICES ASSUME Init PROVE RowInv
  OBVIOUS
<1>1. plan \in Plans /\ DOMAIN plan = Job
  BY DEF Init
<1>2. \A j \in Job : \A r \in plan[j] : r \in Row /\ r \notin Old
  BY <1>1, PlansAssumption DEF IsPlan, Source
<1>3. \A r \in Row : db[r] = IF r \in Old /\ Mode[RowTable[r]] \in {"append", "truncate_partition"}
                             THEN 1 ELSE 0
  BY DEF Init
<1>4. \A j \in Job : Blank(j) /\ job[j] = "PENDING"
  BY <1>2, <1>3 DEF Init, Blank
<1>5. OldRows
  <2>1. \A r \in Old : r \in Row /\ Mode[RowTable[r]] \in Modes
    BY ConstantsAssumption
  <2>2. QED
    BY <1>3, <2>1 DEF OldRows, Superseded, Modes
<1>6. PendingBlank /\ CompletedGood /\ RetriedChunkBlank
  BY <1>4, ConstantsAssumption DEF PendingBlank, CompletedGood, RetriedChunkBlank
<1>7. \A w \in Worker : CopyProgress(w)
  BY DEF Init, CopyProgress
<1>8. LostOnlyIfRestarting /\ ResetTarget /\ ResetProgress
  BY DEF Init, LostOnlyIfRestarting, ResetTarget, ResetProgress
<1>9. QED
  BY <1>5, <1>6, <1>7, <1>8 DEF RowInv

(* The plan keeps covering the source. *)
PlanCovers == \A r \in Source : \E j \in Job : r \in plan[j]

DataInv == ControlInv /\ RowInv /\ PlanCovers

LEMMA DataInvariance ==
  ASSUME StablePlan, SeparateTasks, ReplacingModes, CleanupSucceeds
  PROVE  Spec => []DataInv
<1>1. Init => RowInv /\ PlanCovers
  BY InitRows DEF Init, PlanCovers
<1>2. ASSUME TypeInv, TypeInv', ControlInv, RowInv, PlanCovers, [Next]_vars
      PROVE  (RowInv /\ PlanCovers)'
  <2>1. PlanCovers'
    BY <1>2, SamePlan DEF PlanCovers
  <2>2. QED
    BY <1>2, <2>1, StepRows
<1>3. TypeInv /\ TypeInv' /\ ControlInv /\ (RowInv /\ PlanCovers) /\ [Next]_vars
        => (RowInv /\ PlanCovers)'
  BY <1>2
<1>4. Spec => [](RowInv /\ PlanCovers)
  BY <1>1, <1>3, TypeInvariance, ControlInvariance, PTL DEF Spec
<1>5. DataInv <=> ControlInv /\ (RowInv /\ PlanCovers)
  BY DEF DataInv
<1>6. QED
  BY <1>4, <1>5, ControlInvariance, PTL

(* Under the conditions that DataMigration names, a job that the store has  *)
(* as COMPLETED has each row of its task in the target exactly once, at     *)
(* every moment at which the engine relies on it: what was cancelled,       *)
(* killed, retried or resumed before makes no difference.                   *)
THEOREM CompletedIsExact ==
  ASSUME StablePlan, SeparateTasks, ReplacingModes, CleanupSucceeds
  PROVE  Spec => []CompletedExact
<1>1. TypeInv /\ DataInv => CompletedExact
  BY PlanFacts DEF DataInv, RowInv, CompletedGood, Good, CompletedExact
<1>2. QED
  BY <1>1, TypeInvariance, DataInvariance, PTL

(* Under the same conditions, a run or a resumed run that reports success   *)
(* leaves every source row in the target exactly once, no row that the      *)
(* target mode replaces, and every row that it keeps.                       *)
THEOREM TargetIsExact ==
  ASSUME StablePlan, SeparateTasks, ReplacingModes, CleanupSucceeds
  PROVE  Spec => []TargetExact
<1>1. ASSUME DataInv, engine = "succeeded", NEW r \in Row PROVE db[r] = Expected(r)
  <2>1. \A j \in Job : Good(j)
    BY <1>1 DEF DataInv, ControlInv, AllDone, RowInv, CompletedGood
  <2>2. CASE r \in Source
    BY <1>1, <2>1, <2>2 DEF DataInv, PlanCovers, Good, Exact, Expected
  <2>3. CASE r \notin Source
    <3>1. r \in Old
      BY <2>3 DEF Source
    <3>2. CASE Superseded(r)
      <4>1. CASE Mode[RowTable[r]] \in {"recreate", "truncate"}
        BY <1>1, <2>3, <3>1, <3>2, <4>1 DEF DataInv, RowInv, OldRows, Expected
      <4>2. CASE Mode[RowTable[r]] \notin {"recreate", "truncate"}
        <5>1. PICK j \in Job : /\ Mode[TableOf[j]] = "truncate_partition"
                               /\ RowTable[r] = TableOf[j] /\ RowPart[r] = PartOf[j]
          BY <3>2, <4>2 DEF Superseded
        <5>2. db[r] = 0
          BY <2>1, <3>1, <5>1 DEF Good, Clear
        <5>3. QED
          BY <2>3, <3>2, <5>2 DEF Expected
      <4>3. QED
        BY <4>1, <4>2
    <3>3. CASE ~Superseded(r)
      BY <1>1, <2>3, <3>1, <3>3 DEF DataInv, RowInv, OldRows, Expected
    <3>4. QED
      BY <3>2, <3>3
  <2>4. QED
    BY <2>2, <2>3
<1>2. DataInv => TargetExact
  BY <1>1 DEF TargetExact
<1>3. QED
  BY <1>2, DataInvariance, PTL

(* When the tasks of a table are separate chunks or partitions, no step of  *)
(* the pool removes a row of a task but that task's own cleanup, whatever   *)
(* the target modes and whatever fails.                                     *)
THEOREM CleanupsStayApart ==
  ASSUME StablePlan, SeparateTasks
  PROVE  Spec => OnlyOwnRowsRemoved
<1> DEFINE Own == engine = "pool" =>
             \A j \in DOMAIN plan :
               (\E r \in plan[j] : db'[r] < db[r]) =>
                  \E w \in Worker : pc[w] = "clean" /\ task[w] = j
<1>1. ASSUME TypeInv, [Next]_vars, engine = "pool", NEW j \in DOMAIN plan,
             NEW r \in plan[j], db'[r] < db[r]
      PROVE  \E w \in Worker : pc[w] = "clean" /\ task[w] = j
  <2>1. j \in Job /\ r \in Row /\ db[r] \in Nat
    BY <1>1, PlanFacts DEF TypeInv, TypeOK
  <2>2. db'[r] # db[r]
    BY <1>1, <2>1
  <2>3. \E w \in Worker : Clean(w) \/ CopyRow(w)
    BY <1>1, <2>2
    DEF Next, vars, WorkerStep, Take, AcquireSlot, Start, Open, CopyFails, CopyDone,
        RetryPipeline, GiveUp, Finish, StartData, StartDataFails, PoolDone, AfterData,
        Cancel, Crash, Resume, ResumeStep, Scan, ResetTable, ResetJob, Replan, storeVars
  <2>4. ASSUME NEW w \in Worker, CopyRow(w) PROVE FALSE
    <3>1. \/ db'[r] = db[r] + 1 \/ db'[r] = db[r]
      BY <1>1, <2>1, <2>4 DEF CopyRow, TypeInv, TypeOK
    <3>2. QED
      BY <1>1, <2>1, <3>1
  <2>5. ASSUME NEW w \in Worker, Clean(w) PROVE pc[w] = "clean" /\ task[w] = j
    <3>1. pc[w] = "clean" /\ task[w] \in Job
      BY <1>1, <2>5 DEF Clean, TypeInv, TypeOK, TaskHeld
    <3>2. db' = Truncated(Cleanup(task[w], attempt[w] > 0 \/ task[w] \in retrying))
      BY <2>2, <2>5 DEF Clean
    <3>3. r \in Cleanup(task[w], attempt[w] > 0 \/ task[w] \in retrying)
      BY <1>1, <2>1, <2>2, <3>2, TruncatedRows
    <3>4. task[w] = j
      BY <1>1, <2>1, <3>1, <3>3, CleanupOwn
    <3>5. QED
      BY <3>1, <3>4
  <2>6. QED
    BY <2>3, <2>4, <2>5
<1>2. TypeInv /\ [Next]_vars => [Own]_vars
  BY <1>1
<1>3. OnlyOwnRowsRemoved <=> [][Own]_vars
  BY DEF OnlyOwnRowsRemoved
<1>4. QED
  BY <1>2, <1>3, TypeInvariance, PTL DEF Spec

-----------------------------------------------------------------------------
(* NothingLost: the rows of a job that counts as done are all there.  This  *)
(* needs less than that they are exact: any target mode, and TRUNCATEs that *)
(* may fail before an attempt; a row may then be there more than once.      *)

Loaded(j) == \A r \in plan[j] : db[r] > 0

CompletedLoaded == engine \in {"ready", "pool", "constraints", "succeeded"} =>
                     \A j \in Job : job[j] = "COMPLETED" => Loaded(j)

CopyLoads(w) ==
  /\ pc[w] = "copy" => /\ todo[w] \subseteq plan[task[w]]
                       /\ \A r \in plan[task[w]] \ todo[w] : db[r] > 0
  /\ pc[w] = "finish" => Loaded(task[w])

(* A completed chunk without its rows has a sibling that is still to be     *)
(* done, and for whose sake their table will be started over.               *)
LossIsNoticed ==
  engine \in {"down", "failed", "scan", "reset"} =>
    \A j \in Job : job[j] = "COMPLETED" =>
      \/ Loaded(j)
      \/ j \in Chunked /\ \E k \in TableChunks(TableOf[j]) : Unsettled(k)

(* A table with a chunk to retry is still to be truncated, or all its       *)
(* chunks are or will be set to RETRYING.                                   *)
RestartGoesOn ==
  engine = "reset" /\ ~cancelled =>
    \A k \in Chunked : job[k] = "RETRYING" =>
      \/ TableOf[k] \in resetTables
      \/ \A j \in TableChunks(TableOf[k]) : job[j] = "RETRYING" \/ j \in resetJobs

LoadInv == /\ CompletedLoaded /\ \A w \in Worker : CopyLoads(w)
           /\ LossIsNoticed /\ ResetTarget /\ RestartGoesOn

(* Worker steps that take no row from a job that is done or copied.         *)
LEMMA LoadingStep ==
  ASSUME TypeInv, TypeInv', LoadInv, NEW w \in Worker, engine = "pool",
         UNCHANGED <<engine, plan>>,
         \A v \in Worker \ {w} : pc'[v] = pc[v] /\ task'[v] = task[v] /\ todo'[v] = todo[v],
         \A j \in Job : \/ job'[j] = job[j]
                        \/ job'[j] \in {"RUNNING", "FAILED"}
                        \/ job'[j] = "COMPLETED" /\ Loaded(j),
         \A j \in Job : j # task[w] => \A r \in plan[j] : db[r] > 0 => db'[r] > 0,
         pc[w] \in Busy => job'[task[w]] # "COMPLETED" \/ UNCHANGED db,
         pc[w] \notin Busy => UNCHANGED db,
         \A v \in Worker : v # w /\ pc[v] \in Busy => task[v] # task[w],
         CopyLoads(w)'
  PROVE  LoadInv'
<1>1. ASSUME NEW j \in Job, job'[j] = "COMPLETED", Loaded(j) PROVE Loaded(j)'
  <2>1. CASE UNCHANGED db
    BY <1>1, <2>1 DEF Loaded
  <2>2. CASE j # task[w]
    BY <1>1, <2>2 DEF Loaded
  <2>3. QED
    BY <1>1, <2>1, <2>2
<1>2. CompletedLoaded'
  BY <1>1 DEF LoadInv, CompletedLoaded
<1>3. ASSUME NEW v \in Worker, v # w PROVE CopyLoads(v)'
  <2>1. /\ CopyLoads(v)
        /\ pc'[v] = pc[v] /\ task'[v] = task[v] /\ todo'[v] = todo[v]
    BY <1>3 DEF LoadInv
  <2>2. CASE pc[v] \in {"copy", "finish"}
    <3>1. task[v] \in Job /\ task[v] # task[w]
      BY <1>3, <2>2 DEF TypeInv, TypeOK, TaskHeld, Busy
    <3>2. \A r \in plan[task[v]] : db[r] > 0 => db'[r] > 0
      BY <3>1
    <3>3. QED
      BY <2>1, <3>2 DEF CopyLoads, Loaded
  <2>3. CASE pc[v] \notin {"copy", "finish"}
    BY <2>1, <2>3 DEF CopyLoads
  <2>4. QED
    BY <2>2, <2>3
<1>4. LossIsNoticed' /\ ResetTarget' /\ RestartGoesOn'
  BY DEF LossIsNoticed, ResetTarget, RestartGoesOn
<1>5. QED
  BY <1>2, <1>3, <1>4 DEF LoadInv

LEMMA WorkerLoads ==
  ASSUME StablePlan, SeparateTasks, TypeInv, TypeInv', ControlInv, LoadInv,
         NEW w \in Worker, WorkerStep(w)
  PROVE  LoadInv'
<1> USE DEF storeVars, poolVars, resetVars
<1>0. engine = "pool" /\ CopyLoads(w)
  BY DEF WorkerStep, LoadInv
<1>1. \A v \in Worker : v # w /\ pc[v] \in Busy => task[v] # task[w]
  <2>1. \A v \in Worker : pc[v] \in Busy => task[v] # NoJob
    BY DEF TypeInv, TaskHeld, Busy
  <2>2. QED
    BY <2>1 DEF ControlInv, OneHolder
<1>2. pc[w] \in Busy => task[w] \in Job /\ job[task[w]] = "RUNNING"
  BY <1>0 DEF TypeInv, TypeOK, TaskHeld, ControlInv, JobMatchesWorker, Busy
<1>3. ASSUME UNCHANGED <<engine, plan, db>>, pc'[w] \notin {"copy", "finish"},
             \A v \in Worker \ {w} : pc'[v] = pc[v] /\ task'[v] = task[v] /\ todo'[v] = todo[v],
             \A j \in Job : \/ job'[j] = job[j]
                            \/ job'[j] \in {"RUNNING", "FAILED"}
                            \/ job'[j] = "COMPLETED" /\ Loaded(j)
      PROVE  LoadInv'
  <2>1. CopyLoads(w)'
    BY <1>3 DEF CopyLoads
  <2>2. QED
    BY <1>0, <1>1, <1>3, <2>1, LoadingStep
<1>4. CASE Take(w)
  <2>1. /\ pc'[w] \in {"exit", "sem"} /\ UNCHANGED <<engine, plan, db, job>>
        /\ \A v \in Worker \ {w} : pc'[v] = pc[v] /\ task'[v] = task[v] /\ todo'[v] = todo[v]
    BY <1>4 DEF Take, TypeInv, TypeOK
  <2>2. QED
    BY <1>3, <2>1
<1>5. ASSUME ReturnError(w), UNCHANGED <<engine, plan, db>>,
             \A j \in Job : job'[j] = job[j] \/ job'[j] \in {"RUNNING", "FAILED"}
      PROVE  LoadInv'
  <2>1. /\ pc'[w] \in {"exit", "idle"}
        /\ \A v \in Worker \ {w} : pc'[v] = pc[v] /\ task'[v] = task[v] /\ todo'[v] = todo[v]
    BY <1>5 DEF ReturnError, Drop, TypeInv, TypeOK
  <2>2. QED
    BY <1>3, <1>5, <2>1
<1>6. CASE AcquireSlot(w)
  <2>1. CASE ReturnError(w)
    BY <1>5, <1>6, <2>1 DEF AcquireSlot
  <2>2. CASE ~ReturnError(w)
    <3>1. /\ pc'[w] = "start" /\ UNCHANGED <<engine, plan, db, job, task, todo>>
          /\ \A v \in Worker \ {w} : pc'[v] = pc[v]
      BY <1>6, <2>2 DEF AcquireSlot, TypeInv, TypeOK
    <3>2. QED
      BY <1>3, <3>1
  <2>3. QED
    BY <2>1, <2>2
<1>7. CASE Start(w)
  <2>1. /\ \A j \in Job : job'[j] = job[j] \/ job'[j] = "RUNNING"
        /\ UNCHANGED <<engine, plan, db>>
    BY <1>7 DEF Start, TypeInv, TypeOK
  <2>2. CASE ReturnError(w)
    BY <1>5, <2>1, <2>2
  <2>3. CASE ~ReturnError(w)
    <3>1. /\ pc'[w] = "clean" /\ UNCHANGED <<task, todo>>
          /\ \A v \in Worker \ {w} : pc'[v] = pc[v]
      BY <1>7, <2>3 DEF Start, TypeInv, TypeOK
    <3>2. QED
      BY <1>3, <2>1, <3>1
  <2>4. QED
    BY <2>2, <2>3
<1>8. CASE Clean(w)
  <2> DEFINE removed == Cleanup(task[w], attempt[w] > 0 \/ task[w] \in retrying)
  <2>1. /\ pc[w] = "clean" /\ pc'[w] = "open"
        /\ UNCHANGED db \/ db' = Truncated(removed)
        /\ \A v \in Worker \ {w} : pc'[v] = pc[v]
        /\ UNCHANGED <<engine, plan, job, task, todo>>
    BY <1>8 DEF Clean, TypeInv, TypeOK
  <2>2. CopyLoads(w)'
    BY <2>1 DEF CopyLoads
  <2>3. task[w] \in Job /\ job'[task[w]] # "COMPLETED" /\ pc[w] \in Busy
    BY <1>2, <2>1 DEF Busy
  <2>4. ASSUME NEW j \in Job, j # task[w], NEW r \in plan[j], db[r] > 0 PROVE db'[r] > 0
    <3>1. r \in Row /\ r \notin removed
      BY <2>3, <2>4, PlanFacts, CleanupOwn
    <3>2. db' = Truncated(removed) => db'[r] = db[r]
      BY <3>1, TruncatedRows
    <3>3. QED
      BY <2>1, <2>4, <3>2
  <2>5. QED
    BY <1>0, <1>1, <2>1, <2>2, <2>3, <2>4, LoadingStep
<1>9. CASE Open(w)
  <2>1. /\ pc[w] = "open" /\ pc'[w] = "copy" /\ todo'[w] = plan[task[w]]
        /\ UNCHANGED <<engine, plan, db, job, task>>
        /\ \A v \in Worker \ {w} : pc'[v] = pc[v] /\ todo'[v] = todo[v]
    BY <1>9 DEF Open, TypeInv, TypeOK
  <2>2. CopyLoads(w)'
    BY <2>1 DEF CopyLoads
  <2>3. QED
    BY <1>0, <1>1, <2>1, <2>2, LoadingStep
<1>10. CASE CopyRow(w)
  <2>1. PICK r \in todo[w] : /\ db' = [db EXCEPT ![r] = @ + 1]
                             /\ todo' = [todo EXCEPT ![w] = @ \ {r}]
    BY <1>10 DEF CopyRow
  <2>2. pc[w] = "copy" /\ UNCHANGED <<engine, plan, job, pc, task>>
    BY <1>10 DEF CopyRow
  <2>3. /\ task[w] \in Job /\ job'[task[w]] # "COMPLETED" /\ pc[w] \in Busy
    BY <1>2, <2>2 DEF Busy
  <2>4. r \in Row /\ todo'[w] = todo[w] \ {r} /\ \A v \in Worker \ {w} : todo'[v] = todo[v]
    BY <2>1 DEF TypeInv, TypeOK
  <2>5. \A s \in Row : db[s] \in Nat /\ db'[s] = IF s = r THEN db[s] + 1 ELSE db[s]
    BY <2>1 DEF TypeInv, TypeOK
  <2>6. \A s \in Row : /\ db[s] > 0 => db'[s] > 0
                       /\ s = r => db'[s] > 0
    BY <2>5
  <2>7. \A j \in Job : \A s \in plan[j] : s \in Row
    BY PlanFacts
  <2>8. CopyLoads(w)'
    BY <1>0, <2>2, <2>3, <2>4, <2>6, <2>7 DEF CopyLoads
  <2>9. QED
    BY <1>0, <1>1, <2>2, <2>3, <2>4, <2>6, <2>7, <2>8, LoadingStep
<1>11. CASE CopyFails(w)
  <2>1. /\ pc'[w] = "retry" /\ UNCHANGED <<engine, plan, db, job, task>>
        /\ \A v \in Worker \ {w} : pc'[v] = pc[v] /\ todo'[v] = todo[v]
    BY <1>11 DEF CopyFails, TypeInv, TypeOK
  <2>2. QED
    BY <1>3, <2>1
<1>12. CASE CopyDone(w)
  <2>1. /\ pc[w] = "copy" /\ todo[w] = {} /\ pc'[w] = "finish"
        /\ UNCHANGED <<engine, plan, db, job, task, todo>>
        /\ \A v \in Worker \ {w} : pc'[v] = pc[v]
    BY <1>12 DEF CopyDone, TypeInv, TypeOK
  <2>2. CopyLoads(w)'
    BY <1>0, <2>1 DEF CopyLoads, Loaded
  <2>3. QED
    BY <1>0, <1>1, <2>1, <2>2, LoadingStep
<1>13. CASE RetryPipeline(w)
  <2>1. /\ pc'[w] = "clean" /\ UNCHANGED <<engine, plan, db, job, task, todo>>
        /\ \A v \in Worker \ {w} : pc'[v] = pc[v]
    BY <1>13 DEF RetryPipeline, TypeInv, TypeOK
  <2>2. QED
    BY <1>3, <2>1
<1>14. CASE GiveUp(w)
  <2>1. \A j \in Job : job'[j] = job[j] \/ job'[j] = "FAILED"
    BY <1>14 DEF GiveUp, TypeInv, TypeOK
  <2>2. QED
    BY <1>5, <1>14, <2>1 DEF GiveUp
<1>15. CASE Finish(w)
  <2>1. CASE ReturnError(w) /\ UNCHANGED job
    BY <1>5, <1>15, <2>1 DEF Finish
  <2>2. CASE ~(ReturnError(w) /\ UNCHANGED job)
    <3>1. /\ pc[w] = "finish" /\ pc'[w] = "idle" /\ UNCHANGED <<engine, plan, db>>
          /\ job' = [job EXCEPT ![task[w]] = "COMPLETED"]
          /\ \A v \in Worker \ {w} : pc'[v] = pc[v] /\ task'[v] = task[v] /\ todo'[v] = todo[v]
      BY <1>15, <2>2 DEF Finish, Drop, TypeInv, TypeOK
    <3>2. \A j \in Job : job'[j] = job[j] \/ (job'[j] = "COMPLETED" /\ Loaded(j))
      BY <1>0, <3>1 DEF CopyLoads, TypeInv, TypeOK
    <3>3. QED
      BY <1>3, <3>1, <3>2
  <2>3. QED
    BY <2>1, <2>2
<1>16. QED
  BY <1>4, <1>6, <1>7, <1>8, <1>9, <1>10, <1>11, <1>12, <1>13, <1>14, <1>15 DEF WorkerStep

(* A table is only emptied for the sake of a chunk that is to be retried.   *)
LEMMA ResumeLoads ==
  ASSUME StablePlan, SeparateTasks, RestartsSucceed, TypeInv, TypeInv', ControlInv, LoadInv,
         Resume \/ ResumeStep
  PROVE  LoadInv'
<1> USE DEF storeVars, poolVars, workerVars, resetVars
<1>1. engine # "pool" /\ UNCHANGED pc
  BY DEF Resume, ResumeStep, Scan, ResetTable, ResetJob, Replan
<1>2. \A w \in Worker : CopyLoads(w)'
  BY <1>1 DEF TypeInv, WorkersRest, CopyLoads
<1>3. \A t : \A j \in TableChunks(t) : j \in Job /\ j \in Chunked /\ TableOf[j] = t
  BY ConstantsAssumption DEF TableChunks
<1>4. \A j \in Chunked : j \in Job /\ TableOf[j] \in Table /\ j \in TableChunks(TableOf[j])
  BY ConstantsAssumption DEF TableChunks, SeparateTasks
<1>5. plan' = plan
  BY SamePlan
<1>6. UNCHANGED db => \A j \in Job : Loaded(j) => Loaded(j)'
  BY <1>5 DEF Loaded
<1>7. CASE Resume
  <2>1. /\ engine \in {"down", "failed", "succeeded"} /\ engine' = "scan" /\ UNCHANGED db
        /\ \A j \in Job : job'[j] = IF job[j] \in {"FAILED", "RUNNING"} THEN "RETRYING" ELSE job[j]
    BY <1>7 DEF Resume, Retried
  <2>2. \A j \in Job : Unsettled(j) => Unsettled(j)'
    BY <2>1 DEF Unsettled
  <2>3. \A j \in Job : job'[j] = "COMPLETED" => job[j] = "COMPLETED"
    BY <2>1
  <2>4. LossIsNoticed'
    BY <1>3, <1>6, <2>1, <2>2, <2>3 DEF LoadInv, LossIsNoticed, CompletedLoaded
  <2>5. CompletedLoaded' /\ ResetTarget' /\ RestartGoesOn'
    BY <2>1 DEF CompletedLoaded, ResetTarget, RestartGoesOn
  <2>6. QED
    BY <1>2, <2>4, <2>5 DEF LoadInv
<1>8. CASE Scan
  <2>1. /\ engine = "scan" /\ engine' = "reset" /\ resetJobs' = {}
        /\ \/ ~cancelled /\ resetTables' = ToReset
           \/ cancelled /\ resetTables' = {}
        /\ UNCHANGED <<job, db, cancelled>>
    BY <1>8 DEF Scan, OpFails, Fault, RestartsSucceed
  <2>2. LossIsNoticed'
    BY <1>6, <2>1 DEF LoadInv, LossIsNoticed, Unsettled
  <2>3. ResetTarget'
    BY <2>1 DEF ResetTarget, ToReset
  <2>4. RestartGoesOn'
    BY <1>4, <2>1 DEF RestartGoesOn, ToReset
  <2>5. CompletedLoaded'
    BY <2>1 DEF CompletedLoaded
  <2>6. QED
    BY <1>2, <2>2, <2>3, <2>4, <2>5 DEF LoadInv
<1>9. ASSUME NEW t \in Table, ResetTable(t) PROVE LoadInv'
  <2>1. /\ engine = "reset" /\ engine' = "reset" /\ t \in resetTables /\ resetJobs = {}
        /\ resetTables' = resetTables \ {t} /\ UNCHANGED <<job, cancelled>>
        /\ \/ ~cancelled /\ db' = Truncated(TableRows(t)) /\ resetJobs' = TableChunks(t)
           \/ cancelled /\ UNCHANGED <<db, resetJobs>>
    BY <1>9 DEF ResetTable, OpFails, Fault, RestartsSucceed
  <2>2. PICK k \in TableChunks(t) : job[k] = "RETRYING"
    BY <2>1 DEF LoadInv, ResetTarget
  <2>3. ASSUME NEW j \in Job, job[j] = "COMPLETED"
        PROVE  \/ Loaded(j)'
               \/ j \in Chunked /\ \E i \in TableChunks(TableOf[j]) : Unsettled(i)'
    <3>1. CASE TableOf[j] = t
      <4>1. j # k /\ k \in Job /\ k \in Chunked /\ TableOf[k] = t
        BY <1>3, <2>2, <2>3
      <4>2. j \in Chunked
        BY <3>1, <4>1 DEF SeparateTasks
      <4>3. Unsettled(k)'
        BY <2>1, <2>2 DEF Unsettled
      <4>4. QED
        BY <2>2, <3>1, <4>2, <4>3
    <3>2. CASE TableOf[j] # t
      <4>1. \A r \in plan[j] : r \in Row /\ r \notin TableRows(t)
        BY <3>2, PlanFacts DEF TableRows
      <4>2. \A r \in plan[j] : db'[r] = db[r]
        BY <2>1, <4>1, TruncatedRows
      <4>3. Loaded(j) => Loaded(j)'
        BY <1>5, <4>2 DEF Loaded
      <4>4. QED
        BY <2>1, <2>3, <4>3 DEF LoadInv, LossIsNoticed, Unsettled
    <3>3. QED
      BY <3>1, <3>2
  <2>4. LossIsNoticed'
    BY <2>1, <2>3 DEF LossIsNoticed
  <2>5. ResetTarget'
    <3>1. \A j \in resetJobs' : j \in Chunked /\ TableOf[j] = t
      BY <1>3, <2>1
    <3>2. QED
      BY <2>1, <2>2, <3>1 DEF LoadInv, ResetTarget
  <2>6. RestartGoesOn'
    BY <2>1 DEF LoadInv, RestartGoesOn
  <2>7. CompletedLoaded'
    BY <2>1 DEF CompletedLoaded
  <2>8. QED
    BY <1>2, <2>4, <2>5, <2>6, <2>7 DEF LoadInv
<1>10. ASSUME NEW k \in Job, ResetJob(k) PROVE LoadInv'
  <2>1. /\ engine = "reset" /\ engine' = "reset" /\ k \in resetJobs
        /\ resetJobs' = resetJobs \ {k}
        /\ UNCHANGED <<db, cancelled, resetTables>>
    BY <1>10 DEF ResetJob
  <2>2. \A j \in Job : \/ job'[j] = job[j] /\ j # k
                       \/ job'[j] = "RETRYING" /\ j = k
                       \/ job'[j] = job[j] /\ cancelled
    BY <1>10 DEF ResetJob, OpFails, Fault, RestartsSucceed, TypeInv, TypeOK
  <2>3. \A j \in Job : /\ Unsettled(j) => Unsettled(j)'
                       /\ job[j] = "RETRYING" => job'[j] = "RETRYING"
                       /\ job'[j] = "COMPLETED" => job[j] = "COMPLETED"
    BY <2>2 DEF Unsettled
  <2>4. LossIsNoticed'
    BY <1>3, <1>6, <2>1, <2>3 DEF LoadInv, LossIsNoticed
  <2>5. ResetTarget'
    BY <1>3, <2>1, <2>3 DEF LoadInv, ResetTarget
  <2>6. ASSUME ~cancelled, NEW i \in Chunked, job'[i] = "RETRYING"
        PROVE  \/ TableOf[i] \in resetTables
               \/ \A j \in TableChunks(TableOf[i]) : job'[j] = "RETRYING" \/ j \in resetJobs'
    <3>1. PICK h \in Chunked : TableOf[h] = TableOf[i] /\ job[h] = "RETRYING"
      <4>1. CASE i = k
        BY <1>3, <2>1, <4>1 DEF LoadInv, ResetTarget
      <4>2. CASE i # k
        BY <1>4, <2>2, <2>6, <4>2
      <4>3. QED
        BY <4>1, <4>2
    <3>2. \/ TableOf[i] \in resetTables
          \/ \A j \in TableChunks(TableOf[i]) : job[j] = "RETRYING" \/ j \in resetJobs
      BY <2>1, <2>6, <3>1 DEF LoadInv, RestartGoesOn
    <3>3. QED
      BY <1>3, <2>1, <2>2, <2>6, <3>2
  <2>7. RestartGoesOn'
    BY <2>1, <2>6 DEF RestartGoesOn
  <2>8. CompletedLoaded'
    BY <2>1 DEF CompletedLoaded
  <2>9. QED
    BY <1>2, <2>4, <2>5, <2>7, <2>8 DEF LoadInv
<1>11. CASE Replan
  <2>1. /\ engine = "reset" /\ engine' \in {"ready", "failed"} /\ (engine' = "ready" => ~cancelled)
        /\ resetTables = {} /\ resetJobs = {} /\ UNCHANGED <<job, db>>
    BY <1>11 DEF Replan
  <2>2. ASSUME ~cancelled, NEW j \in Job, job[j] = "COMPLETED" PROVE Loaded(j)
    <3>1. SUFFICES ASSUME j \in Chunked, NEW k \in TableChunks(TableOf[j]), Unsettled(k)
                   PROVE  FALSE
      BY <2>1, <2>2 DEF LoadInv, LossIsNoticed
    <3>2. k \in Chunked /\ k \in Job /\ TableOf[k] = TableOf[j] /\ j \in TableChunks(TableOf[j])
      BY <1>3, <1>4, <3>1
    <3>3. job[k] = "RETRYING"
      BY <2>1, <3>1, <3>2 DEF Unsettled, ControlInv, NoneInDoubt
    <3>4. QED
      BY <2>1, <2>2, <3>2, <3>3 DEF LoadInv, RestartGoesOn
  <2>3. CompletedLoaded'
    BY <1>6, <2>1, <2>2 DEF CompletedLoaded
  <2>4. LossIsNoticed'
    BY <1>6, <2>1 DEF LoadInv, LossIsNoticed, Unsettled
  <2>5. ResetTarget' /\ RestartGoesOn'
    BY <2>1 DEF ResetTarget, RestartGoesOn
  <2>6. QED
    BY <1>2, <2>3, <2>4, <2>5 DEF LoadInv
<1>12. QED
  BY <1>7, <1>8, <1>9, <1>10, <1>11 DEF ResumeStep

LEMMA StepLoads ==
  ASSUME StablePlan, SeparateTasks, RestartsSucceed, TypeInv, TypeInv', ControlInv, LoadInv,
         [Next]_vars
  PROVE  LoadInv'
<1> USE DEF storeVars, poolVars, workerVars, resetVars
<1>1. CASE \E w \in Worker : WorkerStep(w)
  BY <1>1, WorkerLoads
<1>2. CASE Resume \/ ResumeStep
  BY <1>2, ResumeLoads
<1>3. CASE StartData \/ StartDataFails \/ PoolDone \/ AfterData \/ Cancel \/ Crash
  <2>1. UNCHANGED <<job, db, plan>>
    BY <1>3 DEF StartData, StartDataFails, PoolDone, AfterData, Cancel, Crash
  <2>2. /\ engine' \in {"ready", "pool", "constraints", "succeeded"} =>
             engine \in {"ready", "pool", "constraints", "succeeded"}
        /\ engine' \in {"down", "failed", "scan", "reset"} =>
             engine \in {"ready", "pool", "constraints", "succeeded", "scan", "reset"}
        /\ engine' = "reset" => UNCHANGED <<engine, resetTables, resetJobs>> /\ (cancelled => cancelled')
    BY <1>3 DEF StartData, StartDataFails, PoolDone, AfterData, Cancel, Crash, Active
  <2>3. \A j \in Job : (Loaded(j) => Loaded(j)') /\ (Unsettled(j) => Unsettled(j)')
    BY <2>1 DEF Loaded, Unsettled
  <2>4. \A t : \A k \in TableChunks(t) : k \in Job
    BY ConstantsAssumption DEF TableChunks
  <2>5. CompletedLoaded'
    BY <2>1, <2>2, <2>3 DEF LoadInv, CompletedLoaded
  <2>6. LossIsNoticed'
    BY <2>1, <2>2, <2>3, <2>4 DEF LoadInv, LossIsNoticed, CompletedLoaded
  <2>7. ResetTarget' /\ RestartGoesOn'
    BY <2>1, <2>2 DEF LoadInv, ResetTarget, RestartGoesOn
  <2>8. ASSUME NEW w \in Worker PROVE CopyLoads(w)'
    <3>1. pc'[w] \in {"idle", "exit"} \/ UNCHANGED <<pc, task, todo>>
      BY <1>3 DEF StartData, StartDataFails, PoolDone, AfterData, Cancel, Crash
    <3>2. QED
      BY <2>1, <3>1 DEF LoadInv, CopyLoads, Loaded
  <2>9. QED
    BY <2>5, <2>6, <2>7, <2>8 DEF LoadInv
<1>4. CASE UNCHANGED vars
  BY <1>4 DEF vars, LoadInv, CompletedLoaded, CopyLoads, LossIsNoticed, ResetTarget,
              RestartGoesOn, Loaded, Unsettled
<1>5. QED
  BY <1>1, <1>2, <1>3, <1>4 DEF Next

(* A run or a resumed run that reports success leaves no source row out, in *)
(* any target mode and whatever TRUNCATE fails before an attempt, when the  *)
(* plan does not change, the tasks of a table are separate chunks or        *)
(* partitions, and no statement fails by chance that starts a chunked table *)
(* over.                                                                    *)
THEOREM NoRowIsLost ==
  ASSUME StablePlan, SeparateTasks, RestartsSucceed
  PROVE  Spec => []NothingLost
<1>1. Init => LoadInv /\ PlanCovers
  BY DEF Init, LoadInv, CompletedLoaded, CopyLoads, LossIsNoticed, ResetTarget, RestartGoesOn,
         PlanCovers
<1>2. TypeInv /\ TypeInv' /\ ControlInv /\ (LoadInv /\ PlanCovers) /\ [Next]_vars
        => (LoadInv /\ PlanCovers)'
  BY StepLoads, SamePlan DEF PlanCovers
<1>3. Spec => [](LoadInv /\ PlanCovers)
  BY <1>1, <1>2, TypeInvariance, ControlInvariance, PTL DEF Spec
<1>4. ControlInv /\ (LoadInv /\ PlanCovers) => NothingLost
  BY DEF ControlInv, AllDone, LoadInv, CompletedLoaded, Loaded, PlanCovers, NothingLost
<1>5. QED
  BY <1>3, <1>4, ControlInvariance, PTL

-----------------------------------------------------------------------------
(* The refinement of LoadLedger. *)

(* A job that is not COMPLETED, or whose rows a step leaves alone, stays on *)
(* the ledger or off it.                                                    *)
LEMMA RecordedKept ==
  ASSUME StablePlan, TypeInv, TypeInv',
         \A j \in Job : /\ job[j] = "COMPLETED" <=> job'[j] = "COMPLETED"
                        /\ job[j] = "COMPLETED" => \A r \in plan[j] : db'[r] = db[r]
  PROVE  Recorded' = Recorded
<1>1. plan' = plan /\ DOMAIN plan = Job
  BY SamePlan, PlanFacts
<1>2. \A j \in Job : (job[j] = "COMPLETED" /\ Exact(j)) <=> (job[j] = "COMPLETED" /\ Exact(j))'
  BY <1>1 DEF Exact
<1>3. QED
  BY <1>1, <1>2 DEF Recorded

LEMMA LedgerStep ==
  ASSUME StablePlan, SeparateTasks, ReplacingModes, CleanupSucceeds,
         TypeInv, TypeInv', ControlInv, ControlInv', RowInv, RowInv', [Next]_vars
  PROVE  [Ledger!LedgerNext]_(Ledger!ledger)
<1>0. plan' = plan /\ DOMAIN plan = Job
  BY SamePlan, PlanFacts
<1>1. ASSUME Recorded' = Recorded, (engine' = "succeeded") = (engine = "succeeded")
      PROVE  UNCHANGED Ledger!ledger
  BY <1>1 DEF Ledger!ledger
<1> USE DEF storeVars
<1>2. ASSUME NEW w \in Worker, WorkerStep(w) PROVE [Ledger!LedgerNext]_(Ledger!ledger)
  <2>0. engine = "pool" /\ engine' = "pool" /\ CopyProgress(w)
    BY <1>2
    DEF WorkerStep, RowInv, Take, AcquireSlot, Start, Clean, Open, CopyRow, CopyFails, CopyDone,
        RetryPipeline, GiveUp, Finish
  <2>1. CASE Finish(w) /\ job' # job
    <3>1. pc[w] = "finish" /\ UNCHANGED <<db, plan>> /\ job' = [job EXCEPT ![task[w]] = "COMPLETED"]
      BY <2>1 DEF Finish
    <3>2. task[w] \in Job /\ job[task[w]] = "RUNNING" /\ Exact(task[w])
      BY <2>0, <3>1 DEF TypeInv, TypeOK, TaskHeld, ControlInv, JobMatchesWorker, Busy, CopyProgress, Good
    <3>3. Recorded' = Recorded \cup {task[w]} /\ task[w] \notin Recorded
      <4>1. \A j \in Job : Exact(j)' <=> Exact(j)
        BY <3>1 DEF Exact
      <4>2. \A j \in Job : job'[j] = IF j = task[w] THEN "COMPLETED" ELSE job[j]
        BY <3>1, <3>2 DEF TypeInv, TypeOK
      <4>3. QED
        BY <1>0, <3>2, <4>1, <4>2 DEF Recorded
    <3>4. Ledger!Load(task[w])
      BY <2>0, <3>3 DEF Ledger!Load
    <3>5. QED
      BY <3>2, <3>4 DEF Ledger!LedgerNext
  <2>2. CASE ~(Finish(w) /\ job' # job)
    <3>1. \A j \in Job : job[j] = "COMPLETED" <=> job'[j] = "COMPLETED"
      <4>1. CASE Start(w) \/ GiveUp(w)
        <5>1. task[w] \in Job /\ job[task[w]] # "COMPLETED"
          BY <2>0, <4>1
          DEF Start, GiveUp, TypeInv, TypeOK, TaskHeld, ControlInv, JobMatchesWorker, Waiting, Busy
        <5>2. \A j \in Job : \/ job'[j] = job[j]
                             \/ j = task[w] /\ job'[j] \in {"RUNNING", "FAILED"}
          BY <4>1 DEF Start, GiveUp, TypeInv, TypeOK
        <5>3. QED
          BY <5>1, <5>2
      <4>2. CASE ~(Start(w) \/ GiveUp(w))
        BY <1>2, <2>2, <4>2
        DEF WorkerStep, Take, AcquireSlot, Clean, Open, CopyRow, CopyFails, CopyDone, RetryPipeline
      <4>3. QED
        BY <4>1, <4>2
    <3>2. ASSUME NEW j \in Job, job[j] = "COMPLETED", NEW r \in plan[j] PROVE db'[r] = db[r]
      <4>1. r \in Row
        BY PlanFacts
      <4>2. CASE Clean(w)
        <5>1. task[w] \in Job /\ task[w] # j
          BY <2>0, <3>2, <4>2 DEF Clean, TypeInv, TypeOK, TaskHeld, ControlInv, JobMatchesWorker, Busy
        <5>2. r \notin Cleanup(task[w], attempt[w] > 0 \/ task[w] \in retrying)
          BY <3>2, <5>1, CleanupOwn
        <5>3. UNCHANGED db \/ db' = Truncated(Cleanup(task[w], attempt[w] > 0 \/ task[w] \in retrying))
          BY <4>2 DEF Clean
        <5>4. QED
          BY <4>1, <5>2, <5>3, TruncatedRows
      <4>3. CASE CopyRow(w)
        <5>1. task[w] \in Job /\ task[w] # j
          BY <2>0, <3>2, <4>3 DEF CopyRow, TypeInv, TypeOK, TaskHeld, ControlInv, JobMatchesWorker, Busy
        <5>2. \A s \in todo[w] : s # r
          BY <2>0, <3>2, <4>3, <5>1, PlanFacts DEF CopyRow, CopyProgress
        <5>3. QED
          BY <4>1, <4>3, <5>2 DEF CopyRow, TypeInv, TypeOK
      <4>4. CASE ~Clean(w) /\ ~CopyRow(w)
        BY <1>2, <4>4
        DEF WorkerStep, Take, AcquireSlot, Start, Open, CopyFails, CopyDone, RetryPipeline, GiveUp, Finish
      <4>5. QED
        BY <4>2, <4>3, <4>4
    <3>3. Recorded' = Recorded
      BY <3>1, <3>2, RecordedKept
    <3>4. QED
      BY <1>1, <2>0, <3>3
  <2>3. QED
    BY <2>1, <2>2
<1>3. CASE AfterData /\ engine' = "succeeded"
  <2>1. UNCHANGED <<job, db>>
    BY <1>3 DEF AfterData
  <2>2. Recorded' = Recorded
    BY <2>1, RecordedKept
  <2>3. \A j \in Job : job[j] = "COMPLETED" /\ Exact(j)
    BY <1>3, <2>1 DEF AfterData, ControlInv, AllDone, RowInv, CompletedGood, Good
  <2>4. Recorded = Job
    BY <1>0, <2>3 DEF Recorded
  <2>5. QED
    BY <1>3, <2>2, <2>4 DEF Ledger!LedgerNext, Ledger!ReportDone
<1>4. CASE Resume
  <2>1. \A j \in Job : job[j] = "COMPLETED" <=> job'[j] = "COMPLETED"
    BY <1>4 DEF Resume, Retried
  <2>2. Recorded' = Recorded
    BY <1>4, <2>1, RecordedKept DEF Resume
  <2>3. engine' # "succeeded"
    BY <1>4 DEF Resume
  <2>4. CASE engine = "succeeded"
    BY <2>2, <2>3, <2>4 DEF Ledger!LedgerNext, Ledger!Reopen
  <2>5. CASE engine # "succeeded"
    BY <1>1, <2>2, <2>3, <2>5
  <2>6. QED
    BY <2>4, <2>5
<1>5. ASSUME NEW t \in Table, ResetTable(t) PROVE [Ledger!LedgerNext]_(Ledger!ledger)
  <2>1. engine = "reset" /\ engine' = "reset" /\ UNCHANGED job /\ t \in resetTables
    BY <1>5 DEF ResetTable
  <2>2. CASE UNCHANGED db
    BY <1>1, <2>1, <2>2, RecordedKept
  <2>3. CASE db' = Truncated(TableRows(t))
    <3>1. PICK k \in TableChunks(t) : job[k] = "RETRYING"
      BY <2>1 DEF RowInv, ResetTarget
    <3>2. k \in Job /\ k \in Chunked /\ TableOf[k] = t
      BY <3>1, ConstantsAssumption DEF TableChunks
    <3>3. \A j \in Job : TableOf[j] = t => j \in TableChunks(t)
      BY <3>2 DEF SeparateTasks, TableChunks
    <3>4. ASSUME NEW j \in Job, TableOf[j] # t PROVE Exact(j)' <=> Exact(j)
      <4>1. \A r \in plan[j] : r \in Row /\ r \notin TableRows(t)
        BY <3>4, PlanFacts DEF TableRows
      <4>2. \A r \in plan[j] : db'[r] = db[r]
        BY <2>3, <4>1, TruncatedRows
      <4>3. QED
        BY <1>0, <4>2 DEF Exact
    <3>5. ASSUME NEW j \in Job PROVE Exact(j)' => Exact(j)
      <4>1. \A r \in plan[j] : r \in Row
        BY PlanFacts
      <4>2. \A r \in plan[j] : db'[r] = 1 => db[r] = 1
        BY <2>3, <4>1, TruncatedRows
      <4>3. QED
        BY <1>0, <4>2 DEF Exact
    <3>6. DEFINE S == {j \in TableChunks(t) : ~Exact(j)'}
    <3>7. Recorded' = Recorded \ S /\ S \in SUBSET TableChunks(t)
      BY <1>0, <2>1, <3>3, <3>4, <3>5 DEF Recorded
    <3>8. ~(TableChunks(t) \subseteq Recorded)
      BY <3>1 DEF Recorded
    <3>9. TableChunks(t) \in ChunkGroups
      BY DEF ChunkGroups
    <3>10. Ledger!StartOver(TableChunks(t))
      BY <2>1, <3>7, <3>8 DEF Ledger!StartOver
    <3>11. QED
      BY <3>9, <3>10 DEF Ledger!LedgerNext
  <2>4. QED
    BY <1>5, <2>2, <2>3 DEF ResetTable
<1>6. ASSUME NEW k \in Job, ResetJob(k) PROVE [Ledger!LedgerNext]_(Ledger!ledger)
  <2>1. /\ engine = "reset" /\ engine' = "reset" /\ UNCHANGED db /\ k \in resetJobs
    BY <1>6 DEF ResetJob
  <2>2. CASE UNCHANGED job
    BY <1>1, <2>1, <2>2, RecordedKept
  <2>3. CASE job' = [job EXCEPT ![k] = "RETRYING"]
    <3>1. \A j \in Job : job'[j] = IF j = k THEN "RETRYING" ELSE job[j]
      BY <2>3 DEF TypeInv, TypeOK
    <3>2. \A j \in Job : Exact(j)' <=> Exact(j)
      BY <1>0, <2>1 DEF Exact
    <3>3. Recorded' = Recorded \ {k}
      BY <1>0, <3>1, <3>2 DEF Recorded
    <3>4. k \in Chunked /\ TableOf[k] \in Table /\ \E i \in TableChunks(TableOf[k]) : job[i] = "RETRYING"
      BY <2>1, ConstantsAssumption DEF RowInv, ResetTarget
    <3>5. k \in TableChunks(TableOf[k]) /\ ~(TableChunks(TableOf[k]) \subseteq Recorded)
      BY <3>4 DEF TableChunks, SeparateTasks, Recorded
    <3>6. TableChunks(TableOf[k]) \in ChunkGroups
      BY <3>4 DEF ChunkGroups
    <3>7. Ledger!StartOver(TableChunks(TableOf[k]))
      BY <2>1, <3>3, <3>5 DEF Ledger!StartOver
    <3>8. QED
      BY <3>6, <3>7 DEF Ledger!LedgerNext
  <2>4. QED
    BY <1>6, <2>2, <2>3 DEF ResetJob
<1>7. CASE UNCHANGED <<job, db>> /\ (engine' = "succeeded") = (engine = "succeeded")
  BY <1>1, <1>7, RecordedKept
<1>8. CASE StartData \/ StartDataFails \/ PoolDone \/ Cancel \/ Crash \/ Scan \/ Replan \/ UNCHANGED vars
  BY <1>7, <1>8 DEF StartData, StartDataFails, PoolDone, Cancel, Crash, Scan, Replan, vars, Active
<1>9. CASE AfterData /\ engine' # "succeeded"
  BY <1>7, <1>9 DEF AfterData
<1>10. QED
  BY <1>2, <1>3, <1>4, <1>5, <1>6, <1>8, <1>9 DEF Next, ResumeStep

(* Under the same conditions the whole data phase, with its workers, its    *)
(* retries, its job store, crashes, cancellations and resumptions, is an    *)
(* implementation of the ledger: a finished job is only ever given up when  *)
(* its unfinished chunked table is started over.                            *)
THEOREM LedgerImplemented ==
  ASSUME StablePlan, SeparateTasks, ReplacingModes, CleanupSucceeds
  PROVE  Spec => ImplementsLedger
<1>1. Init => Ledger!LedgerInit
  BY DEF Init, Ledger!LedgerInit, Recorded
<1>2. TypeInv /\ TypeInv' /\ DataInv /\ DataInv' /\ [Next]_vars
        => [Ledger!LedgerNext]_(Ledger!ledger)
  BY LedgerStep DEF DataInv
<1>3. QED
  BY <1>1, <1>2, TypeInvariance, DataInvariance, PTL DEF Spec, ImplementsLedger, Ledger!LedgerSpec
=============================================================================
