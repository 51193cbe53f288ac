------------------------ MODULE EnginePhases_proofs ------------------------
(***************************************************************************)
(* Theorems about EnginePhases: what a success of Run, or of Resume, says  *)
(* of the jobs and of the target, for every set of tables, tasks, foreign  *)
(* keys and configurations and every number of failures.                   *)
(***************************************************************************)
EXTENDS EnginePhases, TLAPS

AfterDDL == {"data", "log", "keys", "references", "validate", "summary"}
AfterData == {"keys", "references", "validate", "summary"}

(* Where the engine is: the jobs a phase has left, the steps of their       *)
(* statements, and the phases that only Run has.                            *)
StepsOf(phase) ==
  CASE phase = "ddl" -> {"claim", "look", "empty", "drop", "create", "divide", "save", "fail"}
    [] phase = "data" -> {"claim", "batch 1", "batch 2", "save", "fail"}
    [] phase = "keys" -> {"claim", "key"}
    [] phase = "references" -> {"claim", "save", "fail"}
    [] phase = "validate" -> {"claim", "count", "save", "fail"}
    [] OTHER -> {"claim"}

Control ==
  /\ (pc = "idle") = (call = "none")
  /\ pc \in {"idle", "extract", "summary"} => todo = {}
  /\ pc = "init" => todo \subseteq Created
  /\ pc \in {"ddl", "data", "log", "validate"} => todo \subseteq JobsOf(pc)
  /\ pc \in {"keys", "references"} => todo \subseteq JobsOf("constraints")
  /\ pc \in {"init", "ddl", "log", "validate"} => call = "run"
  /\ pc = "log" => conf.unlogged
  /\ pc = "validate" => conf.validate
  /\ bad => pc = "data"
  /\ at \in StepsOf(pc)
  /\ todo = {} => at = "claim"

(* The target: rows and foreign keys have a table, a key and a first batch. *)
Target ==
  /\ \A r \in refs : r[2] \in keys
  /\ \A k \in Task : TableOf[k] \notin exists => rows[k] = Empty
  /\ \A k \in Task : rows[k]["batch 1"] = 0 => rows[k]["batch 2"] = 0
  /\ ~conf.unlogged => exists \subseteq logged
  /\ pc = "data" /\ at = "batch 2" =>
       \A j \in todo : First("data", j) => rows[j[2]]["batch 1"] # 0

Remade(t) == conf.mode[t] \in {"recreate", "truncate"}
Fresh(t) == t \notin old /\ \A k \in RowsOf(t) : rows[k] = Empty

(* The table of a DDL job that is about to be saved. *)
Prepared ==
  pc = "ddl" =>
    \A j \in todo : First("ddl", j) =>
      /\ at \in {"empty", "divide", "save"} => j[2] \in exists
      /\ at \in {"divide", "save"} /\ Remade(j[2]) => Fresh(j[2])

(* The jobs of Run, phase by phase. *)
Settled(j) == jobs[j] = "COMPLETED" \/ j \in unsaved
Ended(j) == Settled(j) \/ jobs[j] = "FAILED"

RunJobs ==
  call = "run" =>
    /\ pc = "extract" => \A j \in Job : jobs[j] = "none"
    /\ pc = "init" => \A j \in Job : jobs[j] \in {"none", "PENDING"} /\ (j \in Created \ todo => jobs[j] = "PENDING")
    /\ pc \in {"ddl"} \cup AfterDDL => \A j \in Created : jobs[j] # "none"
    /\ pc = "ddl" => \A j \in JobsOf("ddl") : j \in todo \/ (Settled(j) /\ j[2] \in exists)
    /\ pc \in AfterDDL => \A j \in JobsOf("ddl") : Settled(j) /\ j[2] \in exists
    /\ pc = "ddl" => \A j \in JobsOf("data") : jobs[j] = "PENDING"
    /\ pc \in {"ddl", "data", "log"} => \A j \in JobsOf("constraints") : jobs[j] = "PENDING"
    /\ pc = "keys" => \A j \in JobsOf("constraints") : j \in todo \/ jobs[j] = "RUNNING" \/ Settled(j)
    /\ pc = "references" => \A j \in JobsOf("constraints") : j \in todo \/ Ended(j)
    /\ pc \in {"validate", "summary"} => \A j \in JobsOf("constraints") : Ended(j)
    /\ pc \in {"ddl", "data", "log", "keys", "references"} => \A j \in JobsOf("validate") : jobs[j] = "PENDING"
    /\ pc = "validate" => \A j \in JobsOf("validate") : j \in todo \/ Ended(j)
    /\ pc = "summary" /\ conf.validate => \A j \in JobsOf("validate") : Ended(j)

(* The data jobs of Run and of Resume. *)
Done(j) == jobs[j] \in {"none", "COMPLETED"}

DataJobs ==
  /\ \A j \in Job : jobs[j] # "SKIPPED"
  /\ call = "resume" /\ pc = "extract" => \A j \in Job : jobs[j] \notin {"RUNNING", "FAILED"}
  /\ pc = "data" => \A j \in JobsOf("data") : j \in todo \/ Done(j) \/ bad \/ cancelled
  /\ pc = "data" => \A j \in todo :
       IF First("data", j) /\ at # "claim" THEN jobs[j] = "RUNNING" ELSE jobs[j] \in {"PENDING", "RETRYING"}
  /\ pc = "log" => cancelled \/ \A j \in JobsOf("data") : Done(j)
  /\ pc \in AfterData => \A j \in JobsOf("data") : Done(j)
  /\ call = "none" /\ result \in {"run done", "resume done"} => \A j \in JobsOf("data") : Done(j)

(* The primary keys that pass one has seen to. *)
SeenTo(t) == t \in keys \cup warned \cup conf.bare

KeyJobs ==
  /\ \A t \in Table : jobs[<<"constraints", t>>] \in {"COMPLETED", "FAILED"} => SeenTo(t)
  /\ call = "resume" /\ pc = "data" => \A t \in Table : jobs[<<"constraints", t>>] \notin {"RUNNING", "FAILED"}
  /\ pc = "keys" => \A t \in Table : <<"constraints", t>> \in todo \/ SeenTo(t) \/ jobs[<<"constraints", t>>] = "none"
  /\ pc = "references" => \A t \in Table : SeenTo(t) \/ jobs[<<"constraints", t>>] = "none"
  /\ pc = "keys" /\ at = "key" => \A j \in todo : First("keys", j) => jobs[j] = "RUNNING"
  /\ pc = "references" => \A j \in todo : jobs[j] = "RUNNING"

(* The rows of the tables that PreparedSuccessIsExact is about. *)
Exact(t) == Remade(t) /\ TaskByTask(t) /\ jobs[<<"ddl", t>>] = "COMPLETED"
Once == [b \in Batch |-> 1]

RowsOfJobs ==
  \A k \in Task : Exact(TableOf[k]) =>
    /\ jobs[<<"data", k>>] # "none"
    /\ jobs[<<"data", k>>] = "PENDING" => rows[k] = Empty
    /\ jobs[<<"data", k>>] = "COMPLETED" => rows[k] = Once
    /\ pc = "data" /\ <<"data", k>> \in todo /\ First("data", <<"data", k>>) =>
         /\ at = "batch 1" => rows[k] = Empty \/ ~Accepts(k, "batch 1")
         /\ at = "batch 2" => rows[k]["batch 1"] = 1 /\ rows[k]["batch 2"] = 0
         /\ at = "save" => rows[k] = Once

NoOldRows == \A t \in Table : Exact(t) => t \notin old

(* The conversion to LOGGED. *)
Logging ==
  call = "run" =>
    /\ pc = "log" => unconverted \/ \A t \in Table : Planned(t) => <<"log", t>> \in todo \/ t \in logged
    /\ pc \in AfterData => unconverted \/ \A t \in Table : Planned(t) => t \in logged

IInv ==
  /\ TypeOK /\ Control /\ Target /\ Prepared /\ RunJobs /\ DataJobs /\ KeyJobs /\ RowsOfJobs /\ NoOldRows /\ Logging
  /\ SuccessMeansSettled /\ LoggedAfterRun
-----------------------------------------------------------------------------
(* What a job of a phase is. *)
LEMMA JobShape ==
  ASSUME NEW phase, NEW j \in JobsOf(phase)
  PROVE  /\ j = <<j[1], j[2]>> /\ j[1] = phase
         /\ phase = "data" => j[2] \in Task /\ Planned(TableOf[j[2]])
         /\ phase # "data" => j[2] \in Table
         /\ phase \notin {"data", "constraints"} => Planned(j[2])
BY DEF JobsOf

LEMMA JobIn ==
  /\ \A t \in Table : <<"constraints", t>> \in JobsOf("constraints")
  /\ \A t \in Table : Planned(t) =>
       <<"ddl", t>> \in JobsOf("ddl") /\ <<"log", t>> \in JobsOf("log") /\ <<"validate", t>> \in JobsOf("validate")
  /\ \A k \in Task : Planned(TableOf[k]) => <<"data", k>> \in JobsOf("data")
BY DEF JobsOf

LEMMA JobSets ==
  /\ JobsOf("ddl") \subseteq Created /\ JobsOf("data") \subseteq Created
  /\ JobsOf("constraints") \subseteq Created /\ JobsOf("validate") \subseteq Created
  /\ Created \subseteq Job /\ JobsOf("log") \subseteq {"log"} \X Table
BY DEF JobsOf, Created, Job

LEMMA SameJobs ==
  ASSUME conf' = conf
  PROVE  /\ JobsOf("ddl")' = JobsOf("ddl") /\ JobsOf("data")' = JobsOf("data")
         /\ JobsOf("constraints")' = JobsOf("constraints") /\ JobsOf("validate")' = JobsOf("validate")
         /\ JobsOf("log")' = JobsOf("log") /\ Created' = Created
BY DEF JobsOf, Created, Planned

(* Jobs are taken one after the other: no two are the next one at once.     *)
LEMMA PlaceIsUnique ==
  ASSUME NEW S, NEW xs \in Seq(S), NEW x \in Range(xs), NEW y \in Range(xs), x # y
  PROVE  Place(xs, x) < Place(xs, y) \/ Place(xs, y) < Place(xs, x)
<1>1. DOMAIN xs = 1..Len(xs) /\ Len(xs) \in Nat
  OBVIOUS
<1>2. \A z \in Range(xs) : Place(xs, z) \in DOMAIN xs /\ xs[Place(xs, z)] = z
  BY DEF Place, Range
<1> QED
  BY <1>1, <1>2

LEMMA OneIsFirst ==
  ASSUME NEW phase, NEW i, NEW j, First(phase, i), First(phase, j), todo \subseteq Job \cup ({"log"} \X Table)
  PROVE  i = j
<1> DEFINE xs == IF i[1] = "data" THEN TaskOrder ELSE Order
<1>1. i \in Job \cup ({"log"} \X Table) /\ j \in Job \cup ({"log"} \X Table) /\ ~Earlier(i, j) /\ ~Earlier(j, i)
  BY DEF First
<1>2. i[1] \in Range(Kinds) /\ j[1] \in Range(Kinds) /\ Kinds \in Seq({"ddl", "data", "log", "constraints", "validate"})
  <2>1. \A n \in 1..5 : Kinds[n] \in Range(Kinds)
    BY DEF Range, Kinds
  <2>2. Kinds[1] = "ddl" /\ Kinds[2] = "data" /\ Kinds[3] = "log" /\ Kinds[4] = "constraints" /\ Kinds[5] = "validate"
    BY DEF Kinds
  <2>3. {"ddl", "data", "log", "constraints", "validate"} \subseteq Range(Kinds)
    BY <2>1, <2>2
  <2>4. i[1] \in {"ddl", "data", "log", "constraints", "validate"} /\ j[1] \in {"ddl", "data", "log", "constraints", "validate"}
    BY <1>1 DEF Job
  <2>5. Kinds \in Seq({"ddl", "data", "log", "constraints", "validate"})
    BY DEF Kinds
  <2> QED
    BY <2>3, <2>4, <2>5
<1>3. i[1] = j[1]
  <2>1. SUFFICES ASSUME i[1] # j[1] PROVE FALSE
    OBVIOUS
  <2>2. ~(Place(Kinds, i[1]) < Place(Kinds, j[1])) /\ ~(Place(Kinds, j[1]) < Place(Kinds, i[1]))
    BY <1>1, <2>1 DEF Earlier
  <2> QED
    BY <1>2, <2>1, <2>2, PlaceIsUnique
<1>4. i[2] \in Range(xs) /\ j[2] \in Range(xs) /\ i = <<i[1], i[2]>> /\ j = <<j[1], j[2]>> /\ xs \in Seq(Range(xs))
  BY <1>1, <1>3, PhasesConstants DEF Job, Table, Task
<1>5. i[2] = j[2]
  <2>1. SUFFICES ASSUME i[2] # j[2] PROVE FALSE
    OBVIOUS
  <2>2. ~(Place(xs, i[2]) < Place(xs, j[2])) /\ ~(Place(xs, j[2]) < Place(xs, i[2]))
    BY <1>1, <1>3 DEF Earlier
  <2> HIDE DEF xs
  <2> QED
    BY <1>4, <2>1, <2>2, PlaceIsUnique
<1> QED
  BY <1>3, <1>4, <1>5
-----------------------------------------------------------------------------
(* A failure is counted, within the bound. *)
LEMMA FaultsCounted ==
  ASSUME TypeOK
  PROVE  /\ faults \in 0..MaxFaults
         /\ \A kind : Fails(kind) => faults' \in 0..MaxFaults
         /\ faults < MaxFaults /\ faults' = faults + 1 => faults' \in 0..MaxFaults
         /\ Works => faults' = faults
<1>1. faults \in 0..MaxFaults /\ MaxFaults \in Nat
  BY PhasesConstants DEF TypeOK
<1>2. faults < MaxFaults /\ faults' = faults + 1 => faults' \in 0..MaxFaults
  BY <1>1
<1>3. ASSUME NEW kind, Fails(kind) PROVE faults' = faults \/ (faults < MaxFaults /\ faults' = faults + 1)
  BY <1>3 DEF Fails
<1> QED
  BY <1>1, <1>2, <1>3 DEF Works

(* The invariant holds before the first Run. *)
LEMMA Initially ==
  ASSUME Init
  PROVE  IInv
<1>1. TypeOK
  <2>1. conf \in Configs /\ conf.existing \subseteq Table
    BY PhasesConstants DEF Init, Config
  <2>2. rows \in [Task -> [Batch -> 0..2]]
    BY DEF Init, Empty
  <2>3. jobs \in [Job -> JobState] /\ faults \in 0..MaxFaults
    BY PhasesConstants DEF Init, JobState
  <2> QED
    BY <2>1, <2>2, <2>3 DEF Init, TypeOK, Steps
<1>2. Control /\ Target /\ Prepared /\ RunJobs /\ Logging
  BY <1>1 DEF Init, Control, StepsOf, Target, Prepared, RunJobs, Logging, Batch, Empty, TypeOK
<1>3. DataJobs /\ KeyJobs /\ RowsOfJobs /\ NoOldRows
  <2>1. \A t \in Table : <<"ddl", t>> \in Job /\ <<"constraints", t>> \in Job
    BY DEF Job
  <2>2. \A j \in Job : jobs[j] = "none"
    BY DEF Init
  <2>3. DataJobs
    BY <2>2 DEF Init, DataJobs, AfterData
  <2>4. KeyJobs
    BY <2>1, <2>2 DEF Init, KeyJobs
  <2>5. RowsOfJobs /\ NoOldRows
    BY <2>1, <2>2, PhasesConstants DEF RowsOfJobs, NoOldRows, Exact
  <2> QED
    BY <2>3, <2>4, <2>5
<1>4. SuccessMeansSettled /\ LoggedAfterRun
  BY DEF Init, SuccessMeansSettled, LoggedAfterRun
<1> QED
  BY <1>1, <1>2, <1>3, <1>4 DEF IInv

(* A call that ends without success leaves the invariant: the job that it   *)
(* may mark as FAILED is one of the DDL.                                    *)
LEMMA CallEnds ==
  ASSUME IInv, NEW how \in {"error", "panic", "crash"}, Return(how), call # "none",
         UNCHANGED <<conf, target, warned, unconverted, cancelled>>, faults' \in 0..MaxFaults,
         jobs' \in [Job -> JobState], unsaved' \subseteq Job,
         \A j \in Job : jobs'[j] = jobs[j] \/ (j[1] = "ddl" /\ jobs'[j] = "FAILED")
  PROVE  IInv'
<1>0. TypeOK /\ Control /\ Target /\ Prepared /\ RunJobs /\ DataJobs /\ KeyJobs /\ RowsOfJobs /\ NoOldRows /\ Logging
     /\ SuccessMeansSettled /\ LoggedAfterRun
  BY DEF IInv
<1>1. /\ call' = "none" /\ pc' = "idle" /\ todo' = {} /\ at' = "claim" /\ bad' = FALSE /\ result' = how
      /\ UNCHANGED <<conf, exists, whole, logged, keys, refs, rows, old, warned, unconverted, cancelled>>
  BY DEF Return, target
<1>2. \A t \in Table : <<"ddl", t>> \in Job /\ <<"constraints", t>> \in Job
  BY DEF Job
<1>3. \A k \in Task : <<"data", k>> \in Job
  BY DEF Job
<1>4. \A t \in Table : jobs'[<<"constraints", t>>] = jobs[<<"constraints", t>>]
  BY <1>2
<1>a. TypeOK'
  BY <1>0, <1>1 DEF TypeOK, Phases, Steps
<1>b. Control'
  BY <1>0, <1>1 DEF Control, StepsOf
<1>c. Target'
  BY <1>0, <1>1 DEF Target, First
<1>d. Prepared'
  BY <1>0, <1>1 DEF Prepared, First, Remade, Fresh, RowsOf
<1>e. RunJobs'
  BY <1>0, <1>1 DEF RunJobs, Settled, Ended, AfterDDL
<1>f. DataJobs'
  BY <1>0, <1>1 DEF DataJobs, Done, First, AfterData, AfterData
<1>g. KeyJobs'
  BY <1>0, <1>1, <1>4 DEF KeyJobs, SeenTo
<1>h. RowsOfJobs'
  <2>1. \A k \in Task : TableOf[k] \in Table /\ jobs'[<<"data", k>>] = jobs[<<"data", k>>]
    BY <1>3, PhasesConstants
  <2>2. ASSUME NEW t \in Table, Exact(t)' PROVE Exact(t)
    BY <1>1, <1>2, <2>2 DEF Exact, Remade, TaskByTask, RowsOf
  <2> QED
    BY <1>0, <1>1, <2>1, <2>2 DEF RowsOfJobs
<1>i. NoOldRows'
  BY <1>0, <1>1, <1>2 DEF NoOldRows, Exact, Remade, TaskByTask, RowsOf
<1>j. Logging'
  BY <1>0, <1>1 DEF Logging, AfterData, Planned
<1>k. SuccessMeansSettled'
  BY <1>0, <1>1 DEF SuccessMeansSettled
<1>l. LoggedAfterRun'
  BY <1>0, <1>1 DEF LoggedAfterRun, Planned
<1> QED
  BY <1>a, <1>b, <1>c, <1>d, <1>e, <1>f, <1>g, <1>h, <1>i, <1>j, <1>k, <1>l DEF IInv

(* Run is called. *)
LEMMA RunStarts ==
  ASSUME IInv, StartRun
  PROVE  IInv'
<1>0. TypeOK /\ Control /\ Target /\ Prepared /\ RunJobs /\ DataJobs /\ KeyJobs /\ RowsOfJobs /\ NoOldRows /\ Logging
     /\ SuccessMeansSettled /\ LoggedAfterRun
  BY DEF IInv
<1>1. /\ call = "none" /\ pc = "idle" /\ todo = {} /\ at = "claim" /\ ~bad /\ cancelled' = FALSE
      /\ UNCHANGED <<conf, exists, whole, logged, keys, refs, rows, old, todo, at, bad, warned>>
  BY <1>0 DEF StartRun, Control, target, StepsOf
<1>2. \A t \in Table : <<"ddl", t>> \in Job /\ <<"constraints", t>> \in Job
  BY DEF Job
<1>2a. [j \in Job |-> "none"] \in [Job -> JobState]
  BY DEF JobState
<1>3. CASE /\ UNCHANGED <<faults, result>> /\ jobs' = [j \in Job |-> "none"] /\ call' = "run" /\ pc' = "extract"
           /\ unsaved' = {} /\ unconverted' = FALSE
  <2>a. TypeOK'
    BY <1>0, <1>1, <1>3, <1>2a DEF TypeOK, Phases
  <2>b. Control'
    BY <1>0, <1>1, <1>3 DEF Control, StepsOf
  <2>c. Target'
    BY <1>0, <1>1, <1>3 DEF Target, First
  <2>d. Prepared'
    BY <1>0, <1>1, <1>3 DEF Prepared, First, Remade, Fresh, RowsOf
  <2>e. RunJobs'
    BY <1>0, <1>1, <1>3, <1>2, JobSets DEF RunJobs, Settled, Ended, AfterDDL
  <2>f. DataJobs'
    BY <1>0, <1>1, <1>3, <1>2 DEF DataJobs, Done, First, AfterData
  <2>g. KeyJobs'
    BY <1>0, <1>1, <1>3, <1>2 DEF KeyJobs, SeenTo, First
  <2>h. RowsOfJobs'
    BY <1>0, <1>1, <1>3, <1>2, PhasesConstants DEF RowsOfJobs, Exact, Remade, TaskByTask, RowsOf, Accepts, Sees, First
  <2>i. NoOldRows'
    BY <1>0, <1>1, <1>3, <1>2 DEF NoOldRows, Exact, Remade, TaskByTask, RowsOf
  <2>j. Logging'
    BY <1>0, <1>1, <1>3 DEF Logging, AfterData, Planned
  <2>k. SuccessMeansSettled'
    BY <1>0, <1>1, <1>3 DEF SuccessMeansSettled
  <2>l. LoggedAfterRun'
    BY <1>0, <1>1, <1>3 DEF LoggedAfterRun, Planned
  <2> QED
    BY <2>a, <2>b, <2>c, <2>d, <2>e, <2>f, <2>g, <2>h, <2>i, <2>j, <2>k, <2>l DEF IInv
<1>4. CASE /\ faults < MaxFaults /\ faults' = faults + 1 /\ result' = "error" /\ UNCHANGED <<jobs, call, pc, unsaved, unconverted>>
  <2>a. TypeOK'
    BY <1>0, <1>1, <1>4, FaultsCounted DEF TypeOK
  <2>b. Control'
    BY <1>0, <1>1, <1>4 DEF Control, StepsOf
  <2>c. Target'
    BY <1>0, <1>1, <1>4 DEF Target, First
  <2>d. Prepared'
    BY <1>0, <1>1, <1>4 DEF Prepared, First, Remade, Fresh, RowsOf
  <2>e. RunJobs'
    BY <1>0, <1>1, <1>4 DEF RunJobs, Settled, Ended, AfterDDL
  <2>f. DataJobs'
    BY <1>0, <1>1, <1>4 DEF DataJobs, Done, First, AfterData
  <2>g. KeyJobs'
    BY <1>0, <1>1, <1>4 DEF KeyJobs, SeenTo, First
  <2>h. RowsOfJobs'
    BY <1>0, <1>1, <1>4, PhasesConstants DEF RowsOfJobs, Exact, Remade, TaskByTask, RowsOf, Accepts, Sees, First
  <2>i. NoOldRows'
    BY <1>0, <1>1, <1>4 DEF NoOldRows, Exact, Remade, TaskByTask, RowsOf
  <2>j. Logging'
    BY <1>0, <1>1, <1>4 DEF Logging, AfterData, Planned
  <2>k. SuccessMeansSettled'
    BY <1>0, <1>1, <1>4 DEF SuccessMeansSettled
  <2>l. LoggedAfterRun'
    BY <1>0, <1>1, <1>4 DEF LoggedAfterRun, Planned
  <2> QED
    BY <2>a, <2>b, <2>c, <2>d, <2>e, <2>f, <2>g, <2>h, <2>i, <2>j, <2>k, <2>l DEF IInv
<1> QED
  BY <1>3, <1>4 DEF StartRun

(* Resume is called. *)
LEMMA ResumeStarts ==
  ASSUME IInv, StartResume
  PROVE  IInv'
<1>0. TypeOK /\ Control /\ Target /\ Prepared /\ RunJobs /\ DataJobs /\ KeyJobs /\ RowsOfJobs /\ NoOldRows /\ Logging
     /\ SuccessMeansSettled /\ LoggedAfterRun
  BY DEF IInv
<1>1. /\ call = "none" /\ pc = "idle" /\ todo = {} /\ at = "claim" /\ ~bad /\ cancelled' = FALSE
      /\ UNCHANGED <<conf, exists, whole, logged, keys, refs, rows, old, todo, at, bad, warned, unsaved, unconverted>>
  BY <1>0 DEF StartResume, Control, target, history, StepsOf
<1>2. \A t \in Table : <<"ddl", t>> \in Job /\ <<"constraints", t>> \in Job
  BY DEF Job
<1>3. \A k \in Task : <<"data", k>> \in Job
  BY DEF Job
<1>4. CASE UNCHANGED <<faults, result>> /\ jobs' = [j \in Job |-> Retried(jobs[j])] /\ call' = "resume" /\ pc' = "extract"
  <2>1. \A j \in Job : /\ jobs'[j] \in JobState /\ jobs'[j] \notin {"RUNNING", "FAILED"}
                       /\ jobs'[j] # "RETRYING" => jobs'[j] = jobs[j]
    BY <1>0, <1>4 DEF TypeOK, JobState, Retried
  <2>2. jobs' \in [Job -> JobState]
    BY <1>4, <2>1
  <2>a. TypeOK'
    BY <1>0, <1>1, <1>4, <2>1, <2>2 DEF TypeOK, Phases
  <2>b. Control'
    BY <1>0, <1>1, <1>4, <2>1 DEF Control, StepsOf
  <2>c. Target'
    BY <1>0, <1>1, <1>4, <2>1 DEF Target, First
  <2>d. Prepared'
    BY <1>0, <1>1, <1>4, <2>1 DEF Prepared, First, Remade, Fresh, RowsOf
  <2>e. RunJobs'
    BY <1>0, <1>1, <1>4, <2>1, JobSets DEF RunJobs, Settled, Ended, AfterDDL
  <2>f. DataJobs'
    BY <1>0, <1>1, <1>4, <2>1 DEF DataJobs, Done, First, AfterData
  <2>g. KeyJobs'
    BY <1>0, <1>1, <1>4, <2>1, <1>2 DEF KeyJobs, SeenTo, First
  <2>h. RowsOfJobs'
    BY <1>0, <1>1, <1>4, <2>1, <1>2, <1>3, PhasesConstants DEF RowsOfJobs, Exact, Remade, TaskByTask, RowsOf, Accepts, Sees, First
  <2>i. NoOldRows'
    BY <1>0, <1>1, <1>4, <2>1, <1>2 DEF NoOldRows, Exact, Remade, TaskByTask, RowsOf
  <2>j. Logging'
    BY <1>0, <1>1, <1>4, <2>1 DEF Logging, AfterData, Planned
  <2>k. SuccessMeansSettled'
    BY <1>0, <1>1, <1>4, <2>1 DEF SuccessMeansSettled
  <2>l. LoggedAfterRun'
    BY <1>0, <1>1, <1>4, <2>1 DEF LoggedAfterRun, Planned
  <2> QED
    BY <2>a, <2>b, <2>c, <2>d, <2>e, <2>f, <2>g, <2>h, <2>i, <2>j, <2>k, <2>l DEF IInv
<1>5. CASE /\ faults < MaxFaults /\ faults' = faults + 1 /\ result' = "error" /\ UNCHANGED <<jobs, call, pc>>
  <2>a. TypeOK'
    BY <1>0, <1>1, <1>5, FaultsCounted DEF TypeOK
  <2>b. Control'
    BY <1>0, <1>1, <1>5 DEF Control, StepsOf
  <2>c. Target'
    BY <1>0, <1>1, <1>5 DEF Target, First
  <2>d. Prepared'
    BY <1>0, <1>1, <1>5 DEF Prepared, First, Remade, Fresh, RowsOf
  <2>e. RunJobs'
    BY <1>0, <1>1, <1>5 DEF RunJobs, Settled, Ended, AfterDDL
  <2>f. DataJobs'
    BY <1>0, <1>1, <1>5 DEF DataJobs, Done, First, AfterData
  <2>g. KeyJobs'
    BY <1>0, <1>1, <1>5 DEF KeyJobs, SeenTo, First
  <2>h. RowsOfJobs'
    BY <1>0, <1>1, <1>5, PhasesConstants DEF RowsOfJobs, Exact, Remade, TaskByTask, RowsOf, Accepts, Sees, First
  <2>i. NoOldRows'
    BY <1>0, <1>1, <1>5 DEF NoOldRows, Exact, Remade, TaskByTask, RowsOf
  <2>j. Logging'
    BY <1>0, <1>1, <1>5 DEF Logging, AfterData, Planned
  <2>k. SuccessMeansSettled'
    BY <1>0, <1>1, <1>5 DEF SuccessMeansSettled
  <2>l. LoggedAfterRun'
    BY <1>0, <1>1, <1>5 DEF LoggedAfterRun, Planned
  <2> QED
    BY <2>a, <2>b, <2>c, <2>d, <2>e, <2>f, <2>g, <2>h, <2>i, <2>j, <2>k, <2>l DEF IInv
<1> QED
  BY <1>4, <1>5 DEF StartResume

(* The source is read and the plan is made. *)
LEMMA Extracts ==
  ASSUME IInv, Extract
  PROVE  IInv'
<1>0. TypeOK /\ Control /\ Target /\ Prepared /\ RunJobs /\ DataJobs /\ KeyJobs /\ RowsOfJobs /\ NoOldRows /\ Logging
     /\ SuccessMeansSettled /\ LoggedAfterRun
  BY DEF IInv
<1>1. /\ pc = "extract" /\ call # "none" /\ todo = {} /\ at = "claim" /\ ~bad
      /\ UNCHANGED <<conf, exists, whole, logged, keys, refs, rows, old, jobs, cancelled, warned, unsaved, unconverted>>
  BY <1>0 DEF Extract, Control, target, history, StepsOf
<1>2. JobsOf("ddl")' = JobsOf("ddl") /\ JobsOf("data")' = JobsOf("data") /\ JobsOf("constraints")' = JobsOf("constraints")
      /\ JobsOf("validate")' = JobsOf("validate") /\ Created' = Created
  BY <1>1, SameJobs
<1>3. CASE Works /\ UNCHANGED <<call, bad, result, at>> /\ call = "run" /\ pc' = "init" /\ todo' = Created
  <2>a. TypeOK'
    BY <1>0, <1>1, <1>2, <1>3, JobSets DEF TypeOK, Phases, Works
  <2>b. Control'
    BY <1>0, <1>1, <1>2, <1>3 DEF Control, StepsOf
  <2>c. Target'
    BY <1>0, <1>1, <1>2, <1>3 DEF Target, First
  <2>d. Prepared'
    BY <1>0, <1>1, <1>2, <1>3 DEF Prepared, First, Remade, Fresh, RowsOf
  <2>e. RunJobs'
    BY <1>0, <1>1, <1>2, <1>3, JobSets DEF RunJobs, Settled, Ended, AfterDDL
  <2>f. DataJobs'
    BY <1>0, <1>1, <1>2, <1>3 DEF DataJobs, Done, First, AfterData
  <2>g. KeyJobs'
    BY <1>0, <1>1, <1>2, <1>3 DEF KeyJobs, SeenTo, First
  <2>h. RowsOfJobs'
    BY <1>0, <1>1, <1>2, <1>3, PhasesConstants DEF RowsOfJobs, Exact, Remade, TaskByTask, RowsOf, Accepts, Sees, First
  <2>i. NoOldRows'
    BY <1>0, <1>1, <1>2, <1>3 DEF NoOldRows, Exact, Remade, TaskByTask, RowsOf
  <2>j. Logging'
    BY <1>0, <1>1, <1>2, <1>3 DEF Logging, AfterData, Planned
  <2>k. SuccessMeansSettled'
    BY <1>0, <1>1, <1>2, <1>3 DEF SuccessMeansSettled
  <2>l. LoggedAfterRun'
    BY <1>0, <1>1, <1>2, <1>3 DEF LoggedAfterRun, Planned
  <2> QED
    BY <2>a, <2>b, <2>c, <2>d, <2>e, <2>f, <2>g, <2>h, <2>i, <2>j, <2>k, <2>l DEF IInv
<1>4. CASE Works /\ UNCHANGED <<call, bad, result, at>> /\ call = "resume" /\ pc' = "data" /\ todo' = Pending("data")
  <2>1. \A j \in JobsOf("data") : /\ j \in Pending("data") <=> jobs[j] \in {"PENDING", "RETRYING"}
                                  /\ jobs[j] \in {"PENDING", "RETRYING", "none", "COMPLETED"}
    BY <1>0, <1>1, <1>4, JobSets DEF Pending, TypeOK, DataJobs, JobState
  <2>2. Pending("data") \subseteq JobsOf("data")
    BY DEF Pending
  <2>3. \A t \in Table : jobs[<<"constraints", t>>] \notin {"RUNNING", "FAILED"}
    BY <1>0, <1>1, <1>4 DEF DataJobs, Job
  <2>a. TypeOK'
    BY <1>0, <1>1, <1>2, <1>4, <2>1, <2>2, JobSets DEF TypeOK, Phases, Works
  <2>b. Control'
    BY <1>0, <1>1, <1>2, <1>4, <2>1, <2>2 DEF Control, StepsOf
  <2>c. Target'
    BY <1>0, <1>1, <1>2, <1>4, <2>1, <2>2 DEF Target, First
  <2>d. Prepared'
    BY <1>0, <1>1, <1>2, <1>4, <2>1, <2>2 DEF Prepared, First, Remade, Fresh, RowsOf
  <2>e. RunJobs'
    BY <1>0, <1>1, <1>2, <1>4, <2>1, <2>2 DEF RunJobs, Settled, Ended, AfterDDL
  <2>f. DataJobs'
    BY <1>0, <1>1, <1>2, <1>4, <2>1, <2>2 DEF DataJobs, Done, First, AfterData
  <2>g. KeyJobs'
    BY <1>0, <1>1, <1>2, <1>4, <2>1, <2>2, <2>3 DEF KeyJobs, SeenTo, First
  <2>h. RowsOfJobs'
    BY <1>0, <1>1, <1>2, <1>4, <2>1, <2>2, PhasesConstants DEF RowsOfJobs, Exact, Remade, TaskByTask, RowsOf, Accepts, Sees, First
  <2>i. NoOldRows'
    BY <1>0, <1>1, <1>2, <1>4, <2>1, <2>2 DEF NoOldRows, Exact, Remade, TaskByTask, RowsOf
  <2>j. Logging'
    BY <1>0, <1>1, <1>2, <1>4, <2>1, <2>2 DEF Logging, AfterData, Planned
  <2>k. SuccessMeansSettled'
    BY <1>0, <1>1, <1>2, <1>4, <2>1, <2>2 DEF SuccessMeansSettled
  <2>l. LoggedAfterRun'
    BY <1>0, <1>1, <1>2, <1>4, <2>1, <2>2 DEF LoggedAfterRun, Planned
  <2> QED
    BY <2>a, <2>b, <2>c, <2>d, <2>e, <2>f, <2>g, <2>h, <2>i, <2>j, <2>k, <2>l DEF IInv
<1>5. CASE Fails("oracle") /\ Return("error")
  <2>1. faults' \in 0..MaxFaults
    BY <1>0, <1>5, FaultsCounted
  <2> QED
    BY <1>0, <1>1, <1>5, <2>1, CallEnds DEF target, TypeOK
<1>6. call \in {"run", "resume"}
  BY <1>0, <1>1 DEF TypeOK
<1> QED
  BY <1>3, <1>4, <1>5, <1>6 DEF Extract

(* initJobs creates the job after the last. *)
LEMMA JobIsCreated ==
  ASSUME IInv, InitJob
  PROVE  IInv'
<1>0. TypeOK /\ Control /\ Target /\ Prepared /\ RunJobs /\ DataJobs /\ KeyJobs /\ RowsOfJobs /\ NoOldRows /\ Logging
     /\ SuccessMeansSettled /\ LoggedAfterRun
  BY DEF IInv
<1>1. /\ pc = "init" /\ call = "run" /\ ~bad /\ at = "claim" /\ todo \subseteq Created
      /\ UNCHANGED <<conf, exists, whole, logged, keys, refs, rows, old, cancelled, warned, unsaved, unconverted>>
  BY <1>0 DEF InitJob, First, Control, target, history, StepsOf
<1>2. JobsOf("ddl")' = JobsOf("ddl") /\ JobsOf("data")' = JobsOf("data") /\ JobsOf("constraints")' = JobsOf("constraints")
      /\ JobsOf("validate")' = JobsOf("validate") /\ JobsOf("log")' = JobsOf("log") /\ Created' = Created
  BY <1>1, SameJobs
<1>3. ASSUME NEW j \in todo, First("init", j), Works, jobs' = [jobs EXCEPT ![j] = NewState(j)], NextJob(j),
             UNCHANGED <<call, bad, result>>
      PROVE  IInv'
  <2>1. todo' = todo \ {j} /\ at' = "claim" /\ pc' = pc /\ UNCHANGED <<call, bad, result>>
    BY <1>3 DEF NextJob
  <2>2. CompletedBefore = {}
    BY <1>0, <1>1 DEF RunJobs, CompletedBefore
  <2>3. NewState(j) = "PENDING"
    BY <2>2 DEF NewState, TableDone
  <2>4. j \in Job /\ jobs' \in [Job -> JobState] /\ jobs'[j] = "PENDING" /\ \A i \in Job : i # j => jobs'[i] = jobs[i]
    BY <1>0, <1>1, <1>3, <2>3, JobSets DEF TypeOK, JobState
  <2>5. \A i \in Job : jobs'[i] \in {"none", "PENDING"}
    BY <1>0, <1>1, <2>4 DEF RunJobs
  <2>6. \A t \in Table : <<"ddl", t>> \in Job /\ <<"constraints", t>> \in Job
    BY DEF Job
  <2>a. TypeOK'
    BY <1>0, <1>1, <1>2, <2>1, <2>4, <2>5, <1>3, FaultsCounted DEF TypeOK
  <2>b. Control'
    BY <1>0, <1>1, <1>2, <2>1, <2>4, <2>5 DEF Control, StepsOf
  <2>c. Target'
    BY <1>0, <1>1, <1>2, <2>1, <2>4, <2>5 DEF Target, First
  <2>d. Prepared'
    BY <1>0, <1>1, <1>2, <2>1, <2>4, <2>5 DEF Prepared, First, Remade, Fresh, RowsOf
  <2>e. RunJobs'
    BY <1>0, <1>1, <1>2, <2>1, <2>4, <2>5, JobSets DEF RunJobs, Settled, Ended, AfterDDL
  <2>f. DataJobs'
    BY <1>0, <1>1, <1>2, <2>1, <2>4, <2>5 DEF DataJobs, Done, First, AfterData
  <2>g. KeyJobs'
    BY <1>0, <1>1, <1>2, <2>1, <2>4, <2>5, <2>6 DEF KeyJobs, SeenTo, First
  <2>h. RowsOfJobs'
    BY <1>0, <1>1, <1>2, <2>1, <2>4, <2>5, <2>6, PhasesConstants DEF RowsOfJobs, Exact, Remade, TaskByTask, RowsOf, Accepts, Sees, First
  <2>i. NoOldRows'
    BY <1>0, <1>1, <1>2, <2>1, <2>4, <2>5, <2>6 DEF NoOldRows, Exact, Remade, TaskByTask, RowsOf
  <2>j. Logging'
    BY <1>0, <1>1, <1>2, <2>1, <2>4, <2>5 DEF Logging, AfterData, Planned
  <2>k. SuccessMeansSettled'
    BY <1>0, <1>1, <1>2, <2>1, <2>4, <2>5 DEF SuccessMeansSettled
  <2>l. LoggedAfterRun'
    BY <1>0, <1>1, <1>2, <2>1, <2>4, <2>5 DEF LoggedAfterRun, Planned
  <2> QED
    BY <2>a, <2>b, <2>c, <2>d, <2>e, <2>f, <2>g, <2>h, <2>i, <2>j, <2>k, <2>l DEF IInv
<1>4. CASE Fails("store") /\ Return("error") /\ UNCHANGED jobs
  BY <1>0, <1>1, <1>4, FaultsCounted, CallEnds DEF target, TypeOK
<1> QED
  BY <1>3, <1>4 DEF InitJob

(* A phase has no job left: the next one begins, or the call ends. *)
LEMMA PhaseEnds ==
  ASSUME IInv, NextPhase
  PROVE  IInv'
<1>0. TypeOK /\ Control /\ Target /\ Prepared /\ RunJobs /\ DataJobs /\ KeyJobs /\ RowsOfJobs /\ NoOldRows /\ Logging
     /\ SuccessMeansSettled /\ LoggedAfterRun
  BY DEF IInv
<1>1. /\ pc \in {"init", "ddl", "data", "log", "keys", "references", "validate"} /\ todo = {} /\ at = "claim"
      /\ UNCHANGED <<conf, exists, whole, logged, keys, refs, rows, old, jobs, cancelled, warned, unsaved, unconverted>>
  BY <1>0 DEF NextPhase, Control, target, history
<1>2. JobsOf("ddl")' = JobsOf("ddl") /\ JobsOf("data")' = JobsOf("data") /\ JobsOf("constraints")' = JobsOf("constraints")
      /\ JobsOf("validate")' = JobsOf("validate") /\ JobsOf("log")' = JobsOf("log") /\ Created' = Created
  BY <1>1, SameJobs
<1>3. ASSUME Return("error"), faults' \in 0..MaxFaults
      PROVE  IInv'
  BY <1>0, <1>1, <1>3, CallEnds DEF target, TypeOK, Control
<1>4. ASSUME ~bad, Following \in {"log", "references", "summary"} \/ ~cancelled, pc' = Following, todo' = ListOf(Following),
             UNCHANGED <<at, call, bad, result, faults>>
      PROVE  IInv'
  <2>1. \A phase : Pending(phase) \subseteq JobsOf(phase)
                   /\ \A j \in JobsOf(phase) : j \in Pending(phase) <=> jobs[j] \in {"PENDING", "RETRYING"}
    BY DEF Pending
  <2>2. \A j \in JobsOf("constraints") : j \in Claimed <=> jobs[j] = "RUNNING"
    BY DEF Claimed
  <2>3. \A j \in JobsOf("log") : j = <<"log", j[2]>> /\ j[2] \in Table /\ Planned(j[2])
    BY JobShape
  <2>4. Claimed \subseteq JobsOf("constraints")
    BY DEF Claimed
  <2>5. CASE pc = "init"
    <3>1. pc' = "ddl" /\ todo' = Pending("ddl") /\ ~cancelled
      BY <1>4, <2>5 DEF Following, ListOf
    <3>a. TypeOK'
      BY <1>0, <1>1, <1>2, <1>4, <2>1, <2>2, <2>3, <2>4, <2>5, <3>1, JobSets DEF TypeOK, Phases
    <3>b. Control'
      BY <1>0, <1>1, <1>2, <1>4, <2>1, <2>2, <2>3, <2>4, <2>5, <3>1, JobSets DEF Control, StepsOf
    <3>c. Target'
      BY <1>0, <1>1, <1>4, <2>5, <3>1 DEF Target, First
    <3>d. Prepared'
      BY <1>0, <1>1, <1>4, <2>5, <3>1 DEF Prepared, First, Remade, Fresh, RowsOf
    <3>e. RunJobs'
      BY <1>0, <1>1, <1>2, <1>4, <2>1, <2>2, <2>3, <2>4, <2>5, <3>1, JobSets, JobIn DEF RunJobs, Settled, Ended, AfterDDL
    <3>f. DataJobs'
      BY <1>0, <1>1, <1>2, <1>4, <2>1, <2>2, <2>3, <2>4, <2>5, <3>1, JobSets, JobIn DEF DataJobs, Done, First, AfterData, JobState, TypeOK
    <3>g. KeyJobs'
      BY <1>0, <1>1, <1>2, <1>4, <2>1, <2>2, <2>3, <2>4, <2>5, <3>1, JobSets, JobIn DEF KeyJobs, SeenTo, First, JobState, TypeOK
    <3>h. RowsOfJobs'
      BY <1>0, <1>1, <1>4, <2>5, <3>1, PhasesConstants DEF RowsOfJobs, Exact, Remade, TaskByTask, RowsOf, Accepts, Sees, First
    <3>i. NoOldRows'
      BY <1>0, <1>1, <1>4, <2>5, <3>1 DEF NoOldRows, Exact, Remade, TaskByTask, RowsOf
    <3>j. Logging'
      BY <1>0, <1>1, <1>2, <1>4, <2>1, <2>2, <2>3, <2>4, <2>5, <3>1 DEF Logging, AfterData, Planned
    <3>k. SuccessMeansSettled'
      BY <1>0, <1>1, <1>2, <1>4, <2>1, <2>2, <2>3, <2>4, <2>5, <3>1 DEF SuccessMeansSettled
    <3>l. LoggedAfterRun'
      BY <1>0, <1>1, <1>4, <2>5, <3>1 DEF LoggedAfterRun, Planned
    <3> QED
      BY <3>a, <3>b, <3>c, <3>d, <3>e, <3>f, <3>g, <3>h, <3>i, <3>j, <3>k, <3>l DEF IInv
  <2>6. CASE pc = "ddl"
    <3>1. pc' = "data" /\ todo' = Pending("data") /\ ~cancelled
      BY <1>4, <2>6 DEF Following, ListOf
    <3>2. call = "run" /\ \A j \in JobsOf("data") : jobs[j] = "PENDING"
      BY <1>0, <1>1, <2>6 DEF RunJobs, Control
    <3>a. TypeOK'
      BY <1>0, <1>1, <1>2, <1>4, <2>1, <2>2, <2>3, <2>4, <2>6, <3>1, JobSets DEF TypeOK, Phases
    <3>b. Control'
      BY <1>0, <1>1, <1>2, <1>4, <2>1, <2>2, <2>3, <2>4, <2>6, <3>1, JobSets DEF Control, StepsOf
    <3>c. Target'
      BY <1>0, <1>1, <1>4, <2>6, <3>1 DEF Target, First
    <3>d. Prepared'
      BY <1>0, <1>1, <1>4, <2>6, <3>1 DEF Prepared, First, Remade, Fresh, RowsOf
    <3>e. RunJobs'
      BY <1>0, <1>1, <1>2, <1>4, <2>1, <2>2, <2>3, <2>4, <2>6, <3>1, JobSets, JobIn DEF RunJobs, Settled, Ended, AfterDDL
    <3>f. DataJobs'
      BY <1>0, <1>1, <1>2, <1>4, <2>1, <2>2, <2>3, <2>4, <2>6, <3>1, <3>2 DEF DataJobs, Done, First, AfterData
    <3>g. KeyJobs'
      BY <1>0, <1>1, <1>2, <1>4, <2>1, <2>2, <2>3, <2>4, <2>6, <3>1 DEF KeyJobs, SeenTo, First, Control
    <3>h. RowsOfJobs'
      BY <1>0, <1>1, <1>4, <2>6, <3>1, PhasesConstants DEF RowsOfJobs, Exact, Remade, TaskByTask, RowsOf, Accepts, Sees, First
    <3>i. NoOldRows'
      BY <1>0, <1>1, <1>4, <2>6, <3>1 DEF NoOldRows, Exact, Remade, TaskByTask, RowsOf
    <3>j. Logging'
      BY <1>0, <1>1, <1>2, <1>4, <2>1, <2>2, <2>3, <2>4, <2>6, <3>1 DEF Logging, AfterData, Planned
    <3>k. SuccessMeansSettled'
      BY <1>0, <1>1, <1>2, <1>4, <2>1, <2>2, <2>3, <2>4, <2>6, <3>1 DEF SuccessMeansSettled
    <3>l. LoggedAfterRun'
      BY <1>0, <1>1, <1>4, <2>6, <3>1 DEF LoggedAfterRun, Planned
    <3> QED
      BY <3>a, <3>b, <3>c, <3>d, <3>e, <3>f, <3>g, <3>h, <3>i, <3>j, <3>k, <3>l DEF IInv
  <2>7. CASE pc = "data" /\ call = "run" /\ conf.unlogged
    <3>1. pc' = "log" /\ todo' = JobsOf("log")
      BY <1>4, <2>7 DEF Following, ListOf
    <3>a. TypeOK'
      BY <1>0, <1>1, <1>2, <1>4, <2>1, <2>2, <2>3, <2>4, <2>7, <3>1, JobSets DEF TypeOK, Phases
    <3>b. Control'
      BY <1>0, <1>1, <1>2, <1>4, <2>1, <2>2, <2>3, <2>4, <2>7, <3>1, JobSets DEF Control, StepsOf
    <3>c. Target'
      BY <1>0, <1>1, <1>4, <2>7, <3>1 DEF Target, First
    <3>d. Prepared'
      BY <1>0, <1>1, <1>4, <2>7, <3>1 DEF Prepared, First, Remade, Fresh, RowsOf
    <3>e. RunJobs'
      BY <1>0, <1>1, <1>2, <1>4, <2>1, <2>2, <2>3, <2>4, <2>7, <3>1, JobSets, JobIn DEF RunJobs, Settled, Ended, AfterDDL
    <3>f. DataJobs'
      BY <1>0, <1>1, <1>2, <1>4, <2>1, <2>2, <2>3, <2>4, <2>7, <3>1, JobSets, JobIn DEF DataJobs, Done, First, AfterData, JobState, TypeOK
    <3>g. KeyJobs'
      BY <1>0, <1>1, <1>2, <1>4, <2>1, <2>2, <2>3, <2>4, <2>7, <3>1, JobSets, JobIn DEF KeyJobs, SeenTo, First, JobState, TypeOK
    <3>h. RowsOfJobs'
      BY <1>0, <1>1, <1>4, <2>7, <3>1, PhasesConstants DEF RowsOfJobs, Exact, Remade, TaskByTask, RowsOf, Accepts, Sees, First
    <3>i. NoOldRows'
      BY <1>0, <1>1, <1>4, <2>7, <3>1 DEF NoOldRows, Exact, Remade, TaskByTask, RowsOf
    <3>j. Logging'
      BY <1>0, <1>1, <1>2, <1>4, <2>1, <2>2, <2>3, <2>4, <2>7, <3>1, JobIn DEF Logging, AfterData, Planned
    <3>k. SuccessMeansSettled'
      BY <1>0, <1>1, <1>2, <1>4, <2>1, <2>2, <2>3, <2>4, <2>7, <3>1 DEF SuccessMeansSettled
    <3>l. LoggedAfterRun'
      BY <1>0, <1>1, <1>4, <2>7, <3>1 DEF LoggedAfterRun, Planned
    <3> QED
      BY <3>a, <3>b, <3>c, <3>d, <3>e, <3>f, <3>g, <3>h, <3>i, <3>j, <3>k, <3>l DEF IInv
  <2>8. CASE pc = "data" /\ ~(call = "run" /\ conf.unlogged)
    <3>1. pc' = "keys" /\ todo' = Pending("constraints") /\ ~cancelled
      BY <1>4, <2>8 DEF Following, ListOf
    <3>3. ASSUME NEW t \in Table, jobs[<<"constraints", t>>] # "none", <<"constraints", t>> \notin todo'
          PROVE  SeenTo(t)
      <4>1. <<"constraints", t>> \in JobsOf("constraints") /\ <<"constraints", t>> \in Job
        BY JobIn, JobSets
      <4>2. jobs[<<"constraints", t>>] \notin {"PENDING", "RETRYING"}
        BY <2>1, <3>1, <3>3, <4>1
      <4>3. jobs[<<"constraints", t>>] \in {"COMPLETED", "FAILED"}
        BY <1>0, <1>1, <2>8, <3>3, <4>1, <4>2 DEF TypeOK, JobState, RunJobs, KeyJobs, DataJobs, Control
      <4> QED
        BY <1>0, <4>3 DEF KeyJobs
    <3>4. ASSUME call = "run", NEW t \in Table, Planned(t)
          PROVE  t \in logged
      <4>1. <<"ddl", t>> \in JobsOf("ddl") /\ <<"ddl", t>>[2] = t
        BY <3>4, JobIn
      <4> QED
        BY <1>0, <2>8, <3>4, <4>1 DEF RunJobs, AfterDDL, Target
    <3>a. TypeOK'
      BY <1>0, <1>1, <1>2, <1>4, <2>1, <2>2, <2>3, <2>4, <2>8, <3>1, JobSets DEF TypeOK, Phases
    <3>b. Control'
      BY <1>0, <1>1, <1>2, <1>4, <2>1, <2>2, <2>3, <2>4, <2>8, <3>1, JobSets DEF Control, StepsOf
    <3>c. Target'
      BY <1>0, <1>1, <1>4, <2>8, <3>1 DEF Target, First
    <3>d. Prepared'
      BY <1>0, <1>1, <1>4, <2>8, <3>1 DEF Prepared, First, Remade, Fresh, RowsOf
    <3>e. RunJobs'
      BY <1>0, <1>1, <1>2, <1>4, <2>1, <2>2, <2>3, <2>4, <2>8, <3>1, JobSets, JobIn DEF RunJobs, Settled, Ended, AfterDDL
    <3>f. DataJobs'
      BY <1>0, <1>1, <1>2, <1>4, <2>1, <2>2, <2>3, <2>4, <2>8, <3>1, JobSets, JobIn DEF DataJobs, Done, First, AfterData, JobState, TypeOK
    <3>g. KeyJobs'
      BY <1>0, <1>1, <1>2, <1>4, <2>1, <2>2, <2>3, <2>4, <2>8, <3>1, <3>3 DEF KeyJobs, SeenTo, First
    <3>h. RowsOfJobs'
      BY <1>0, <1>1, <1>4, <2>8, <3>1, PhasesConstants DEF RowsOfJobs, Exact, Remade, TaskByTask, RowsOf, Accepts, Sees, First
    <3>i. NoOldRows'
      BY <1>0, <1>1, <1>4, <2>8, <3>1 DEF NoOldRows, Exact, Remade, TaskByTask, RowsOf
    <3>j. Logging'
      BY <1>0, <1>1, <1>2, <1>4, <2>1, <2>2, <2>3, <2>4, <2>8, <3>1, <3>4 DEF Logging, AfterData, Planned
    <3>k. SuccessMeansSettled'
      BY <1>0, <1>1, <1>2, <1>4, <2>1, <2>2, <2>3, <2>4, <2>8, <3>1 DEF SuccessMeansSettled
    <3>l. LoggedAfterRun'
      BY <1>0, <1>1, <1>4, <2>8, <3>1 DEF LoggedAfterRun, Planned
    <3> QED
      BY <3>a, <3>b, <3>c, <3>d, <3>e, <3>f, <3>g, <3>h, <3>i, <3>j, <3>k, <3>l DEF IInv
  <2>9. CASE pc = "log"
    <3>1. pc' = "keys" /\ todo' = Pending("constraints") /\ ~cancelled
      BY <1>4, <2>9 DEF Following, ListOf
    <3>3. ASSUME NEW t \in Table, jobs[<<"constraints", t>>] # "none", <<"constraints", t>> \notin todo'
          PROVE  SeenTo(t)
      <4>1. <<"constraints", t>> \in JobsOf("constraints") /\ <<"constraints", t>> \in Job
        BY JobIn, JobSets
      <4>2. jobs[<<"constraints", t>>] \notin {"PENDING", "RETRYING"}
        BY <2>1, <3>1, <3>3, <4>1
      <4>3. jobs[<<"constraints", t>>] \in {"COMPLETED", "FAILED"}
        BY <1>0, <1>1, <2>9, <3>3, <4>1, <4>2 DEF TypeOK, JobState, RunJobs, KeyJobs, DataJobs, Control
      <4> QED
        BY <1>0, <4>3 DEF KeyJobs
    <3>a. TypeOK'
      BY <1>0, <1>1, <1>2, <1>4, <2>1, <2>2, <2>3, <2>4, <2>9, <3>1, JobSets DEF TypeOK, Phases
    <3>b. Control'
      BY <1>0, <1>1, <1>2, <1>4, <2>1, <2>2, <2>3, <2>4, <2>9, <3>1, JobSets DEF Control, StepsOf
    <3>c. Target'
      BY <1>0, <1>1, <1>4, <2>9, <3>1 DEF Target, First
    <3>d. Prepared'
      BY <1>0, <1>1, <1>4, <2>9, <3>1 DEF Prepared, First, Remade, Fresh, RowsOf
    <3>e. RunJobs'
      BY <1>0, <1>1, <1>2, <1>4, <2>1, <2>2, <2>3, <2>4, <2>9, <3>1, JobSets, JobIn DEF RunJobs, Settled, Ended, AfterDDL
    <3>f. DataJobs'
      BY <1>0, <1>1, <1>2, <1>4, <2>1, <2>2, <2>3, <2>4, <2>9, <3>1, JobSets, JobIn DEF DataJobs, Done, First, AfterData, JobState, TypeOK
    <3>g. KeyJobs'
      BY <1>0, <1>1, <1>2, <1>4, <2>1, <2>2, <2>3, <2>4, <2>9, <3>1, <3>3 DEF KeyJobs, SeenTo, First
    <3>h. RowsOfJobs'
      BY <1>0, <1>1, <1>4, <2>9, <3>1, PhasesConstants DEF RowsOfJobs, Exact, Remade, TaskByTask, RowsOf, Accepts, Sees, First
    <3>i. NoOldRows'
      BY <1>0, <1>1, <1>4, <2>9, <3>1 DEF NoOldRows, Exact, Remade, TaskByTask, RowsOf
    <3>j. Logging'
      BY <1>0, <1>1, <1>2, <1>4, <2>1, <2>2, <2>3, <2>4, <2>9, <3>1 DEF Logging, AfterData, Planned
    <3>k. SuccessMeansSettled'
      BY <1>0, <1>1, <1>2, <1>4, <2>1, <2>2, <2>3, <2>4, <2>9, <3>1 DEF SuccessMeansSettled
    <3>l. LoggedAfterRun'
      BY <1>0, <1>1, <1>4, <2>9, <3>1 DEF LoggedAfterRun, Planned
    <3> QED
      BY <3>a, <3>b, <3>c, <3>d, <3>e, <3>f, <3>g, <3>h, <3>i, <3>j, <3>k, <3>l DEF IInv
  <2>10. CASE pc = "keys"
    <3>1. pc' = "references" /\ todo' = Claimed
      BY <1>4, <2>10 DEF Following, ListOf
    <3>a. TypeOK'
      BY <1>0, <1>1, <1>2, <1>4, <2>1, <2>2, <2>3, <2>4, <2>10, <3>1, JobSets DEF TypeOK, Phases
    <3>b. Control'
      BY <1>0, <1>1, <1>2, <1>4, <2>1, <2>2, <2>3, <2>4, <2>10, <3>1, JobSets DEF Control, StepsOf
    <3>c. Target'
      BY <1>0, <1>1, <1>4, <2>10, <3>1 DEF Target, First
    <3>d. Prepared'
      BY <1>0, <1>1, <1>4, <2>10, <3>1 DEF Prepared, First, Remade, Fresh, RowsOf
    <3>e. RunJobs'
      BY <1>0, <1>1, <1>2, <1>4, <2>1, <2>2, <2>3, <2>4, <2>10, <3>1, JobSets, JobIn DEF RunJobs, Settled, Ended, AfterDDL
    <3>f. DataJobs'
      BY <1>0, <1>1, <1>2, <1>4, <2>1, <2>2, <2>3, <2>4, <2>10, <3>1, JobSets, JobIn DEF DataJobs, Done, First, AfterData, JobState, TypeOK
    <3>g. KeyJobs'
      BY <1>0, <1>1, <1>2, <1>4, <2>1, <2>2, <2>3, <2>4, <2>10, <3>1, JobSets, JobIn DEF KeyJobs, SeenTo, First, JobState, TypeOK
    <3>h. RowsOfJobs'
      BY <1>0, <1>1, <1>4, <2>10, <3>1, PhasesConstants DEF RowsOfJobs, Exact, Remade, TaskByTask, RowsOf, Accepts, Sees, First
    <3>i. NoOldRows'
      BY <1>0, <1>1, <1>4, <2>10, <3>1 DEF NoOldRows, Exact, Remade, TaskByTask, RowsOf
    <3>j. Logging'
      BY <1>0, <1>1, <1>2, <1>4, <2>1, <2>2, <2>3, <2>4, <2>10, <3>1 DEF Logging, AfterData, Planned
    <3>k. SuccessMeansSettled'
      BY <1>0, <1>1, <1>2, <1>4, <2>1, <2>2, <2>3, <2>4, <2>10, <3>1 DEF SuccessMeansSettled
    <3>l. LoggedAfterRun'
      BY <1>0, <1>1, <1>4, <2>10, <3>1 DEF LoggedAfterRun, Planned
    <3> QED
      BY <3>a, <3>b, <3>c, <3>d, <3>e, <3>f, <3>g, <3>h, <3>i, <3>j, <3>k, <3>l DEF IInv
  <2>11. CASE pc = "references" /\ call = "run" /\ conf.validate
    <3>1. pc' = "validate" /\ todo' = Pending("validate") /\ ~cancelled
      BY <1>4, <2>11 DEF Following, ListOf
    <3>a. TypeOK'
      BY <1>0, <1>1, <1>2, <1>4, <2>1, <2>2, <2>3, <2>4, <2>11, <3>1, JobSets DEF TypeOK, Phases
    <3>b. Control'
      BY <1>0, <1>1, <1>2, <1>4, <2>1, <2>2, <2>3, <2>4, <2>11, <3>1, JobSets DEF Control, StepsOf
    <3>c. Target'
      BY <1>0, <1>1, <1>4, <2>11, <3>1 DEF Target, First
    <3>d. Prepared'
      BY <1>0, <1>1, <1>4, <2>11, <3>1 DEF Prepared, First, Remade, Fresh, RowsOf
    <3>e. RunJobs'
      BY <1>0, <1>1, <1>2, <1>4, <2>1, <2>2, <2>3, <2>4, <2>11, <3>1, JobSets, JobIn DEF RunJobs, Settled, Ended, AfterDDL
    <3>f. DataJobs'
      BY <1>0, <1>1, <1>2, <1>4, <2>1, <2>2, <2>3, <2>4, <2>11, <3>1, JobSets, JobIn DEF DataJobs, Done, First, AfterData, JobState, TypeOK
    <3>g. KeyJobs'
      BY <1>0, <1>1, <1>2, <1>4, <2>1, <2>2, <2>3, <2>4, <2>11, <3>1, JobSets, JobIn DEF KeyJobs, SeenTo, First, JobState, TypeOK
    <3>h. RowsOfJobs'
      BY <1>0, <1>1, <1>4, <2>11, <3>1, PhasesConstants DEF RowsOfJobs, Exact, Remade, TaskByTask, RowsOf, Accepts, Sees, First
    <3>i. NoOldRows'
      BY <1>0, <1>1, <1>4, <2>11, <3>1 DEF NoOldRows, Exact, Remade, TaskByTask, RowsOf
    <3>j. Logging'
      BY <1>0, <1>1, <1>2, <1>4, <2>1, <2>2, <2>3, <2>4, <2>11, <3>1 DEF Logging, AfterData, Planned
    <3>k. SuccessMeansSettled'
      BY <1>0, <1>1, <1>2, <1>4, <2>1, <2>2, <2>3, <2>4, <2>11, <3>1 DEF SuccessMeansSettled
    <3>l. LoggedAfterRun'
      BY <1>0, <1>1, <1>4, <2>11, <3>1 DEF LoggedAfterRun, Planned
    <3> QED
      BY <3>a, <3>b, <3>c, <3>d, <3>e, <3>f, <3>g, <3>h, <3>i, <3>j, <3>k, <3>l DEF IInv
  <2>12. CASE pc = "references" /\ ~(call = "run" /\ conf.validate)
    <3>1. pc' = "summary" /\ todo' = {}
      BY <1>4, <2>12 DEF Following, ListOf
    <3>a. TypeOK'
      BY <1>0, <1>1, <1>2, <1>4, <2>1, <2>2, <2>3, <2>4, <2>12, <3>1, JobSets DEF TypeOK, Phases
    <3>b. Control'
      BY <1>0, <1>1, <1>2, <1>4, <2>1, <2>2, <2>3, <2>4, <2>12, <3>1, JobSets DEF Control, StepsOf
    <3>c. Target'
      BY <1>0, <1>1, <1>4, <2>12, <3>1 DEF Target, First
    <3>d. Prepared'
      BY <1>0, <1>1, <1>4, <2>12, <3>1 DEF Prepared, First, Remade, Fresh, RowsOf
    <3>e. RunJobs'
      BY <1>0, <1>1, <1>2, <1>4, <2>1, <2>2, <2>3, <2>4, <2>12, <3>1, JobSets, JobIn DEF RunJobs, Settled, Ended, AfterDDL
    <3>f. DataJobs'
      BY <1>0, <1>1, <1>2, <1>4, <2>1, <2>2, <2>3, <2>4, <2>12, <3>1, JobSets, JobIn DEF DataJobs, Done, First, AfterData, JobState, TypeOK
    <3>g. KeyJobs'
      BY <1>0, <1>1, <1>2, <1>4, <2>1, <2>2, <2>3, <2>4, <2>12, <3>1, JobSets, JobIn DEF KeyJobs, SeenTo, First, JobState, TypeOK
    <3>h. RowsOfJobs'
      BY <1>0, <1>1, <1>4, <2>12, <3>1, PhasesConstants DEF RowsOfJobs, Exact, Remade, TaskByTask, RowsOf, Accepts, Sees, First
    <3>i. NoOldRows'
      BY <1>0, <1>1, <1>4, <2>12, <3>1 DEF NoOldRows, Exact, Remade, TaskByTask, RowsOf
    <3>j. Logging'
      BY <1>0, <1>1, <1>2, <1>4, <2>1, <2>2, <2>3, <2>4, <2>12, <3>1 DEF Logging, AfterData, Planned
    <3>k. SuccessMeansSettled'
      BY <1>0, <1>1, <1>2, <1>4, <2>1, <2>2, <2>3, <2>4, <2>12, <3>1 DEF SuccessMeansSettled
    <3>l. LoggedAfterRun'
      BY <1>0, <1>1, <1>4, <2>12, <3>1 DEF LoggedAfterRun, Planned
    <3> QED
      BY <3>a, <3>b, <3>c, <3>d, <3>e, <3>f, <3>g, <3>h, <3>i, <3>j, <3>k, <3>l DEF IInv
  <2>13. CASE pc = "validate"
    <3>1. pc' = "summary" /\ todo' = {}
      BY <1>4, <2>13 DEF Following, ListOf
    <3>a. TypeOK'
      BY <1>0, <1>1, <1>2, <1>4, <2>1, <2>2, <2>3, <2>4, <2>13, <3>1, JobSets DEF TypeOK, Phases
    <3>b. Control'
      BY <1>0, <1>1, <1>2, <1>4, <2>1, <2>2, <2>3, <2>4, <2>13, <3>1, JobSets DEF Control, StepsOf
    <3>c. Target'
      BY <1>0, <1>1, <1>4, <2>13, <3>1 DEF Target, First
    <3>d. Prepared'
      BY <1>0, <1>1, <1>4, <2>13, <3>1 DEF Prepared, First, Remade, Fresh, RowsOf
    <3>e. RunJobs'
      BY <1>0, <1>1, <1>2, <1>4, <2>1, <2>2, <2>3, <2>4, <2>13, <3>1, JobSets, JobIn DEF RunJobs, Settled, Ended, AfterDDL
    <3>f. DataJobs'
      BY <1>0, <1>1, <1>2, <1>4, <2>1, <2>2, <2>3, <2>4, <2>13, <3>1, JobSets, JobIn DEF DataJobs, Done, First, AfterData, JobState, TypeOK
    <3>g. KeyJobs'
      BY <1>0, <1>1, <1>2, <1>4, <2>1, <2>2, <2>3, <2>4, <2>13, <3>1, JobSets, JobIn DEF KeyJobs, SeenTo, First, JobState, TypeOK
    <3>h. RowsOfJobs'
      BY <1>0, <1>1, <1>4, <2>13, <3>1, PhasesConstants DEF RowsOfJobs, Exact, Remade, TaskByTask, RowsOf, Accepts, Sees, First
    <3>i. NoOldRows'
      BY <1>0, <1>1, <1>4, <2>13, <3>1 DEF NoOldRows, Exact, Remade, TaskByTask, RowsOf
    <3>j. Logging'
      BY <1>0, <1>1, <1>2, <1>4, <2>1, <2>2, <2>3, <2>4, <2>13, <3>1 DEF Logging, AfterData, Planned
    <3>k. SuccessMeansSettled'
      BY <1>0, <1>1, <1>2, <1>4, <2>1, <2>2, <2>3, <2>4, <2>13, <3>1 DEF SuccessMeansSettled
    <3>l. LoggedAfterRun'
      BY <1>0, <1>1, <1>4, <2>13, <3>1 DEF LoggedAfterRun, Planned
    <3> QED
      BY <3>a, <3>b, <3>c, <3>d, <3>e, <3>f, <3>g, <3>h, <3>i, <3>j, <3>k, <3>l DEF IInv
  <2> QED
    BY <1>1, <2>5, <2>6, <2>7, <2>8, <2>9, <2>10, <2>11, <2>12, <2>13
<1> QED
  BY <1>0, <1>3, <1>4, FaultsCounted DEF NextPhase
-----------------------------------------------------------------------------
(* The next job of the DDL. *)
LEMMA InDDL ==
  ASSUME IInv, NEW j \in todo, First("ddl", j)
  PROVE  /\ pc = "ddl" /\ call = "run" /\ ~bad /\ at \in StepsOf("ddl")
         /\ todo \subseteq JobsOf("ddl") /\ j \in JobsOf("ddl") /\ j \in Job
         /\ j = <<"ddl", j[2]>> /\ j[1] = "ddl" /\ j[2] \in Table /\ Planned(j[2])
         /\ \A i \in todo : First("ddl", i) => i = j
         /\ \A i \in JobsOf("data") \cup JobsOf("constraints") \cup JobsOf("validate") : i # j
         /\ \A x : <<"constraints", x>> # j /\ <<"data", x>> # j /\ (<<"ddl", x>> = j <=> x = j[2])
         /\ at \in {"empty", "divide", "save"} => j[2] \in exists
         /\ at \in {"divide", "save"} /\ Remade(j[2]) => Fresh(j[2])
<1>1. TypeOK /\ Control /\ Prepared /\ pc = "ddl"
  BY DEF IInv, First
<1>2. todo \subseteq JobsOf("ddl") /\ j \in JobsOf("ddl") /\ call = "run" /\ ~bad /\ at \in StepsOf("ddl")
  BY <1>1 DEF Control
<1>3. \A i \in todo : First("ddl", i) => i = j
  BY <1>1, OneIsFirst DEF TypeOK
<1>4. j \in Job /\ j = <<"ddl", j[2]>> /\ j[1] = "ddl" /\ j[2] \in Table /\ Planned(j[2])
  BY <1>2, JobSets, JobShape
<1>5. \A i \in JobsOf("data") \cup JobsOf("constraints") \cup JobsOf("validate") : i # j
  BY <1>4, JobShape
<1>6. \A x : <<"constraints", x>> # j /\ <<"data", x>> # j /\ (<<"ddl", x>> = j <=> x = j[2])
  BY <1>4
<1>7. /\ at \in {"empty", "divide", "save"} => j[2] \in exists
      /\ at \in {"divide", "save"} /\ Remade(j[2]) => Fresh(j[2])
  BY <1>1 DEF Prepared
<1> QED
  BY <1>1, <1>2, <1>3, <1>4, <1>5, <1>6, <1>7

(* Every table and every task has its jobs. *)
LEMMA Tables ==
  /\ \A t \in Table : <<"ddl", t>> \in Job /\ <<"constraints", t>> \in Job
  /\ \A k \in Task : <<"data", k>> \in Job /\ TableOf[k] \in Table
BY PhasesConstants DEF Job

(* A task without rows. *)
LEMMA EmptyRows ==
  /\ Empty \in [Batch -> 0..2] /\ Empty["batch 1"] = 0 /\ Empty["batch 2"] = 0
  /\ \A f \in [Batch -> 0..2] : f["batch 1"] = 0 /\ f["batch 2"] = 0 => f = Empty
<1>1. Empty \in [Batch -> 0..2] /\ \A b \in Batch : Empty[b] = 0
  BY DEF Empty
<1>2. ASSUME NEW f \in [Batch -> 0..2], f["batch 1"] = 0, f["batch 2"] = 0
      PROVE  f = Empty
  <2>1. \A b \in Batch : f[b] = Empty[b]
    BY <1>1, <1>2 DEF Batch
  <2> QED
    BY <1>1, <2>1
<1> QED
  BY <1>1, <1>2 DEF Batch

(* Rows that are removed are those of the tasks ks. *)
LEMMA EmptiedRows ==
  ASSUME TypeOK, NEW ks
  PROVE  /\ Emptied(ks) \in [Task -> [Batch -> 0..2]]
         /\ \A k \in Task : Emptied(ks)[k] = IF k \in ks THEN Empty ELSE rows[k]
<1>1. rows \in [Task -> [Batch -> 0..2]]
  BY DEF TypeOK
<1> QED
  BY <1>1, EmptyRows DEF Emptied

(* A saved state is that of one job. *)
LEMMA Saved ==
  ASSUME TypeOK, NEW j \in Job, NEW state \in JobState, Save(j, state)
  PROVE  /\ jobs' \in [Job -> JobState] /\ jobs'[j] = state /\ \A i \in Job : i # j => jobs'[i] = jobs[i]
         /\ unsaved' = unsaved \ {j} /\ unsaved' \subseteq Job
BY DEF TypeOK, Save

(* SetFailed saves the state or loses it. *)
LEMMA MarkedFailed ==
  ASSUME TypeOK, NEW j \in Job, MarkFailed(j)
  PROVE  /\ jobs' \in [Job -> JobState] /\ unsaved' \subseteq Job /\ faults' \in 0..MaxFaults
         /\ \A i \in Job : i # j => jobs'[i] = jobs[i] /\ (i \in unsaved' <=> i \in unsaved)
         /\ \/ jobs'[j] = "FAILED"
            \/ jobs'[j] = jobs[j] /\ j \in unsaved'
<1>1. CASE Works /\ Save(j, "FAILED")
  <2>1. "FAILED" \in JobState
    BY DEF JobState
  <2> QED
    BY <1>1, <2>1, Saved, FaultsCounted
<1>2. CASE Fails("store") /\ NotSaved(j)
  BY <1>2, FaultsCounted DEF NotSaved, TypeOK
<1> QED
  BY <1>1, <1>2 DEF MarkFailed

(* SetRunning of a DDL job. *)
LEMMA DDLIsClaimed ==
  ASSUME IInv, NEW j \in todo, First("ddl", j), Claim(j, "look")
  PROVE  IInv'
<1>0. TypeOK /\ Control /\ Target /\ Prepared /\ RunJobs /\ DataJobs /\ KeyJobs /\ RowsOfJobs /\ NoOldRows /\ Logging
     /\ SuccessMeansSettled /\ LoggedAfterRun
  BY DEF IInv
<1>1. /\ pc = "ddl" /\ call = "run" /\ ~bad /\ at \in StepsOf("ddl")
      /\ todo \subseteq JobsOf("ddl") /\ j \in JobsOf("ddl") /\ j \in Job
      /\ j = <<"ddl", j[2]>> /\ j[1] = "ddl" /\ j[2] \in Table /\ Planned(j[2])
      /\ \A i \in todo : First("ddl", i) => i = j
      /\ \A i \in JobsOf("data") \cup JobsOf("constraints") \cup JobsOf("validate") : i # j
      /\ \A x : <<"constraints", x>> # j /\ <<"data", x>> # j /\ (<<"ddl", x>> = j <=> x = j[2])
      /\ at \in {"empty", "divide", "save"} => j[2] \in exists
      /\ at \in {"divide", "save"} /\ Remade(j[2]) => Fresh(j[2])
  BY InDDL
<1>2. /\ UNCHANGED <<conf, exists, whole, logged, keys, refs, rows, old, cancelled, warned, unconverted>>
  BY DEF Claim, target
<1>3. JobsOf("ddl")' = JobsOf("ddl") /\ JobsOf("data")' = JobsOf("data") /\ JobsOf("constraints")' = JobsOf("constraints")
      /\ JobsOf("validate")' = JobsOf("validate") /\ JobsOf("log")' = JobsOf("log") /\ Created' = Created
  BY <1>2, SameJobs
<1>4. CASE Works /\ Save(j, "RUNNING") /\ Step("look") /\ UNCHANGED <<call, bad, result>>
  <2>1. "RUNNING" \in JobState
    BY DEF JobState
  <2>2. /\ jobs' \in [Job -> JobState] /\ jobs'[j] = "RUNNING" /\ \A i \in Job : i # j => jobs'[i] = jobs[i]
        /\ unsaved' = unsaved \ {j} /\ unsaved' \subseteq Job
    BY <1>0, <1>1, <1>4, <2>1, Saved
  <2>3. at' = "look" /\ pc' = pc /\ todo' = todo /\ UNCHANGED <<call, bad, result>>
    BY <1>4 DEF Step
  <2>4. Works
    BY <1>4
  <2>a. TypeOK'
    BY <1>0, <1>1, <1>2, <1>3, <2>2, <2>3, <2>4, FaultsCounted DEF TypeOK, Steps
  <2>b. Control'
    BY <1>0, <1>1, <1>2, <1>3, <2>2, <2>3, <2>4 DEF Control, StepsOf
  <2>c. Target'
    BY <1>0, <1>1, <1>2, <1>3, <2>2, <2>3, <2>4 DEF Target, First
  <2>d. Prepared'
    BY <1>0, <1>1, <1>2, <1>3, <2>2, <2>3, <2>4 DEF Prepared, First, Remade, Fresh, RowsOf
  <2>e. RunJobs'
    BY <1>0, <1>1, <1>2, <1>3, <2>2, <2>3, <2>4, JobSets DEF RunJobs, Settled, Ended, AfterDDL
  <2>f. DataJobs'
    BY <1>0, <1>1, <1>2, <1>3, <2>2, <2>3, <2>4, JobSets DEF DataJobs, Done, First, AfterData
  <2>g. KeyJobs'
    BY <1>0, <1>1, <1>2, <1>3, <2>2, <2>3, <2>4, Tables DEF KeyJobs, SeenTo, First
  <2>h. RowsOfJobs'
    BY <1>0, <1>1, <1>2, <1>3, <2>2, <2>3, <2>4, Tables DEF RowsOfJobs, Exact, Remade, TaskByTask, RowsOf, Accepts, Sees, First
  <2>i. NoOldRows'
    BY <1>0, <1>1, <1>2, <1>3, <2>2, <2>3, <2>4, Tables DEF NoOldRows, Exact, Remade, TaskByTask, RowsOf
  <2>j. Logging'
    BY <1>0, <1>1, <1>2, <1>3, <2>2, <2>3, <2>4 DEF Logging, AfterData, Planned
  <2>k. SuccessMeansSettled'
    BY <1>0, <1>1, <1>2, <1>3, <2>2, <2>3, <2>4 DEF SuccessMeansSettled
  <2>l. LoggedAfterRun'
    BY <1>0, <1>1, <1>2, <1>3, <2>2, <2>3, <2>4 DEF LoggedAfterRun, Planned
  <2> QED
    BY <2>a, <2>b, <2>c, <2>d, <2>e, <2>f, <2>g, <2>h, <2>i, <2>j, <2>k, <2>l DEF IInv
<1>5. CASE Fails("store") /\ Return("error") /\ UNCHANGED <<jobs, unsaved>>
  BY <1>0, <1>1, <1>2, <1>5, FaultsCounted, CallEnds DEF target, TypeOK
<1> QED
  BY <1>4, <1>5 DEF Claim

(* SetCompleted of a DDL job: the table is ready for its rows. *)
LEMMA DDLIsCompleted ==
  ASSUME IInv, NEW j \in todo, First("ddl", j), Complete(j)
  PROVE  IInv'
<1>0. TypeOK /\ Control /\ Target /\ Prepared /\ RunJobs /\ DataJobs /\ KeyJobs /\ RowsOfJobs /\ NoOldRows /\ Logging
     /\ SuccessMeansSettled /\ LoggedAfterRun
  BY DEF IInv
<1>1. /\ pc = "ddl" /\ call = "run" /\ ~bad /\ at \in StepsOf("ddl")
      /\ todo \subseteq JobsOf("ddl") /\ j \in JobsOf("ddl") /\ j \in Job
      /\ j = <<"ddl", j[2]>> /\ j[1] = "ddl" /\ j[2] \in Table /\ Planned(j[2])
      /\ \A i \in todo : First("ddl", i) => i = j
      /\ \A i \in JobsOf("data") \cup JobsOf("constraints") \cup JobsOf("validate") : i # j
      /\ \A x : <<"constraints", x>> # j /\ <<"data", x>> # j /\ (<<"ddl", x>> = j <=> x = j[2])
      /\ at \in {"empty", "divide", "save"} => j[2] \in exists
      /\ at \in {"divide", "save"} /\ Remade(j[2]) => Fresh(j[2])
  BY InDDL
<1>2. /\ UNCHANGED <<conf, exists, whole, logged, keys, refs, rows, old, cancelled, warned, unconverted>> /\ at = "save"
  BY DEF Complete, target
<1>3. JobsOf("ddl")' = JobsOf("ddl") /\ JobsOf("data")' = JobsOf("data") /\ JobsOf("constraints")' = JobsOf("constraints")
      /\ JobsOf("validate")' = JobsOf("validate") /\ JobsOf("log")' = JobsOf("log") /\ Created' = Created
  BY <1>2, SameJobs
<1>4. CASE Works /\ Save(j, "COMPLETED") /\ NextJob(j) /\ UNCHANGED <<call, bad, result>>
  <2>1. "COMPLETED" \in JobState
    BY DEF JobState
  <2>2. /\ jobs' \in [Job -> JobState] /\ jobs'[j] = "COMPLETED" /\ \A i \in Job : i # j => jobs'[i] = jobs[i]
        /\ unsaved' = unsaved \ {j} /\ unsaved' \subseteq Job
    BY <1>0, <1>1, <1>4, <2>1, Saved
  <2>3. at' = "claim" /\ pc' = pc /\ todo' = todo \ {j} /\ UNCHANGED <<call, bad, result>>
    BY <1>4 DEF NextJob
  <2>4. Works
    BY <1>4
  <2>5. \A k \in Task : Planned(TableOf[k]) => jobs[<<"data", k>>] = "PENDING"
    BY <1>0, <1>1, JobIn DEF RunJobs
  <2>a. TypeOK'
    BY <1>0, <1>1, <1>2, <1>3, <2>2, <2>3, <2>4, FaultsCounted DEF TypeOK, Steps
  <2>b. Control'
    BY <1>0, <1>1, <1>2, <1>3, <2>2, <2>3, <2>4 DEF Control, StepsOf
  <2>c. Target'
    BY <1>0, <1>1, <1>2, <1>3, <2>2, <2>3, <2>4 DEF Target, First
  <2>d. Prepared'
    BY <1>0, <1>1, <1>2, <1>3, <2>2, <2>3, <2>4 DEF Prepared, First, Remade, Fresh, RowsOf
  <2>e. RunJobs'
    BY <1>0, <1>1, <1>2, <1>3, <2>2, <2>3, <2>4, JobSets DEF RunJobs, Settled, Ended, AfterDDL
  <2>f. DataJobs'
    BY <1>0, <1>1, <1>2, <1>3, <2>2, <2>3, <2>4, JobSets DEF DataJobs, Done, First, AfterData
  <2>g. KeyJobs'
    BY <1>0, <1>1, <1>2, <1>3, <2>2, <2>3, <2>4, Tables DEF KeyJobs, SeenTo, First
  <2>h. RowsOfJobs'
    <3>1. SUFFICES ASSUME NEW k \in Task, Exact(TableOf[k])'
                   PROVE  /\ jobs'[<<"data", k>>] # "none"
                          /\ jobs'[<<"data", k>>] = "PENDING" => rows'[k] = Empty
                          /\ jobs'[<<"data", k>>] = "COMPLETED" => rows'[k] = Once
      BY <1>1, <2>3 DEF RowsOfJobs, Once, Empty
    <3>2. jobs'[<<"data", k>>] = jobs[<<"data", k>>] /\ rows' = rows /\ Remade(TableOf[k]) /\ TaskByTask(TableOf[k])
      BY <1>1, <1>2, <2>2, <3>1, Tables DEF Exact, Remade, TaskByTask, RowsOf
    <3>3. CASE TableOf[k] = j[2]
      <4>1. Fresh(j[2]) /\ Planned(j[2]) /\ k \in RowsOf(j[2])
        BY <1>1, <1>2, <3>2, <3>3 DEF RowsOf
      <4> QED
        BY <2>5, <3>2, <3>3, <4>1 DEF Fresh
    <3>4. CASE TableOf[k] # j[2]
      <4>1. jobs'[<<"ddl", TableOf[k]>>] = jobs[<<"ddl", TableOf[k]>>]
        BY <1>1, <2>2, <3>4, Tables
      <4>2. Exact(TableOf[k])
        BY <3>1, <3>2, <4>1 DEF Exact
      <4> QED
        BY <1>0, <3>2, <4>2 DEF RowsOfJobs
    <3> QED
      BY <3>3, <3>4
  <2>i. NoOldRows'
    BY <1>0, <1>1, <1>2, <1>3, <2>2, <2>3, <2>4, Tables DEF NoOldRows, Exact, Remade, TaskByTask, RowsOf, Fresh
  <2>j. Logging'
    BY <1>0, <1>1, <1>2, <1>3, <2>2, <2>3, <2>4 DEF Logging, AfterData, Planned
  <2>k. SuccessMeansSettled'
    BY <1>0, <1>1, <1>2, <1>3, <2>2, <2>3, <2>4 DEF SuccessMeansSettled
  <2>l. LoggedAfterRun'
    BY <1>0, <1>1, <1>2, <1>3, <2>2, <2>3, <2>4 DEF LoggedAfterRun, Planned
  <2> QED
    BY <2>a, <2>b, <2>c, <2>d, <2>e, <2>f, <2>g, <2>h, <2>i, <2>j, <2>k, <2>l DEF IInv
<1>5. CASE Fails("store") /\ Return("error") /\ UNCHANGED <<jobs, unsaved>>
  BY <1>0, <1>1, <1>2, <1>5, FaultsCounted, CallEnds DEF target, TypeOK
<1> QED
  BY <1>4, <1>5 DEF Complete

(* A DDL job that fails ends the call. *)
LEMMA DDLFails ==
  ASSUME IInv, FailDDL
  PROVE  IInv'
<1>1. PICK j \in todo : First("ddl", j) /\ MarkFailed(j) /\ Return("error")
  BY DEF FailDDL
<1>2. j \in Job /\ j[1] = "ddl" /\ call # "none"
  BY <1>1, InDDL
<1>3. TypeOK /\ UNCHANGED <<conf, target, cancelled, warned, unconverted>>
  BY DEF FailDDL, IInv
<1> QED
  BY <1>1, <1>2, <1>3, MarkedFailed, CallEnds

(* A statement of the DDL that leaves the target as it was. *)
LEMMA DDLStepOnly ==
  ASSUME IInv, NEW j \in todo, First("ddl", j), NEW next \in {"fail", "drop", "create", "empty", "save"}, Step(next),
         StatementLeft, UNCHANGED target, faults' \in 0..MaxFaults,
         next \in {"empty", "save"} => j[2] \in exists,
         next = "save" => ~Remade(j[2])
  PROVE  IInv'
<1>0. TypeOK /\ Control /\ Target /\ Prepared /\ RunJobs /\ DataJobs /\ KeyJobs /\ RowsOfJobs /\ NoOldRows /\ Logging
     /\ SuccessMeansSettled /\ LoggedAfterRun
  BY DEF IInv
<1>1. /\ pc = "ddl" /\ call = "run" /\ ~bad /\ at \in StepsOf("ddl")
      /\ todo \subseteq JobsOf("ddl") /\ j \in JobsOf("ddl") /\ j \in Job
      /\ j = <<"ddl", j[2]>> /\ j[1] = "ddl" /\ j[2] \in Table /\ Planned(j[2])
      /\ \A i \in todo : First("ddl", i) => i = j
      /\ \A i \in JobsOf("data") \cup JobsOf("constraints") \cup JobsOf("validate") : i # j
      /\ \A x : <<"constraints", x>> # j /\ <<"data", x>> # j /\ (<<"ddl", x>> = j <=> x = j[2])
      /\ at \in {"empty", "divide", "save"} => j[2] \in exists
      /\ at \in {"divide", "save"} /\ Remade(j[2]) => Fresh(j[2])
  BY InDDL
<1>2. /\ UNCHANGED <<conf, jobs, call, cancelled, bad, result, unsaved, warned, unconverted>>
      /\ UNCHANGED <<exists, whole, logged, keys, refs, rows, old>>
      /\ at' = next /\ pc' = pc /\ todo' = todo
  BY DEF StatementLeft, history, target, Step
<1>3. JobsOf("ddl")' = JobsOf("ddl") /\ JobsOf("data")' = JobsOf("data") /\ JobsOf("constraints")' = JobsOf("constraints")
      /\ JobsOf("validate")' = JobsOf("validate") /\ JobsOf("log")' = JobsOf("log") /\ Created' = Created
  BY <1>2, SameJobs
<1>a. TypeOK'
  BY <1>0, <1>1, <1>2, <1>3 DEF TypeOK, Steps
<1>b. Control'
  BY <1>0, <1>1, <1>2, <1>3 DEF Control, StepsOf
<1>c. Target'
  BY <1>0, <1>1, <1>2, <1>3 DEF Target, First
<1>d. Prepared'
  BY <1>0, <1>1, <1>2, <1>3 DEF Prepared, First, Remade, Fresh, RowsOf
<1>e. RunJobs'
  BY <1>0, <1>1, <1>2, <1>3, JobSets DEF RunJobs, Settled, Ended, AfterDDL
<1>f. DataJobs'
  BY <1>0, <1>1, <1>2, <1>3, JobSets DEF DataJobs, Done, First, AfterData
<1>g. KeyJobs'
  BY <1>0, <1>1, <1>2, <1>3, Tables DEF KeyJobs, SeenTo, First
<1>h. RowsOfJobs'
  BY <1>0, <1>1, <1>2, <1>3, Tables DEF RowsOfJobs, Exact, Remade, TaskByTask, RowsOf, Accepts, Sees, First
<1>i. NoOldRows'
  BY <1>0, <1>1, <1>2, <1>3, Tables DEF NoOldRows, Exact, Remade, TaskByTask, RowsOf
<1>j. Logging'
  BY <1>0, <1>1, <1>2, <1>3 DEF Logging, AfterData, Planned
<1>k. SuccessMeansSettled'
  BY <1>0, <1>1, <1>2, <1>3 DEF SuccessMeansSettled
<1>l. LoggedAfterRun'
  BY <1>0, <1>1, <1>2, <1>3 DEF LoggedAfterRun, Planned
<1> QED
  BY <1>a, <1>b, <1>c, <1>d, <1>e, <1>f, <1>g, <1>h, <1>i, <1>j, <1>k, <1>l DEF IInv

(* The existence check. *)
LEMMA DDLLooks ==
  ASSUME IInv, NEW j \in todo, First("ddl", j), Look(j[2])
  PROVE  IInv'
<1>1. TypeOK /\ StatementLeft /\ UNCHANGED target
  BY DEF IInv, Look
<1>2. PICK next \in {"fail", "drop", "create", "empty", "save"} :
        /\ Step(next) /\ faults' \in 0..MaxFaults
        /\ next \in {"empty", "save"} => j[2] \in exists
        /\ next = "save" => conf.mode[j[2]] \notin {"recreate", "truncate"}
  <2> DEFINE mode == conf.mode[j[2]]
  <2>1. faults' \in 0..MaxFaults
    BY <1>1, FaultsCounted DEF Look
  <2>2. CASE mode = "recreate" /\ Step("drop")
    BY <2>1, <2>2
  <2>3. CASE Step("create") \/ Step("fail")
    BY <2>1, <2>3
  <2>4. CASE mode # "recreate" /\ j[2] \in exists /\ Step(IF mode = "truncate" THEN "empty" ELSE "save")
    BY <2>1, <2>4
  <2> QED
    BY <2>2, <2>3, <2>4 DEF Look
<1> QED
  BY <1>1, <1>2, DDLStepOnly DEF Remade

(* TRUNCATE. *)
LEMMA TableIsTruncated ==
  ASSUME IInv, NEW j \in todo, First("ddl", j), TruncateTable(j[2])
  PROVE  IInv'
<1>0. TypeOK /\ Control /\ Target /\ Prepared /\ RunJobs /\ DataJobs /\ KeyJobs /\ RowsOfJobs /\ NoOldRows /\ Logging
     /\ SuccessMeansSettled /\ LoggedAfterRun
  BY DEF IInv
<1>1. /\ pc = "ddl" /\ call = "run" /\ ~bad /\ at \in StepsOf("ddl")
      /\ todo \subseteq JobsOf("ddl") /\ j \in JobsOf("ddl") /\ j \in Job
      /\ j = <<"ddl", j[2]>> /\ j[1] = "ddl" /\ j[2] \in Table /\ Planned(j[2])
      /\ \A i \in todo : First("ddl", i) => i = j
      /\ \A i \in JobsOf("data") \cup JobsOf("constraints") \cup JobsOf("validate") : i # j
      /\ \A x : <<"constraints", x>> # j /\ <<"data", x>> # j /\ (<<"ddl", x>> = j <=> x = j[2])
      /\ at \in {"empty", "divide", "save"} => j[2] \in exists
      /\ at \in {"divide", "save"} /\ Remade(j[2]) => Fresh(j[2])
  BY InDDL
<1>2. UNCHANGED <<conf, jobs, call, cancelled, bad, result, unsaved, warned, unconverted>>
  BY DEF TruncateTable, StatementLeft, history
<1>3. JobsOf("ddl")' = JobsOf("ddl") /\ JobsOf("data")' = JobsOf("data") /\ JobsOf("constraints")' = JobsOf("constraints")
      /\ JobsOf("validate")' = JobsOf("validate") /\ JobsOf("log")' = JobsOf("log") /\ Created' = Created
  BY <1>2, SameJobs
<1>4. CASE /\ Step("save") /\ Works /\ Truncates(j[2]) /\ rows' = Emptied(RowsOf(j[2])) /\ old' = old \ {j[2]}
           /\ at = "empty" /\ UNCHANGED <<exists, whole, logged, keys, refs>>
  <2>1. pc' = pc /\ todo' = todo /\ at' \in {"save"} /\ faults' = faults
    BY <1>4 DEF Step, Works
  <2>2. \A i \in JobsOf("ddl") : i # j => i[2] # j[2]
    BY <1>1, JobShape
  <2>3. /\ rows' \in [Task -> [Batch -> 0..2]]
        /\ \A k \in Task : rows'[k] = IF TableOf[k] = j[2] THEN Empty ELSE rows[k]
    BY <1>0, <1>4, EmptiedRows DEF RowsOf
  <2>4. \A k \in Task : Planned(TableOf[k]) => jobs[<<"data", k>>] = "PENDING"
    BY <1>0, <1>1, JobIn DEF RunJobs
  <2>5. \A t \in Table : jobs[<<"constraints", t>>] = "PENDING"
    BY <1>0, <1>1, JobIn DEF RunJobs
  <2>a. TypeOK'
    BY <1>0, <1>1, <1>2, <1>3, <1>4, <2>1, <2>2, <2>3 DEF TypeOK, Steps
  <2>b. Control'
    BY <1>0, <1>1, <1>2, <1>3, <1>4, <2>1, <2>2 DEF Control, StepsOf
  <2>c. Target'
    BY <1>0, <1>1, <1>2, <1>3, <1>4, <2>1, <2>2, <2>3, EmptyRows DEF Target, First
  <2>d. Prepared'
    BY <1>0, <1>1, <1>2, <1>3, <1>4, <2>1, <2>2, <2>3 DEF Prepared, First, Remade, Fresh, RowsOf
  <2>e. RunJobs'
    BY <1>0, <1>1, <1>2, <1>3, <1>4, <2>1, <2>2, JobSets DEF RunJobs, Settled, Ended, AfterDDL
  <2>f. DataJobs'
    BY <1>0, <1>1, <1>2, <1>3, <1>4, <2>1, <2>2, JobSets DEF DataJobs, Done, First, AfterData
  <2>g. KeyJobs'
    BY <1>0, <1>1, <1>2, <1>3, <1>4, <2>1, <2>2, <2>5 DEF KeyJobs, SeenTo, First
  <2>h. RowsOfJobs'
    <3>1. SUFFICES ASSUME NEW k \in Task, Exact(TableOf[k])'
                   PROVE  /\ jobs'[<<"data", k>>] # "none"
                          /\ jobs'[<<"data", k>>] = "PENDING" => rows'[k] = Empty
                          /\ jobs'[<<"data", k>>] = "COMPLETED" => rows'[k] = Once
      BY <1>1, <2>1 DEF RowsOfJobs, Once, Empty
    <3>2. Exact(TableOf[k])
      BY <1>2, <3>1 DEF Exact, Remade, TaskByTask, RowsOf
    <3> QED
      BY <1>0, <1>2, <2>3, <2>4, <3>2 DEF RowsOfJobs, Exact, Remade, Planned
  <2>i. NoOldRows'
    BY <1>0, <1>1, <1>2, <1>3, <1>4, <2>1, <2>2, Tables DEF NoOldRows, Exact, Remade, TaskByTask, RowsOf
  <2>j. Logging'
    BY <1>0, <1>1, <1>2, <1>3, <1>4, <2>1, <2>2 DEF Logging, AfterData, Planned
  <2>k. SuccessMeansSettled'
    BY <1>0, <1>1, <1>2, <1>3, <1>4, <2>1, <2>2 DEF SuccessMeansSettled
  <2>l. LoggedAfterRun'
    BY <1>0, <1>1, <1>2, <1>3, <1>4, <2>1, <2>2 DEF LoggedAfterRun, Planned
  <2> QED
    BY <2>a, <2>b, <2>c, <2>d, <2>e, <2>f, <2>g, <2>h, <2>i, <2>j, <2>k, <2>l DEF IInv
<1>5. CASE Step("fail") /\ UNCHANGED target
  BY <1>0, <1>1, <1>5, FaultsCounted, DDLStepOnly DEF TruncateTable, Refused
<1> QED
  BY <1>4, <1>5 DEF TruncateTable, target

(* DROP TABLE. *)
LEMMA TableIsDropped ==
  ASSUME IInv, NEW j \in todo, First("ddl", j), DropTable(j[2])
  PROVE  IInv'
<1>0. TypeOK /\ Control /\ Target /\ Prepared /\ RunJobs /\ DataJobs /\ KeyJobs /\ RowsOfJobs /\ NoOldRows /\ Logging
     /\ SuccessMeansSettled /\ LoggedAfterRun
  BY DEF IInv
<1>1. /\ pc = "ddl" /\ call = "run" /\ ~bad /\ at \in StepsOf("ddl")
      /\ todo \subseteq JobsOf("ddl") /\ j \in JobsOf("ddl") /\ j \in Job
      /\ j = <<"ddl", j[2]>> /\ j[1] = "ddl" /\ j[2] \in Table /\ Planned(j[2])
      /\ \A i \in todo : First("ddl", i) => i = j
      /\ \A i \in JobsOf("data") \cup JobsOf("constraints") \cup JobsOf("validate") : i # j
      /\ \A x : <<"constraints", x>> # j /\ <<"data", x>> # j /\ (<<"ddl", x>> = j <=> x = j[2])
      /\ at \in {"empty", "divide", "save"} => j[2] \in exists
      /\ at \in {"divide", "save"} /\ Remade(j[2]) => Fresh(j[2])
  BY InDDL
<1>2. UNCHANGED <<conf, jobs, call, cancelled, bad, result, unsaved, warned, unconverted>>
  BY DEF DropTable, StatementLeft, history
<1>3. JobsOf("ddl")' = JobsOf("ddl") /\ JobsOf("data")' = JobsOf("data") /\ JobsOf("constraints")' = JobsOf("constraints")
      /\ JobsOf("validate")' = JobsOf("validate") /\ JobsOf("log")' = JobsOf("log") /\ Created' = Created
  BY <1>2, SameJobs
<1>4. CASE /\ Step("create") /\ Works /\ exists' = exists \ {j[2]} /\ whole' = whole \ {j[2]} /\ logged' = logged \ {j[2]}
           /\ keys' = keys \ {j[2]} /\ refs' = {r \in refs : j[2] \notin {r[1], r[2]}}
           /\ rows' = Emptied(RowsOf(j[2])) /\ old' = old \ {j[2]}
  <2>1. pc' = pc /\ todo' = todo /\ at' \in {"create"} /\ faults' = faults
    BY <1>4 DEF Step, Works
  <2>2. \A i \in JobsOf("ddl") : i # j => i[2] # j[2]
    BY <1>1, JobShape
  <2>3. /\ rows' \in [Task -> [Batch -> 0..2]]
        /\ \A k \in Task : rows'[k] = IF TableOf[k] = j[2] THEN Empty ELSE rows[k]
    BY <1>0, <1>4, EmptiedRows DEF RowsOf
  <2>4. \A k \in Task : Planned(TableOf[k]) => jobs[<<"data", k>>] = "PENDING"
    BY <1>0, <1>1, JobIn DEF RunJobs
  <2>5. \A t \in Table : jobs[<<"constraints", t>>] = "PENDING"
    BY <1>0, <1>1, JobIn DEF RunJobs
  <2>a. TypeOK'
    BY <1>0, <1>1, <1>2, <1>3, <1>4, <2>1, <2>2, <2>3 DEF TypeOK, Steps
  <2>b. Control'
    BY <1>0, <1>1, <1>2, <1>3, <1>4, <2>1, <2>2 DEF Control, StepsOf
  <2>c. Target'
    BY <1>0, <1>1, <1>2, <1>3, <1>4, <2>1, <2>2, <2>3, EmptyRows DEF Target, First
  <2>d. Prepared'
    BY <1>0, <1>1, <1>2, <1>3, <1>4, <2>1, <2>2, <2>3 DEF Prepared, First, Remade, Fresh, RowsOf
  <2>e. RunJobs'
    BY <1>0, <1>1, <1>2, <1>3, <1>4, <2>1, <2>2, JobSets DEF RunJobs, Settled, Ended, AfterDDL
  <2>f. DataJobs'
    BY <1>0, <1>1, <1>2, <1>3, <1>4, <2>1, <2>2, JobSets DEF DataJobs, Done, First, AfterData
  <2>g. KeyJobs'
    BY <1>0, <1>1, <1>2, <1>3, <1>4, <2>1, <2>2, <2>5 DEF KeyJobs, SeenTo, First
  <2>h. RowsOfJobs'
    <3>1. SUFFICES ASSUME NEW k \in Task, Exact(TableOf[k])'
                   PROVE  /\ jobs'[<<"data", k>>] # "none"
                          /\ jobs'[<<"data", k>>] = "PENDING" => rows'[k] = Empty
                          /\ jobs'[<<"data", k>>] = "COMPLETED" => rows'[k] = Once
      BY <1>1, <2>1 DEF RowsOfJobs, Once, Empty
    <3>2. Exact(TableOf[k])
      BY <1>2, <3>1 DEF Exact, Remade, TaskByTask, RowsOf
    <3> QED
      BY <1>0, <1>2, <2>3, <2>4, <3>2 DEF RowsOfJobs, Exact, Remade, Planned
  <2>i. NoOldRows'
    BY <1>0, <1>1, <1>2, <1>3, <1>4, <2>1, <2>2, Tables DEF NoOldRows, Exact, Remade, TaskByTask, RowsOf
  <2>j. Logging'
    BY <1>0, <1>1, <1>2, <1>3, <1>4, <2>1, <2>2 DEF Logging, AfterData, Planned
  <2>k. SuccessMeansSettled'
    BY <1>0, <1>1, <1>2, <1>3, <1>4, <2>1, <2>2 DEF SuccessMeansSettled
  <2>l. LoggedAfterRun'
    BY <1>0, <1>1, <1>2, <1>3, <1>4, <2>1, <2>2 DEF LoggedAfterRun, Planned
  <2> QED
    BY <2>a, <2>b, <2>c, <2>d, <2>e, <2>f, <2>g, <2>h, <2>i, <2>j, <2>k, <2>l DEF IInv
<1>5. CASE Step("fail") /\ UNCHANGED target
  BY <1>0, <1>1, <1>5, FaultsCounted, DDLStepOnly DEF DropTable, Refused
<1> QED
  BY <1>4, <1>5 DEF DropTable, target

(* CREATE TABLE. *)
LEMMA TableIsCreated ==
  ASSUME IInv, NEW j \in todo, First("ddl", j), CreateTable(j[2])
  PROVE  IInv'
<1>0. TypeOK /\ Control /\ Target /\ Prepared /\ RunJobs /\ DataJobs /\ KeyJobs /\ RowsOfJobs /\ NoOldRows /\ Logging
     /\ SuccessMeansSettled /\ LoggedAfterRun
  BY DEF IInv
<1>1. /\ pc = "ddl" /\ call = "run" /\ ~bad /\ at \in StepsOf("ddl")
      /\ todo \subseteq JobsOf("ddl") /\ j \in JobsOf("ddl") /\ j \in Job
      /\ j = <<"ddl", j[2]>> /\ j[1] = "ddl" /\ j[2] \in Table /\ Planned(j[2])
      /\ \A i \in todo : First("ddl", i) => i = j
      /\ \A i \in JobsOf("data") \cup JobsOf("constraints") \cup JobsOf("validate") : i # j
      /\ \A x : <<"constraints", x>> # j /\ <<"data", x>> # j /\ (<<"ddl", x>> = j <=> x = j[2])
      /\ at \in {"empty", "divide", "save"} => j[2] \in exists
      /\ at \in {"divide", "save"} /\ Remade(j[2]) => Fresh(j[2])
  BY InDDL
<1>2. UNCHANGED <<conf, jobs, call, cancelled, bad, result, unsaved, warned, unconverted>>
  BY DEF CreateTable, StatementLeft, history
<1>3. JobsOf("ddl")' = JobsOf("ddl") /\ JobsOf("data")' = JobsOf("data") /\ JobsOf("constraints")' = JobsOf("constraints")
      /\ JobsOf("validate")' = JobsOf("validate") /\ JobsOf("log")' = JobsOf("log") /\ Created' = Created
  BY <1>2, SameJobs
<1>4. CASE /\ j[2] \notin exists /\ Works /\ Step(IF j[2] \in Partitioned THEN "divide" ELSE "save")
           /\ exists' = exists \cup {j[2]} /\ whole' = (IF j[2] \in Partitioned THEN whole ELSE whole \cup {j[2]})
           /\ logged' = (IF conf.unlogged THEN logged ELSE logged \cup {j[2]}) /\ UNCHANGED <<keys, refs, rows, old>>
  <2>1. pc' = pc /\ todo' = todo /\ at' \in {"divide", "save"} /\ faults' = faults
    BY <1>4 DEF Step, Works
  <2>2. \A i \in JobsOf("ddl") : i # j => i[2] # j[2]
    BY <1>1, JobShape
  <2>3. \A k \in Task : TableOf[k] = j[2] => rows[k] = Empty
    BY <1>0, <1>4 DEF Target
  <2>a. TypeOK'
    BY <1>0, <1>1, <1>2, <1>3, <1>4, <2>1, <2>2 DEF TypeOK, Steps
  <2>b. Control'
    BY <1>0, <1>1, <1>2, <1>3, <1>4, <2>1, <2>2 DEF Control, StepsOf
  <2>c. Target'
    BY <1>0, <1>1, <1>2, <1>3, <1>4, <2>1, <2>2, <2>3 DEF Target, First
  <2>d. Prepared'
    BY <1>0, <1>1, <1>2, <1>3, <1>4, <2>1, <2>2, <2>3 DEF Prepared, First, Remade, Fresh, RowsOf, TypeOK
  <2>e. RunJobs'
    BY <1>0, <1>1, <1>2, <1>3, <1>4, <2>1, <2>2, JobSets DEF RunJobs, Settled, Ended, AfterDDL
  <2>f. DataJobs'
    BY <1>0, <1>1, <1>2, <1>3, <1>4, <2>1, <2>2, JobSets DEF DataJobs, Done, First, AfterData
  <2>g. KeyJobs'
    BY <1>0, <1>1, <1>2, <1>3, <1>4, <2>1, <2>2, Tables DEF KeyJobs, SeenTo, First
  <2>h. RowsOfJobs'
    BY <1>0, <1>1, <1>2, <1>3, <1>4, <2>1, <2>2, Tables DEF RowsOfJobs, Exact, Remade, TaskByTask, RowsOf, Accepts, Sees, First
  <2>i. NoOldRows'
    BY <1>0, <1>1, <1>2, <1>3, <1>4, <2>1, <2>2, Tables DEF NoOldRows, Exact, Remade, TaskByTask, RowsOf
  <2>j. Logging'
    BY <1>0, <1>1, <1>2, <1>3, <1>4, <2>1, <2>2 DEF Logging, AfterData, Planned
  <2>k. SuccessMeansSettled'
    BY <1>0, <1>1, <1>2, <1>3, <1>4, <2>1, <2>2 DEF SuccessMeansSettled
  <2>l. LoggedAfterRun'
    BY <1>0, <1>1, <1>2, <1>3, <1>4, <2>1, <2>2 DEF LoggedAfterRun, Planned
  <2> QED
    BY <2>a, <2>b, <2>c, <2>d, <2>e, <2>f, <2>g, <2>h, <2>i, <2>j, <2>k, <2>l DEF IInv
<1>5. CASE Step("fail") /\ UNCHANGED target
  BY <1>0, <1>1, <1>5, FaultsCounted, DDLStepOnly DEF CreateTable, Refused
<1> QED
  BY <1>4, <1>5 DEF CreateTable, target

(* The partitions are created. *)
LEMMA TableIsDivided ==
  ASSUME IInv, NEW j \in todo, First("ddl", j), CreatePartitions(j[2])
  PROVE  IInv'
<1>0. TypeOK /\ Control /\ Target /\ Prepared /\ RunJobs /\ DataJobs /\ KeyJobs /\ RowsOfJobs /\ NoOldRows /\ Logging
     /\ SuccessMeansSettled /\ LoggedAfterRun
  BY DEF IInv
<1>1. /\ pc = "ddl" /\ call = "run" /\ ~bad /\ at \in StepsOf("ddl")
      /\ todo \subseteq JobsOf("ddl") /\ j \in JobsOf("ddl") /\ j \in Job
      /\ j = <<"ddl", j[2]>> /\ j[1] = "ddl" /\ j[2] \in Table /\ Planned(j[2])
      /\ \A i \in todo : First("ddl", i) => i = j
      /\ \A i \in JobsOf("data") \cup JobsOf("constraints") \cup JobsOf("validate") : i # j
      /\ \A x : <<"constraints", x>> # j /\ <<"data", x>> # j /\ (<<"ddl", x>> = j <=> x = j[2])
      /\ at \in {"empty", "divide", "save"} => j[2] \in exists
      /\ at \in {"divide", "save"} /\ Remade(j[2]) => Fresh(j[2])
  BY InDDL
<1>2. UNCHANGED <<conf, jobs, call, cancelled, bad, result, unsaved, warned, unconverted>>
  BY DEF CreatePartitions, StatementLeft, history
<1>3. JobsOf("ddl")' = JobsOf("ddl") /\ JobsOf("data")' = JobsOf("data") /\ JobsOf("constraints")' = JobsOf("constraints")
      /\ JobsOf("validate")' = JobsOf("validate") /\ JobsOf("log")' = JobsOf("log") /\ Created' = Created
  BY <1>2, SameJobs
<1>4. CASE /\ BoundsFit(j[2]) /\ Works /\ whole' = whole \cup {j[2]} /\ Step("save")
           /\ at = "divide" /\ UNCHANGED <<exists, logged, keys, refs, rows, old>>
  <2>1. pc' = pc /\ todo' = todo /\ at' \in {"save"} /\ faults' = faults
    BY <1>4 DEF Step, Works
  <2>2. \A i \in JobsOf("ddl") : i # j => i[2] # j[2]
    BY <1>1, JobShape
  <2>a. TypeOK'
    BY <1>0, <1>1, <1>2, <1>3, <1>4, <2>1, <2>2 DEF TypeOK, Steps
  <2>b. Control'
    BY <1>0, <1>1, <1>2, <1>3, <1>4, <2>1, <2>2 DEF Control, StepsOf
  <2>c. Target'
    BY <1>0, <1>1, <1>2, <1>3, <1>4, <2>1, <2>2 DEF Target, First
  <2>d. Prepared'
    BY <1>0, <1>1, <1>2, <1>3, <1>4, <2>1, <2>2 DEF Prepared, First, Remade, Fresh, RowsOf
  <2>e. RunJobs'
    BY <1>0, <1>1, <1>2, <1>3, <1>4, <2>1, <2>2, JobSets DEF RunJobs, Settled, Ended, AfterDDL
  <2>f. DataJobs'
    BY <1>0, <1>1, <1>2, <1>3, <1>4, <2>1, <2>2, JobSets DEF DataJobs, Done, First, AfterData
  <2>g. KeyJobs'
    BY <1>0, <1>1, <1>2, <1>3, <1>4, <2>1, <2>2, Tables DEF KeyJobs, SeenTo, First
  <2>h. RowsOfJobs'
    BY <1>0, <1>1, <1>2, <1>3, <1>4, <2>1, <2>2, Tables DEF RowsOfJobs, Exact, Remade, TaskByTask, RowsOf, Accepts, Sees, First
  <2>i. NoOldRows'
    BY <1>0, <1>1, <1>2, <1>3, <1>4, <2>1, <2>2, Tables DEF NoOldRows, Exact, Remade, TaskByTask, RowsOf
  <2>j. Logging'
    BY <1>0, <1>1, <1>2, <1>3, <1>4, <2>1, <2>2 DEF Logging, AfterData, Planned
  <2>k. SuccessMeansSettled'
    BY <1>0, <1>1, <1>2, <1>3, <1>4, <2>1, <2>2 DEF SuccessMeansSettled
  <2>l. LoggedAfterRun'
    BY <1>0, <1>1, <1>2, <1>3, <1>4, <2>1, <2>2 DEF LoggedAfterRun, Planned
  <2> QED
    BY <2>a, <2>b, <2>c, <2>d, <2>e, <2>f, <2>g, <2>h, <2>i, <2>j, <2>k, <2>l DEF IInv
<1>5. CASE Step("fail") /\ UNCHANGED target
  BY <1>0, <1>1, <1>5, FaultsCounted, DDLStepOnly DEF CreatePartitions, Refused
<1> QED
  BY <1>4, <1>5 DEF CreatePartitions, target

(* Any step of executeDDL but its failure. *)
LEMMA DDLIsExecuted ==
  ASSUME IInv, ExecuteDDL
  PROVE  IInv'
BY DDLIsClaimed, DDLLooks, TableIsTruncated, TableIsDropped, TableIsCreated, TableIsDivided, DDLIsCompleted DEF ExecuteDDL
-----------------------------------------------------------------------------
(* The next job of the data phase. *)
LEMMA InData ==
  ASSUME IInv, NEW j \in todo, First("data", j)
  PROVE  /\ pc = "data" /\ call # "none" /\ at \in StepsOf("data")
         /\ todo \subseteq JobsOf("data") /\ j \in JobsOf("data") /\ j \in Job
         /\ j = <<"data", j[2]>> /\ j[1] = "data" /\ j[2] \in Task /\ TableOf[j[2]] \in Table
         /\ \A i \in todo : First("data", i) => i = j
         /\ \A i \in JobsOf("ddl") \cup JobsOf("constraints") \cup JobsOf("validate") : i # j
         /\ \A x : <<"constraints", x>> # j /\ <<"ddl", x>> # j /\ (<<"data", x>> = j <=> x = j[2])
<1>1. TypeOK /\ Control /\ pc = "data"
  BY DEF IInv, First
<1>2. todo \subseteq JobsOf("data") /\ j \in JobsOf("data") /\ call # "none" /\ at \in StepsOf("data")
  BY <1>1 DEF Control
<1>3. \A i \in todo : First("data", i) => i = j
  BY <1>1, OneIsFirst DEF TypeOK
<1>4. j \in Job /\ j = <<"data", j[2]>> /\ j[1] = "data" /\ j[2] \in Task /\ TableOf[j[2]] \in Table
  BY <1>2, JobSets, JobShape, Tables
<1>5. \A i \in JobsOf("ddl") \cup JobsOf("constraints") \cup JobsOf("validate") : i # j
  BY <1>4, JobShape
<1>6. \A x : <<"constraints", x>> # j /\ <<"ddl", x>> # j /\ (<<"data", x>> = j <=> x = j[2])
  BY <1>4
<1> QED
  BY <1>1, <1>2, <1>3, <1>4, <1>5, <1>6

(* What the cleanup removes before a task is copied, and that it removes    *)
(* what a new copy would be added to.                                       *)
LEMMA CleanedRows ==
  ASSUME IInv, NEW k \in Task
  PROVE  /\ \A i \in Cleaned(k) : TableOf[i] = TableOf[k] /\ (TaskByTask(TableOf[k]) => i = k)
         /\ Exact(TableOf[k]) /\ jobs[<<"data", k>>] \in {"PENDING", "RETRYING"} =>
              k \in Cleaned(k) \/ rows[k] = Empty \/ ~Accepts(k, "batch 1")
<1> DEFINE t == TableOf[k]
<1>1. TypeOK /\ Target /\ RowsOfJobs
  BY DEF IInv
<1>2. Cleaned(k) \subseteq RowsOf(t) /\ k \in RowsOf(t) /\ \A i \in RowsOf(t) : i \in Task /\ TableOf[i] = t
  BY DEF Cleaned, RowsOf
<1>3. ASSUME NEW i \in Cleaned(k), TaskByTask(t) PROVE i = k
  <2>1. CASE t \in Partitioned
    <3>1. ~conf.split
      BY <1>3, <2>1 DEF TaskByTask
    <3>2. PartOf(i) = PartOf(k)
      BY <1>3, <2>1 DEF Cleaned
    <3> QED
      BY <3>1, <3>2 DEF PartOf
  <2>2. CASE t \notin Partitioned
    BY <1>2, <1>3, <2>2 DEF TaskByTask
  <2> QED
    BY <2>1, <2>2
<1>4. ASSUME Exact(t), jobs[<<"data", k>>] \in {"PENDING", "RETRYING"}, k \notin Cleaned(k), Accepts(k, "batch 1")
      PROVE  rows[k] = Empty
  <2>1. CASE jobs[<<"data", k>>] = "PENDING"
    BY <1>1, <1>4, <2>1 DEF RowsOfJobs
  <2>2. CASE jobs[<<"data", k>>] = "RETRYING"
    <3>1. ~Truncates(t)
      <4>1. SUFFICES ASSUME Truncates(t) PROVE k \in Cleaned(k)
        BY <1>4
      <4>2. t \in whole
        BY <1>4 DEF Accepts
      <4>3. CASE t \in Partitioned
        <5>1. ~IsSub(k)
          BY <1>4, <4>3 DEF IsSub, Exact, TaskByTask
        <5> QED
          BY <1>2, <2>2, <4>1, <4>2, <4>3, <5>1 DEF Cleaned
      <4>4. CASE t \notin Partitioned
        BY <1>2, <2>2, <4>1, <4>2, <4>4 DEF Cleaned, IsSub
      <4> QED
        BY <4>3, <4>4
    <3>2. t \in keys
      BY <1>1, <1>4, <3>1 DEF Truncates, Accepts, Referenced, Target
    <3>3. rows[k]["batch 1"] = 0 /\ rows[k]["batch 2"] = 0
      BY <1>1, <1>4, <3>2 DEF Accepts, Target
    <3> QED
      BY <1>1, <3>3, EmptyRows DEF TypeOK
  <2> QED
    BY <1>4, <2>1, <2>2
<1> QED
  BY <1>2, <1>3, <1>4

(* A worker takes the task: SetRunning and the cleanup. *)
LEMMA TaskIsClaimed ==
  ASSUME IInv, NEW j \in todo, First("data", j), ClaimTask(j[2])
  PROVE  IInv'
<1>0. TypeOK /\ Control /\ Target /\ Prepared /\ RunJobs /\ DataJobs /\ KeyJobs /\ RowsOfJobs /\ NoOldRows /\ Logging
     /\ SuccessMeansSettled /\ LoggedAfterRun
  BY DEF IInv
<1>1. /\ pc = "data" /\ call # "none" /\ at \in StepsOf("data")
      /\ todo \subseteq JobsOf("data") /\ j \in JobsOf("data") /\ j \in Job
      /\ j = <<"data", j[2]>> /\ j[1] = "data" /\ j[2] \in Task /\ TableOf[j[2]] \in Table
      /\ \A i \in todo : First("data", i) => i = j
      /\ \A i \in JobsOf("ddl") \cup JobsOf("constraints") \cup JobsOf("validate") : i # j
      /\ \A x : <<"constraints", x>> # j /\ <<"ddl", x>> # j /\ (<<"data", x>> = j <=> x = j[2])
  BY InData
<1>2. UNCHANGED <<conf, exists, whole, logged, keys, refs, call, cancelled, result, warned, unconverted>> /\ at = "claim"
  BY DEF ClaimTask
<1>3. JobsOf("ddl")' = JobsOf("ddl") /\ JobsOf("data")' = JobsOf("data") /\ JobsOf("constraints")' = JobsOf("constraints")
      /\ JobsOf("validate")' = JobsOf("validate") /\ JobsOf("log")' = JobsOf("log") /\ Created' = Created
  BY <1>2, SameJobs
<1>4. CASE /\ Works /\ Save(<<"data", j[2]>>, "RUNNING") /\ Step("batch 1") /\ rows' = Emptied(Cleaned(j[2])) /\ UNCHANGED bad
           /\ old' = IF Cleaned(j[2]) # {} /\ TableOf[j[2]] \notin Partitioned THEN old \ {TableOf[j[2]]} ELSE old
  <2>1. "RUNNING" \in JobState
    BY DEF JobState
  <2>2. /\ jobs' \in [Job -> JobState] /\ jobs'[j] = "RUNNING" /\ \A i \in Job : i # j => jobs'[i] = jobs[i]
        /\ unsaved' = unsaved \ {j} /\ unsaved' \subseteq Job
    <3>1. Save(j, "RUNNING")
      BY <1>1, <1>4
    <3> QED
      BY <1>0, <1>1, <2>1, <3>1, Saved
  <2>3. at' = "batch 1" /\ pc' = pc /\ todo' = todo /\ bad' = bad /\ faults' = faults /\ old' \subseteq old
    BY <1>4 DEF Step, Works
  <2>4. /\ rows' \in [Task -> [Batch -> 0..2]]
        /\ \A k \in Task : rows'[k] = IF k \in Cleaned(j[2]) THEN Empty ELSE rows[k]
    BY <1>0, <1>4, EmptiedRows
  <2>5. /\ \A i \in Cleaned(j[2]) : TableOf[i] = TableOf[j[2]] /\ (TaskByTask(TableOf[j[2]]) => i = j[2])
        /\ Exact(TableOf[j[2]]) /\ jobs[j] \in {"PENDING", "RETRYING"} =>
             j[2] \in Cleaned(j[2]) \/ rows[j[2]] = Empty \/ ~Accepts(j[2], "batch 1")
    BY <1>1, CleanedRows
  <2>6. jobs[j] \in {"PENDING", "RETRYING"}
    BY <1>0, <1>1, <1>2 DEF DataJobs
  <2>a. TypeOK'
    BY <1>0, <1>2, <2>2, <2>3, <2>4 DEF TypeOK, Steps, Batch
  <2>b. Control'
    BY <1>0, <1>1, <1>2, <1>3, <2>2, <2>3 DEF Control, StepsOf
  <2>c. Target'
    BY <1>0, <1>1, <1>2, <1>3, <2>2, <2>3, <2>4, EmptyRows DEF Target, First
  <2>d. Prepared'
    BY <1>0, <1>1, <1>2, <1>3, <2>2, <2>3 DEF Prepared, First, Remade, Fresh, RowsOf
  <2>e. RunJobs'
    <3>1. \A i \in Created : i # j => jobs'[i] = jobs[i] /\ (i \in unsaved' <=> i \in unsaved)
      BY <2>2, JobSets
    <3>2. \A i \in Created : jobs'[i] # "none" \/ jobs[i] = "none"
      BY <2>2, <3>1, JobSets
    <3>3. \A i \in Created : i # j => (Settled(i)' <=> Settled(i)) /\ (Ended(i)' <=> Ended(i))
      BY <3>1 DEF Settled, Ended
    <3>4. \A i \in JobsOf("ddl") \cup JobsOf("constraints") \cup JobsOf("validate") : i \in Created /\ i # j /\ jobs'[i] = jobs[i]
      BY <1>1, <3>1, JobSets
    <3>5. pc = "data" /\ pc' = "data" /\ call' = call /\ conf' = conf /\ exists' = exists
      BY <1>1, <1>2, <2>3
    <3> QED
      BY <1>0, <1>3, <3>2, <3>3, <3>4, <3>5 DEF RunJobs, AfterDDL
  <2>f. DataJobs'
    <3>1. \A i \in todo' : i # j => ~First("data", i)
      BY <1>1, <2>3
    <3>2. \A i \in todo' : i \in Job /\ (IF i = j THEN jobs'[i] = "RUNNING" ELSE jobs'[i] \in {"PENDING", "RETRYING"})
      BY <1>0, <1>1, <2>2, <2>3, <3>1, JobSets DEF DataJobs
    <3>3. \A i \in todo' : First("data", i)' <=> First("data", i)
      BY <2>3 DEF First
    <3>4. \A i \in Job : jobs'[i] # "SKIPPED"
      BY <1>0, <2>2 DEF DataJobs
    <3>5. \A i \in JobsOf("data") : i \in todo' \/ Done(i)' \/ bad' \/ cancelled'
      BY <1>0, <1>1, <1>2, <2>2, <2>3, JobSets DEF DataJobs, Done
    <3>6. pc' = "data" /\ at' # "claim" /\ call' # "none" /\ j \in todo'
      BY <1>1, <1>2, <2>3
    <3> QED
      BY <1>1, <1>3, <3>1, <3>2, <3>3, <3>4, <3>5, <3>6 DEF DataJobs, AfterData
  <2>g. KeyJobs'
    BY <1>0, <1>1, <1>2, <1>3, <2>2, <2>3, Tables DEF KeyJobs, SeenTo, First
  <2>h. RowsOfJobs'
    <3>1. SUFFICES ASSUME NEW k \in Task, Exact(TableOf[k])'
                   PROVE  /\ jobs'[<<"data", k>>] # "none"
                          /\ jobs'[<<"data", k>>] = "PENDING" => rows'[k] = Empty
                          /\ jobs'[<<"data", k>>] = "COMPLETED" => rows'[k] = Once
                          /\ <<"data", k>> \in todo' /\ First("data", <<"data", k>>)' =>
                               /\ at' = "batch 1" => rows'[k] = Empty \/ ~Accepts(k, "batch 1")'
                               /\ at' = "batch 2" => rows'[k]["batch 1"] = 1 /\ rows'[k]["batch 2"] = 0
                               /\ at' = "save" => rows'[k] = Once
      BY DEF RowsOfJobs, Once, Empty
    <3>2. Exact(TableOf[k])
      BY <1>1, <1>2, <2>2, <3>1, Tables DEF Exact, Remade, TaskByTask, RowsOf
    <3>3. CASE k = j[2]
      <4>1. k \in Cleaned(k) \/ rows[k] = Empty \/ ~Accepts(k, "batch 1")
        BY <2>5, <2>6, <3>2, <3>3
      <4>2. rows'[k] = Empty \/ ~Accepts(k, "batch 1")'
        BY <1>2, <2>3, <2>4, <3>3, <4>1 DEF Accepts, Sees
      <4> QED
        BY <1>1, <2>2, <2>3, <3>3, <4>2
    <3>4. CASE k # j[2]
      <4>1. k \notin Cleaned(j[2])
        BY <2>5, <3>2, <3>4 DEF Exact
      <4>2. rows'[k] = rows[k] /\ jobs'[<<"data", k>>] = jobs[<<"data", k>>]
        BY <1>1, <2>2, <2>4, <3>4, <4>1, Tables
      <4>3. ~(<<"data", k>> \in todo' /\ First("data", <<"data", k>>)')
        BY <1>1, <2>3, <3>4 DEF First
      <4> QED
        BY <1>0, <3>2, <4>2, <4>3 DEF RowsOfJobs
    <3> QED
      BY <3>3, <3>4
  <2>i. NoOldRows'
    BY <1>0, <1>1, <1>2, <1>3, <2>2, <2>3, Tables DEF NoOldRows, Exact, Remade, TaskByTask, RowsOf
  <2>j. Logging'
    BY <1>0, <1>1, <1>2, <1>3, <2>2, <2>3 DEF Logging, AfterData, Planned
  <2>k. SuccessMeansSettled'
    BY <1>0, <1>1, <1>2, <1>3, <2>2, <2>3 DEF SuccessMeansSettled
  <2>l. LoggedAfterRun'
    BY <1>0, <1>1, <1>2, <1>3, <2>2, <2>3 DEF LoggedAfterRun, Planned
  <2> QED
    BY <2>a, <2>b, <2>c, <2>d, <2>e, <2>f, <2>g, <2>h, <2>i, <2>j, <2>k, <2>l DEF IInv
<1>5. CASE Fails("store") /\ NextJob(<<"data", j[2]>>) /\ bad' = TRUE /\ UNCHANGED <<jobs, unsaved, rows, old>>
  <2>1. at' = "claim" /\ pc' = pc /\ todo' = todo \ {j}
    BY <1>1, <1>5 DEF NextJob
  <2>a. TypeOK'
    BY <1>0, <1>1, <1>2, <1>3, <1>5, <2>1, FaultsCounted DEF TypeOK, Steps
  <2>b. Control'
    BY <1>0, <1>1, <1>2, <1>3, <1>5, <2>1 DEF Control, StepsOf
  <2>c. Target'
    BY <1>0, <1>1, <1>2, <1>3, <1>5, <2>1 DEF Target, First
  <2>d. Prepared'
    BY <1>0, <1>1, <1>2, <1>3, <1>5, <2>1 DEF Prepared, First, Remade, Fresh, RowsOf
  <2>e. RunJobs'
    BY <1>0, <1>1, <1>2, <1>3, <1>5, <2>1, JobSets DEF RunJobs, Settled, Ended, AfterDDL
  <2>f. DataJobs'
    BY <1>0, <1>1, <1>2, <1>3, <1>5, <2>1, JobSets DEF DataJobs, Done, First, AfterData
  <2>g. KeyJobs'
    BY <1>0, <1>1, <1>2, <1>3, <1>5, <2>1, Tables DEF KeyJobs, SeenTo, First
  <2>h. RowsOfJobs'
    BY <1>0, <1>1, <1>2, <1>3, <1>5, <2>1, Tables DEF RowsOfJobs, Exact, Remade, TaskByTask, RowsOf, Accepts, Sees, First
  <2>i. NoOldRows'
    BY <1>0, <1>1, <1>2, <1>3, <1>5, <2>1, Tables DEF NoOldRows, Exact, Remade, TaskByTask, RowsOf
  <2>j. Logging'
    BY <1>0, <1>1, <1>2, <1>3, <1>5, <2>1 DEF Logging, AfterData, Planned
  <2>k. SuccessMeansSettled'
    BY <1>0, <1>1, <1>2, <1>3, <1>5, <2>1 DEF SuccessMeansSettled
  <2>l. LoggedAfterRun'
    BY <1>0, <1>1, <1>2, <1>3, <1>5, <2>1 DEF LoggedAfterRun, Planned
  <2> QED
    BY <2>a, <2>b, <2>c, <2>d, <2>e, <2>f, <2>g, <2>h, <2>i, <2>j, <2>k, <2>l DEF IInv
<1> QED
  BY <1>4, <1>5 DEF ClaimTask

(* A batch is committed, or the statement fails. *)
LEMMA BatchIsCopied ==
  ASSUME IInv, NEW j \in todo, First("data", j), CopyBatch(j[2])
  PROVE  IInv'
<1>0. TypeOK /\ Control /\ Target /\ Prepared /\ RunJobs /\ DataJobs /\ KeyJobs /\ RowsOfJobs /\ NoOldRows /\ Logging
     /\ SuccessMeansSettled /\ LoggedAfterRun
  BY DEF IInv
<1>1. /\ pc = "data" /\ call # "none" /\ at \in StepsOf("data")
      /\ todo \subseteq JobsOf("data") /\ j \in JobsOf("data") /\ j \in Job
      /\ j = <<"data", j[2]>> /\ j[1] = "data" /\ j[2] \in Task /\ TableOf[j[2]] \in Table
      /\ \A i \in todo : First("data", i) => i = j
      /\ \A i \in JobsOf("ddl") \cup JobsOf("constraints") \cup JobsOf("validate") : i # j
      /\ \A x : <<"constraints", x>> # j /\ <<"ddl", x>> # j /\ (<<"data", x>> = j <=> x = j[2])
  BY InData
<1>2. /\ UNCHANGED <<conf, exists, whole, logged, keys, refs, old, jobs, call, cancelled, bad, result, unsaved, warned, unconverted>>
      /\ at \in Batch
  BY DEF CopyBatch, StatementLeft, history
<1>3. JobsOf("ddl")' = JobsOf("ddl") /\ JobsOf("data")' = JobsOf("data") /\ JobsOf("constraints")' = JobsOf("constraints")
      /\ JobsOf("validate")' = JobsOf("validate") /\ JobsOf("log")' = JobsOf("log") /\ Created' = Created
  BY <1>2, SameJobs
<1>4. jobs[j] = "RUNNING" /\ j \in todo
  BY <1>0, <1>1, <1>2 DEF DataJobs, Batch
<1>5. CASE /\ Accepts(j[2], at) /\ Works /\ Step(IF at = "batch 1" THEN "batch 2" ELSE "save")
           /\ rows' = [rows EXCEPT ![j[2]][at] = IF @ = 2 THEN 2 ELSE @ + 1]
  <2>1. pc' = pc /\ todo' = todo /\ at' = (IF at = "batch 1" THEN "batch 2" ELSE "save") /\ faults' = faults
    BY <1>5 DEF Step, Works
  <2>2. /\ rows' \in [Task -> [Batch -> 0..2]] /\ \A k \in Task : k # j[2] => rows'[k] = rows[k]
        /\ rows'[j[2]][at] = (IF rows[j[2]][at] = 2 THEN 2 ELSE rows[j[2]][at] + 1)
        /\ \A b \in Batch : b # at => rows'[j[2]][b] = rows[j[2]][b]
    <3>1. rows \in [Task -> [Batch -> 0..2]]
      BY <1>0 DEF TypeOK
    <3>2. rows[j[2]] \in [Batch -> 0..2]
      BY <1>1, <3>1
    <3>3. (IF rows[j[2]][at] = 2 THEN 2 ELSE rows[j[2]][at] + 1) \in 0..2
      BY <1>2, <3>2
    <3> QED
      BY <1>1, <1>2, <1>5, <3>1, <3>2, <3>3
  <2>3. /\ rows[j[2]]["batch 1"] \in 0..2 /\ rows[j[2]]["batch 2"] \in 0..2 /\ TableOf[j[2]] \in exists
        /\ "batch 1" \in Batch /\ "batch 2" \in Batch
    <3>1. "batch 1" \in Batch /\ "batch 2" \in Batch
      BY DEF Batch
    <3>2. rows[j[2]] \in [Batch -> 0..2]
      BY <1>0, <1>1 DEF TypeOK
    <3>3. TableOf[j[2]] \in exists
      BY <1>5 DEF Accepts, Sees
    <3> QED
      BY <3>1, <3>2, <3>3
  <2>4. ASSUME at = "batch 1"
        PROVE  /\ rows'[j[2]]["batch 1"] # 0 /\ (rows[j[2]]["batch 1"] = 0 => rows'[j[2]]["batch 1"] = 1)
               /\ rows'[j[2]]["batch 2"] = rows[j[2]]["batch 2"]
    <3>1. rows'[j[2]]["batch 1"] = (IF rows[j[2]]["batch 1"] = 2 THEN 2 ELSE rows[j[2]]["batch 1"] + 1)
      BY <2>2, <2>4
    <3>2. rows'[j[2]]["batch 2"] = rows[j[2]]["batch 2"]
      BY <2>2, <2>3, <2>4
    <3>3. \A x \in 0..2 : \A y : y = (IF x = 2 THEN 2 ELSE x + 1) => y # 0 /\ (x = 0 => y = 1)
      OBVIOUS
    <3> QED
      BY <2>3, <3>1, <3>2, <3>3
  <2>5. ASSUME at = "batch 2"
        PROVE  /\ rows[j[2]]["batch 2"] = 0 => rows'[j[2]]["batch 2"] = 1
               /\ rows'[j[2]]["batch 1"] = rows[j[2]]["batch 1"]
    <3>1. rows'[j[2]]["batch 2"] = (IF rows[j[2]]["batch 2"] = 2 THEN 2 ELSE rows[j[2]]["batch 2"] + 1)
      BY <2>2, <2>5
    <3>2. rows'[j[2]]["batch 1"] = rows[j[2]]["batch 1"]
      BY <2>2, <2>3, <2>5
    <3>3. \A x \in 0..2 : \A y : y = (IF x = 2 THEN 2 ELSE x + 1) => y # 0 /\ (x = 0 => y = 1)
      OBVIOUS
    <3> QED
      BY <2>3, <3>1, <3>2, <3>3
  <2>a. TypeOK'
    BY <1>0, <1>2, <2>1, <2>2 DEF TypeOK, Steps, Batch
  <2>b. Control'
    BY <1>0, <1>1, <1>2, <1>3, <1>4, <2>1 DEF Control, StepsOf
  <2>c. Target'
    <3>1. rows'[j[2]]["batch 1"] # 0
      <4>1. CASE at = "batch 1"
        BY <2>4, <4>1
      <4>2. CASE at = "batch 2"
        BY <1>0, <1>1, <2>5, <4>2 DEF Target
      <4> QED
        BY <1>2, <4>1, <4>2 DEF Batch
    <3>2. \A i \in todo' : First("data", i)' => i[2] = j[2]
      BY <1>1, <2>1 DEF First
    <3> QED
      BY <1>0, <1>1, <1>2, <2>2, <2>3, <3>1, <3>2 DEF Target
  <2>d. Prepared'
    BY <1>0, <1>1, <1>2, <1>3, <1>4, <2>1 DEF Prepared, First, Remade, Fresh, RowsOf
  <2>e. RunJobs'
    BY <1>0, <1>1, <1>2, <1>3, <1>4, <2>1, JobSets DEF RunJobs, Settled, Ended, AfterDDL
  <2>f. DataJobs'
    BY <1>0, <1>1, <1>2, <1>3, <1>4, <2>1, JobSets DEF DataJobs, Done, First, AfterData
  <2>g. KeyJobs'
    BY <1>0, <1>1, <1>2, <1>3, <1>4, <2>1, Tables DEF KeyJobs, SeenTo, First
  <2>h. RowsOfJobs'
    <3>1. SUFFICES ASSUME NEW k \in Task, Exact(TableOf[k])'
                   PROVE  /\ jobs'[<<"data", k>>] # "none"
                          /\ jobs'[<<"data", k>>] = "PENDING" => rows'[k] = Empty
                          /\ jobs'[<<"data", k>>] = "COMPLETED" => rows'[k] = Once
                          /\ <<"data", k>> \in todo' /\ First("data", <<"data", k>>)' =>
                               /\ at' = "batch 1" => rows'[k] = Empty \/ ~Accepts(k, "batch 1")'
                               /\ at' = "batch 2" => rows'[k]["batch 1"] = 1 /\ rows'[k]["batch 2"] = 0
                               /\ at' = "save" => rows'[k] = Once
      BY DEF RowsOfJobs, Once, Empty
    <3>2. Exact(TableOf[k])
      BY <1>1, <1>2, <3>1, Tables DEF Exact, Remade, TaskByTask, RowsOf
    <3>3. CASE k = j[2]
      <4>1. jobs'[<<"data", k>>] = "RUNNING" /\ First("data", <<"data", k>>) /\ <<"data", k>> \in todo
        BY <1>1, <1>2, <1>4, <3>3
      <4>2. CASE at = "batch 1"
        <5>1. rows[k] = Empty
          BY <1>0, <1>1, <1>5, <3>2, <3>3, <4>1, <4>2 DEF RowsOfJobs
        <5>2. rows[j[2]]["batch 1"] = 0 /\ rows[j[2]]["batch 2"] = 0
          BY <3>3, <5>1, EmptyRows
        <5>3. rows'[k]["batch 1"] = 1 /\ rows'[k]["batch 2"] = 0
          BY <2>4, <3>3, <4>2, <5>2
        <5> QED
          BY <2>1, <4>1, <4>2, <5>3
      <4>3. CASE at = "batch 2"
        <5>1. rows[k]["batch 1"] = 1 /\ rows[k]["batch 2"] = 0
          BY <1>0, <1>1, <3>2, <3>3, <4>1, <4>3 DEF RowsOfJobs
        <5>2. rows'[j[2]]["batch 1"] = 1 /\ rows'[j[2]]["batch 2"] = 1
          BY <2>5, <3>3, <4>3, <5>1
        <5>3. rows'[k] = Once
          BY <2>2, <3>1, <3>3, <5>2 DEF Once, Batch
        <5> QED
          BY <2>1, <4>1, <4>3, <5>3
      <4> QED
        BY <1>2, <4>2, <4>3 DEF Batch
    <3>4. CASE k # j[2]
      <4>1. rows'[k] = rows[k] /\ jobs'[<<"data", k>>] = jobs[<<"data", k>>]
        BY <1>1, <1>2, <2>1, <2>2, <3>4, Tables
      <4>2. ~(<<"data", k>> \in todo' /\ First("data", <<"data", k>>)' /\ at' # "claim")
        BY <1>1, <1>2, <2>1, <2>2, <3>4 DEF First
      <4> QED
        BY <1>0, <3>2, <4>1, <4>2 DEF RowsOfJobs
    <3> QED
      BY <3>3, <3>4
  <2>i. NoOldRows'
    BY <1>0, <1>1, <1>2, <1>3, <1>4, <2>1, Tables DEF NoOldRows, Exact, Remade, TaskByTask, RowsOf
  <2>j. Logging'
    BY <1>0, <1>1, <1>2, <1>3, <1>4, <2>1 DEF Logging, AfterData, Planned
  <2>k. SuccessMeansSettled'
    BY <1>0, <1>1, <1>2, <1>3, <1>4, <2>1 DEF SuccessMeansSettled
  <2>l. LoggedAfterRun'
    BY <1>0, <1>1, <1>2, <1>3, <1>4, <2>1 DEF LoggedAfterRun, Planned
  <2> QED
    BY <2>a, <2>b, <2>c, <2>d, <2>e, <2>f, <2>g, <2>h, <2>i, <2>j, <2>k, <2>l DEF IInv
<1>6. CASE Refused(~Accepts(j[2], at)) /\ Step("fail") /\ UNCHANGED rows
  <2>1. pc' = pc /\ todo' = todo /\ at' = "fail" /\ rows' = rows
    BY <1>6 DEF Step
  <2>2. faults' \in 0..MaxFaults
    BY <1>0, <1>6, FaultsCounted DEF Refused
  <2>a. TypeOK'
    BY <1>0, <1>1, <1>2, <1>3, <1>4, <2>1, <2>2 DEF TypeOK, Steps
  <2>b. Control'
    BY <1>0, <1>1, <1>2, <1>3, <1>4, <2>1 DEF Control, StepsOf
  <2>c. Target'
    BY <1>0, <1>1, <1>2, <1>3, <1>4, <2>1 DEF Target, First
  <2>d. Prepared'
    BY <1>0, <1>1, <1>2, <1>3, <1>4, <2>1 DEF Prepared, First, Remade, Fresh, RowsOf
  <2>e. RunJobs'
    BY <1>0, <1>1, <1>2, <1>3, <1>4, <2>1, JobSets DEF RunJobs, Settled, Ended, AfterDDL
  <2>f. DataJobs'
    BY <1>0, <1>1, <1>2, <1>3, <1>4, <2>1, JobSets DEF DataJobs, Done, First, AfterData
  <2>g. KeyJobs'
    BY <1>0, <1>1, <1>2, <1>3, <1>4, <2>1, Tables DEF KeyJobs, SeenTo, First
  <2>h. RowsOfJobs'
    BY <1>0, <1>1, <1>2, <1>3, <1>4, <2>1, Tables DEF RowsOfJobs, Exact, Remade, TaskByTask, RowsOf, Accepts, Sees, First
  <2>i. NoOldRows'
    BY <1>0, <1>1, <1>2, <1>3, <1>4, <2>1, Tables DEF NoOldRows, Exact, Remade, TaskByTask, RowsOf
  <2>j. Logging'
    BY <1>0, <1>1, <1>2, <1>3, <1>4, <2>1 DEF Logging, AfterData, Planned
  <2>k. SuccessMeansSettled'
    BY <1>0, <1>1, <1>2, <1>3, <1>4, <2>1 DEF SuccessMeansSettled
  <2>l. LoggedAfterRun'
    BY <1>0, <1>1, <1>2, <1>3, <1>4, <2>1 DEF LoggedAfterRun, Planned
  <2> QED
    BY <2>a, <2>b, <2>c, <2>d, <2>e, <2>f, <2>g, <2>h, <2>i, <2>j, <2>k, <2>l DEF IInv
<1> QED
  BY <1>5, <1>6 DEF CopyBatch

(* The end of a task: COMPLETED, or FAILED, or the state is lost. *)
LEMMA TaskEnds ==
  ASSUME IInv, NEW j \in todo, First("data", j), EndTask(j[2])
  PROVE  IInv'
<1>0. TypeOK /\ Control /\ Target /\ Prepared /\ RunJobs /\ DataJobs /\ KeyJobs /\ RowsOfJobs /\ NoOldRows /\ Logging
     /\ SuccessMeansSettled /\ LoggedAfterRun
  BY DEF IInv
<1>1. /\ pc = "data" /\ call # "none" /\ at \in StepsOf("data")
      /\ todo \subseteq JobsOf("data") /\ j \in JobsOf("data") /\ j \in Job
      /\ j = <<"data", j[2]>> /\ j[1] = "data" /\ j[2] \in Task /\ TableOf[j[2]] \in Table
      /\ \A i \in todo : First("data", i) => i = j
      /\ \A i \in JobsOf("ddl") \cup JobsOf("constraints") \cup JobsOf("validate") : i # j
      /\ \A x : <<"constraints", x>> # j /\ <<"ddl", x>> # j /\ (<<"data", x>> = j <=> x = j[2])
  BY InData
<1>2. /\ UNCHANGED <<conf, exists, whole, logged, keys, refs, rows, old, call, cancelled, result, warned, unconverted>>
      /\ at \in {"save", "fail"} /\ pc' = pc /\ at' = "claim" /\ todo' = todo \ {j}
  BY <1>1 DEF EndTask, NextJob, target
<1>3. JobsOf("ddl")' = JobsOf("ddl") /\ JobsOf("data")' = JobsOf("data") /\ JobsOf("constraints")' = JobsOf("constraints")
      /\ JobsOf("validate")' = JobsOf("validate") /\ JobsOf("log")' = JobsOf("log") /\ Created' = Created
  BY <1>2, SameJobs
<1>4. jobs[j] = "RUNNING" /\ j \in todo
  BY <1>0, <1>1, <1>2 DEF DataJobs
<1>5. PICK state \in JobState :
        /\ jobs' \in [Job -> JobState] /\ unsaved' \subseteq Job /\ faults' \in 0..MaxFaults
        /\ \A i \in Job : i # j => jobs'[i] = jobs[i] /\ (i \in unsaved' <=> i \in unsaved)
        /\ jobs'[j] = state
        /\ \/ at = "save" /\ state = "COMPLETED" /\ bad' = bad
           \/ state \in {"FAILED", "RUNNING"} /\ bad' = TRUE
  <2>1. CASE at = "save" /\ Works /\ Save(j, "COMPLETED") /\ UNCHANGED bad
    <3>1. "COMPLETED" \in JobState
      BY DEF JobState
    <3>2. faults' \in 0..MaxFaults
      BY <1>0, <2>1, FaultsCounted
    <3> QED
      BY <1>0, <1>1, <2>1, <3>1, <3>2, Saved
  <2>2. CASE at = "save" /\ Fails("store") /\ UNCHANGED <<jobs, unsaved>> /\ bad' = TRUE
    <3>1. faults' \in 0..MaxFaults
      BY <1>0, <2>2, FaultsCounted
    <3>2. jobs'[j] = "RUNNING" /\ jobs' = jobs /\ unsaved' = unsaved
      BY <1>4, <2>2
    <3>3. "RUNNING" \in JobState
      BY DEF JobState
    <3> QED
      BY <1>0, <1>1, <2>2, <3>1, <3>2, <3>3 DEF TypeOK
  <2>3. CASE MarkFailed(j) /\ bad' = TRUE
    <3>1. "RUNNING" \in JobState /\ "FAILED" \in JobState
      BY DEF JobState
    <3> QED
      BY <1>0, <1>1, <1>4, <2>3, <3>1, MarkedFailed
  <2> QED
    BY <1>1, <2>1, <2>2, <2>3 DEF EndTask
<1>a. TypeOK'
  BY <1>0, <1>2, <1>5 DEF TypeOK, Steps
<1>b. Control'
  BY <1>0, <1>1, <1>2, <1>3, <1>4, <1>5 DEF Control, StepsOf
<1>c. Target'
  BY <1>0, <1>1, <1>2, <1>3, <1>4, <1>5 DEF Target, First
<1>d. Prepared'
  BY <1>0, <1>1, <1>2, <1>3, <1>4, <1>5 DEF Prepared, First, Remade, Fresh, RowsOf
<1>e. RunJobs'
  <2>1. \A i \in Created : i # j => jobs'[i] = jobs[i] /\ (i \in unsaved' <=> i \in unsaved)
    BY <1>5, JobSets
  <2>2. \A i \in Created : jobs'[i] # "none" \/ jobs[i] = "none"
    BY <1>5, <2>1
  <2>3. \A i \in Created : i # j => (Settled(i)' <=> Settled(i)) /\ (Ended(i)' <=> Ended(i))
    BY <2>1 DEF Settled, Ended
  <2>4. \A i \in JobsOf("ddl") \cup JobsOf("constraints") \cup JobsOf("validate") : i \in Created /\ i # j /\ jobs'[i] = jobs[i]
    BY <1>1, <2>1, JobSets
  <2>5. pc = "data" /\ pc' = "data" /\ call' = call /\ conf' = conf /\ exists' = exists
    BY <1>1, <1>2
  <2> QED
    BY <1>0, <1>3, <2>2, <2>3, <2>4, <2>5 DEF RunJobs, AfterDDL
<1>f. DataJobs'
  <2>1. \A i \in todo' : i \in Job /\ i # j /\ jobs'[i] \in {"PENDING", "RETRYING"}
    BY <1>0, <1>1, <1>2, <1>5, JobSets DEF DataJobs
  <2>2. \A i \in Job : jobs'[i] # "SKIPPED"
    BY <1>0, <1>5 DEF DataJobs
  <2>3. bad' = TRUE \/ (bad' = bad /\ jobs'[j] = "COMPLETED")
    BY <1>5
  <2>4. \A i \in JobsOf("data") : i \in todo' \/ Done(i)' \/ bad' \/ cancelled'
    <3>1. \A i \in JobsOf("data") : i \in Job /\ (i \in todo \/ jobs[i] \in {"none", "COMPLETED"} \/ bad \/ cancelled)
      BY <1>0, <1>1, JobSets DEF DataJobs, Done
    <3>2. ASSUME NEW i \in JobsOf("data"), i # j PROVE i \in todo' \/ jobs'[i] \in {"none", "COMPLETED"} \/ bad' \/ cancelled'
      BY <1>2, <1>5, <2>3, <3>1, <3>2
    <3> QED
      BY <2>3, <3>2 DEF Done
  <2> QED
    BY <1>1, <1>2, <1>3, <2>1, <2>2, <2>4 DEF DataJobs, AfterData
<1>g. KeyJobs'
  BY <1>0, <1>1, <1>2, <1>3, <1>4, <1>5, Tables DEF KeyJobs, SeenTo, First
<1>h. RowsOfJobs'
  <2>1. SUFFICES ASSUME NEW k \in Task, Exact(TableOf[k])'
                 PROVE  /\ jobs'[<<"data", k>>] # "none"
                        /\ jobs'[<<"data", k>>] = "PENDING" => rows'[k] = Empty
                        /\ jobs'[<<"data", k>>] = "COMPLETED" => rows'[k] = Once
                        /\ <<"data", k>> \in todo' /\ First("data", <<"data", k>>)' =>
                             /\ at' = "batch 1" => rows'[k] = Empty \/ ~Accepts(k, "batch 1")'
                             /\ at' = "batch 2" => rows'[k]["batch 1"] = 1 /\ rows'[k]["batch 2"] = 0
                             /\ at' = "save" => rows'[k] = Once
    BY DEF RowsOfJobs, Once, Empty
  <2>2. Exact(TableOf[k])
    BY <1>1, <1>2, <1>5, <2>1, Tables DEF Exact, Remade, TaskByTask, RowsOf
  <2>3. CASE k = j[2]
    <3>1. First("data", <<"data", k>>) /\ <<"data", k>> \in todo /\ <<"data", k>> = j
      BY <1>1, <2>3
    <3>2. at = "save" => rows[k] = Once
      BY <1>0, <1>1, <2>2, <3>1 DEF RowsOfJobs
    <3> QED
      BY <1>2, <1>5, <3>1, <3>2
  <2>4. CASE k # j[2]
    <3>1. rows'[k] = rows[k] /\ jobs'[<<"data", k>>] = jobs[<<"data", k>>]
      BY <1>1, <1>2, <1>5, <2>4, Tables
    <3>2. ~(<<"data", k>> \in todo' /\ First("data", <<"data", k>>)' /\ at' # "claim")
      BY <1>1, <1>2, <1>5, <2>4 DEF First
    <3> QED
      BY <1>0, <2>2, <3>1, <3>2 DEF RowsOfJobs
  <2> QED
    BY <2>3, <2>4
<1>i. NoOldRows'
  <2>1. \A t \in Table : jobs'[<<"ddl", t>>] = jobs[<<"ddl", t>>]
    BY <1>1, <1>5, Tables
  <2> QED
    BY <1>0, <1>2, <2>1 DEF NoOldRows, Exact, Remade, TaskByTask, RowsOf
<1>j. Logging'
  BY <1>0, <1>1, <1>2, <1>3, <1>4, <1>5 DEF Logging, AfterData, Planned
<1>k. SuccessMeansSettled'
  BY <1>0, <1>1, <1>2, <1>3, <1>4, <1>5 DEF SuccessMeansSettled
<1>l. LoggedAfterRun'
  BY <1>0, <1>1, <1>2, <1>3, <1>4, <1>5 DEF LoggedAfterRun, Planned
<1> QED
  BY <1>a, <1>b, <1>c, <1>d, <1>e, <1>f, <1>g, <1>h, <1>i, <1>j, <1>k, <1>l DEF IInv

(* Workers leave the tasks that are left. *)
LEMMA TasksAreLeft ==
  ASSUME IInv, LeaveTasks
  PROVE  IInv'
<1>0. TypeOK /\ Control /\ Target /\ Prepared /\ RunJobs /\ DataJobs /\ KeyJobs /\ RowsOfJobs /\ NoOldRows /\ Logging
     /\ SuccessMeansSettled /\ LoggedAfterRun
  BY DEF IInv
<1>1. /\ UNCHANGED <<conf, exists, whole, logged, keys, refs, rows, old, jobs, call, pc, at, cancelled, bad, faults, result>>
      /\ UNCHANGED <<unsaved, warned, unconverted>>
      /\ pc = "data" /\ at = "claim" /\ cancelled /\ todo' = {}
  BY DEF LeaveTasks, target, history
<1>2. JobsOf("ddl")' = JobsOf("ddl") /\ JobsOf("data")' = JobsOf("data") /\ JobsOf("constraints")' = JobsOf("constraints")
      /\ JobsOf("validate")' = JobsOf("validate") /\ JobsOf("log")' = JobsOf("log") /\ Created' = Created
  BY <1>1, SameJobs
<1>a. TypeOK'
  BY <1>0, <1>1, <1>2 DEF TypeOK
<1>b. Control'
  BY <1>0, <1>1, <1>2 DEF Control, StepsOf
<1>c. Target'
  BY <1>0, <1>1, <1>2 DEF Target, First
<1>d. Prepared'
  BY <1>0, <1>1, <1>2 DEF Prepared, First, Remade, Fresh, RowsOf
<1>e. RunJobs'
  BY <1>0, <1>1, <1>2, JobSets DEF RunJobs, Settled, Ended, AfterDDL
<1>f. DataJobs'
  BY <1>0, <1>1, <1>2, JobSets DEF DataJobs, Done, First, AfterData
<1>g. KeyJobs'
  BY <1>0, <1>1, <1>2, Tables DEF KeyJobs, SeenTo, First
<1>h. RowsOfJobs'
  BY <1>0, <1>1, <1>2, Tables DEF RowsOfJobs, Exact, Remade, TaskByTask, RowsOf, Accepts, Sees, First
<1>i. NoOldRows'
  BY <1>0, <1>1, <1>2, Tables DEF NoOldRows, Exact, Remade, TaskByTask, RowsOf
<1>j. Logging'
  BY <1>0, <1>1, <1>2 DEF Logging, AfterData, Planned
<1>k. SuccessMeansSettled'
  BY <1>0, <1>1, <1>2 DEF SuccessMeansSettled
<1>l. LoggedAfterRun'
  BY <1>0, <1>1, <1>2 DEF LoggedAfterRun, Planned
<1> QED
  BY <1>a, <1>b, <1>c, <1>d, <1>e, <1>f, <1>g, <1>h, <1>i, <1>j, <1>k, <1>l DEF IInv

(* Any step of a task. *)
LEMMA DataIsExecuted ==
  ASSUME IInv, ExecuteData
  PROVE  IInv'
BY TaskIsClaimed, BatchIsCopied, TaskEnds DEF ExecuteData
-----------------------------------------------------------------------------
(* A table is made LOGGED, or the conversion stops. *)
LEMMA TableIsConverted ==
  ASSUME IInv, ConvertToLogged
  PROVE  IInv'
<1>0. TypeOK /\ Control /\ Target /\ Prepared /\ RunJobs /\ DataJobs /\ KeyJobs /\ RowsOfJobs /\ NoOldRows /\ Logging
     /\ SuccessMeansSettled /\ LoggedAfterRun
  BY DEF IInv
<1>1. UNCHANGED <<conf, exists, whole, keys, refs, rows, old, jobs, call, cancelled, bad, result, unsaved, warned>>
  BY DEF ConvertToLogged
<1>2. JobsOf("ddl")' = JobsOf("ddl") /\ JobsOf("data")' = JobsOf("data") /\ JobsOf("constraints")' = JobsOf("constraints")
      /\ JobsOf("validate")' = JobsOf("validate") /\ JobsOf("log")' = JobsOf("log") /\ Created' = Created
  BY <1>1, SameJobs
<1>3. PICK j \in todo :
        /\ First("log", j)
        /\ \/ TakesLogged(j[2]) /\ Works /\ logged' = logged \cup {j[2]} /\ NextJob(j) /\ UNCHANGED unconverted
           \/ Refused(~TakesLogged(j[2])) /\ unconverted' = TRUE /\ todo' = {} /\ UNCHANGED <<pc, at, logged>>
  BY DEF ConvertToLogged
<1>4. pc = "log" /\ call = "run" /\ ~bad /\ at = "claim" /\ conf.unlogged /\ todo \subseteq JobsOf("log") /\ j \in JobsOf("log")
  BY <1>0, <1>3 DEF First, Control, StepsOf
<1>5. j = <<"log", j[2]>> /\ j[2] \in Table /\ Planned(j[2]) /\ \A t : <<"log", t>> = j <=> t = j[2]
  BY <1>4, JobShape
<1>6. j[2] \in exists
  <2>1. <<"ddl", j[2]>> \in JobsOf("ddl") /\ <<"ddl", j[2]>>[2] = j[2]
    BY <1>5, JobIn
  <2> QED
    BY <1>0, <1>4, <2>1 DEF RunJobs, AfterDDL
<1>7. CASE TakesLogged(j[2]) /\ Works /\ logged' = logged \cup {j[2]} /\ NextJob(j) /\ UNCHANGED unconverted
  <2>1. pc' = pc /\ at' = "claim" /\ todo' = todo \ {j} /\ logged' = logged \cup {j[2]} /\ unconverted' = unconverted /\ faults' = faults
    BY <1>7 DEF NextJob, Works
  <2>a. TypeOK'
    BY <1>0, <1>1, <1>2, <1>4, <1>5, <1>6, <2>1 DEF TypeOK, Steps
  <2>b. Control'
    BY <1>0, <1>1, <1>2, <1>4, <1>5, <1>6, <2>1 DEF Control, StepsOf
  <2>c. Target'
    BY <1>0, <1>1, <1>2, <1>4, <1>5, <1>6, <2>1 DEF Target, First
  <2>d. Prepared'
    BY <1>0, <1>1, <1>2, <1>4, <1>5, <1>6, <2>1 DEF Prepared, First, Remade, Fresh, RowsOf
  <2>e. RunJobs'
    BY <1>0, <1>1, <1>2, <1>4, <1>5, <1>6, <2>1, JobSets DEF RunJobs, Settled, Ended, AfterDDL
  <2>f. DataJobs'
    BY <1>0, <1>1, <1>2, <1>4, <1>5, <1>6, <2>1, JobSets DEF DataJobs, Done, First, AfterData
  <2>g. KeyJobs'
    BY <1>0, <1>1, <1>2, <1>4, <1>5, <1>6, <2>1, Tables DEF KeyJobs, SeenTo, First
  <2>h. RowsOfJobs'
    BY <1>0, <1>1, <1>2, <1>4, <1>5, <1>6, <2>1, Tables DEF RowsOfJobs, Exact, Remade, TaskByTask, RowsOf, Accepts, Sees, First
  <2>i. NoOldRows'
    BY <1>0, <1>1, <1>2, <1>4, <1>5, <1>6, <2>1, Tables DEF NoOldRows, Exact, Remade, TaskByTask, RowsOf
  <2>j. Logging'
    BY <1>0, <1>1, <1>2, <1>4, <1>5, <1>6, <2>1 DEF Logging, AfterData, Planned
  <2>k. SuccessMeansSettled'
    BY <1>0, <1>1, <1>2, <1>4, <1>5, <1>6, <2>1 DEF SuccessMeansSettled
  <2>l. LoggedAfterRun'
    BY <1>0, <1>1, <1>2, <1>4, <1>5, <1>6, <2>1 DEF LoggedAfterRun, Planned
  <2> QED
    BY <2>a, <2>b, <2>c, <2>d, <2>e, <2>f, <2>g, <2>h, <2>i, <2>j, <2>k, <2>l DEF IInv
<1>8. CASE Refused(~TakesLogged(j[2])) /\ unconverted' = TRUE /\ todo' = {} /\ UNCHANGED <<pc, at, logged>>
  <2>1. faults' \in 0..MaxFaults
    BY <1>0, <1>8, FaultsCounted DEF Refused
  <2>2. unconverted' = TRUE /\ todo' = {} /\ UNCHANGED <<pc, at, logged>>
    BY <1>8
  <2>a. TypeOK'
    BY <1>0, <1>1, <1>2, <1>4, <2>1, <2>2 DEF TypeOK, Steps
  <2>b. Control'
    BY <1>0, <1>1, <1>2, <1>4, <2>1, <2>2 DEF Control, StepsOf
  <2>c. Target'
    BY <1>0, <1>1, <1>2, <1>4, <2>1, <2>2 DEF Target, First
  <2>d. Prepared'
    BY <1>0, <1>1, <1>2, <1>4, <2>1, <2>2 DEF Prepared, First, Remade, Fresh, RowsOf
  <2>e. RunJobs'
    BY <1>0, <1>1, <1>2, <1>4, <2>1, <2>2, JobSets DEF RunJobs, Settled, Ended, AfterDDL
  <2>f. DataJobs'
    BY <1>0, <1>1, <1>2, <1>4, <2>1, <2>2, JobSets DEF DataJobs, Done, First, AfterData
  <2>g. KeyJobs'
    BY <1>0, <1>1, <1>2, <1>4, <2>1, <2>2, Tables DEF KeyJobs, SeenTo, First
  <2>h. RowsOfJobs'
    BY <1>0, <1>1, <1>2, <1>4, <2>1, <2>2, Tables DEF RowsOfJobs, Exact, Remade, TaskByTask, RowsOf, Accepts, Sees, First
  <2>i. NoOldRows'
    BY <1>0, <1>1, <1>2, <1>4, <2>1, <2>2, Tables DEF NoOldRows, Exact, Remade, TaskByTask, RowsOf
  <2>j. Logging'
    BY <1>0, <1>1, <1>2, <1>4, <2>1, <2>2 DEF Logging, AfterData, Planned
  <2>k. SuccessMeansSettled'
    BY <1>0, <1>1, <1>2, <1>4, <2>1, <2>2 DEF SuccessMeansSettled
  <2>l. LoggedAfterRun'
    BY <1>0, <1>1, <1>2, <1>4, <2>1, <2>2 DEF LoggedAfterRun, Planned
  <2> QED
    BY <2>a, <2>b, <2>c, <2>d, <2>e, <2>f, <2>g, <2>h, <2>i, <2>j, <2>k, <2>l DEF IInv
<1> QED
  BY <1>3, <1>7, <1>8

(* The next job of pass one of the constraints. *)
LEMMA InKeys ==
  ASSUME IInv, NEW j \in todo, First("keys", j)
  PROVE  /\ pc = "keys" /\ call # "none" /\ ~bad /\ at \in StepsOf("keys")
         /\ todo \subseteq JobsOf("constraints") /\ j \in JobsOf("constraints") /\ j \in Job
         /\ j = <<"constraints", j[2]>> /\ j[1] = "constraints" /\ j[2] \in Table
         /\ \A i \in todo : First("keys", i) => i = j
         /\ \A i \in JobsOf("ddl") \cup JobsOf("data") \cup JobsOf("validate") : i # j
         /\ \A x : <<"ddl", x>> # j /\ <<"data", x>> # j /\ (<<"constraints", x>> = j <=> x = j[2])
<1>1. TypeOK /\ Control /\ pc = "keys"
  BY DEF IInv, First
<1>2. todo \subseteq JobsOf("constraints") /\ j \in JobsOf("constraints") /\ call # "none" /\ ~bad /\ at \in StepsOf("keys")
  BY <1>1 DEF Control
<1>3. \A i \in todo : First("keys", i) => i = j
  BY <1>1, OneIsFirst DEF TypeOK
<1>4. j \in Job /\ j = <<"constraints", j[2]>> /\ j[1] = "constraints" /\ j[2] \in Table
  BY <1>2, JobSets, JobShape
<1>5. \A i \in JobsOf("ddl") \cup JobsOf("data") \cup JobsOf("validate") : i # j
  BY <1>4, JobShape
<1>6. \A x : <<"ddl", x>> # j /\ <<"data", x>> # j /\ (<<"constraints", x>> = j <=> x = j[2])
  BY <1>4
<1> QED
  BY <1>1, <1>2, <1>3, <1>4, <1>5, <1>6

(* The next job of pass two. *)
LEMMA InReferences ==
  ASSUME IInv, NEW j \in todo, First("references", j)
  PROVE  /\ pc = "references" /\ call # "none" /\ ~bad /\ at \in StepsOf("references")
         /\ todo \subseteq JobsOf("constraints") /\ j \in JobsOf("constraints") /\ j \in Job
         /\ j = <<"constraints", j[2]>> /\ j[1] = "constraints" /\ j[2] \in Table
         /\ \A i \in todo : First("references", i) => i = j
         /\ \A i \in JobsOf("ddl") \cup JobsOf("data") \cup JobsOf("validate") : i # j
         /\ \A x : <<"ddl", x>> # j /\ <<"data", x>> # j /\ (<<"constraints", x>> = j <=> x = j[2])
<1>1. TypeOK /\ Control /\ pc = "references"
  BY DEF IInv, First
<1>2. todo \subseteq JobsOf("constraints") /\ j \in JobsOf("constraints") /\ call # "none" /\ ~bad /\ at \in StepsOf("references")
  BY <1>1 DEF Control
<1>3. \A i \in todo : First("references", i) => i = j
  BY <1>1, OneIsFirst DEF TypeOK
<1>4. j \in Job /\ j = <<"constraints", j[2]>> /\ j[1] = "constraints" /\ j[2] \in Table
  BY <1>2, JobSets, JobShape
<1>5. \A i \in JobsOf("ddl") \cup JobsOf("data") \cup JobsOf("validate") : i # j
  BY <1>4, JobShape
<1>6. \A x : <<"ddl", x>> # j /\ <<"data", x>> # j /\ (<<"constraints", x>> = j <=> x = j[2])
  BY <1>4
<1> QED
  BY <1>1, <1>2, <1>3, <1>4, <1>5, <1>6

(* The next job of the validation. *)
LEMMA InValidation ==
  ASSUME IInv, NEW j \in todo, First("validate", j)
  PROVE  /\ pc = "validate" /\ call # "none" /\ ~bad /\ at \in StepsOf("validate")
         /\ todo \subseteq JobsOf("validate") /\ j \in JobsOf("validate") /\ j \in Job
         /\ j = <<"validate", j[2]>> /\ j[1] = "validate" /\ j[2] \in Table
         /\ \A i \in todo : First("validate", i) => i = j
         /\ \A i \in JobsOf("ddl") \cup JobsOf("data") \cup JobsOf("constraints") : i # j
         /\ \A x : <<"ddl", x>> # j /\ <<"data", x>> # j /\ <<"constraints", x>> # j /\ (<<"validate", x>> = j <=> x = j[2])
<1>1. TypeOK /\ Control /\ pc = "validate"
  BY DEF IInv, First
<1>2. todo \subseteq JobsOf("validate") /\ j \in JobsOf("validate") /\ call # "none" /\ ~bad /\ at \in StepsOf("validate")
  BY <1>1 DEF Control
<1>3. \A i \in todo : First("validate", i) => i = j
  BY <1>1, OneIsFirst DEF TypeOK
<1>4. j \in Job /\ j = <<"validate", j[2]>> /\ j[1] = "validate" /\ j[2] \in Table
  BY <1>2, JobSets, JobShape
<1>5. \A i \in JobsOf("ddl") \cup JobsOf("data") \cup JobsOf("constraints") : i # j
  BY <1>4, JobShape
<1>6. \A x : <<"ddl", x>> # j /\ <<"data", x>> # j /\ <<"constraints", x>> # j /\ (<<"validate", x>> = j <=> x = j[2])
  BY <1>4
<1> QED
  BY <1>1, <1>2, <1>3, <1>4, <1>5, <1>6

(* The state of a job of pass one. *)
LEMMA KeyJobMoves ==
  ASSUME IInv, NEW j \in todo, First("keys", j), faults' \in 0..MaxFaults,
         UNCHANGED <<conf, exists, whole, logged, keys, refs, rows, old, call, cancelled, bad, result, warned, unconverted>>, pc' = pc,
         jobs' \in [Job -> JobState], unsaved' \subseteq Job,
         \A i \in Job : i # j => jobs'[i] = jobs[i] /\ (i \in unsaved' <=> i \in unsaved),
         \/ jobs'[j] = "RUNNING" /\ at' = "key" /\ todo' = todo
         \/ Settled(j)' /\ jobs'[j] # "SKIPPED" /\ (jobs'[j] = "none" => jobs[j] = "none") /\ SeenTo(j[2]) /\ at' = "claim" /\ todo' = todo \ {j}
  PROVE  IInv'
<1>0. TypeOK /\ Control /\ Target /\ Prepared /\ RunJobs /\ DataJobs /\ KeyJobs /\ RowsOfJobs /\ NoOldRows /\ Logging
     /\ SuccessMeansSettled /\ LoggedAfterRun
  BY DEF IInv
<1>1. /\ pc = "keys" /\ call # "none" /\ ~bad /\ at \in StepsOf("keys")
      /\ todo \subseteq JobsOf("constraints") /\ j \in JobsOf("constraints") /\ j \in Job
      /\ j = <<"constraints", j[2]>> /\ j[1] = "constraints" /\ j[2] \in Table
      /\ \A i \in todo : First("keys", i) => i = j
      /\ \A i \in JobsOf("ddl") \cup JobsOf("data") \cup JobsOf("validate") : i # j
      /\ \A x : <<"ddl", x>> # j /\ <<"data", x>> # j /\ (<<"constraints", x>> = j <=> x = j[2])
  BY InKeys
<1>2. UNCHANGED <<conf, exists, whole, logged, keys, refs, rows, old, call, cancelled, bad, result, warned, unconverted>> /\ pc' = pc
  OBVIOUS
<1>3. JobsOf("ddl")' = JobsOf("ddl") /\ JobsOf("data")' = JobsOf("data") /\ JobsOf("constraints")' = JobsOf("constraints")
      /\ JobsOf("validate")' = JobsOf("validate") /\ JobsOf("log")' = JobsOf("log") /\ Created' = Created
  BY <1>2, SameJobs
<1>4. /\ jobs' \in [Job -> JobState] /\ unsaved' \subseteq Job /\ faults' \in 0..MaxFaults
      /\ \A i \in Job : i # j => jobs'[i] = jobs[i] /\ (i \in unsaved' <=> i \in unsaved)
      /\ \/ jobs'[j] = "RUNNING" /\ at' = "key" /\ todo' = todo
         \/ Settled(j)' /\ jobs'[j] # "SKIPPED" /\ (jobs'[j] = "none" => jobs[j] = "none") /\ SeenTo(j[2]) /\ at' = "claim" /\ todo' = todo \ {j}
  OBVIOUS
<1>5. \A i \in Created : i # j => jobs'[i] = jobs[i] /\ (i \in unsaved' <=> i \in unsaved)
  BY <1>4, JobSets
<1>6. /\ \A k \in Task : jobs'[<<"data", k>>] = jobs[<<"data", k>>]
      /\ \A t \in Table : jobs'[<<"ddl", t>>] = jobs[<<"ddl", t>>]
  BY <1>1, <1>4, Tables
<1>a. TypeOK'
  BY <1>0, <1>1, <1>2, <1>3, <1>4, <1>6 DEF TypeOK, Steps
<1>b. Control'
  BY <1>0, <1>1, <1>2, <1>3, <1>4, <1>6 DEF Control, StepsOf
<1>c. Target'
  BY <1>0, <1>1, <1>2, <1>3, <1>4, <1>6 DEF Target, First
<1>d. Prepared'
  BY <1>0, <1>1, <1>2, <1>3, <1>4, <1>6 DEF Prepared, First, Remade, Fresh, RowsOf
<1>e. RunJobs'
  <2>1. \A i \in Created : jobs'[i] # "none" \/ jobs[i] = "none"
    BY <1>4, <1>5
  <2>2. \A i \in Created : i # j => (Settled(i)' <=> Settled(i)) /\ (Ended(i)' <=> Ended(i)) /\ jobs'[i] = jobs[i]
    BY <1>5 DEF Settled, Ended
  <2>3. \A i \in JobsOf("ddl") \cup JobsOf("constraints") \cup JobsOf("validate") : i \in Created
    BY JobSets
  <2>4. \/ jobs'[j] = "RUNNING" /\ todo' = todo
        \/ Ended(j)' /\ todo' = todo \ {j}
    BY <1>4 DEF Ended
  <2>5. \/ jobs'[j] = "RUNNING" /\ todo' = todo
        \/ Settled(j)' /\ todo' = todo \ {j}
    BY <1>4
  <2> QED
    BY <1>0, <1>1, <1>2, <1>3, <2>1, <2>2, <2>3, <2>4, <2>5 DEF RunJobs, AfterDDL
<1>f. DataJobs'
  <2>1. \A i \in JobsOf("data") : jobs'[i] = jobs[i]
    BY <1>1, <1>4, JobSets
  <2>2. \A i \in Job : jobs'[i] # "SKIPPED"
    BY <1>0, <1>4 DEF DataJobs
  <2> QED
    BY <1>0, <1>1, <1>2, <1>3, <2>1, <2>2 DEF DataJobs, Done, AfterData
<1>g. KeyJobs'
  BY <1>0, <1>1, <1>2, <1>3, <1>4, <1>6, Tables DEF KeyJobs, SeenTo, First
<1>h. RowsOfJobs'
  BY <1>0, <1>1, <1>2, <1>3, <1>4, <1>6, Tables DEF RowsOfJobs, Exact, Remade, TaskByTask, RowsOf, Accepts, Sees, First
<1>i. NoOldRows'
  BY <1>0, <1>1, <1>2, <1>3, <1>4, <1>6, Tables DEF NoOldRows, Exact, Remade, TaskByTask, RowsOf
<1>j. Logging'
  BY <1>0, <1>1, <1>2, <1>3, <1>4, <1>6 DEF Logging, AfterData, Planned
<1>k. SuccessMeansSettled'
  BY <1>0, <1>1, <1>2, <1>3, <1>4, <1>6 DEF SuccessMeansSettled
<1>l. LoggedAfterRun'
  BY <1>0, <1>1, <1>2, <1>3, <1>4, <1>6 DEF LoggedAfterRun, Planned
<1> QED
  BY <1>a, <1>b, <1>c, <1>d, <1>e, <1>f, <1>g, <1>h, <1>i, <1>j, <1>k, <1>l DEF IInv

(* The state of a job of pass two. *)
LEMMA ReferenceJobMoves ==
  ASSUME IInv, NEW j \in todo, First("references", j), faults' \in 0..MaxFaults,
         UNCHANGED <<conf, exists, whole, logged, keys, refs, rows, old, call, cancelled, bad, result, warned, unconverted>>, pc' = pc,
         jobs' \in [Job -> JobState], unsaved' \subseteq Job,
         \A i \in Job : i # j => jobs'[i] = jobs[i] /\ (i \in unsaved' <=> i \in unsaved),
         Ended(j)' /\ jobs'[j] # "SKIPPED" /\ (jobs'[j] = "none" => jobs[j] = "none") /\ at' = "claim" /\ todo' = todo \ {j}
  PROVE  IInv'
<1>0. TypeOK /\ Control /\ Target /\ Prepared /\ RunJobs /\ DataJobs /\ KeyJobs /\ RowsOfJobs /\ NoOldRows /\ Logging
     /\ SuccessMeansSettled /\ LoggedAfterRun
  BY DEF IInv
<1>1. /\ pc = "references" /\ call # "none" /\ ~bad /\ at \in StepsOf("references")
      /\ todo \subseteq JobsOf("constraints") /\ j \in JobsOf("constraints") /\ j \in Job
      /\ j = <<"constraints", j[2]>> /\ j[1] = "constraints" /\ j[2] \in Table
      /\ \A i \in todo : First("references", i) => i = j
      /\ \A i \in JobsOf("ddl") \cup JobsOf("data") \cup JobsOf("validate") : i # j
      /\ \A x : <<"ddl", x>> # j /\ <<"data", x>> # j /\ (<<"constraints", x>> = j <=> x = j[2])
  BY InReferences
<1>2. UNCHANGED <<conf, exists, whole, logged, keys, refs, rows, old, call, cancelled, bad, result, warned, unconverted>> /\ pc' = pc
  OBVIOUS
<1>3. JobsOf("ddl")' = JobsOf("ddl") /\ JobsOf("data")' = JobsOf("data") /\ JobsOf("constraints")' = JobsOf("constraints")
      /\ JobsOf("validate")' = JobsOf("validate") /\ JobsOf("log")' = JobsOf("log") /\ Created' = Created
  BY <1>2, SameJobs
<1>4. /\ jobs' \in [Job -> JobState] /\ unsaved' \subseteq Job /\ faults' \in 0..MaxFaults
      /\ \A i \in Job : i # j => jobs'[i] = jobs[i] /\ (i \in unsaved' <=> i \in unsaved)
      /\ Ended(j)' /\ jobs'[j] # "SKIPPED" /\ (jobs'[j] = "none" => jobs[j] = "none") /\ at' = "claim" /\ todo' = todo \ {j}
  OBVIOUS
<1>5. \A i \in Created : i # j => jobs'[i] = jobs[i] /\ (i \in unsaved' <=> i \in unsaved)
  BY <1>4, JobSets
<1>6. /\ \A k \in Task : jobs'[<<"data", k>>] = jobs[<<"data", k>>]
      /\ \A t \in Table : jobs'[<<"ddl", t>>] = jobs[<<"ddl", t>>]
  BY <1>1, <1>4, Tables
<1>a. TypeOK'
  BY <1>0, <1>1, <1>2, <1>3, <1>4, <1>6 DEF TypeOK, Steps
<1>b. Control'
  BY <1>0, <1>1, <1>2, <1>3, <1>4, <1>6 DEF Control, StepsOf
<1>c. Target'
  BY <1>0, <1>1, <1>2, <1>3, <1>4, <1>6 DEF Target, First
<1>d. Prepared'
  BY <1>0, <1>1, <1>2, <1>3, <1>4, <1>6 DEF Prepared, First, Remade, Fresh, RowsOf
<1>e. RunJobs'
  <2>1. \A i \in Created : jobs'[i] # "none" \/ jobs[i] = "none"
    BY <1>4, <1>5
  <2>2. \A i \in Created : i # j => (Settled(i)' <=> Settled(i)) /\ (Ended(i)' <=> Ended(i)) /\ jobs'[i] = jobs[i]
    BY <1>5 DEF Settled, Ended
  <2>3. \A i \in JobsOf("ddl") \cup JobsOf("constraints") \cup JobsOf("validate") : i \in Created
    BY JobSets
  <2>4. \/ jobs'[j] = "RUNNING" /\ todo' = todo
        \/ Ended(j)' /\ todo' = todo \ {j}
    BY <1>4 DEF Ended
  <2> QED
    BY <1>0, <1>1, <1>2, <1>3, <2>1, <2>2, <2>3, <2>4 DEF RunJobs, AfterDDL
<1>f. DataJobs'
  <2>1. \A i \in JobsOf("data") : jobs'[i] = jobs[i]
    BY <1>1, <1>4, JobSets
  <2>2. \A i \in Job : jobs'[i] # "SKIPPED"
    BY <1>0, <1>4 DEF DataJobs
  <2> QED
    BY <1>0, <1>1, <1>2, <1>3, <2>1, <2>2 DEF DataJobs, Done, AfterData
<1>g. KeyJobs'
  <2>1. SeenTo(j[2])
    BY <1>0, <1>1 DEF KeyJobs
  <2>2. \A t \in Table : t # j[2] => jobs'[<<"constraints", t>>] = jobs[<<"constraints", t>>]
    BY <1>1, <1>4, Tables
  <2>3. \A i \in todo' : jobs'[i] = "RUNNING"
    BY <1>0, <1>1, <1>4, JobSets DEF KeyJobs
  <2> QED
    BY <1>0, <1>1, <1>2, <2>1, <2>2, <2>3 DEF KeyJobs, SeenTo
<1>h. RowsOfJobs'
  BY <1>0, <1>1, <1>2, <1>3, <1>4, <1>6, Tables DEF RowsOfJobs, Exact, Remade, TaskByTask, RowsOf, Accepts, Sees, First
<1>i. NoOldRows'
  BY <1>0, <1>1, <1>2, <1>3, <1>4, <1>6, Tables DEF NoOldRows, Exact, Remade, TaskByTask, RowsOf
<1>j. Logging'
  BY <1>0, <1>1, <1>2, <1>3, <1>4, <1>6 DEF Logging, AfterData, Planned
<1>k. SuccessMeansSettled'
  BY <1>0, <1>1, <1>2, <1>3, <1>4, <1>6 DEF SuccessMeansSettled
<1>l. LoggedAfterRun'
  BY <1>0, <1>1, <1>2, <1>3, <1>4, <1>6 DEF LoggedAfterRun, Planned
<1> QED
  BY <1>a, <1>b, <1>c, <1>d, <1>e, <1>f, <1>g, <1>h, <1>i, <1>j, <1>k, <1>l DEF IInv

(* The state of a job of the validation. *)
LEMMA ValidationMoves ==
  ASSUME IInv, NEW j \in todo, First("validate", j), faults' \in 0..MaxFaults,
         UNCHANGED <<conf, exists, whole, logged, keys, refs, rows, old, call, cancelled, bad, result, warned, unconverted>>, pc' = pc,
         jobs' \in [Job -> JobState], unsaved' \subseteq Job,
         \A i \in Job : i # j => jobs'[i] = jobs[i] /\ (i \in unsaved' <=> i \in unsaved),
         \/ jobs'[j] = "RUNNING" /\ at' = "count" /\ todo' = todo
         \/ Ended(j)' /\ jobs'[j] # "SKIPPED" /\ (jobs'[j] = "none" => jobs[j] = "none") /\ at' = "claim" /\ todo' = todo \ {j}
  PROVE  IInv'
<1>0. TypeOK /\ Control /\ Target /\ Prepared /\ RunJobs /\ DataJobs /\ KeyJobs /\ RowsOfJobs /\ NoOldRows /\ Logging
     /\ SuccessMeansSettled /\ LoggedAfterRun
  BY DEF IInv
<1>1. /\ pc = "validate" /\ call # "none" /\ ~bad /\ at \in StepsOf("validate")
      /\ todo \subseteq JobsOf("validate") /\ j \in JobsOf("validate") /\ j \in Job
      /\ j = <<"validate", j[2]>> /\ j[1] = "validate" /\ j[2] \in Table
      /\ \A i \in todo : First("validate", i) => i = j
      /\ \A i \in JobsOf("ddl") \cup JobsOf("data") \cup JobsOf("constraints") : i # j
      /\ \A x : <<"ddl", x>> # j /\ <<"data", x>> # j /\ <<"constraints", x>> # j /\ (<<"validate", x>> = j <=> x = j[2])
  BY InValidation
<1>2. UNCHANGED <<conf, exists, whole, logged, keys, refs, rows, old, call, cancelled, bad, result, warned, unconverted>> /\ pc' = pc
  OBVIOUS
<1>3. JobsOf("ddl")' = JobsOf("ddl") /\ JobsOf("data")' = JobsOf("data") /\ JobsOf("constraints")' = JobsOf("constraints")
      /\ JobsOf("validate")' = JobsOf("validate") /\ JobsOf("log")' = JobsOf("log") /\ Created' = Created
  BY <1>2, SameJobs
<1>4. /\ jobs' \in [Job -> JobState] /\ unsaved' \subseteq Job /\ faults' \in 0..MaxFaults
      /\ \A i \in Job : i # j => jobs'[i] = jobs[i] /\ (i \in unsaved' <=> i \in unsaved)
      /\ \/ jobs'[j] = "RUNNING" /\ at' = "count" /\ todo' = todo
         \/ Ended(j)' /\ jobs'[j] # "SKIPPED" /\ (jobs'[j] = "none" => jobs[j] = "none") /\ at' = "claim" /\ todo' = todo \ {j}
  OBVIOUS
<1>5. \A i \in Created : i # j => jobs'[i] = jobs[i] /\ (i \in unsaved' <=> i \in unsaved)
  BY <1>4, JobSets
<1>6. /\ \A k \in Task : jobs'[<<"data", k>>] = jobs[<<"data", k>>]
      /\ \A t \in Table : jobs'[<<"ddl", t>>] = jobs[<<"ddl", t>>]
  BY <1>1, <1>4, Tables
<1>a. TypeOK'
  BY <1>0, <1>1, <1>2, <1>3, <1>4, <1>6 DEF TypeOK, Steps
<1>b. Control'
  BY <1>0, <1>1, <1>2, <1>3, <1>4, <1>6 DEF Control, StepsOf
<1>c. Target'
  BY <1>0, <1>1, <1>2, <1>3, <1>4, <1>6 DEF Target, First
<1>d. Prepared'
  BY <1>0, <1>1, <1>2, <1>3, <1>4, <1>6 DEF Prepared, First, Remade, Fresh, RowsOf
<1>e. RunJobs'
  <2>1. \A i \in Created : jobs'[i] # "none" \/ jobs[i] = "none"
    BY <1>4, <1>5
  <2>2. \A i \in Created : i # j => (Settled(i)' <=> Settled(i)) /\ (Ended(i)' <=> Ended(i)) /\ jobs'[i] = jobs[i]
    BY <1>5 DEF Settled, Ended
  <2>3. \A i \in JobsOf("ddl") \cup JobsOf("constraints") \cup JobsOf("validate") : i \in Created
    BY JobSets
  <2>4. \/ jobs'[j] = "RUNNING" /\ todo' = todo
        \/ Ended(j)' /\ todo' = todo \ {j}
    BY <1>4 DEF Ended
  <2> QED
    BY <1>0, <1>1, <1>2, <1>3, <2>1, <2>2, <2>3, <2>4 DEF RunJobs, AfterDDL
<1>f. DataJobs'
  <2>1. \A i \in JobsOf("data") : jobs'[i] = jobs[i]
    BY <1>1, <1>4, JobSets
  <2>2. \A i \in Job : jobs'[i] # "SKIPPED"
    BY <1>0, <1>4 DEF DataJobs
  <2> QED
    BY <1>0, <1>1, <1>2, <1>3, <2>1, <2>2 DEF DataJobs, Done, AfterData
<1>g. KeyJobs'
  BY <1>0, <1>1, <1>2, <1>3, <1>4, <1>6, Tables DEF KeyJobs, SeenTo, First
<1>h. RowsOfJobs'
  BY <1>0, <1>1, <1>2, <1>3, <1>4, <1>6, Tables DEF RowsOfJobs, Exact, Remade, TaskByTask, RowsOf, Accepts, Sees, First
<1>i. NoOldRows'
  BY <1>0, <1>1, <1>2, <1>3, <1>4, <1>6, Tables DEF NoOldRows, Exact, Remade, TaskByTask, RowsOf
<1>j. Logging'
  BY <1>0, <1>1, <1>2, <1>3, <1>4, <1>6 DEF Logging, AfterData, Planned
<1>k. SuccessMeansSettled'
  BY <1>0, <1>1, <1>2, <1>3, <1>4, <1>6 DEF SuccessMeansSettled
<1>l. LoggedAfterRun'
  BY <1>0, <1>1, <1>2, <1>3, <1>4, <1>6 DEF LoggedAfterRun, Planned
<1> QED
  BY <1>a, <1>b, <1>c, <1>d, <1>e, <1>f, <1>g, <1>h, <1>i, <1>j, <1>k, <1>l DEF IInv

(* Pass one: SetRunning of a job of the constraints. *)
LEMMA KeyJobIsClaimed ==
  ASSUME IInv, NEW j \in todo, First("keys", j), Claim(j, "key")
  PROVE  IInv'
<1>0. TypeOK /\ Control /\ Target /\ Prepared /\ RunJobs /\ DataJobs /\ KeyJobs /\ RowsOfJobs /\ NoOldRows /\ Logging
     /\ SuccessMeansSettled /\ LoggedAfterRun
  BY DEF IInv
<1>1. /\ pc = "keys" /\ call # "none" /\ ~bad /\ at \in StepsOf("keys")
      /\ todo \subseteq JobsOf("constraints") /\ j \in JobsOf("constraints") /\ j \in Job
      /\ j = <<"constraints", j[2]>> /\ j[1] = "constraints" /\ j[2] \in Table
      /\ \A i \in todo : First("keys", i) => i = j
      /\ \A i \in JobsOf("ddl") \cup JobsOf("data") \cup JobsOf("validate") : i # j
      /\ \A x : <<"ddl", x>> # j /\ <<"data", x>> # j /\ (<<"constraints", x>> = j <=> x = j[2])
  BY InKeys
<1>2. UNCHANGED <<conf, exists, whole, logged, keys, refs, rows, old, cancelled, warned, unconverted>> /\ at = "claim"
  BY DEF Claim, target
<1>3. CASE Works /\ Save(j, "RUNNING") /\ Step("key") /\ UNCHANGED <<call, bad, result>>
  <2>1. "RUNNING" \in JobState
    BY DEF JobState
  <2>2. /\ jobs' \in [Job -> JobState] /\ jobs'[j] = "RUNNING" /\ \A i \in Job : i # j => jobs'[i] = jobs[i]
        /\ unsaved' = unsaved \ {j} /\ unsaved' \subseteq Job
    BY <1>0, <1>1, <1>3, <2>1, Saved
  <2>3. at' = "key" /\ todo' = todo /\ pc' = pc
    BY <1>3 DEF Step
  <2>4. faults' \in 0..MaxFaults
    BY <1>0, <1>3, FaultsCounted
  <2> QED
    BY <1>2, <1>3, <2>2, <2>3, <2>4, KeyJobMoves
<1>4. CASE Fails("store") /\ Return("error") /\ UNCHANGED <<jobs, unsaved>>
  BY <1>0, <1>1, <1>2, <1>4, FaultsCounted, CallEnds DEF target, TypeOK
<1> QED
  BY <1>3, <1>4 DEF Claim

(* A bare table: its job is done without a key. *)
LEMMA KeyJobIsSkipped ==
  ASSUME IInv, NEW j \in todo, First("keys", j), SkipJob(j), j[2] \in conf.bare
  PROVE  IInv'
<1>0. TypeOK /\ Control /\ Target /\ Prepared /\ RunJobs /\ DataJobs /\ KeyJobs /\ RowsOfJobs /\ NoOldRows /\ Logging
     /\ SuccessMeansSettled /\ LoggedAfterRun
  BY DEF IInv
<1>1. /\ pc = "keys" /\ call # "none" /\ ~bad /\ at \in StepsOf("keys")
      /\ todo \subseteq JobsOf("constraints") /\ j \in JobsOf("constraints") /\ j \in Job
      /\ j = <<"constraints", j[2]>> /\ j[1] = "constraints" /\ j[2] \in Table
      /\ \A i \in todo : First("keys", i) => i = j
      /\ \A i \in JobsOf("ddl") \cup JobsOf("data") \cup JobsOf("validate") : i # j
      /\ \A x : <<"ddl", x>> # j /\ <<"data", x>> # j /\ (<<"constraints", x>> = j <=> x = j[2])
  BY InKeys
<1>2. /\ UNCHANGED <<conf, exists, whole, logged, keys, refs, rows, old, call, cancelled, bad, result, warned, unconverted>>
      /\ pc' = pc /\ at' = "claim" /\ todo' = todo \ {j}
  BY DEF SkipJob, NextJob, target
<1>3. /\ jobs' \in [Job -> JobState] /\ unsaved' \subseteq Job /\ faults' \in 0..MaxFaults
      /\ \A i \in Job : i # j => jobs'[i] = jobs[i] /\ (i \in unsaved' <=> i \in unsaved)
      /\ jobs'[j] = "COMPLETED" \/ (jobs'[j] = jobs[j] /\ j \in unsaved')
  <2>1. CASE Works /\ Save(j, "COMPLETED")
    <3>1. "COMPLETED" \in JobState
      BY DEF JobState
    <3> QED
      BY <1>0, <1>1, <2>1, <3>1, Saved, FaultsCounted
  <2>2. CASE Fails("store") /\ NotSaved(j)
    BY <1>0, <1>1, <2>2, FaultsCounted DEF NotSaved, TypeOK
  <2> QED
    BY <2>1, <2>2 DEF SkipJob
<1>4. Settled(j)'
  BY <1>3 DEF Settled
<1>5. jobs'[j] # "SKIPPED" /\ (jobs'[j] = "none" => jobs[j] = "none")
  BY <1>0, <1>1, <1>3 DEF DataJobs
<1> QED
  BY <1>2, <1>3, <1>4, <1>5, KeyJobMoves DEF Ended, SeenTo

(* ALTER TABLE ... ADD PRIMARY KEY, or the warning that it failed. *)
LEMMA KeyIsCreated ==
  ASSUME IInv, NEW j \in todo, First("keys", j), CreatePrimaryKey(j)
  PROVE  IInv'
<1>0. TypeOK /\ Control /\ Target /\ Prepared /\ RunJobs /\ DataJobs /\ KeyJobs /\ RowsOfJobs /\ NoOldRows /\ Logging
     /\ SuccessMeansSettled /\ LoggedAfterRun
  BY DEF IInv
<1>1. /\ pc = "keys" /\ call # "none" /\ ~bad /\ at \in StepsOf("keys")
      /\ todo \subseteq JobsOf("constraints") /\ j \in JobsOf("constraints") /\ j \in Job
      /\ j = <<"constraints", j[2]>> /\ j[1] = "constraints" /\ j[2] \in Table
      /\ \A i \in todo : First("keys", i) => i = j
      /\ \A i \in JobsOf("ddl") \cup JobsOf("data") \cup JobsOf("validate") : i # j
      /\ \A x : <<"ddl", x>> # j /\ <<"data", x>> # j /\ (<<"constraints", x>> = j <=> x = j[2])
  BY InKeys
<1>2. /\ UNCHANGED <<conf, exists, whole, logged, refs, rows, old, jobs, call, cancelled, bad, result, unsaved, unconverted>>
      /\ pc' = pc /\ at' = "claim" /\ todo' = todo \ {j} /\ at = "key"
  BY DEF CreatePrimaryKey, NextJob
<1>3. JobsOf("ddl")' = JobsOf("ddl") /\ JobsOf("data")' = JobsOf("data") /\ JobsOf("constraints")' = JobsOf("constraints")
      /\ JobsOf("validate")' = JobsOf("validate") /\ JobsOf("log")' = JobsOf("log") /\ Created' = Created
  BY <1>2, SameJobs
<1>4. /\ faults' \in 0..MaxFaults /\ keys \subseteq keys' /\ keys' \subseteq exists /\ warned' \subseteq Table
      /\ keys \cup warned \cup {j[2]} \subseteq keys' \cup warned'
  <2>1. CASE TakesKey(j[2]) /\ Works /\ keys' = keys \cup {j[2]} /\ warned' = warned \ {j[2]}
    BY <1>0, <2>1, FaultsCounted DEF TypeOK, TakesKey, Sees
  <2>2. CASE /\ Refused(~TakesKey(j[2])) /\ UNCHANGED keys
             /\ warned' = IF j[2] \in keys THEN warned ELSE warned \cup {j[2]}
    BY <1>0, <1>1, <2>2, FaultsCounted DEF TypeOK, Refused
  <2> QED
    BY <2>1, <2>2 DEF CreatePrimaryKey
<1>5. jobs[j] = "RUNNING"
  BY <1>0, <1>1, <1>2 DEF KeyJobs
<1>a. TypeOK'
  BY <1>0, <1>1, <1>2, <1>3, <1>4 DEF TypeOK, Steps
<1>b. Control'
  BY <1>0, <1>1, <1>2, <1>3, <1>4 DEF Control, StepsOf
<1>c. Target'
  BY <1>0, <1>1, <1>2, <1>3, <1>4 DEF Target, First
<1>d. Prepared'
  BY <1>0, <1>1, <1>2, <1>3, <1>4 DEF Prepared, First, Remade, Fresh, RowsOf
<1>e. RunJobs'
  BY <1>0, <1>1, <1>2, <1>3, <1>4, <1>5 DEF RunJobs, Settled, Ended, AfterDDL
<1>f. DataJobs'
  BY <1>0, <1>1, <1>2, <1>3, <1>4, JobSets DEF DataJobs, Done, First, AfterData
<1>g. KeyJobs'
  BY <1>0, <1>1, <1>2, <1>3, <1>4, Tables DEF KeyJobs, SeenTo, First
<1>h. RowsOfJobs'
  BY <1>0, <1>1, <1>2, <1>3, <1>4, Tables DEF RowsOfJobs, Exact, Remade, TaskByTask, RowsOf, Accepts, Sees, First
<1>i. NoOldRows'
  BY <1>0, <1>1, <1>2, <1>3, <1>4, Tables DEF NoOldRows, Exact, Remade, TaskByTask, RowsOf
<1>j. Logging'
  BY <1>0, <1>1, <1>2, <1>3, <1>4 DEF Logging, AfterData, Planned
<1>k. SuccessMeansSettled'
  BY <1>0, <1>1, <1>2, <1>3, <1>4 DEF SuccessMeansSettled
<1>l. LoggedAfterRun'
  BY <1>0, <1>1, <1>2, <1>3, <1>4 DEF LoggedAfterRun, Planned
<1> QED
  BY <1>a, <1>b, <1>c, <1>d, <1>e, <1>f, <1>g, <1>h, <1>i, <1>j, <1>k, <1>l DEF IInv

(* Any step of pass one. *)
LEMMA KeysAreCreated ==
  ASSUME IInv, PassOne
  PROVE  IInv'
BY KeyJobIsClaimed, KeyJobIsSkipped, KeyIsCreated DEF PassOne

(* ALTER TABLE ... ADD FOREIGN KEY: the keys referred to are there. *)
LEMMA ReferencesAreCreated ==
  ASSUME IInv, NEW j \in todo, First("references", j), CreateFKs(j[2])
  PROVE  IInv'
<1>0. TypeOK /\ Control /\ Target /\ Prepared /\ RunJobs /\ DataJobs /\ KeyJobs /\ RowsOfJobs /\ NoOldRows /\ Logging
     /\ SuccessMeansSettled /\ LoggedAfterRun
  BY DEF IInv
<1>1. /\ pc = "references" /\ call # "none" /\ ~bad /\ at \in StepsOf("references")
      /\ todo \subseteq JobsOf("constraints") /\ j \in JobsOf("constraints") /\ j \in Job
      /\ j = <<"constraints", j[2]>> /\ j[1] = "constraints" /\ j[2] \in Table
      /\ \A i \in todo : First("references", i) => i = j
      /\ \A i \in JobsOf("ddl") \cup JobsOf("data") \cup JobsOf("validate") : i # j
      /\ \A x : <<"ddl", x>> # j /\ <<"data", x>> # j /\ (<<"constraints", x>> = j <=> x = j[2])
  BY InReferences
<1>2. /\ UNCHANGED <<conf, exists, whole, logged, keys, rows, old, jobs, call, cancelled, bad, result, unsaved, warned, unconverted>>
      /\ at = "claim"
  BY DEF CreateFKs, StatementLeft, history
<1>3. JobsOf("ddl")' = JobsOf("ddl") /\ JobsOf("data")' = JobsOf("data") /\ JobsOf("constraints")' = JobsOf("constraints")
      /\ JobsOf("validate")' = JobsOf("validate") /\ JobsOf("log")' = JobsOf("log") /\ Created' = Created
  BY <1>2, SameJobs
<1>4. /\ pc' = pc /\ todo' = todo /\ at' \in {"save", "fail"} /\ faults' \in 0..MaxFaults
      /\ refs' \subseteq Refs /\ \A r \in refs' : r[2] \in keys
  <2>1. CASE Step("save") /\ UNCHANGED <<refs, faults>>
    BY <1>0, <2>1 DEF Step, TypeOK, Target
  <2>2. CASE TakesRefs(j[2]) /\ Works /\ Step("save") /\ refs' = refs \cup RefsOf(j[2])
    BY <1>0, <2>2, FaultsCounted DEF Step, TypeOK, Target, TakesRefs, RefsOf
  <2>3. CASE Refused(~TakesRefs(j[2])) /\ Step("fail") /\ UNCHANGED refs
    BY <1>0, <2>3, FaultsCounted DEF Step, TypeOK, Target, Refused
  <2> QED
    BY <2>1, <2>2, <2>3 DEF CreateFKs
<1>a. TypeOK'
  BY <1>0, <1>1, <1>2, <1>3, <1>4 DEF TypeOK, Steps
<1>b. Control'
  BY <1>0, <1>1, <1>2, <1>3, <1>4 DEF Control, StepsOf
<1>c. Target'
  BY <1>0, <1>1, <1>2, <1>3, <1>4 DEF Target, First
<1>d. Prepared'
  BY <1>0, <1>1, <1>2, <1>3, <1>4 DEF Prepared, First, Remade, Fresh, RowsOf
<1>e. RunJobs'
  BY <1>0, <1>1, <1>2, <1>3, <1>4, JobSets DEF RunJobs, Settled, Ended, AfterDDL
<1>f. DataJobs'
  BY <1>0, <1>1, <1>2, <1>3, <1>4, JobSets DEF DataJobs, Done, First, AfterData
<1>g. KeyJobs'
  BY <1>0, <1>1, <1>2, <1>3, <1>4, Tables DEF KeyJobs, SeenTo, First
<1>h. RowsOfJobs'
  BY <1>0, <1>1, <1>2, <1>3, <1>4, Tables DEF RowsOfJobs, Exact, Remade, TaskByTask, RowsOf, Accepts, Sees, First
<1>i. NoOldRows'
  BY <1>0, <1>1, <1>2, <1>3, <1>4, Tables DEF NoOldRows, Exact, Remade, TaskByTask, RowsOf
<1>j. Logging'
  BY <1>0, <1>1, <1>2, <1>3, <1>4 DEF Logging, AfterData, Planned
<1>k. SuccessMeansSettled'
  BY <1>0, <1>1, <1>2, <1>3, <1>4 DEF SuccessMeansSettled
<1>l. LoggedAfterRun'
  BY <1>0, <1>1, <1>2, <1>3, <1>4 DEF LoggedAfterRun, Planned
<1> QED
  BY <1>a, <1>b, <1>c, <1>d, <1>e, <1>f, <1>g, <1>h, <1>i, <1>j, <1>k, <1>l DEF IInv

(* Pass two: SetCompleted. *)
LEMMA ReferenceJobIsCompleted ==
  ASSUME IInv, NEW j \in todo, First("references", j), Complete(j)
  PROVE  IInv'
<1>0. TypeOK /\ Control /\ Target /\ Prepared /\ RunJobs /\ DataJobs /\ KeyJobs /\ RowsOfJobs /\ NoOldRows /\ Logging
     /\ SuccessMeansSettled /\ LoggedAfterRun
  BY DEF IInv
<1>1. /\ pc = "references" /\ call # "none" /\ ~bad /\ at \in StepsOf("references")
      /\ todo \subseteq JobsOf("constraints") /\ j \in JobsOf("constraints") /\ j \in Job
      /\ j = <<"constraints", j[2]>> /\ j[1] = "constraints" /\ j[2] \in Table
      /\ \A i \in todo : First("references", i) => i = j
      /\ \A i \in JobsOf("ddl") \cup JobsOf("data") \cup JobsOf("validate") : i # j
      /\ \A x : <<"ddl", x>> # j /\ <<"data", x>> # j /\ (<<"constraints", x>> = j <=> x = j[2])
  BY InReferences
<1>2. UNCHANGED <<conf, exists, whole, logged, keys, refs, rows, old, cancelled, warned, unconverted>>
  BY DEF Complete, target
<1>3. CASE Works /\ Save(j, "COMPLETED") /\ NextJob(j) /\ UNCHANGED <<call, bad, result>>
  <2>1. "COMPLETED" \in JobState
    BY DEF JobState
  <2>2. /\ jobs' \in [Job -> JobState] /\ jobs'[j] = "COMPLETED" /\ \A i \in Job : i # j => jobs'[i] = jobs[i]
        /\ unsaved' = unsaved \ {j} /\ unsaved' \subseteq Job
    BY <1>0, <1>1, <1>3, <2>1, Saved
  <2>3. at' = "claim" /\ todo' = todo \ {j} /\ pc' = pc
    BY <1>3 DEF NextJob
  <2>4. faults' \in 0..MaxFaults /\ Ended(j)'
    BY <1>0, <1>3, <2>2, FaultsCounted DEF Ended, Settled
  <2> QED
    BY <1>2, <1>3, <2>2, <2>3, <2>4, ReferenceJobMoves
<1>4. CASE Fails("store") /\ Return("error") /\ UNCHANGED <<jobs, unsaved>>
  BY <1>0, <1>1, <1>2, <1>4, FaultsCounted, CallEnds DEF target, TypeOK
<1> QED
  BY <1>3, <1>4 DEF Complete

(* Pass two: SetFailed. *)
LEMMA ReferenceJobFails ==
  ASSUME IInv, NEW j \in todo, First("references", j), FailJob(j)
  PROVE  IInv'
<1>0. TypeOK /\ Control /\ Target /\ Prepared /\ RunJobs /\ DataJobs /\ KeyJobs /\ RowsOfJobs /\ NoOldRows /\ Logging
     /\ SuccessMeansSettled /\ LoggedAfterRun
  BY DEF IInv
<1>1. /\ pc = "references" /\ call # "none" /\ ~bad /\ at \in StepsOf("references")
      /\ todo \subseteq JobsOf("constraints") /\ j \in JobsOf("constraints") /\ j \in Job
      /\ j = <<"constraints", j[2]>> /\ j[1] = "constraints" /\ j[2] \in Table
      /\ \A i \in todo : First("references", i) => i = j
      /\ \A i \in JobsOf("ddl") \cup JobsOf("data") \cup JobsOf("validate") : i # j
      /\ \A x : <<"ddl", x>> # j /\ <<"data", x>> # j /\ (<<"constraints", x>> = j <=> x = j[2])
  BY InReferences
<1>2. /\ UNCHANGED <<conf, exists, whole, logged, keys, refs, rows, old, call, cancelled, bad, result, warned, unconverted>>
      /\ pc' = pc /\ at' = "claim" /\ todo' = todo \ {j}
  BY DEF FailJob, NextJob, target
<1>3. /\ jobs' \in [Job -> JobState] /\ unsaved' \subseteq Job /\ faults' \in 0..MaxFaults
      /\ \A i \in Job : i # j => jobs'[i] = jobs[i] /\ (i \in unsaved' <=> i \in unsaved)
      /\ jobs'[j] = "FAILED" \/ (jobs'[j] = jobs[j] /\ j \in unsaved')
  BY <1>0, <1>1, MarkedFailed DEF FailJob
<1>4. Ended(j)'
  BY <1>3 DEF Settled, Ended
<1>5. jobs'[j] # "SKIPPED" /\ (jobs'[j] = "none" => jobs[j] = "none")
  BY <1>0, <1>1, <1>3 DEF DataJobs
<1> QED
  BY <1>2, <1>3, <1>4, <1>5, ReferenceJobMoves DEF Ended

(* Any step of pass two. *)
LEMMA ReferencesAreDone ==
  ASSUME IInv, PassTwo
  PROVE  IInv'
BY ReferencesAreCreated, ReferenceJobIsCompleted, ReferenceJobFails DEF PassTwo

(* The validation of a table: SetRunning. *)
LEMMA ValidationIsClaimed ==
  ASSUME IInv, NEW j \in todo, First("validate", j), Claim(j, "count")
  PROVE  IInv'
<1>0. TypeOK /\ Control /\ Target /\ Prepared /\ RunJobs /\ DataJobs /\ KeyJobs /\ RowsOfJobs /\ NoOldRows /\ Logging
     /\ SuccessMeansSettled /\ LoggedAfterRun
  BY DEF IInv
<1>1. /\ pc = "validate" /\ call # "none" /\ ~bad /\ at \in StepsOf("validate")
      /\ todo \subseteq JobsOf("validate") /\ j \in JobsOf("validate") /\ j \in Job
      /\ j = <<"validate", j[2]>> /\ j[1] = "validate" /\ j[2] \in Table
      /\ \A i \in todo : First("validate", i) => i = j
      /\ \A i \in JobsOf("ddl") \cup JobsOf("data") \cup JobsOf("constraints") : i # j
      /\ \A x : <<"ddl", x>> # j /\ <<"data", x>> # j /\ <<"constraints", x>> # j /\ (<<"validate", x>> = j <=> x = j[2])
  BY InValidation
<1>2. UNCHANGED <<conf, exists, whole, logged, keys, refs, rows, old, cancelled, warned, unconverted>> /\ at = "claim"
  BY DEF Claim, target
<1>3. CASE Works /\ Save(j, "RUNNING") /\ Step("count") /\ UNCHANGED <<call, bad, result>>
  <2>1. "RUNNING" \in JobState
    BY DEF JobState
  <2>2. /\ jobs' \in [Job -> JobState] /\ jobs'[j] = "RUNNING" /\ \A i \in Job : i # j => jobs'[i] = jobs[i]
        /\ unsaved' = unsaved \ {j} /\ unsaved' \subseteq Job
    BY <1>0, <1>1, <1>3, <2>1, Saved
  <2>3. at' = "count" /\ todo' = todo /\ pc' = pc
    BY <1>3 DEF Step
  <2>4. faults' \in 0..MaxFaults
    BY <1>0, <1>3, FaultsCounted
  <2> QED
    BY <1>2, <1>3, <2>2, <2>3, <2>4, ValidationMoves
<1>4. CASE Fails("store") /\ Return("error") /\ UNCHANGED <<jobs, unsaved>>
  BY <1>0, <1>1, <1>2, <1>4, FaultsCounted, CallEnds DEF target, TypeOK
<1> QED
  BY <1>3, <1>4 DEF Claim

(* A table that is not validated. *)
LEMMA ValidationIsSkipped ==
  ASSUME IInv, NEW j \in todo, First("validate", j), SkipJob(j)
  PROVE  IInv'
<1>0. TypeOK /\ Control /\ Target /\ Prepared /\ RunJobs /\ DataJobs /\ KeyJobs /\ RowsOfJobs /\ NoOldRows /\ Logging
     /\ SuccessMeansSettled /\ LoggedAfterRun
  BY DEF IInv
<1>1. /\ pc = "validate" /\ call # "none" /\ ~bad /\ at \in StepsOf("validate")
      /\ todo \subseteq JobsOf("validate") /\ j \in JobsOf("validate") /\ j \in Job
      /\ j = <<"validate", j[2]>> /\ j[1] = "validate" /\ j[2] \in Table
      /\ \A i \in todo : First("validate", i) => i = j
      /\ \A i \in JobsOf("ddl") \cup JobsOf("data") \cup JobsOf("constraints") : i # j
      /\ \A x : <<"ddl", x>> # j /\ <<"data", x>> # j /\ <<"constraints", x>> # j /\ (<<"validate", x>> = j <=> x = j[2])
  BY InValidation
<1>2. /\ UNCHANGED <<conf, exists, whole, logged, keys, refs, rows, old, call, cancelled, bad, result, warned, unconverted>>
      /\ pc' = pc /\ at' = "claim" /\ todo' = todo \ {j}
  BY DEF SkipJob, NextJob, target
<1>3. /\ jobs' \in [Job -> JobState] /\ unsaved' \subseteq Job /\ faults' \in 0..MaxFaults
      /\ \A i \in Job : i # j => jobs'[i] = jobs[i] /\ (i \in unsaved' <=> i \in unsaved)
      /\ jobs'[j] = "COMPLETED" \/ (jobs'[j] = jobs[j] /\ j \in unsaved')
  <2>1. CASE Works /\ Save(j, "COMPLETED")
    <3>1. "COMPLETED" \in JobState
      BY DEF JobState
    <3> QED
      BY <1>0, <1>1, <2>1, <3>1, Saved, FaultsCounted
  <2>2. CASE Fails("store") /\ NotSaved(j)
    BY <1>0, <1>1, <2>2, FaultsCounted DEF NotSaved, TypeOK
  <2> QED
    BY <2>1, <2>2 DEF SkipJob
<1>4. Settled(j)'
  BY <1>3 DEF Settled
<1>5. jobs'[j] # "SKIPPED" /\ (jobs'[j] = "none" => jobs[j] = "none")
  BY <1>0, <1>1, <1>3 DEF DataJobs
<1> QED
  BY <1>2, <1>3, <1>4, <1>5, ValidationMoves DEF Ended

(* The validation: SetCompleted. *)
LEMMA ValidationIsCompleted ==
  ASSUME IInv, NEW j \in todo, First("validate", j), Complete(j)
  PROVE  IInv'
<1>0. TypeOK /\ Control /\ Target /\ Prepared /\ RunJobs /\ DataJobs /\ KeyJobs /\ RowsOfJobs /\ NoOldRows /\ Logging
     /\ SuccessMeansSettled /\ LoggedAfterRun
  BY DEF IInv
<1>1. /\ pc = "validate" /\ call # "none" /\ ~bad /\ at \in StepsOf("validate")
      /\ todo \subseteq JobsOf("validate") /\ j \in JobsOf("validate") /\ j \in Job
      /\ j = <<"validate", j[2]>> /\ j[1] = "validate" /\ j[2] \in Table
      /\ \A i \in todo : First("validate", i) => i = j
      /\ \A i \in JobsOf("ddl") \cup JobsOf("data") \cup JobsOf("constraints") : i # j
      /\ \A x : <<"ddl", x>> # j /\ <<"data", x>> # j /\ <<"constraints", x>> # j /\ (<<"validate", x>> = j <=> x = j[2])
  BY InValidation
<1>2. UNCHANGED <<conf, exists, whole, logged, keys, refs, rows, old, cancelled, warned, unconverted>>
  BY DEF Complete, target
<1>3. CASE Works /\ Save(j, "COMPLETED") /\ NextJob(j) /\ UNCHANGED <<call, bad, result>>
  <2>1. "COMPLETED" \in JobState
    BY DEF JobState
  <2>2. /\ jobs' \in [Job -> JobState] /\ jobs'[j] = "COMPLETED" /\ \A i \in Job : i # j => jobs'[i] = jobs[i]
        /\ unsaved' = unsaved \ {j} /\ unsaved' \subseteq Job
    BY <1>0, <1>1, <1>3, <2>1, Saved
  <2>3. at' = "claim" /\ todo' = todo \ {j} /\ pc' = pc
    BY <1>3 DEF NextJob
  <2>4. faults' \in 0..MaxFaults /\ Ended(j)'
    BY <1>0, <1>3, <2>2, FaultsCounted DEF Ended, Settled
  <2> QED
    BY <1>2, <1>3, <2>2, <2>3, <2>4, ValidationMoves
<1>4. CASE Fails("store") /\ Return("error") /\ UNCHANGED <<jobs, unsaved>>
  BY <1>0, <1>1, <1>2, <1>4, FaultsCounted, CallEnds DEF target, TypeOK
<1> QED
  BY <1>3, <1>4 DEF Complete

(* The validation: SetFailed. *)
LEMMA ValidationFails ==
  ASSUME IInv, NEW j \in todo, First("validate", j), FailJob(j)
  PROVE  IInv'
<1>0. TypeOK /\ Control /\ Target /\ Prepared /\ RunJobs /\ DataJobs /\ KeyJobs /\ RowsOfJobs /\ NoOldRows /\ Logging
     /\ SuccessMeansSettled /\ LoggedAfterRun
  BY DEF IInv
<1>1. /\ pc = "validate" /\ call # "none" /\ ~bad /\ at \in StepsOf("validate")
      /\ todo \subseteq JobsOf("validate") /\ j \in JobsOf("validate") /\ j \in Job
      /\ j = <<"validate", j[2]>> /\ j[1] = "validate" /\ j[2] \in Table
      /\ \A i \in todo : First("validate", i) => i = j
      /\ \A i \in JobsOf("ddl") \cup JobsOf("data") \cup JobsOf("constraints") : i # j
      /\ \A x : <<"ddl", x>> # j /\ <<"data", x>> # j /\ <<"constraints", x>> # j /\ (<<"validate", x>> = j <=> x = j[2])
  BY InValidation
<1>2. /\ UNCHANGED <<conf, exists, whole, logged, keys, refs, rows, old, call, cancelled, bad, result, warned, unconverted>>
      /\ pc' = pc /\ at' = "claim" /\ todo' = todo \ {j}
  BY DEF FailJob, NextJob, target
<1>3. /\ jobs' \in [Job -> JobState] /\ unsaved' \subseteq Job /\ faults' \in 0..MaxFaults
      /\ \A i \in Job : i # j => jobs'[i] = jobs[i] /\ (i \in unsaved' <=> i \in unsaved)
      /\ jobs'[j] = "FAILED" \/ (jobs'[j] = jobs[j] /\ j \in unsaved')
  BY <1>0, <1>1, MarkedFailed DEF FailJob
<1>4. Ended(j)'
  BY <1>3 DEF Settled, Ended
<1>5. jobs'[j] # "SKIPPED" /\ (jobs'[j] = "none" => jobs[j] = "none")
  BY <1>0, <1>1, <1>3 DEF DataJobs
<1> QED
  BY <1>2, <1>3, <1>4, <1>5, ValidationMoves DEF Ended

(* The rows of a table are counted. *)
LEMMA RowsAreCounted ==
  ASSUME IInv, NEW j \in todo, First("validate", j), CountRows(j[2])
  PROVE  IInv'
<1>0. TypeOK /\ Control /\ Target /\ Prepared /\ RunJobs /\ DataJobs /\ KeyJobs /\ RowsOfJobs /\ NoOldRows /\ Logging
     /\ SuccessMeansSettled /\ LoggedAfterRun
  BY DEF IInv
<1>1. /\ pc = "validate" /\ call # "none" /\ ~bad /\ at \in StepsOf("validate")
      /\ todo \subseteq JobsOf("validate") /\ j \in JobsOf("validate") /\ j \in Job
      /\ j = <<"validate", j[2]>> /\ j[1] = "validate" /\ j[2] \in Table
      /\ \A i \in todo : First("validate", i) => i = j
      /\ \A i \in JobsOf("ddl") \cup JobsOf("data") \cup JobsOf("constraints") : i # j
      /\ \A x : <<"ddl", x>> # j /\ <<"data", x>> # j /\ <<"constraints", x>> # j /\ (<<"validate", x>> = j <=> x = j[2])
  BY InValidation
<1>2. UNCHANGED <<conf, exists, whole, logged, keys, refs, rows, old, jobs, call, cancelled, bad, result, unsaved, warned, unconverted>>
  BY DEF CountRows, StatementLeft, history, target
<1>3. JobsOf("ddl")' = JobsOf("ddl") /\ JobsOf("data")' = JobsOf("data") /\ JobsOf("constraints")' = JobsOf("constraints")
      /\ JobsOf("validate")' = JobsOf("validate") /\ JobsOf("log")' = JobsOf("log") /\ Created' = Created
  BY <1>2, SameJobs
<1>4. faults' \in 0..MaxFaults
  BY <1>0, FaultsCounted DEF CountRows
<1>5. pc' = pc /\ todo' = todo /\ at' \in {"save", "fail"}
  BY DEF CountRows, Step
<1>a. TypeOK'
  BY <1>0, <1>1, <1>2, <1>3, <1>4, <1>5 DEF TypeOK, Steps
<1>b. Control'
  BY <1>0, <1>1, <1>2, <1>3, <1>4, <1>5 DEF Control, StepsOf
<1>c. Target'
  BY <1>0, <1>1, <1>2, <1>3, <1>4, <1>5 DEF Target, First
<1>d. Prepared'
  BY <1>0, <1>1, <1>2, <1>3, <1>4, <1>5 DEF Prepared, First, Remade, Fresh, RowsOf
<1>e. RunJobs'
  BY <1>0, <1>1, <1>2, <1>3, <1>4, <1>5, JobSets DEF RunJobs, Settled, Ended, AfterDDL
<1>f. DataJobs'
  BY <1>0, <1>1, <1>2, <1>3, <1>4, <1>5, JobSets DEF DataJobs, Done, First, AfterData
<1>g. KeyJobs'
  BY <1>0, <1>1, <1>2, <1>3, <1>4, <1>5, Tables DEF KeyJobs, SeenTo, First
<1>h. RowsOfJobs'
  BY <1>0, <1>1, <1>2, <1>3, <1>4, <1>5, Tables DEF RowsOfJobs, Exact, Remade, TaskByTask, RowsOf, Accepts, Sees, First
<1>i. NoOldRows'
  BY <1>0, <1>1, <1>2, <1>3, <1>4, <1>5, Tables DEF NoOldRows, Exact, Remade, TaskByTask, RowsOf
<1>j. Logging'
  BY <1>0, <1>1, <1>2, <1>3, <1>4, <1>5 DEF Logging, AfterData, Planned
<1>k. SuccessMeansSettled'
  BY <1>0, <1>1, <1>2, <1>3, <1>4, <1>5 DEF SuccessMeansSettled
<1>l. LoggedAfterRun'
  BY <1>0, <1>1, <1>2, <1>3, <1>4, <1>5 DEF LoggedAfterRun, Planned
<1> QED
  BY <1>a, <1>b, <1>c, <1>d, <1>e, <1>f, <1>g, <1>h, <1>i, <1>j, <1>k, <1>l DEF IInv

(* Any step of the validation. *)
LEMMA TablesAreValidated ==
  ASSUME IInv, Validate
  PROVE  IInv'
BY ValidationIsClaimed, ValidationIsSkipped, ValidationIsCompleted, ValidationFails, RowsAreCounted DEF Validate
-----------------------------------------------------------------------------
(* The end of a call: no job of Run is FAILED when it reports success. *)
LEMMA SummaryIsMade ==
  ASSUME IInv, Summary
  PROVE  IInv'
<1>0. TypeOK /\ Control /\ Target /\ Prepared /\ RunJobs /\ DataJobs /\ KeyJobs /\ RowsOfJobs /\ NoOldRows /\ Logging
     /\ SuccessMeansSettled /\ LoggedAfterRun
  BY DEF IInv
<1>1. /\ pc = "summary" /\ call \in {"run", "resume"}
      /\ UNCHANGED <<conf, exists, whole, logged, keys, refs, rows, old, jobs, cancelled, unsaved, warned, unconverted>>
  BY <1>0 DEF Summary, target, history, TypeOK
<1>2. JobsOf("ddl")' = JobsOf("ddl") /\ JobsOf("data")' = JobsOf("data") /\ JobsOf("constraints")' = JobsOf("constraints")
      /\ JobsOf("validate")' = JobsOf("validate") /\ JobsOf("log")' = JobsOf("log") /\ Created' = Created
  BY <1>1, SameJobs
<1>3. CASE Fails("store") /\ Return("panic")
  BY <1>0, <1>1, <1>3, FaultsCounted, CallEnds DEF target, TypeOK
<1>4. CASE Works /\ Return("error")
  BY <1>0, <1>1, <1>4, FaultsCounted, CallEnds DEF target, TypeOK
<1>5. ASSUME NEW how \in {"run done", "resume done"}, Works, Return(how), how = "run done" => call = "run" /\ ~SummaryFails(call)
      PROVE  IInv'
  <2>1. /\ call' = "none" /\ pc' = "idle" /\ todo' = {} /\ at' = "claim" /\ bad' = FALSE /\ result' = how /\ faults' = faults
    BY <1>5 DEF Return, Works
  <2>2. \A j \in JobsOf("data") : Done(j)
    BY <1>0, <1>1 DEF DataJobs, AfterData
  <2>3. ASSUME how = "run done", NEW j \in Created, j[1] = "validate" => conf.validate
        PROVE  jobs[j] = "COMPLETED" \/ j \in unsaved
    <3>1. call = "run" /\ jobs[j] # "FAILED" /\ jobs[j] # "none"
      BY <1>0, <1>1, <1>5, <2>3, JobSets DEF SummaryFails, RunJobs, AfterDDL
    <3>2. CASE j \in JobsOf("ddl")
      BY <1>0, <1>1, <3>1, <3>2 DEF RunJobs, Settled, AfterDDL
    <3>3. CASE j \in JobsOf("data")
      BY <2>2, <3>1, <3>3 DEF Done
    <3>4. CASE j \in JobsOf("constraints")
      BY <1>0, <1>1, <3>1, <3>4 DEF RunJobs, Settled, Ended
    <3>5. CASE j \in JobsOf("validate")
      BY <1>0, <1>1, <2>3, <3>1, <3>5, JobShape DEF RunJobs, Settled, Ended
    <3> QED
      BY <3>2, <3>3, <3>4, <3>5 DEF Created
  <2>a. TypeOK'
    BY <1>0, <1>1, <1>2, <2>1 DEF TypeOK, Steps
  <2>b. Control'
    BY <1>0, <1>1, <1>2, <2>1 DEF Control, StepsOf
  <2>c. Target'
    BY <1>0, <1>1, <1>2, <2>1 DEF Target, First
  <2>d. Prepared'
    BY <1>0, <1>1, <1>2, <2>1 DEF Prepared, First, Remade, Fresh, RowsOf
  <2>e. RunJobs'
    BY <1>0, <1>1, <1>2, <2>1 DEF RunJobs, Settled, Ended, AfterDDL
  <2>f. DataJobs'
    BY <1>0, <1>1, <1>2, <2>1, <2>2 DEF DataJobs, Done, First, AfterData, AfterData
  <2>g. KeyJobs'
    BY <1>0, <1>1, <1>2, <2>1 DEF KeyJobs, SeenTo, First
  <2>h. RowsOfJobs'
    BY <1>0, <1>1, <1>2, <2>1 DEF RowsOfJobs, Exact, Remade, TaskByTask, RowsOf, Accepts, Sees, First
  <2>i. NoOldRows'
    BY <1>0, <1>1, <1>2, <2>1 DEF NoOldRows, Exact, Remade, TaskByTask, RowsOf
  <2>j. Logging'
    BY <1>0, <1>1, <1>2, <2>1 DEF Logging, AfterData, Planned
  <2>k. SuccessMeansSettled'
    BY <1>0, <1>1, <1>2, <2>1, <2>3 DEF SuccessMeansSettled
  <2>l. LoggedAfterRun'
    BY <1>0, <1>1, <1>2, <2>1, <1>5 DEF LoggedAfterRun, Planned, Logging, AfterData
  <2> QED
    BY <2>a, <2>b, <2>c, <2>d, <2>e, <2>f, <2>g, <2>h, <2>i, <2>j, <2>k, <2>l DEF IInv
<1> QED
  BY <1>1, <1>3, <1>4, <1>5 DEF Summary

(* The operator cancels the call. *)
LEMMA CallIsCancelled ==
  ASSUME IInv, Cancel
  PROVE  IInv'
<1>0. TypeOK /\ Control /\ Target /\ Prepared /\ RunJobs /\ DataJobs /\ KeyJobs /\ RowsOfJobs /\ NoOldRows /\ Logging
     /\ SuccessMeansSettled /\ LoggedAfterRun
  BY DEF IInv
<1>1. /\ cancelled' = TRUE /\ faults' \in 0..MaxFaults
      /\ UNCHANGED <<conf, exists, whole, logged, keys, refs, rows, old, jobs, call, pc, todo, at, bad, result, unsaved, warned, unconverted>>
  BY <1>0, FaultsCounted DEF Cancel, target, history
<1>2. JobsOf("ddl")' = JobsOf("ddl") /\ JobsOf("data")' = JobsOf("data") /\ JobsOf("constraints")' = JobsOf("constraints")
      /\ JobsOf("validate")' = JobsOf("validate") /\ JobsOf("log")' = JobsOf("log") /\ Created' = Created
  BY <1>1, SameJobs
<1>a. TypeOK'
  BY <1>0, <1>1, <1>2 DEF TypeOK
<1>b. Control'
  BY <1>0, <1>1, <1>2 DEF Control, StepsOf
<1>c. Target'
  BY <1>0, <1>1, <1>2 DEF Target, First
<1>d. Prepared'
  BY <1>0, <1>1, <1>2 DEF Prepared, First, Remade, Fresh, RowsOf
<1>e. RunJobs'
  BY <1>0, <1>1, <1>2 DEF RunJobs, Settled, Ended, AfterDDL
<1>f. DataJobs'
  BY <1>0, <1>1, <1>2 DEF DataJobs, Done, First, AfterData
<1>g. KeyJobs'
  BY <1>0, <1>1, <1>2 DEF KeyJobs, SeenTo, First
<1>h. RowsOfJobs'
  BY <1>0, <1>1, <1>2 DEF RowsOfJobs, Exact, Remade, TaskByTask, RowsOf, Accepts, Sees, First
<1>i. NoOldRows'
  BY <1>0, <1>1, <1>2 DEF NoOldRows, Exact, Remade, TaskByTask, RowsOf
<1>j. Logging'
  BY <1>0, <1>1, <1>2 DEF Logging, AfterData, Planned
<1>k. SuccessMeansSettled'
  BY <1>0, <1>1, <1>2 DEF SuccessMeansSettled
<1>l. LoggedAfterRun'
  BY <1>0, <1>1, <1>2 DEF LoggedAfterRun, Planned
<1> QED
  BY <1>a, <1>b, <1>c, <1>d, <1>e, <1>f, <1>g, <1>h, <1>i, <1>j, <1>k, <1>l DEF IInv

(* The process dies. *)
LEMMA CallCrashes ==
  ASSUME IInv, Crash
  PROVE  IInv'
<1>1. TypeOK
  BY DEF IInv
<1>2. call # "none" /\ Return("crash") /\ faults' \in 0..MaxFaults
  BY <1>1, FaultsCounted DEF Crash
<1>3. UNCHANGED <<conf, target, jobs, cancelled, unsaved, warned, unconverted>>
  BY DEF Crash, history
<1> QED
  BY <1>1, <1>2, <1>3, CallEnds DEF TypeOK

(* A step that is none of the engine's. *)
LEMMA NothingMoves ==
  ASSUME IInv, UNCHANGED vars
  PROVE  IInv'
<1>0. TypeOK /\ Control /\ Target /\ Prepared /\ RunJobs /\ DataJobs /\ KeyJobs /\ RowsOfJobs /\ NoOldRows /\ Logging
     /\ SuccessMeansSettled /\ LoggedAfterRun
  BY DEF IInv
<1>1. /\ UNCHANGED <<conf, exists, whole, logged, keys, refs, rows, old, jobs, call, pc, todo, at, cancelled, bad, faults, result>>
      /\ UNCHANGED <<unsaved, warned, unconverted>>
  BY DEF vars, target, history
<1>2. JobsOf("ddl")' = JobsOf("ddl") /\ JobsOf("data")' = JobsOf("data") /\ JobsOf("constraints")' = JobsOf("constraints")
      /\ JobsOf("validate")' = JobsOf("validate") /\ JobsOf("log")' = JobsOf("log") /\ Created' = Created
  BY <1>1, SameJobs
<1>a. TypeOK'
  BY <1>0, <1>1, <1>2 DEF TypeOK
<1>b. Control'
  BY <1>0, <1>1, <1>2 DEF Control, StepsOf
<1>c. Target'
  BY <1>0, <1>1, <1>2 DEF Target, First
<1>d. Prepared'
  BY <1>0, <1>1, <1>2 DEF Prepared, First, Remade, Fresh, RowsOf
<1>e. RunJobs'
  BY <1>0, <1>1, <1>2 DEF RunJobs, Settled, Ended, AfterDDL
<1>f. DataJobs'
  BY <1>0, <1>1, <1>2 DEF DataJobs, Done, First, AfterData
<1>g. KeyJobs'
  BY <1>0, <1>1, <1>2 DEF KeyJobs, SeenTo, First
<1>h. RowsOfJobs'
  BY <1>0, <1>1, <1>2 DEF RowsOfJobs, Exact, Remade, TaskByTask, RowsOf, Accepts, Sees, First
<1>i. NoOldRows'
  BY <1>0, <1>1, <1>2 DEF NoOldRows, Exact, Remade, TaskByTask, RowsOf
<1>j. Logging'
  BY <1>0, <1>1, <1>2 DEF Logging, AfterData, Planned
<1>k. SuccessMeansSettled'
  BY <1>0, <1>1, <1>2 DEF SuccessMeansSettled
<1>l. LoggedAfterRun'
  BY <1>0, <1>1, <1>2 DEF LoggedAfterRun, Planned
<1> QED
  BY <1>a, <1>b, <1>c, <1>d, <1>e, <1>f, <1>g, <1>h, <1>i, <1>j, <1>k, <1>l DEF IInv

(* Every step keeps the invariant. *)
LEMMA StepKeepsInvariant ==
  ASSUME IInv, [Next]_vars
  PROVE  IInv'
<1>1. CASE StartRun
  BY <1>1, RunStarts
<1>2. CASE StartResume
  BY <1>2, ResumeStarts
<1>3. CASE Extract \/ InitJob \/ NextPhase
  BY <1>3, Extracts, JobIsCreated, PhaseEnds
<1>4. CASE ExecuteDDL \/ FailDDL
  BY <1>4, DDLIsExecuted, DDLFails
<1>5. CASE ExecuteData \/ LeaveTasks
  BY <1>5, DataIsExecuted, TasksAreLeft
<1>6. CASE ConvertToLogged
  BY <1>6, TableIsConverted
<1>7. CASE PassOne \/ PassTwo
  BY <1>7, KeysAreCreated, ReferencesAreDone
<1>8. CASE Validate
  BY <1>8, TablesAreValidated
<1>9. CASE Summary
  BY <1>9, SummaryIsMade
<1>10. CASE Cancel \/ Crash
  BY <1>10, CallIsCancelled, CallCrashes
<1>11. CASE UNCHANGED vars
  BY <1>11, NothingMoves
<1> QED
  BY <1>1, <1>2, <1>3, <1>4, <1>5, <1>6, <1>7, <1>8, <1>9, <1>10, <1>11 DEF Next, EngineStep

(* The inductive invariant holds in every state of a behaviour. *)
LEMMA Invariance == Spec => []IInv
<1>1. Init => IInv
  BY Initially
<1>2. IInv /\ [Next]_vars => IInv'
  BY StepKeepsInvariant
<1> QED
  BY <1>1, <1>2, PTL DEF Spec

(* What the invariant says of the rows when the last call was a success.   *)
LEMMA RowsOfASuccess ==
  ASSUME IInv
  PROVE  PreparedSuccessIsExact
<1>1. TypeOK /\ DataJobs /\ RowsOfJobs /\ NoOldRows
  BY DEF IInv
<1> SUFFICES ASSUME result \in {"run done", "resume done"}, call = "none", NEW t \in Table,
                    jobs[<<"ddl", t>>] = "COMPLETED", Remade(t), TaskByTask(t)
             PROVE  t \notin old /\ \A k \in RowsOf(t), b \in Batch : rows[k][b] = 1
  BY DEF PreparedSuccessIsExact, Remade
<1>2. Exact(t)
  BY DEF Exact
<1>3. t \notin old
  BY <1>1, <1>2 DEF NoOldRows
<1>4. ASSUME NEW k \in RowsOf(t), NEW b \in Batch
      PROVE  rows[k][b] = 1
  <2>1. k \in Task /\ TableOf[k] = t
    BY <1>4 DEF RowsOf
  <2>2. Planned(t)
    BY <1>2 DEF Planned, Exact, Remade
  <2>3. <<"data", k>> \in JobsOf("data")
    BY <2>1, <2>2, JobIn
  <2>4. jobs[<<"data", k>>] = "COMPLETED"
    BY <1>1, <1>2, <2>1, <2>3 DEF DataJobs, Done, RowsOfJobs
  <2>5. rows[k] = Once
    BY <1>1, <1>2, <2>1, <2>4 DEF RowsOfJobs
  <2> QED
    BY <1>4, <2>5 DEF Once
<1> QED
  BY <1>3, <1>4

(* What it says of the primary keys in pass two. *)
LEMMA KeysOfPassTwo ==
  ASSUME IInv
  PROVE  KeysBeforeReferences
<1>1. KeyJobs
  BY DEF IInv
<1> SUFFICES ASSUME pc = "references", NEW j \in todo, NEW r \in RefsOf(j[2])
             PROVE  r[2] \in keys \cup warned \cup conf.bare \/ jobs[<<"constraints", r[2]>>] = "none"
  BY DEF KeysBeforeReferences
<1>2. r[2] \in Table
  BY PhasesConstants DEF RefsOf
<1> QED
  BY <1>1, <1>2 DEF KeyJobs, SeenTo
-----------------------------------------------------------------------------
(* The state of the engine, of its jobs and of the target is always one of *)
(* the declared ones, whatever fails and however often Run and Resume are  *)
(* called (engine.go, Run and Resume).                                     *)
THEOREM TypeCorrect == Spec => []TypeOK
<1>1. IInv => TypeOK
  BY DEF IInv
<1> QED
  BY <1>1, Invariance, PTL

(* When Run reports success, every job it created is COMPLETED, but for    *)
(* those whose change of state was lost and the loss ignored.              *)
THEOREM SuccessIsSettled == Spec => []SuccessMeansSettled
<1>1. IInv => SuccessMeansSettled
  BY DEF IInv
<1> QED
  BY <1>1, Invariance, PTL

(* A success, of Run or of Resume, leaves the rows of every table that was *)
(* made anew or emptied, and whose tasks are cleaned one by one, in the    *)
(* target exactly once, whatever failed in this call and the calls before. *)
THEOREM SuccessIsExact == Spec => []PreparedSuccessIsExact
<1>1. IInv => PreparedSuccessIsExact
  BY RowsOfASuccess
<1> QED
  BY <1>1, Invariance, PTL

(* Pass two never comes to a foreign key before pass one has tried the     *)
(* primary key it refers to.                                               *)
THEOREM KeysComeFirst == Spec => []KeysBeforeReferences
<1>1. IInv => KeysBeforeReferences
  BY KeysOfPassTwo
<1> QED
  BY <1>1, Invariance, PTL

(* A successful Run leaves no table it planned UNLOGGED, unless it has     *)
(* warned that a conversion failed.                                        *)
THEOREM RunConvertsTables == Spec => []LoggedAfterRun
<1>1. IInv => LoggedAfterRun
  BY DEF IInv
<1> QED
  BY <1>1, Invariance, PTL
=============================================================================
