---------------------------- MODULE EnginePhases ----------------------------
(***************************************************************************)
(* Engine.Run and Engine.Resume as a sequence of phases: jobs are created, *)
(* tables prepared, rows copied, tables made LOGGED, keys and references   *)
(* added, row counts compared. An operator may start either whenever the   *)
(* engine is idle; it may fail, be cancelled or die between any two steps. *)
(*                                                                         *)
(* The copy of one task commits two batches. How workers share the tasks,  *)
(* retry a copy and reset chunks is DataMigration's subject.               *)
(***************************************************************************)
EXTENDS Integers, FiniteSets, SequencesExt

CONSTANTS
  Order,            (* the tables, those referred to first (topoSortTables)   *)
  Refs,             (* <<child, parent>>: the child has a FOREIGN KEY         *)
  Partitioned,      (* tables that are partitioned                            *)
  TaskOrder,        (* the data tasks                                         *)
  TableOf,          (* the table of each task                                 *)
  BatchRows,        (* rows of a batch of each task                           *)
  Threshold,        (* estimateThreshold (500000)                             *)
  Configs,          (* the configurations, with the state PostgreSQL is in    *)
  Faults, MaxFaults (* kinds of failure, and how many may happen              *)

Table == Range(Order)
Task == Range(TaskOrder)
Batch == {"batch 1", "batch 2"}
FaultKinds == {"pg", "store", "oracle", "cancel", "crash"}
Modes == {"recreate", "truncate", "append", "truncate_partition", "skip"}

Config == [mode : [Table -> Modes],
           free : SUBSET Table,         (* skip_constraints                           *)
           bare : SUBSET Table,         (* skip_constraints with index_mode skip      *)
           unchecked : SUBSET Table,    (* skip_validation                            *)
           filtered : SUBSET Table,     (* partition_filter or partition_range        *)
           split : BOOLEAN,             (* tasks of a table: sub-chunks of one partition *)
           hourly : BOOLEAN,            (* partitions that end on the same day        *)
           unlogged : BOOLEAN, validate : BOOLEAN,
           renamed : BOOLEAN,           (* naming_convention or name_overrides        *)
           stats : [Table -> Nat],      (* row counts in Oracle's statistics          *)
           existing : SUBSET Table]     (* tables PostgreSQL has, with rows of their own *)

ASSUME PhasesConstants ==
  /\ Order \in Seq(Table) /\ TaskOrder \in Seq(Task)
  /\ TableOf \in [Task -> Table] /\ BatchRows \in [Task -> Nat \ {0}]
  /\ Refs \subseteq Table \X Table /\ Partitioned \subseteq Table
  /\ Threshold \in Nat /\ MaxFaults \in Nat /\ Faults \subseteq FaultKinds
  /\ Configs \subseteq Config

VARIABLES
  conf,
  exists, whole,    (* tables of the target; those with all their partitions  *)
  logged, keys,     (* those that are LOGGED; those with a primary key        *)
  refs,             (* foreign keys of the target                             *)
  rows,             (* how often each batch of each task is in it (2: or more) *)
  old,              (* tables with rows that no task copies                   *)
  jobs,             (* state of each job of the latest run, or "none"         *)
  call,             (* "none", "run", "resume"                                *)
  pc, todo, at,     (* phase, jobs it has left, step of the first of them     *)
  cancelled,        (* ctx is cancelled                                       *)
  bad,              (* a task of the data phase has failed                    *)
  faults,           (* failures so far                                        *)
  result,           (* how the last call ended                                *)
  unsaved,          (* jobs whose new state could not be saved: error ignored *)
  warned,           (* tables whose last PRIMARY KEY failed: only a warning   *)
  unconverted       (* SET LOGGED failed: only a warning                      *)

target == <<exists, whole, logged, keys, refs, rows, old>>
history == <<unsaved, warned, unconverted>>
vars == <<conf, target, jobs, call, pc, todo, at, cancelled, bad, faults, result, history>>
-----------------------------------------------------------------------------
(* Jobs. A phase takes those of its list in the order of the plan: those of *)
(* the constraints come in the reverse order of the tables. ConvertToLogged *)
(* goes over tables, which are given a "job" of their own here.             *)

Job == ({"ddl", "constraints", "validate"} \X Table) \cup ({"data"} \X Task)

Planned(t) == conf.mode[t] # "skip"

JobsOf(phase) ==
  IF phase = "data" THEN {j \in {"data"} \X Task : Planned(TableOf[j[2]])}
  ELSE {j \in {phase} \X Table : phase = "constraints" \/ Planned(j[2])}

(* The jobs initJobs creates. *)
Created == JobsOf("ddl") \cup JobsOf("data") \cup JobsOf("constraints") \cup JobsOf("validate")

Kinds == <<"ddl", "data", "log", "constraints", "validate">>

Place(xs, x) == CHOOSE n \in DOMAIN xs : xs[n] = x

Earlier(i, j) ==
  LET xs == IF i[1] = "data" THEN TaskOrder ELSE Order
  IN  IF i[1] # j[1] THEN Place(Kinds, i[1]) < Place(Kinds, j[1])
      ELSE IF i[1] = "constraints" THEN Place(xs, i[2]) > Place(xs, j[2])
      ELSE Place(xs, i[2]) < Place(xs, j[2])

JobState == {"none", "PENDING", "RUNNING", "COMPLETED", "FAILED", "RETRYING", "SKIPPED"}

Pending(phase) == {j \in JobsOf(phase) : jobs[j] \in {"PENDING", "RETRYING"}}

(* Run asks for the latest run after it created its own, which has no job *)
(* that is done yet: nothing is skipped.                                  *)
CompletedBefore == {j \in Job : jobs[j] \in {"COMPLETED", "SKIPPED"}}

TableDone(t) ==
  LET mine == {k \in Task : TableOf[k] = t}
  IN  mine # {} /\ \A k \in mine : <<"data", k>> \in CompletedBefore

NewState(j) ==
  LET t == IF j[1] = "data" THEN TableOf[j[2]] ELSE j[2]
  IN  IF conf.mode[t] = "truncate_partition" /\ (IF j[1] = "data" THEN j \in CompletedBefore ELSE TableDone(t))
        THEN "SKIPPED" ELSE "PENDING"

Phases == {"extract", "init", "ddl", "data", "log", "keys", "references", "validate", "summary"}
Steps == {"claim", "look", "empty", "drop", "create", "divide", "key", "count", "save", "fail"} \cup Batch

TypeOK ==
  /\ conf \in Configs
  /\ exists \subseteq Table /\ whole \subseteq exists /\ logged \subseteq exists /\ keys \subseteq exists
  /\ old \subseteq exists /\ refs \subseteq Refs /\ rows \in [Task -> [Batch -> 0..2]]
  /\ jobs \in [Job -> JobState]
  /\ call \in {"none", "run", "resume"} /\ (call = "none") = (pc = "idle")
  /\ pc \in Phases \cup {"idle"} /\ at \in Steps
  /\ todo \subseteq Job \cup ({"log"} \X Table)
  /\ cancelled \in BOOLEAN /\ bad \in BOOLEAN /\ unconverted \in BOOLEAN
  /\ faults \in 0..MaxFaults
  /\ result \in {"none", "run done", "resume done", "error", "panic", "crash"}
  /\ unsaved \subseteq Job /\ warned \subseteq Table
-----------------------------------------------------------------------------
(* Statements. With a cancelled context every one of them fails. *)

Fails(kind) ==
  IF cancelled THEN UNCHANGED faults ELSE kind \in Faults /\ faults < MaxFaults /\ faults' = faults + 1

Works == ~cancelled /\ UNCHANGED faults

(* A statement of PostgreSQL fails, as it has to when it is impossible. *)
Refused(impossible) == Fails("pg") \/ (impossible /\ Works)

PartOf(k) == IF conf.split THEN TableOf[k] ELSE k
Empty == [b \in Batch |-> 0]
Emptied(ks) == [k \in Task |-> IF k \in ks THEN Empty ELSE rows[k]]
RowsOf(t) == {k \in Task : TableOf[k] = t}
HasRows(t) == \E k \in RowsOf(t) : rows[k] # Empty

(* Resume never calls SetNaming: it looks for the tables under their       *)
(* default names.                                                          *)
Sees(t) == t \in exists /\ (call = "resume" => ~conf.renamed)

Referenced(t) == \E r \in refs : r[2] = t /\ r[1] # t

(* PostgreSQL truncates no table another one refers to. *)
Truncates(t) == Sees(t) /\ ~Referenced(t)

(* The statements of one job follow one another, at is the next. *)
Step(next) == at' = next /\ UNCHANGED <<pc, todo>>

NextJob(j) == todo' = todo \ {j} /\ at' = "claim" /\ UNCHANGED pc

Return(how) ==
  /\ call' = "none" /\ pc' = "idle" /\ todo' = {} /\ at' = "claim" /\ bad' = FALSE
  /\ result' = how

(* Job j is the next of the phase. *)
First(phase, j) == pc = phase /\ j \in todo /\ \A i \in todo : ~Earlier(i, j)

Save(j, state) == jobs' = [jobs EXCEPT ![j] = state] /\ unsaved' = unsaved \ {j}
NotSaved(j) == unsaved' = unsaved \cup {j} /\ UNCHANGED jobs

(* SetFailed, whose own error is ignored. *)
MarkFailed(j) ==
  \/ Works /\ Save(j, "FAILED")
  \/ Fails("store") /\ NotSaved(j)

(* SetRunning, whose error ends the phase. *)
Claim(j, next) ==
  /\ at = "claim"
  /\ \/ Works /\ Save(j, "RUNNING") /\ Step(next) /\ UNCHANGED <<call, bad, result>>
     \/ Fails("store") /\ Return("error") /\ UNCHANGED <<jobs, unsaved>>
  /\ UNCHANGED <<conf, target, cancelled, warned, unconverted>>

(* SetCompleted at the end of a job: its error ends the phase too. *)
Complete(j) ==
  /\ at = "save"
  /\ \/ Works /\ Save(j, "COMPLETED") /\ NextJob(j) /\ UNCHANGED <<call, bad, result>>
     \/ Fails("store") /\ Return("error") /\ UNCHANGED <<jobs, unsaved>>
  /\ UNCHANGED <<conf, target, cancelled, warned, unconverted>>
-----------------------------------------------------------------------------
Init ==
  /\ conf \in Configs
  /\ exists = conf.existing /\ whole = exists /\ logged = exists /\ old = exists
  /\ keys = {} /\ refs = {} /\ rows = [k \in Task |-> Empty]
  /\ jobs = [j \in Job |-> "none"]
  /\ call = "none" /\ pc = "idle" /\ todo = {} /\ at = "claim"
  /\ cancelled = FALSE /\ bad = FALSE /\ faults = 0 /\ result = "none"
  /\ unsaved = {} /\ warned = {} /\ unconverted = FALSE

StartRun ==
  /\ call = "none"
  /\ \/ /\ UNCHANGED faults                                   (* CreateRun *)
        /\ jobs' = [j \in Job |-> "none"] /\ call' = "run" /\ pc' = "extract" /\ UNCHANGED result
        /\ unsaved' = {} /\ unconverted' = FALSE
     \/ /\ "store" \in Faults /\ faults < MaxFaults /\ faults' = faults + 1
        /\ result' = "error"
        /\ UNCHANGED <<jobs, call, pc, unsaved, unconverted>>
  /\ cancelled' = FALSE
  /\ UNCHANGED <<conf, target, todo, at, bad, warned>>

(* A bug: a state that no query asks for. *)
MisspeltMutant(state) == IF state \in {"FAILED", "RUNNING"} THEN "RETRY" ELSE state

Retried(state) == IF state \in {"FAILED", "RUNNING"} THEN "RETRYING" ELSE state

(* Resume takes the latest run as it finds it. *)
StartResume ==
  /\ call = "none" /\ result # "none"
  /\ \/ /\ UNCHANGED faults
        /\ jobs' = [j \in Job |-> Retried(jobs[j])] /\ call' = "resume" /\ pc' = "extract" /\ UNCHANGED result
     \/ /\ "store" \in Faults /\ faults < MaxFaults /\ faults' = faults + 1
        /\ result' = "error" /\ UNCHANGED <<jobs, call, pc>>
  /\ cancelled' = FALSE
  /\ UNCHANGED <<conf, target, todo, at, bad, history>>

(* Extract, BuildPlan and the resolution of chunks. *)
Extract ==
  /\ pc = "extract"
  /\ \/ /\ Works /\ UNCHANGED <<call, bad, result, at>>
        /\ IF call = "run" THEN pc' = "init" /\ todo' = Created ELSE pc' = "data" /\ todo' = Pending("data")
     \/ Fails("oracle") /\ Return("error")
  /\ UNCHANGED <<conf, target, jobs, cancelled, history>>

InitJob ==
  /\ \E j \in todo :
       /\ First("init", j)
       /\ \/ /\ Works /\ jobs' = [jobs EXCEPT ![j] = NewState(j)] /\ NextJob(j)
             /\ UNCHANGED <<call, bad, result>>
          \/ Fails("store") /\ Return("error") /\ UNCHANGED jobs
  /\ UNCHANGED <<conf, target, cancelled, history>>

(* The phases in turn; the first thing each does is to read its jobs. Pass  *)
(* two of the constraints goes over the jobs pass one has claimed.          *)
Following ==
  CASE pc = "init" -> "ddl"
    [] pc = "ddl" -> "data"
    [] pc = "data" -> IF call = "run" /\ conf.unlogged THEN "log" ELSE "keys"
    [] pc = "log" -> "keys"
    [] pc = "keys" -> "references"
    [] pc = "references" -> IF call = "run" /\ conf.validate THEN "validate" ELSE "summary"
    [] OTHER -> "summary"

Claimed == {j \in JobsOf("constraints") : jobs[j] = "RUNNING"}

(* A bug: only tables that are always made anew are converted. *)
RecreatedOnlyMutant(phase) ==
  CASE phase = "log" -> {j \in JobsOf("log") : conf.mode[j[2]] = "recreate"}
    [] phase = "keys" -> Pending("constraints")
    [] phase = "references" -> Claimed
    [] phase = "summary" -> {}
    [] OTHER -> Pending(phase)

ListOf(phase) ==
  CASE phase = "log" -> JobsOf("log")
    [] phase = "keys" -> Pending("constraints")
    [] phase = "references" -> Claimed
    [] phase = "summary" -> {}
    [] OTHER -> Pending(phase)

NextPhase ==
  /\ pc \in {"init", "ddl", "data", "log", "keys", "references", "validate"} /\ todo = {}
  /\ \/ /\ ~bad
        /\ Following \in {"log", "references", "summary"} \/ ~cancelled
        /\ pc' = Following /\ todo' = ListOf(Following)
        /\ UNCHANGED <<at, call, bad, result, faults>>
     \/ bad /\ Return("error") /\ UNCHANGED faults
     \/ ~bad /\ Following \notin {"log", "references", "summary"} /\ Fails("store") /\ Return("error")
  /\ UNCHANGED <<conf, target, jobs, cancelled, history>>
-----------------------------------------------------------------------------
(* executeDDL: one job after another; the first failure ends the phase. *)

FailDDL ==
  /\ \E j \in todo : First("ddl", j) /\ at = "fail" /\ MarkFailed(j) /\ Return("error")
  /\ UNCHANGED <<conf, target, cancelled, warned, unconverted>>

StatementLeft == UNCHANGED <<conf, jobs, call, cancelled, bad, result, history>>

(* The existence check; in the truncate modes its error counts as "no". *)
Look(t) ==
  /\ at = "look"
  /\ LET mode == conf.mode[t]
     IN  \/ mode = "recreate" /\ Step("drop") /\ UNCHANGED faults
         \/ mode # "recreate" /\ t \notin exists /\ Works /\ Step("create")
         \/ mode # "recreate" /\ t \in exists /\ Works /\ Step(IF mode = "truncate" THEN "empty" ELSE "save")
         \/ mode = "append" /\ Fails("pg") /\ Step("fail")
         \/ mode \in {"truncate", "truncate_partition"} /\ Fails("pg") /\ Step("create")
  /\ StatementLeft /\ UNCHANGED target

TruncateTable(t) ==
  /\ at = "empty"
  /\ \/ /\ Truncates(t) /\ Works /\ Step("save")
        /\ rows' = Emptied(RowsOf(t)) /\ old' = old \ {t}
     \/ Refused(~Truncates(t)) /\ Step("fail") /\ UNCHANGED <<rows, old>>
  /\ StatementLeft /\ UNCHANGED <<exists, whole, logged, keys, refs>>

(* A bug: DROP TABLE without IF EXISTS. *)
DropExistingMutant(t) ==
  /\ at = "drop"
  /\ \/ /\ t \in exists /\ Works /\ Step("create")
        /\ exists' = exists \ {t} /\ whole' = whole \ {t} /\ logged' = logged \ {t} /\ keys' = keys \ {t}
        /\ refs' = {r \in refs : t \notin {r[1], r[2]}}
        /\ rows' = Emptied(RowsOf(t)) /\ old' = old \ {t}
     \/ Refused(t \notin exists) /\ Step("fail") /\ UNCHANGED target
  /\ StatementLeft

(* DROP TABLE IF EXISTS ... CASCADE takes the foreign keys along. *)
DropTable(t) ==
  /\ at = "drop"
  /\ \/ /\ Works /\ Step("create")
        /\ exists' = exists \ {t} /\ whole' = whole \ {t} /\ logged' = logged \ {t} /\ keys' = keys \ {t}
        /\ refs' = {r \in refs : t \notin {r[1], r[2]}}
        /\ rows' = Emptied(RowsOf(t)) /\ old' = old \ {t}
     \/ Fails("pg") /\ Step("fail") /\ UNCHANGED target
  /\ StatementLeft

CreateTable(t) ==
  /\ at = "create"
  /\ \/ /\ t \notin exists /\ Works /\ Step(IF t \in Partitioned THEN "divide" ELSE "save")
        /\ exists' = exists \cup {t}
        /\ whole' = IF t \in Partitioned THEN whole ELSE whole \cup {t}
        /\ logged' = IF conf.unlogged THEN logged ELSE logged \cup {t}
     \/ /\ Refused(t \in exists)
        /\ Step("fail") /\ UNCHANGED <<exists, whole, logged>>
  /\ StatementLeft /\ UNCHANGED <<keys, refs, rows, old>>

(* BuildPartitionBounds keeps the date of a HIGH_VALUE only: partitions that *)
(* end on one day get an empty range, which PostgreSQL refuses.              *)
BoundsFit(t) == t \in Partitioned => ~conf.hourly

CreatePartitions(t) ==
  /\ at = "divide"
  /\ \/ BoundsFit(t) /\ Works /\ whole' = whole \cup {t} /\ Step("save")
     \/ Refused(~BoundsFit(t)) /\ Step("fail") /\ UNCHANGED whole
  /\ StatementLeft /\ UNCHANGED <<exists, logged, keys, refs, rows, old>>

ExecuteDDL ==
  \E j \in todo :
    /\ First("ddl", j)
    /\ \/ Claim(j, "look") \/ Look(j[2]) \/ TruncateTable(j[2]) \/ DropTable(j[2])
       \/ CreateTable(j[2]) \/ CreatePartitions(j[2]) \/ Complete(j)
-----------------------------------------------------------------------------
(* executeDataMigration. A task that fails does not stop the others. *)

IsSub(k) == conf.split /\ TableOf[k] \in Partitioned

(* A bug: the cleanup before a retry forgotten. *)
NoCleanupMutant(k) == {}

(* Rows removed before a task is copied. *)
Cleaned(k) ==
  LET t == TableOf[k]
      retry == jobs[<<"data", k>>] = "RETRYING"
  IN  IF ~Truncates(t) \/ t \notin whole THEN {}
      ELSE IF retry /\ IsSub(k) THEN {}
      ELSE IF t \in Partitioned
        THEN IF retry \/ conf.mode[t] = "truncate_partition" THEN {i \in RowsOf(t) : PartOf(i) = PartOf(k)} ELSE {}
      ELSE IF retry THEN RowsOf(t) ELSE {}

ClaimTask(k) ==
  /\ at = "claim"
  /\ \/ /\ Works /\ Save(<<"data", k>>, "RUNNING") /\ Step("batch 1")
        /\ rows' = Emptied(Cleaned(k))
        /\ old' = IF Cleaned(k) # {} /\ TableOf[k] \notin Partitioned THEN old \ {TableOf[k]} ELSE old
        /\ UNCHANGED bad
     \/ Fails("store") /\ NextJob(<<"data", k>>) /\ bad' = TRUE /\ UNCHANGED <<jobs, unsaved, rows, old>>
  /\ UNCHANGED <<conf, exists, whole, logged, keys, refs, call, cancelled, result, warned, unconverted>>

(* A batch can be added unless the table, or its partition, is not there or *)
(* has its rows under a primary key.                                        *)
Accepts(k, b) ==
  LET t == TableOf[k]
  IN  Sees(t) /\ t \in whole /\ (t \in keys => rows[k][b] = 0)

CopyBatch(k) ==
  /\ at \in Batch
  /\ \/ /\ Accepts(k, at) /\ Works /\ Step(IF at = "batch 1" THEN "batch 2" ELSE "save")
        /\ rows' = [rows EXCEPT ![k][at] = IF @ = 2 THEN 2 ELSE @ + 1]
     \/ Refused(~Accepts(k, at)) /\ Step("fail") /\ UNCHANGED rows
  /\ StatementLeft /\ UNCHANGED <<exists, whole, logged, keys, refs, old>>

EndTask(k) ==
  /\ \/ /\ at = "save" /\ Works /\ Save(<<"data", k>>, "COMPLETED") /\ UNCHANGED bad
     \/ /\ at = "save" /\ Fails("store") /\ UNCHANGED <<jobs, unsaved>> /\ bad' = TRUE
     \/ /\ at = "fail" /\ MarkFailed(<<"data", k>>) /\ bad' = TRUE
  /\ NextJob(<<"data", k>>)
  /\ UNCHANGED <<conf, target, call, cancelled, result, warned, unconverted>>

(* Workers see that ctx is cancelled and leave; Run of the pool may report *)
(* no error.                                                               *)
LeaveTasks ==
  /\ pc = "data" /\ todo # {} /\ at = "claim" /\ cancelled
  /\ todo' = {}
  /\ UNCHANGED <<conf, target, jobs, call, pc, at, cancelled, bad, faults, result, history>>

ExecuteData ==
  \E j \in todo : First("data", j) /\ (ClaimTask(j[2]) \/ CopyBatch(j[2]) \/ EndTask(j[2]))

(* ConvertToLogged stops at the first table it cannot convert; PostgreSQL  *)
(* lets no LOGGED table refer to an UNLOGGED one.                          *)
TakesLogged(t) == \A r \in refs : r[1] = t => r[2] \in logged \cup {t}

ConvertToLogged ==
  /\ \E j \in todo :
       /\ First("log", j)
       /\ \/ TakesLogged(j[2]) /\ Works /\ logged' = logged \cup {j[2]} /\ NextJob(j) /\ UNCHANGED unconverted
          \/ Refused(~TakesLogged(j[2])) /\ unconverted' = TRUE /\ todo' = {} /\ UNCHANGED <<pc, at, logged>>
  /\ UNCHANGED <<conf, exists, whole, keys, refs, rows, old, jobs, call, cancelled, bad, result, unsaved, warned>>
-----------------------------------------------------------------------------
(* executeConstraints, pass one: primary keys (and indexes, not modelled). *)
(* An error is only a warning.                                             *)

(* Bare tables, and tables that are not validated: SetCompleted, whose error *)
(* is ignored here.                                                          *)
SkipJob(j) ==
  /\ at = "claim"
  /\ (Works /\ Save(j, "COMPLETED")) \/ (Fails("store") /\ NotSaved(j))
  /\ NextJob(j)
  /\ UNCHANGED <<conf, target, call, cancelled, bad, result, warned, unconverted>>

TakesKey(t) == Sees(t) /\ t \notin keys /\ \A k \in RowsOf(t), b \in Batch : rows[k][b] < 2

CreatePrimaryKey(j) ==
  /\ at = "key" /\ NextJob(j)
  /\ \/ TakesKey(j[2]) /\ Works /\ keys' = keys \cup {j[2]} /\ warned' = warned \ {j[2]}
     \/ /\ Refused(~TakesKey(j[2]))
        /\ warned' = IF j[2] \in keys THEN warned ELSE warned \cup {j[2]}
        /\ UNCHANGED keys
  /\ UNCHANGED <<conf, exists, whole, logged, refs, rows, old, jobs, call, cancelled, bad, result, unsaved, unconverted>>

(* A bug: skip_constraints alone leaves the primary key out too. *)
KeylessMutant ==
  \E j \in todo :
    /\ First("keys", j)
    /\ \/ j[2] \in conf.free /\ SkipJob(j)
       \/ j[2] \notin conf.free /\ (Claim(j, "key") \/ CreatePrimaryKey(j))

PassOne ==
  \E j \in todo :
    /\ First("keys", j)
    /\ \/ j[2] \in conf.bare /\ SkipJob(j)
       \/ j[2] \notin conf.bare /\ (Claim(j, "key") \/ CreatePrimaryKey(j))

(* Pass two: foreign keys. A constraint that exists already is left alone. *)
RefsOf(t) == {r \in Refs : r[1] = t}

TakesRefs(t) ==
  RefsOf(t) # {} => Sees(t) /\ \A r \in RefsOf(t) \ refs : r[2] \in keys /\ (t \in logged => r[2] \in logged)

CreateFKs(t) ==
  /\ at = "claim"
  /\ \/ t \in conf.free /\ Step("save") /\ UNCHANGED <<refs, faults>>
     \/ t \notin conf.free /\ TakesRefs(t) /\ Works /\ Step("save") /\ refs' = refs \cup RefsOf(t)
     \/ /\ t \notin conf.free
        /\ Refused(~TakesRefs(t))
        /\ Step("fail") /\ UNCHANGED refs
  /\ StatementLeft /\ UNCHANGED <<exists, whole, logged, keys, rows, old>>

(* A job of this phase, or of the validation, has failed: on with the next. *)
FailJob(j) ==
  /\ at = "fail" /\ MarkFailed(j) /\ NextJob(j)
  /\ UNCHANGED <<conf, target, call, cancelled, bad, result, warned, unconverted>>

PassTwo ==
  \E j \in todo : First("references", j) /\ (CreateFKs(j[2]) \/ Complete(j) \/ FailJob(j))
-----------------------------------------------------------------------------
(* executeValidation. *)

SumOver(ks, f(_)) == MapThenFoldSet(+, 0, f, LAMBDA S : CHOOSE x \in S : TRUE, ks)

SourceRows(k) == 2 * BatchRows[k]
TargetRows(k) == (rows[k]["batch 1"] + rows[k]["batch 2"]) * BatchRows[k]

(* A task of a filtered table is counted by its partition, once for each   *)
(* sub-chunk of it.                                                        *)
PartitionRows(k) == SumOver({i \in RowsOf(TableOf[k]) : PartOf(i) = PartOf(k)}, SourceRows)

Copied(t) == SumOver({k \in RowsOf(t) : jobs[<<"data", k>>] = "COMPLETED"}, SourceRows)

OracleCount(t, copied) ==
  IF t \in conf.filtered THEN SumOver(RowsOf(t), PartitionRows)
  ELSE IF copied > Threshold /\ conf.stats[t] > 0 THEN conf.stats[t]
  ELSE SumOver(RowsOf(t), SourceRows)

PgCount(t) == SumOver(RowsOf(t), TargetRows) + (IF t \in old THEN 1 ELSE 0)

Larger(x, y) == IF x > y THEN x ELSE y
Distance(x, y) == IF x > y THEN x - y ELSE y - x

Matches(t, copied) ==
  LET ora == OracleCount(t, copied)
      pg == PgCount(t)
  IN  Distance(ora, pg) <= IF copied > Threshold THEN Larger(ora, pg) \div 100 ELSE 0

CountRows(t) ==
  LET verdict(copied) == IF t \in exists /\ Matches(t, copied) THEN "save" ELSE "fail"
  IN  /\ at = "count"
      /\ \/ Fails("oracle") /\ Step("fail")
         \/ Fails("pg") /\ Step("fail")
         \/ Works /\ Step(verdict(Copied(t)))
         \/ ~cancelled /\ Fails("store") /\ Step(verdict(0))   (* the jobs could not be read *)
      /\ StatementLeft /\ UNCHANGED target

Validate ==
  \E j \in todo :
    /\ First("validate", j)
    /\ \/ j[2] \in conf.unchecked /\ SkipJob(j)
       \/ j[2] \notin conf.unchecked /\ (Claim(j, "count") \/ CountRows(j[2]) \/ Complete(j) \/ FailJob(j))
-----------------------------------------------------------------------------
(* The end. GetRunSummary's error is ignored and its nil result used.       *)
(* Resume does not look at the number of failed jobs.                       *)
(* A bug: only the data jobs are counted. *)
DataOnlyMutant(how) == how = "run" /\ \E k \in Task : jobs[<<"data", k>>] = "FAILED"

SummaryFails(how) == how = "run" /\ \E j \in Job : jobs[j] = "FAILED"

Summary ==
  /\ pc = "summary"
  /\ \/ Works /\ Return(IF SummaryFails(call) THEN "error" ELSE IF call = "run" THEN "run done" ELSE "resume done")
     \/ Fails("store") /\ Return("panic")
  /\ UNCHANGED <<conf, target, jobs, cancelled, history>>

Cancel ==
  /\ call # "none" /\ ~cancelled
  /\ "cancel" \in Faults /\ faults < MaxFaults
  /\ cancelled' = TRUE /\ faults' = faults + 1
  /\ UNCHANGED <<conf, target, jobs, call, pc, todo, at, bad, result, history>>

(* The process dies: nothing of the engine is left but the store. *)
Crash ==
  /\ call # "none"
  /\ "crash" \in Faults /\ faults < MaxFaults
  /\ Return("crash") /\ faults' = faults + 1
  /\ UNCHANGED <<conf, target, jobs, cancelled, history>>

EngineStep ==
  \/ Extract \/ InitJob \/ NextPhase
  \/ ExecuteDDL \/ FailDDL
  \/ ExecuteData \/ LeaveTasks
  \/ ConvertToLogged \/ PassOne \/ PassTwo \/ Validate
  \/ Summary

Next == StartRun \/ StartResume \/ EngineStep \/ Cancel \/ Crash

Spec == Init /\ [][Next]_vars

(* The engine goes on while it can; the operator never gives up on Run.     *)
FairSpec == Spec /\ WF_vars(EngineStep) /\ SF_vars(StartRun)
-----------------------------------------------------------------------------
(* When Run reports success every job of the run is COMPLETED, except those *)
(* whose change of state was lost and the loss ignored (engine.go:939, 988, *)
(* 1087). A FAILED constraint or validation makes Run report an error.      *)
SuccessMeansSettled ==
  result = "run done" /\ call = "none" =>
    \A j \in Created :
      (j[1] = "validate" => conf.validate) => jobs[j] = "COMPLETED" \/ j \in unsaved

(* The retry of a task of this table removes the rows of no other task.    *)
TaskByTask(t) == IF t \in Partitioned THEN ~conf.split ELSE \A k, l \in RowsOf(t) : k = l

(* After a success, be it of Run or of Resume, a table that is to be made   *)
(* anew or emptied holds exactly the rows of its tasks, whatever failed on  *)
(* the way, if its DDL job was done and its tasks are cleaned one by one.   *)
(* (Without that job Resume copies into whatever table is there; sub-chunks *)
(* are not cleaned at all, and the chunks of another table all at once.)    *)
PreparedSuccessIsExact ==
  result \in {"run done", "resume done"} /\ call = "none" =>
    \A t \in Table :
      jobs[<<"ddl", t>>] = "COMPLETED" /\ conf.mode[t] \in {"recreate", "truncate"} /\ TaskByTask(t)
        => t \notin old /\ \A k \in RowsOf(t), b \in Batch : rows[k][b] = 1

(* Pass two finds the primary keys its foreign keys refer to: when one is   *)
(* missing, its creation was tried and failed with a warning, or the        *)
(* configuration leaves it out, or initJobs had not come to the job of the  *)
(* table ("This ensures referenced PKs exist before FKs are created",       *)
(* engine.go:892).                                                          *)
KeysBeforeReferences ==
  pc = "references" =>
    \A j \in todo : \A r \in RefsOf(j[2]) :
      r[2] \in keys \cup warned \cup conf.bare \/ jobs[<<"constraints", r[2]>>] = "none"

(* When Run reports success no table it planned is left UNLOGGED, unless a  *)
(* conversion failed and was only warned about, whatever state earlier runs *)
(* and resumes left the tables in.                                          *)
LoggedAfterRun ==
  result = "run done" /\ call = "none" => unconverted \/ \A t \in Table : Planned(t) => t \in logged

(* Why no Run can succeed any more, although nothing fails by chance:       *)
(* partition bounds that collapse to a day; a table created without its     *)
(* partitions and not made anew; TRUNCATE of a table another one refers to; *)
(* rows of an earlier run that are not removed first, under a primary key   *)
(* or counted by the validation; a filtered table counted by sub-chunk;     *)
(* statistics that are off by more than a percent; a foreign key to a table *)
(* that is not given a primary key, or between tables that are not there.   *)
Keeps(t) ==
  conf.mode[t] \in {"append", "truncate_partition"}
  /\ ~(conf.mode[t] = "truncate_partition" /\ t \in Partitioned /\ ~Referenced(t) /\ ~conf.split)

Checked(t) == Planned(t) /\ conf.validate /\ t \notin conf.unchecked

(* What the validation finds when every row is there once.                  *)
Agrees(t) ==
  LET n == SumOver(RowsOf(t), SourceRows)
      ora == IF n > Threshold /\ conf.stats[t] > 0 /\ t \notin conf.filtered THEN conf.stats[t] ELSE n
      pg == n + IF t \in old /\ conf.mode[t] \notin {"recreate", "truncate"} THEN 1 ELSE 0
  IN  Distance(ora, pg) <= IF n > Threshold THEN Larger(ora, pg) \div 100 ELSE 0

Blocked ==
  \E t \in Table :
    \/ Planned(t) /\ ~BoundsFit(t)
    \/ Planned(t) /\ conf.mode[t] # "recreate" /\ t \in exists \ whole
    \/ conf.mode[t] = "truncate" /\ Referenced(t)
    \/ Keeps(t) /\ HasRows(t) /\ (t \in keys \/ Checked(t))
    \/ Checked(t) /\ conf.split /\ t \in conf.filtered
    \/ Checked(t) /\ ~Agrees(t)
    \/ t \notin conf.free /\ \E r \in RefsOf(t) \ refs :
         \/ r[2] \in conf.bare \ keys
         \/ {x \in {t, r[2]} : ~Planned(x)} \ exists # {}

(* Whatever failed before, however often, and whatever it left behind in    *)
(* the target and in the store: an operator who goes on starting Run gets a *)
(* success, unless one of these reasons stands.                             *)
RunAgainSucceeds == []<>(Blocked \/ result = "run done")
=============================================================================
