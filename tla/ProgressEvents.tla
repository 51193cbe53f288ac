--------------------------- MODULE ProgressEvents ---------------------------
(***************************************************************************)
(* How the progress of a run is told: workers log messages, the            *)
(* progressLogHandler turns those it knows into events, chunkAggregator    *)
(* and chunkStatsAggregator sum up the chunks of a table or partition, and *)
(* throttledSend drops what comes too often. GetJobs tells the state of    *)
(* the same tasks from the job store.                                      *)
(*                                                                         *)
(* A group is what the user sees as one line: a partition or table, or all *)
(* its chunks. What happens between two Ticks happens within a second.     *)
(***************************************************************************)
EXTENDS Integers, FiniteSets, FiniteSetsExt

CONSTANTS
  Worker, Task, Group, Table,
  GroupOf,             (* the group of each task                              *)
  TableOf,             (* the table of each group                             *)
  Chunked,             (* groups whose tasks are chunks                       *)
  Batches,             (* batches of a task; a batch is one row               *)
  MaxFails, MaxResumes (* bounds: failed tasks, resumptions                   *)

TasksOf(g) == {k \in Task : GroupOf[k] = g}

ASSUME ProgressConstants ==
  /\ GroupOf \in [Task -> Group] /\ TableOf \in [Group -> Table] /\ Chunked \subseteq Group
  /\ Batches \in Nat \ {0} /\ MaxFails \in Nat /\ MaxResumes \in Nat
  /\ IsFiniteSet(Task) /\ \A g \in Group \ Chunked : Cardinality(TasksOf(g)) = 1

VARIABLES
  job,        (* state of each data job in the store                          *)
  written,    (* rows of each task in the target                              *)
  mine,       (* the tasks of this call of Run or Resume                      *)
  work,       (* the task each worker is at, if any: [task, at]               *)
  hold,       (* the event each worker is about to send, if any               *)
  agg,        (* chunkAggregator: the state of each chunked group             *)
  stats,      (* chunkStatsAggregator: rows of finished chunks, of each group *)
  statsTold,  (* pipelineStats: rows of the last STATS event                  *)
  logged,     (* tasks whose progress was logged since the last Tick          *)
  throttled,  (* tables that sent a RUNNING event since the last Tick         *)
  last,       (* the last event sent for each group                           *)
  told,       (* the most tasks a COMPLETED event has told of, for each group *)
  fails, resumes

storeVars == <<job, written>>
aggVars == <<agg, stats>>
sentVars == <<statsTold, throttled, last, told>>
boundVars == <<fails, resumes>>
vars == <<storeVars, mine, work, hold, aggVars, logged, sentVars, boundVars>>

JobState == {"PENDING", "RUNNING", "COMPLETED", "FAILED", "RETRYING", "SKIPPED"}
Count == 0..Cardinality(Task)
Rows == 0..(Batches * Cardinality(Task))
Event == [group : Group, state : {"RUNNING", "COMPLETED", "FAILED", "STATS"}, rows : Rows, done : Count]
Aggregate == [rows : [Task -> 0..Batches], running : Count, total : Count, done : Count, failed : Count, recent : BOOLEAN]

NewAggregate == [rows |-> [k \in Task |-> 0], running |-> 0, total |-> 0, done |-> 0, failed |-> 0, recent |-> FALSE]
NewStats == [rows |-> 0, recent |-> FALSE]

TypeOK ==
  /\ job \in [Task -> JobState] /\ written \in [Task -> 0..Batches] /\ mine \subseteq Task
  /\ \A w \in Worker : /\ work[w] \subseteq [task : Task, at : {"claim", "copy", "save", "tell"}]
                        /\ hold[w] \subseteq Event
                        /\ Cardinality(work[w]) <= 1 /\ Cardinality(hold[w]) <= 1
  /\ agg \in [Group -> Aggregate] /\ stats \in [Group -> [rows : Rows, recent : BOOLEAN]]
  /\ statsTold \in [Group -> Rows] /\ logged \subseteq Task /\ throttled \subseteq Table
  /\ \A g \in Group : last[g] \subseteq Event
  /\ told \in [Group -> Count] /\ fails \in 0..MaxFails /\ resumes \in 0..MaxResumes
-----------------------------------------------------------------------------
(* chunkAggregator and chunkStatsAggregator. *)

Total(rows) == MapThenSumSet(LAMBDA k : rows[k], Task)

Minus(n) == IF n > 0 THEN n - 1 ELSE n

(* A bug: the rows a chunk reports added up, though each report counts from  *)
(* the start of the chunk.                                                   *)
CumulativeMutant(a, k, e) ==
  CASE e.state = "RUNNING" /\ e.rows > 0 ->
         [a EXCEPT !.rows[k] = @ + e.rows]
    [] e.state = "RUNNING" /\ e.rows = 0 -> [a EXCEPT !.running = @ + 1, !.total = @ + 1]
    [] e.state = "COMPLETED" ->
         [a EXCEPT !.done = @ + 1, !.running = Minus(@), !.rows[k] = IF e.rows > 0 THEN e.rows ELSE @]
    [] e.state = "FAILED" -> [a EXCEPT !.failed = @ + 1, !.running = Minus(@)]

(* A bug: a chunk counted only when no other is running. *)
FirstOnlyMutant(a, k, e) ==
  CASE e.state = "RUNNING" /\ e.rows > 0 -> [a EXCEPT !.rows[k] = e.rows]
    [] e.state = "RUNNING" /\ e.rows = 0 ->
         [a EXCEPT !.running = @ + 1, !.total = IF a.running = 0 THEN @ + 1 ELSE @]
    [] e.state = "COMPLETED" ->
         [a EXCEPT !.done = @ + 1, !.running = Minus(@), !.rows[k] = IF e.rows > 0 THEN e.rows ELSE @]
    [] e.state = "FAILED" -> [a EXCEPT !.failed = @ + 1, !.running = Minus(@)]

(* A bug: a report of progress counted as a new chunk. *)
ProgressStartsMutant(a, k, e) ==
  CASE e.state = "RUNNING" ->
         [a EXCEPT !.running = @ + 1, !.total = @ + 1, !.rows[k] = IF e.rows > 0 THEN e.rows ELSE @]
    [] e.state = "COMPLETED" ->
         [a EXCEPT !.done = @ + 1, !.running = Minus(@), !.rows[k] = IF e.rows > 0 THEN e.rows ELSE @]
    [] e.state = "FAILED" -> [a EXCEPT !.failed = @ + 1, !.running = Minus(@)]

(* A RUNNING event without rows is the start of a chunk, one with rows its  *)
(* progress.                                                                *)
Counted(a, k, e) ==
  CASE e.state = "RUNNING" /\ e.rows > 0 -> [a EXCEPT !.rows[k] = e.rows]
    [] e.state = "RUNNING" /\ e.rows = 0 -> [a EXCEPT !.running = @ + 1, !.total = @ + 1]
    [] e.state = "COMPLETED" ->
         [a EXCEPT !.done = @ + 1, !.running = Minus(@), !.rows[k] = IF e.rows > 0 THEN e.rows ELSE @]
    [] e.state = "FAILED" -> [a EXCEPT !.failed = @ + 1, !.running = Minus(@)]

AllDone(a) == a.total > 0 /\ a.done + a.failed = a.total

(* A bug: the last event is throttled like any other. *)
AlwaysThrottledMutant(a, e) == e.state = "FAILED" \/ ~a.recent

Emits(a, e) == AllDone(a) \/ e.state = "FAILED" \/ ~a.recent

BuildEvent(g, a) ==
  [group |-> g, rows |-> Total(a.rows), done |-> a.done,
   state |-> IF ~AllDone(a) THEN "RUNNING" ELSE IF a.failed > 0 THEN "FAILED" ELSE "COMPLETED"]

Update(w, k, e) ==
  LET g == e.group
      a == Counted(agg[g], k, e)
  IN  /\ agg' = [agg EXCEPT ![g] = IF Emits(a, e) THEN [a EXCEPT !.recent = TRUE] ELSE a]
      /\ hold' = [hold EXCEPT ![w] = IF Emits(a, e) THEN {BuildEvent(g, a)} ELSE {}]
      /\ UNCHANGED stats

UpdateStats(w, e) ==
  LET g == e.group
      n == stats[g].rows + e.rows
  IN  /\ stats' = [stats EXCEPT ![g] = [rows |-> n, recent |-> TRUE]]
      /\ hold' = [hold EXCEPT ![w] = IF stats[g].recent THEN {} ELSE {[e EXCEPT !.rows = n]}]
      /\ UNCHANGED agg
-----------------------------------------------------------------------------
(* progressLogHandler.Handle: messages are recognised by their whole text, *)
(* and no worker logs "task failed" alone (worker.go:93).                  *)

StateOf(msg) ==
  CASE msg \in {"worker starting task", "progress"} -> "RUNNING"
    [] msg = "worker completed task" -> "COMPLETED"
    [] msg = "pipeline stats" -> "STATS"
    [] msg = "task failed" -> "FAILED"
    [] OTHER -> "none"

Handle(w, msg, k, n) ==
  LET g == GroupOf[k]
      e == [group |-> g, state |-> StateOf(msg), rows |-> n, done |-> IF StateOf(msg) = "COMPLETED" THEN 1 ELSE 0]
  IN  IF e.state = "none" THEN UNCHANGED <<hold, aggVars>>
      ELSE IF g \notin Chunked THEN hold' = [hold EXCEPT ![w] = {e}] /\ UNCHANGED aggVars
      ELSE IF e.state = "STATS" THEN UpdateStats(w, e)
      ELSE Update(w, k, e)

(* throttledSend and the broadcast. The event was built under the lock of  *)
(* the aggregator, but is sent after it.                                   *)
Send(w) ==
  /\ hold' = [hold EXCEPT ![w] = {}]
  /\ \E e \in hold[w] :
       LET t == TableOf[e.group]
       IN  IF e.state = "RUNNING" /\ t \in throttled THEN UNCHANGED sentVars
           ELSE /\ throttled' = IF e.state = "RUNNING" THEN throttled \cup {t} ELSE throttled
                /\ statsTold' = IF e.state = "STATS" THEN [statsTold EXCEPT ![e.group] = e.rows] ELSE statsTold
                /\ last' = [last EXCEPT ![e.group] = {e}]
                /\ told' = IF e.state = "COMPLETED" /\ e.done > told[e.group]
                             THEN [told EXCEPT ![e.group] = e.done] ELSE told
  /\ UNCHANGED <<storeVars, mine, work, aggVars, logged, boundVars>>
-----------------------------------------------------------------------------
(* Workers. *)

At(w, k, at) == work[w] = {[task |-> k, at |-> at]} /\ hold[w] = {}
Goes(w, k, at) == work' = [work EXCEPT ![w] = {[task |-> k, at |-> at]}]
Ends(w) == work' = [work EXCEPT ![w] = {}]
Idle(w) == work[w] = {} /\ hold[w] = {}
Waiting(k) == /\ job[k] \in {"PENDING", "RETRYING"} /\ k \in mine
              /\ \A w \in Worker : \A t \in work[w] : t.task # k

Start(w, k) ==
  /\ Idle(w) /\ Waiting(k) /\ Goes(w, k, "claim")
  /\ Handle(w, "worker starting task", k, 0)
  /\ UNCHANGED <<storeVars, mine, logged, sentVars, boundVars>>

(* SetRunning; a retried task starts with an empty target. *)
Claim(w, k) ==
  /\ At(w, k, "claim") /\ Goes(w, k, "copy")
  /\ job' = [job EXCEPT ![k] = "RUNNING"] /\ written' = [written EXCEPT ![k] = 0]
  /\ UNCHANGED <<mine, hold, aggVars, logged, sentVars, boundVars>>

(* progressFn logs at most once in a second for a task. *)
CopyBatch(w, k) ==
  /\ At(w, k, "copy") /\ written[k] < Batches
  /\ written' = [written EXCEPT ![k] = @ + 1]
  /\ IF k \in logged THEN UNCHANGED <<hold, aggVars>> ELSE Handle(w, "progress", k, written[k] + 1)
  /\ logged' = logged \cup {k}
  /\ UNCHANGED <<job, mine, work, sentVars, boundVars>>

CopyDone(w, k) ==
  /\ At(w, k, "copy") /\ written[k] = Batches /\ Goes(w, k, "save")
  /\ Handle(w, "pipeline stats", k, written[k])
  /\ UNCHANGED <<storeVars, mine, logged, sentVars, boundVars>>

Save(w, k) ==
  /\ At(w, k, "save") /\ Goes(w, k, "tell")
  /\ job' = [job EXCEPT ![k] = "COMPLETED"]
  /\ UNCHANGED <<written, mine, hold, aggVars, logged, sentVars, boundVars>>

Tell(w, k) ==
  /\ At(w, k, "tell") /\ Ends(w)
  /\ Handle(w, "worker completed task", k, 0)
  /\ UNCHANGED <<storeVars, mine, logged, sentVars, boundVars>>

(* The copy, or a write to the store, fails. SetFailed may fail as well.    *)
Fail(w, k) ==
  /\ \E at \in {"copy", "save"} : At(w, k, at)
  /\ fails < MaxFails /\ fails' = fails + 1
  /\ Ends(w)
  /\ \E state \in {"FAILED", "RUNNING"} : job' = [job EXCEPT ![k] = state]
  /\ Handle(w, "task failed, continuing with remaining tasks", k, 0)
  /\ UNCHANGED <<written, mine, logged, sentVars, resumes>>

(* Resume: a new engine with a logger of its own; newProgressLogger forgets *)
(* the statistics of every project.                                         *)
Resume ==
  /\ resumes < MaxResumes /\ resumes' = resumes + 1
  /\ \A w \in Worker : Idle(w)
  /\ \E k \in Task : job[k] # "COMPLETED"
  /\ job' = [k \in Task |-> IF job[k] \in {"FAILED", "RUNNING"} THEN "RETRYING" ELSE job[k]]
  /\ mine' = {k \in Task : job[k] # "COMPLETED"}
  /\ agg' = [g \in Group |-> NewAggregate] /\ stats' = [g \in Group |-> NewStats]
  /\ statsTold' = [g \in Group |-> 0] /\ logged' = {} /\ throttled' = {}
  /\ last' = [g \in Group |-> {}] /\ told' = [g \in Group |-> 0]
  /\ UNCHANGED <<written, work, hold, fails>>

(* A second passes. *)
Tick ==
  /\ logged' = {} /\ throttled' = {}
  /\ agg' = [g \in Group |-> [agg[g] EXCEPT !.recent = FALSE]]
  /\ stats' = [g \in Group |-> [stats[g] EXCEPT !.recent = FALSE]]
  /\ UNCHANGED <<storeVars, mine, work, hold, statsTold, last, told, boundVars>>

Init ==
  /\ job = [k \in Task |-> "PENDING"] /\ written = [k \in Task |-> 0] /\ mine = Task
  /\ work = [w \in Worker |-> {}] /\ hold = [w \in Worker |-> {}]
  /\ agg = [g \in Group |-> NewAggregate] /\ stats = [g \in Group |-> NewStats]
  /\ statsTold = [g \in Group |-> 0] /\ logged = {} /\ throttled = {}
  /\ last = [g \in Group |-> {}] /\ told = [g \in Group |-> 0]
  /\ fails = 0 /\ resumes = 0

WorkerStep(w) ==
  \/ Send(w)
  \/ \E k \in Task : \/ Start(w, k) \/ Claim(w, k) \/ CopyBatch(w, k) \/ CopyDone(w, k)
                     \/ Save(w, k) \/ Tell(w, k) \/ Fail(w, k)

Next == Tick \/ Resume \/ \E w \in Worker : WorkerStep(w)

Spec == Init /\ [][Next]_vars
-----------------------------------------------------------------------------
(* GetJobs: one line for a group with the worst state of its chunks;        *)
(* buildRunSummaryWithTiming counts the chunks of a table as one job.       *)

Priority(state) ==
  CASE state = "SKIPPED" -> 0 [] state = "COMPLETED" -> 1 [] state = "PENDING" -> 2
    [] state = "RETRYING" -> 3 [] state = "RUNNING" -> 4 [] state = "FAILED" -> 5

(* A bug: in the list a chunk that waits hides one that is tried again. *)
SwappedMutant(a, b) ==
  LET Rank(s) == IF s = "PENDING" THEN 3 ELSE IF s = "RETRYING" THEN 2 ELSE Priority(s)
  IN  IF Rank(b) > Rank(a) THEN b ELSE a

MergeJobState(a, b) == IF Priority(b) > Priority(a) THEN b ELSE a

ListState(g) == FoldSet(LAMBDA s, r : MergeJobState(r, s), "SKIPPED", {job[k] : k \in TasksOf(g)})

ChunksOf(t) == {k \in Task : GroupOf[k] \in Chunked /\ TableOf[GroupOf[k]] = t}

SummaryState(t) ==
  LET some(state) == \E k \in ChunksOf(t) : job[k] = state
  IN  CASE some("FAILED") -> "FAILED"
        [] ~some("FAILED") /\ some("RUNNING") -> "RUNNING"
        [] ~some("FAILED") /\ ~some("RUNNING") /\ some("RETRYING") -> "RETRYING"
        [] ~some("FAILED") /\ ~some("RUNNING") /\ ~some("RETRYING") /\ some("PENDING") -> "PENDING"
        [] OTHER -> IF \A k \in ChunksOf(t) : job[k] = "COMPLETED" THEN "COMPLETED" ELSE "SKIPPED"
-----------------------------------------------------------------------------
Busy(g) == \E w \in Worker : (\E t \in work[w] : GroupOf[t.task] = g) \/ (\E e \in hold[w] : e.group = g)

(* When all tasks of a line are done and their events sent, a COMPLETED     *)
(* event that counts every one of them has been sent, however many of them  *)
(* ended in the same second ("Always emits on terminal states",             *)
(* handlers.go:2071). It need not be the last event: a RUNNING event built  *)
(* before it may be sent after it.                                          *)
CompletionIsTold ==
  \A g \in Group :
    LET ks == TasksOf(g) \cap mine
    IN  ks # {} /\ (\A k \in ks : job[k] = "COMPLETED") /\ ~Busy(g) => told[g] = Cardinality(ks)

(* A line is reported COMPLETED only at a moment when each of its tasks is  *)
(* either done or has not been started by this run; in particular never     *)
(* after one of them failed.                                                *)
NoFalseCompletion ==
  [][\A w \in Worker : \A e \in hold'[w] \ hold[w] :
       e.state = "COMPLETED" =>
         \A k \in TasksOf(e.group) : job'[k] \in {"COMPLETED", "PENDING", "RETRYING"}]_vars

(* No event and no statistics of a chunked line show more rows than its     *)
(* chunks have copied ("track per-chunk latest rows (not cumulative sum)",  *)
(* handlers.go:2093).                                                       *)
RowsNotOverstated ==
  \A g \in Chunked :
    LET copied == MapThenSumSet(LAMBDA k : written[k], TasksOf(g))
    IN  /\ \A w \in Worker : \A e \in hold[w] : e.group = g => e.rows <= copied
        /\ \A e \in last[g] : e.rows <= copied
        /\ statsTold[g] <= copied

(* The list of jobs and the summary above it agree on a chunked table whose *)
(* chunks are one line of the list.                                         *)
ListMatchesSummary ==
  \A g \in Chunked :
    TasksOf(g) # {} /\ (\A h \in Chunked : TableOf[h] = TableOf[g] => h = g)
      => ListState(g) = SummaryState(TableOf[g])
=============================================================================
