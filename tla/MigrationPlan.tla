--------------------------- MODULE MigrationPlan ---------------------------
(***************************************************************************)
(* From the extracted schema to the ordered list of data tasks: BuildPlan, *)
(* the resolution of large tables into chunks (by DBMS_PARALLEL_EXECUTE    *)
(* or by hash) and the interleaving of tasks over tables.                  *)
(*                                                                         *)
(* A segment is a partition, or a table without partitions. It holds the   *)
(* rowids of an interval of Extent numbers; the segments of a table follow *)
(* one another. Chunk ids are ordered like the rowids the chunks start at. *)
(* The value 0 of a bound stands for the empty string: unbounded.          *)
(***************************************************************************)
EXTENDS Integers, FiniteSets, SequencesExt

CONSTANTS
  Schemas,            (* the schemas, with their overrides, a run may find    *)
  Strategies,         (* values of the global chunk strategy                  *)
  Workers, BatchSize, (* cfg.Workers, cfg.BatchSize                           *)
  MaxTableChunks,     (* 256: most chunks of a table without partitions       *)
  Extent, MaxParts,   (* rowids of a segment, most segments of a table        *)
  Estimates,          (* answers of the row estimator                         *)
  Cuts,               (* where DBMS_PE may end the chunks of a segment: offsets *)
  Hash(_, _),         (* ORA_HASH(rowid, n - 1)                               *)
  Faults              (* kinds of failure of the chunker                      *)

StrategyNames == {"", "rowid", "auto", "ora_hash", "offset"}
FaultKinds == {"estimate", "dbms_pe", "short_list"}

PartitionType == [high : Nat, num : Nat]
TableType == [name : Nat, refs : Seq(Nat), skip : BOOLEAN, parts : Seq(PartitionType), num : Nat,
              strategy : StrategyNames, chunkSize : Nat, batch : Nat,
              filter : SUBSET Nat, low : Nat, high : Nat]

ASSUME PlanConstants ==
  /\ Strategies \subseteq StrategyNames
  /\ Workers \in Nat \ {0} /\ BatchSize \in Nat \ {0}
  /\ MaxTableChunks \in Nat \ {0, 1} /\ Extent \in Nat \ {0} /\ MaxParts \in Nat \ {0}
  /\ Estimates \subseteq Nat
  /\ \A ends \in Cuts : /\ ends \in Seq(1..Extent) /\ ends # <<>> /\ Last(ends) = Extent
                        /\ \A i \in 1..(Len(ends) - 1) : ends[i] < ends[i + 1]
  /\ Faults \subseteq FaultKinds

ASSUME SchemaTypes ==
  \A s \in Schemas :
    /\ s \in Seq(TableType)
    /\ \A i \in DOMAIN s : Len(s[i].parts) <= MaxParts
    /\ \A i, j \in DOMAIN s : s[i].name = s[j].name => i = j

VARIABLES
  schema, strategy,           (* the input of the run                            *)
  step,                       (* "build", "resolve", "ready"                     *)
  ddl, constraints,           (* DDLOrder, ConstraintOrder: names of tables      *)
  tasks,                      (* DataTasks                                       *)
  partQ, tableQ,              (* PartitionChunkTables, ChunkableTasks            *)
  short                       (* a list of chunks was read incompletely          *)

vars == <<schema, strategy, step, ddl, constraints, tasks, partQ, tableQ, short>>

(* The elements of s that are in K, as a loop with append collects them.    *)
Only(s, K) == FoldLeft(LAMBDA found, x : IF x \in K THEN Append(found, x) ELSE found, <<>>, s)

SmallerOf(x, y) == IF x < y THEN x ELSE y
LargerOf(x, y) == IF x > y THEN x ELSE y

MaxPartChunks == LargerOf(8, 4 * Workers)
MaxHashes == LargerOf(MaxTableChunks, MaxPartChunks)
Rowids == 1..(MaxParts * Extent)

ASSUME HashRange == \A r \in Rowids, n \in 1..MaxHashes : Hash(r, n) \in 0..(n - 1)
-----------------------------------------------------------------------------
(* Tasks. id is Chunk.ID, of is TotalChunks; the rowids lo..hi are those of *)
(* a task of kind "rowid". Part 0 is the nil partition.                     *)

Task == [table : Nat, part : Nat, kind : {"whole", "hash", "rowid"}, id : Nat, of : Nat, lo : Nat, hi : Nat]

Whole(t, p) ==
  [table |-> t.name, part |-> p, kind |-> "whole", id |-> 0, of |-> 1, lo |-> 0, hi |-> 0]

(* A bug: every chunk task is given the chunk the loop variable ends with. *)
LoopVariableMutant(t, p, n) ==
  [i \in 1..n |-> [Whole(t, p) EXCEPT !.kind = "hash", !.id = n - 1, !.of = n]]

(* A bug: buckets counted from 1. *)
BucketsFromOneMutant(t, p, n) ==
  [i \in 1..n |-> [Whole(t, p) EXCEPT !.kind = "hash", !.id = i, !.of = n]]

HashTasks(t, p, n) ==
  [i \in 1..n |-> [Whole(t, p) EXCEPT !.kind = "hash", !.id = i - 1, !.of = n]]

RowidTasks(t, p, chunks) ==
  [i \in DOMAIN chunks |->
     [Whole(t, p) EXCEPT !.kind = "rowid", !.id = chunks[i].id, !.of = Len(chunks),
                         !.lo = chunks[i].lo, !.hi = chunks[i].hi]]

PartitionChunkCount(numRows, batch) ==
  LET b == IF batch <= 0 THEN 50000 ELSE batch
  IN  IF numRows <= 10 * b THEN 1
      ELSE LargerOf(2, SmallerOf(numRows \div b, MaxPartChunks))

ByHash(t, p, numRows, size) ==
  LET n == PartitionChunkCount(numRows, size)
  IN  IF n > 1 THEN HashTasks(t, p, n) ELSE <<Whole(t, p)>>
-----------------------------------------------------------------------------
(* Which partitions of a table are migrated. *)

(* A bug: the end of the range taken as one of its values. *)
ClosedRangeMutant(pLow, pHigh, fLow, fHigh) ==
  /\ (pLow # 0 /\ fHigh # 0) => pLow <= fHigh
  /\ (fLow # 0 /\ pHigh # 0) => fLow < pHigh

PartitionOverlaps(pLow, pHigh, fLow, fHigh) ==
  /\ (pLow # 0 /\ fHigh # 0) => pLow < fHigh
  /\ (fLow # 0 /\ pHigh # 0) => fLow < pHigh

LowerBound(t, i) == IF i = 1 THEN 0 ELSE t.parts[i - 1].high

Includes(t, i) ==
  IF t.filter # {} THEN i \in t.filter
  ELSE t.low # 0 => PartitionOverlaps(LowerBound(t, i), t.parts[i].high, t.low, t.high)

ResolvePartitions(t) == Only([i \in DOMAIN t.parts |-> i], {i \in DOMAIN t.parts : Includes(t, i)})

PartitionRangeReversed(t) == t.high # 0 /\ t.low >= t.high
-----------------------------------------------------------------------------
(* topoSortTables: depth first, a table after the tables it refers to. *)

TableNamed(s, n) == CHOOSE t \in ToSet(s) : t.name = n

(* A bug: a table is put in the order before those it refers to. *)
ParentsLateMutant(n, before, after) ==
  [open |-> after.open \ {n}, order |-> before.order \o <<n>> \o
     SubSeq(after.order, Len(before.order) + 1, Len(after.order))]

Visited(n, before, after) ==
  [open |-> after.open \ {n}, order |-> Append(after.order, n)]

VisitAll(visit, names, ns, from) ==
  FoldLeft(LAMBDA st, n : IF n \in names THEN visit[<<n, st>>] ELSE st, from, ns)

TopoSort(s) ==
  LET names == {t.name : t \in ToSet(s)}
      visit[v \in names \X [open : SUBSET names, order : Seq(names)]] ==
        LET n == v[1]
            st == v[2]
        IN  IF n \in st.open \/ n \in ToSet(st.order) THEN st
            ELSE Visited(n, st, VisitAll(visit, names, TableNamed(s, n).refs, [st EXCEPT !.open = @ \cup {n}]))
  IN  VisitAll(visit, names, [i \in DOMAIN s |-> s[i].name], [open |-> {}, order |-> <<>>]).order
-----------------------------------------------------------------------------
(* BuildPlan. *)

StrategyOf(t) == IF t.strategy = "" THEN strategy ELSE t.strategy
BatchOf(t) == IF t.batch > 0 THEN t.batch ELSE BatchSize
ChunkSizeOf(t) == IF t.chunkSize > 0 THEN t.chunkSize ELSE BatchOf(t)
Partitioned(t) == t.parts # <<>>

NeedsChunking(t) ==
  /\ StrategyOf(t) # "offset"
  /\ IF Partitioned(t)
     THEN \E i \in ToSet(ResolvePartitions(t)) : PartitionChunkCount(t.parts[i].num, BatchOf(t)) > 1
     ELSE t.chunkSize > 0 \/ PartitionChunkCount(t.num, BatchOf(t)) > 1

(* The chunks of these tables are computed later; until then the tasks of   *)
(* the table are placeholders.                                              *)
DeferredPartitions(t) == Partitioned(t) /\ NeedsChunking(t) /\ StrategyOf(t) \in {"rowid", "auto"}
DeferredTable(t) == ~Partitioned(t) /\ NeedsChunking(t) /\ StrategyOf(t) # "ora_hash"

HashedParts(t, size) ==
  LET inc == ResolvePartitions(t)
  IN  FlattenSeq([k \in DOMAIN inc |-> ByHash(t, inc[k], t.parts[inc[k]].num, size)])

WholeParts(t) ==
  LET inc == ResolvePartitions(t) IN [k \in DOMAIN inc |-> Whole(t, inc[k])]

FirstTasks(t) ==
  LET hash == NeedsChunking(t) /\ StrategyOf(t) = "ora_hash"
  IN  IF Partitioned(t)
      THEN IF hash THEN HashedParts(t, BatchOf(t)) ELSE WholeParts(t)
      ELSE IF hash THEN ByHash(t, 0, t.num, ChunkSizeOf(t)) ELSE <<Whole(t, 0)>>

PlanTable(plan, t) ==
  LET new == FirstTasks(t)
      place == [table |-> t, at |-> Len(plan.tasks) + 1, count |-> Len(new)]
  IN  IF t.skip THEN plan
      ELSE [tasks |-> plan.tasks \o new,
            partQ |-> IF DeferredPartitions(t) THEN Append(plan.partQ, place) ELSE plan.partQ,
            tableQ |-> IF DeferredTable(t) THEN Append(plan.tableQ, place) ELSE plan.tableQ]

NoTasks == [tasks |-> <<>>, partQ |-> <<>>, tableQ |-> <<>>]

BuildPlan ==
  LET order == TopoSort(schema)
      sorted == [i \in DOMAIN order |-> TableNamed(schema, order[i])]
  IN  [data |-> FoldLeft(PlanTable, NoTasks, sorted), order |-> order]
-----------------------------------------------------------------------------
(* The chunker. A chunk list is what DBMS_PARALLEL_EXECUTE made of a        *)
(* segment: intervals of rowids that follow one another.                    *)

Segment(p) == IF p = 0 THEN 1 ELSE p

(* The chunks of the segment of partition p that end at these offsets. *)
ChunksAt(p, ends) ==
  LET base == (Segment(p) - 1) * Extent
  IN  [i \in DOMAIN ends |->
         LET first == base + 1 + IF i = 1 THEN 0 ELSE ends[i - 1]
         IN  [id |-> first, lo |-> first, hi |-> base + ends[i], part |-> p]]

(* rows.Err is not looked at: when the list breaks off, what was read of it *)
(* is taken for the whole.                                                  *)
ReadList(list, n) == SubSeq(list, 1, n)

ListLengths(list) == IF "short_list" \in Faults THEN 0..Len(list) ELSE {Len(list)}

(* A bug: the chunks that do not divide evenly are forgotten. *)
NoExtraMutant(chunks, target) ==
  LET per == Len(chunks) \div target
  IN  IF Len(chunks) <= target \/ target <= 0 THEN chunks
      ELSE [i \in 1..target |->
              [chunks[(i - 1) * per + 1] EXCEPT !.id = i - 1, !.hi = chunks[i * per].hi]]

(* A bug: the list is used as long as it came. *)
UnmergedMutant(chunks, target) == chunks

GroupStart(chunks, target, i) ==
  (i - 1) * (Len(chunks) \div target) + SmallerOf(i - 1, Len(chunks) % target) + 1

MergeChunks(chunks, target) ==
  IF Len(chunks) <= target \/ target <= 0 THEN chunks
  ELSE [i \in 1..target |->
          [chunks[GroupStart(chunks, target, i)] EXCEPT
             !.id = i - 1, !.hi = chunks[GroupStart(chunks, target, i + 1) - 1].hi]]

(* The tasks of the partitions of t, from the chunk list of the table. *)
ByRowid(t, list) ==
  LET inc == ResolvePartitions(t)
      Of(p) == Only(list, {ch \in ToSet(list) : ch.part = p})
      Tasks(p) == IF Of(p) = <<>> THEN <<Whole(t, p)>>
                  ELSE RowidTasks(t, p, MergeChunks(Of(p), MaxPartChunks))
  IN  FlattenSeq([k \in DOMAIN inc |-> Tasks(inc[k])])

(* Splice: the placeholders of q give way to the tasks new. *)
Splice(ts, q, new) ==
  SubSeq(ts, 1, q.at - 1) \o new \o SubSeq(ts, q.at + q.count, Len(ts))
-----------------------------------------------------------------------------
Init ==
  /\ schema \in Schemas /\ strategy \in Strategies
  /\ step = "build"
  /\ ddl = <<>> /\ constraints = <<>> /\ tasks = <<>>
  /\ partQ = <<>> /\ tableQ = <<>>
  /\ short = FALSE

Build ==
  /\ step = "build"
  /\ ddl' = Only(BuildPlan.order, {n \in ToSet(BuildPlan.order) : ~TableNamed(schema, n).skip})
  /\ constraints' = Reverse(BuildPlan.order)
  /\ tasks' = BuildPlan.data.tasks
  /\ partQ' = BuildPlan.data.partQ
  /\ tableQ' = BuildPlan.data.tableQ
  /\ step' = "resolve"
  /\ UNCHANGED <<schema, strategy, short>>

Resolving == step = "resolve" /\ strategy \in {"rowid", "auto"}

(* ResolvePartitionChunks: the last table of the list. *)
ResolvePartitionTable ==
  LET q == Last(partQ)
      t == q.table
  IN  /\ Resolving /\ partQ # <<>>
      /\ \/ \E cut \in [DOMAIN t.parts -> Cuts] :
              LET list == FlattenSeq([p \in DOMAIN t.parts |-> ChunksAt(p, cut[p])])
              IN  \E n \in ListLengths(list) :
                    /\ tasks' = Splice(tasks, q, IF n = 0 THEN HashedParts(t, BatchOf(t))
                                                 ELSE ByRowid(t, ReadList(list, n)))
                    /\ short' = (short \/ n < Len(list))
         \/ /\ "dbms_pe" \in Faults
            /\ tasks' = Splice(tasks, q, HashedParts(t, BatchOf(t)))
            /\ UNCHANGED short
      /\ partQ' = Front(partQ)
      /\ UNCHANGED <<schema, strategy, step, ddl, constraints, tableQ>>

(* ResolveChunks: the last table of the list, with est rows. *)
ResolveEstimated(q, est) ==
  LET n == SmallerOf(est \div ChunkSizeOf(q.table), MaxTableChunks)
  IN  IF n < 2 THEN UNCHANGED <<tasks, short>>
      ELSE \/ \E cut \in Cuts : LET list == ChunksAt(0, cut) IN
                \E m \in ListLengths(list) :
                  /\ tasks' = IF m = 0 THEN tasks
                              ELSE Splice(tasks, q, RowidTasks(q.table, 0, MergeChunks(ReadList(list, m), n)))
                  /\ short' = (short \/ m < Len(list))
           \/ /\ "dbms_pe" \in Faults
              /\ tasks' = Splice(tasks, q, HashTasks(q.table, 0, n))
              /\ UNCHANGED short

ResolveTable ==
  /\ Resolving /\ partQ = <<>> /\ tableQ # <<>>
  /\ \/ \E est \in Estimates : ResolveEstimated(Last(tableQ), est)
     \/ "estimate" \in Faults /\ UNCHANGED <<tasks, short>>
  /\ tableQ' = Front(tableQ)
  /\ UNCHANGED <<schema, strategy, step, ddl, constraints, partQ>>

(* ResolveOraHashChunks: all of both lists, the partitioned tables first. *)
PartsByHash(ts, q) == Splice(ts, q, HashedParts(q.table, BatchOf(q.table)))

TableByHash(ts, q) ==
  LET n == SmallerOf(q.table.num \div ChunkSizeOf(q.table), MaxTableChunks)
  IN  IF n < 2 THEN ts ELSE Splice(ts, q, HashTasks(q.table, 0, n))

ResolveOraHash ==
  /\ step = "resolve" /\ ~Resolving
  /\ partQ # <<>> \/ tableQ # <<>>
  /\ tasks' = FoldLeft(TableByHash, FoldLeft(PartsByHash, tasks, Reverse(partQ)), Reverse(tableQ))
  /\ partQ' = <<>> /\ tableQ' = <<>>
  /\ UNCHANGED <<schema, strategy, step, ddl, constraints, short>>

Bucket(task) == <<task.table, task.part>>

(* A bug: the order of the plan is kept. *)
NotInterleavedMutant(ts) == ts

(* interleaveTasksByTable: one task of each bucket in turn, the buckets in  *)
(* the order of their first task.                                           *)
FirstTasksOf(ts) ==
  Only([i \in DOMAIN ts |-> i], {i \in DOMAIN ts : \A j \in 1..(i - 1) : Bucket(ts[j]) # Bucket(ts[i])})

BucketOf(ts, i) == Only(ts, {task \in ToSet(ts) : Bucket(task) = Bucket(ts[i])})

InterleaveByTable(ts) ==
  LET first == FirstTasksOf(ts)
      buckets == [k \in DOMAIN first |-> BucketOf(ts, first[k])]
      Turn(r) == FlattenSeq([k \in DOMAIN first |->
                               IF r <= Len(buckets[k]) THEN <<buckets[k][r]>> ELSE <<>>])
  IN  FlattenSeq([r \in DOMAIN ts |-> Turn(r)])

OrderTasks ==
  /\ step = "resolve" /\ partQ = <<>> /\ tableQ = <<>>
  /\ tasks' = InterleaveByTable(tasks)
  /\ step' = "ready"
  /\ UNCHANGED <<schema, strategy, ddl, constraints, partQ, tableQ, short>>

Next == Build \/ ResolvePartitionTable \/ ResolveTable \/ ResolveOraHash \/ OrderTasks

Spec == Init /\ [][Next]_vars
-----------------------------------------------------------------------------
(* Types: the tasks of a plan are a table, one of its partitions, and one   *)
(* of the hash buckets 0..n-1 or a chunk of n.                              *)
Place == [table : TableType, at : Nat \ {0}, count : Nat]

TypeOK ==
  /\ schema \in Schemas /\ strategy \in Strategies
  /\ step \in {"build", "resolve", "ready"}
  /\ ddl \in Seq(Nat) /\ constraints \in Seq(Nat)
  /\ tasks \in Seq(Task)
  /\ \A i \in DOMAIN tasks : tasks[i].kind = "hash" => tasks[i].id < tasks[i].of
  /\ partQ \in Seq(Place) /\ tableQ \in Seq(Place)
  /\ short \in BOOLEAN

Wanted == {t \in ToSet(schema) : ~t.skip}

RowsOf(t) == 1..(Extent * LargerOf(1, Len(t.parts)))
PartOf(t, r) == IF Partitioned(t) THEN ((r - 1) \div Extent) + 1 ELSE 0
Selected(t, r) == Partitioned(t) => Includes(t, PartOf(t, r))

Reads(task, t, r) ==
  /\ task.table = t.name
  /\ task.part \in {0, PartOf(t, r)}
  /\ task.kind = "hash" => Hash(r, task.of) = task.id
  /\ task.kind = "rowid" => task.lo <= r /\ r <= task.hi

Readers(t, r) == {i \in DOMAIN tasks : Reads(tasks[i], t, r)}

(* Every selected row of every wanted table is read by exactly one task of  *)
(* the plan, every other row by none. The comment of ResolveChunks that the *)
(* placeholder indices remain valid promises it for every schema.           *)
ReadsEachRowOnce ==
  step = "ready" =>
    \A t \in Wanted : \A r \in RowsOf(t) :
      Cardinality(Readers(t, r)) = IF Selected(t, r) THEN 1 ELSE 0

(* A table waits for its chunks behind a partitioned table that does too:   *)
(* the index of its placeholder is stale when its turn comes.               *)
Displaced ==
  LET plan == BuildPlan.data
  IN  \E i \in DOMAIN plan.partQ, j \in DOMAIN plan.tableQ : plan.partQ[i].at < plan.tableQ[j].at

(* Where no placeholder is displaced no row is read twice, whatever the     *)
(* chunker returned and however chunks were merged, and when no chunk list  *)
(* broke off every selected row is read.                                    *)
RowsReadOnceInPlace ==
  step = "ready" /\ ~Displaced =>
    \A t \in Wanted : \A r \in RowsOf(t) :
      LET n == Cardinality(Readers(t, r))
      IN  IF Selected(t, r) THEN n <= 1 /\ (n = 0 => short) ELSE n = 0

(* The job key initJobs makes of a task is that of no other task, so that   *)
(* every task of the plan has a job of its own in the store.                *)
JobKey(task) == <<task.table, task.part, IF task.kind = "whole" THEN {} ELSE {task.id}>>
JobsAreDistinct ==
  step = "ready" =>
    \A i, j \in DOMAIN tasks : JobKey(tasks[i]) = JobKey(tasks[j]) => i = j

(* However many chunks DBMS_PARALLEL_EXECUTE returns, a partition becomes   *)
(* at most max(8, 4 * Workers) tasks, another table at most MaxTableChunks. *)
ChunksAreBounded ==
  \A i \in DOMAIN tasks :
    tasks[i].kind # "whole" =>
      Cardinality({j \in DOMAIN tasks : Bucket(tasks[j]) = Bucket(tasks[i]) /\ tasks[j].kind # "whole"})
        <= IF tasks[i].part = 0 THEN MaxHashes ELSE MaxPartChunks

(* The tables n needs, directly or through others: those in every set that  *)
(* has the tables n refers to and, with a table, those it refers to.        *)
Names == {t.name : t \in ToSet(schema)}
RefsOf(n) == ToSet(TableNamed(schema, n).refs) \cap Names
Needs(n) == {m \in Names : \A S \in SUBSET Names :
                              RefsOf(n) \subseteq S /\ (\A x \in S : RefsOf(x) \subseteq S) => m \in S}

Position(s, n) == CHOOSE i \in DOMAIN s : s[i] = n

(* The order of DDL has every wanted table once and a table behind those it *)
(* refers to, but for references in a circle; constraints come in the       *)
(* reverse order.                                                           *)
ParentsFirst ==
  step # "build" =>
    /\ Len(ddl) = Cardinality(Wanted) /\ ToSet(ddl) = {t.name : t \in Wanted}
    /\ \A t, u \in Wanted :
         u.name \in ToSet(t.refs) /\ t.name \notin Needs(u.name) =>
           /\ Position(ddl, u.name) < Position(ddl, t.name)
           /\ Position(constraints, t.name) < Position(constraints, u.name)

(* A range migrates a partition exactly when a value can be in both.        *)
MayHold(t, i, v) ==
  /\ LowerBound(t, i) <= v
  /\ t.parts[i].high # 0 => v < t.parts[i].high
BoundsAscend(t) == \A i \in DOMAIN t.parts : t.parts[i].high # 0 => LowerBound(t, i) < t.parts[i].high
(* If a value is in both, then the larger of the two lower bounds is.       *)
LeastCommon(t, i) == LargerOf(t.low, LowerBound(t, i))

PruningIsExact ==
  \A t \in Wanted :
    t.filter = {} /\ t.low # 0 /\ ~PartitionRangeReversed(t) /\ BoundsAscend(t) =>
      \A i \in DOMAIN t.parts :
        Includes(t, i) <=> \E v \in t.low..LeastCommon(t, i) :
                              MayHold(t, i, v) /\ (t.high # 0 => v < t.high)

(* Workers spread: as long as a bucket has tasks left, no other bucket is   *)
(* more than one task ahead of it.                                          *)
Taken(b, n) == Cardinality({i \in 1..n : Bucket(tasks[i]) = b})
WorkersSpread ==
  step = "ready" =>
    \A n \in DOMAIN tasks : \A i, j \in DOMAIN tasks :
      i > n => Taken(Bucket(tasks[j]), n) <= Taken(Bucket(tasks[i]), n) + 1
=============================================================================
