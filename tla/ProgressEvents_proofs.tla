------------------------ MODULE ProgressEvents_proofs ------------------------
(***************************************************************************)
(* Theorems about ProgressEvents, for any number of workers, tasks and     *)
(* chunks. The counters of chunkAggregator are shown to be numbers of      *)
(* tasks of the group, so a line is reported COMPLETED only when each of   *)
(* its tasks is done or has not been started by this run, and this is told *)
(* once all are done; rows told of never exceed those in the target; the   *)
(* list and the summary agree.                                             *)
(***************************************************************************)
EXTENDS ProgressEvents, FoldLemmas, FiniteSetTheorems, TLAPS

Counters ==
  [rows : [Task -> Nat], running : Nat, total : Nat, done : Nat, failed : Nat, recent : BOOLEAN]

Events ==
  [group : Group, state : {"RUNNING", "COMPLETED", "FAILED", "STATS"}, rows : Nat, done : Nat]

Shape ==
  /\ job \in [Task -> JobState \ {"SKIPPED"}] /\ written \in [Task -> Nat] /\ mine \subseteq Task
  /\ work \in [Worker -> SUBSET [task : Task, at : {"claim", "copy", "save", "tell"}]]
  /\ hold \in [Worker -> SUBSET Events]
  /\ agg \in [Group -> Counters] /\ stats \in [Group -> [rows : Nat, recent : BOOLEAN]]
  /\ told \in [Group -> Nat]

At1(w) == \A s, t \in work[w] : s = t

(* The state of a task in the store agrees with where its worker is.        *)
JobAt(at) ==
  CASE at = "claim" -> {"PENDING", "RETRYING"}
    [] at \in {"copy", "save"} -> {"RUNNING"}
    [] at = "tell" -> {"COMPLETED"}

HeldInv ==
  /\ \A w \in Worker : At1(w) /\ \A t \in work[w] : t.task \in mine /\ job[t.task] \in JobAt(t.at)
  /\ \A v, w \in Worker : \A s \in work[v], t \in work[w] : s.task = t.task => v = w
  /\ \A k \in Task \ mine : job[k] = "COMPLETED"

Held(k) == \E w \in Worker : \E t \in work[w] : t.task = k

(* The tasks of a group that this run has started, and those it has told    *)
(* the aggregator to be done.                                               *)
Started(k) == k \in mine /\ (Held(k) \/ job[k] \in {"RUNNING", "FAILED", "COMPLETED"})
Done(k) == k \in mine /\ ~Held(k) /\ job[k] = "COMPLETED"

StartedIn(g) == {k \in TasksOf(g) : Started(k)}
DoneIn(g) == {k \in TasksOf(g) : Done(k)}

CountInv ==
  \A g \in Chunked :
    /\ agg[g].total = Cardinality(StartedIn(g))
    /\ agg[g].done = Cardinality(DoneIn(g))
    /\ agg[g].failed = 0

(* A COMPLETED event that counts every task of the group that is done has   *)
(* been built and waits to be sent.                                         *)
Pending(g) ==
  \E w \in Worker : \E e \in hold[w] :
    e.group = g /\ e.state = "COMPLETED" /\ e.done = Cardinality(DoneIn(g))

(* No event tells of more tasks than are done; when all that are started    *)
(* are done, an event that tells so has been sent or waits.                 *)
ToldInv ==
  /\ \A w \in Worker : \A d, e \in hold[w] : d = e
  /\ \A g \in Group : told[g] <= Cardinality(DoneIn(g))
  /\ \A w \in Worker : \A e \in hold[w] :
       e.state = "COMPLETED" => e.done <= Cardinality(DoneIn(e.group))
  /\ \A g \in Group : DoneIn(g) = StartedIn(g) /\ DoneIn(g) # {} =>
       told[g] = Cardinality(DoneIn(g)) \/ Pending(g)

Inv == Shape /\ HeldInv /\ CountInv /\ ToldInv
-----------------------------------------------------------------------------
LEMMA FiniteGroups ==
  ASSUME NEW g \in Group
  PROVE  /\ IsFiniteSet(TasksOf(g)) /\ IsFiniteSet(StartedIn(g)) /\ IsFiniteSet(DoneIn(g))
         /\ DoneIn(g) \subseteq StartedIn(g) /\ StartedIn(g) \subseteq TasksOf(g)
BY ProgressConstants, FS_Subset DEF TasksOf, StartedIn, DoneIn, Started, Done

LEMMA CountersAreNumbers ==
  ASSUME NEW a \in Counters
  PROVE  /\ a.total \in Nat /\ a.done \in Nat /\ a.failed \in Nat
         /\ a.total + 0 = a.total /\ a.done + 0 = a.done
<1>1. a.total \in Nat /\ a.done \in Nat /\ a.failed \in Nat
  BY DEF Counters
<1> QED
  BY <1>1

(* What a RUNNING event without rows, one with rows and a COMPLETED event   *)
(* without rows do to the counters.                                         *)
LEMMA StartCounted ==
  ASSUME NEW a \in Counters, NEW k \in Task, NEW e, e.state = "RUNNING", e.rows = 0
  PROVE  /\ Counted(a, k, e) \in Counters
         /\ Counted(a, k, e).total = a.total + 1
         /\ Counted(a, k, e).done = a.done /\ Counted(a, k, e).failed = a.failed
<1>1. Counted(a, k, e) = [a EXCEPT !.running = @ + 1, !.total = @ + 1]
  BY DEF Counted
<1>2. a.total + 1 \in Nat /\ a.running + 1 \in Nat
  BY DEF Counters
<1> DEFINE b == [a EXCEPT !.running = a.running + 1, !.total = a.total + 1]
<1>3. b \in Counters /\ b.total = a.total + 1 /\ b.done = a.done /\ b.failed = a.failed
  BY <1>2 DEF Counters
<1> QED
  BY <1>1, <1>3

LEMMA ProgressCounted ==
  ASSUME NEW a \in Counters, NEW k \in Task, NEW e, e.state = "RUNNING", e.rows \in Nat, e.rows > 0
  PROVE  /\ Counted(a, k, e) \in Counters
         /\ Counted(a, k, e).total = a.total
         /\ Counted(a, k, e).done = a.done /\ Counted(a, k, e).failed = a.failed
<1>1. Counted(a, k, e) = [a EXCEPT !.rows[k] = e.rows]
  BY DEF Counted
<1> QED
  BY <1>1 DEF Counters

LEMMA DoneCounted ==
  ASSUME NEW a \in Counters, NEW k \in Task, NEW e, e.state = "COMPLETED", e.rows = 0
  PROVE  /\ Counted(a, k, e) \in Counters
         /\ Counted(a, k, e).total = a.total
         /\ Counted(a, k, e).done = a.done + 1 /\ Counted(a, k, e).failed = a.failed
<1>1. Counted(a, k, e) = [a EXCEPT !.done = @ + 1, !.running = Minus(@), !.rows[k] = @]
  BY DEF Counted
<1>2. Minus(a.running) \in Nat /\ a.done + 1 \in Nat /\ a.rows[k] \in Nat
  BY DEF Minus, Counters
<1> DEFINE b == [a EXCEPT !.done = a.done + 1, !.running = Minus(a.running), !.rows[k] = a.rows[k]]
<1>3. b \in Counters /\ b.total = a.total /\ b.done = a.done + 1 /\ b.failed = a.failed
  BY <1>2 DEF Counters
<1> QED
  BY <1>1, <1>3
-----------------------------------------------------------------------------
(* A message about task k moves the counters of its group by t started and  *)
(* d done tasks. A COMPLETED event that it leads to agrees with them, and   *)
(* the message of the last task leads to one.                               *)
Handled(w, k, t, d) ==
  LET g == GroupOf[k]
  IN  /\ agg' \in [Group -> Counters] /\ stats' \in [Group -> [rows : Nat, recent : BOOLEAN]]
      /\ hold' \in [Worker -> SUBSET Events]
      /\ \A v \in Worker \ {w} : hold'[v] = hold[v]
      /\ \A h \in Group \ {g} : agg'[h] = agg[h]
      /\ g \in Chunked => /\ agg'[g].total = agg[g].total + t
                          /\ agg'[g].done = agg[g].done + d
                          /\ agg'[g].failed = agg[g].failed
      /\ \A x, e \in hold'[w] : x = e
      /\ \A e \in hold'[w] :
           /\ e.group = g
           /\ e.state = "COMPLETED" =>
                IF g \in Chunked THEN AllDone(agg'[g]) /\ e.done = agg'[g].done ELSE d = 1 /\ e.done = 1
      /\ d = 1 /\ (g \in Chunked => AllDone(agg'[g]) /\ agg'[g].failed = 0) =>
           \E e \in hold'[w] : e.state = "COMPLETED"

(* The event that the aggregator builds; only "recent" is set after it.     *)
LEMMA TotalIsNumber ==
  ASSUME NEW a \in Counters
  PROVE  Total(a.rows) \in Nat
<1>1. Total(a.rows) = Sum(a.rows, Task)
  BY DEF Total, Sum
<1>2. \A k \in Task : a.rows[k] \in Nat
  BY DEF Counters
<1> QED
  BY <1>1, <1>2, SumType, ProgressConstants

LEMMA BuiltEvent ==
  ASSUME NEW a \in Counters, NEW g \in Group
  PROVE  /\ BuildEvent(g, a) \in Events /\ BuildEvent(g, a).group = g
         /\ BuildEvent(g, a).rows = Total(a.rows) /\ BuildEvent(g, a).done = a.done
         /\ BuildEvent(g, a).state = "COMPLETED" => AllDone(a)
         /\ AllDone(a) /\ a.failed = 0 => BuildEvent(g, a).state = "COMPLETED"
         /\ BuildEvent(g, a).state # "STATS"
<1>1. Total(a.rows) \in Nat /\ a.done \in Nat /\ a.failed \in Nat
  BY TotalIsNumber, CountersAreNumbers
<1> QED
  BY <1>1 DEF BuildEvent, Events

LEMMA Updated ==
  ASSUME Shape, NEW w \in Worker, NEW k \in Task, NEW e, GroupOf[k] \in Group, e.group = GroupOf[k],
         Update(w, k, e), NEW a \in Counters, a = Counted(agg[GroupOf[k]], k, e)
  PROVE  LET g == GroupOf[k]
             b == agg'[g]
         IN  /\ agg' \in [Group -> Counters] /\ stats' = stats
             /\ \A h \in Group \ {g} : agg'[h] = agg[h]
             /\ b.rows = a.rows /\ b.running = a.running
             /\ b.total = a.total /\ b.done = a.done /\ b.failed = a.failed
             /\ hold' \in [Worker -> SUBSET Events]
             /\ \A v \in Worker \ {w} : hold'[v] = hold[v]
             /\ hold'[w] \in {{}, {BuildEvent(g, a)}}
             /\ AllDone(a) => hold'[w] = {BuildEvent(g, a)}
<1> DEFINE g == GroupOf[k]
           c == [a EXCEPT !.recent = TRUE]
           b == IF Emits(a, e) THEN c ELSE a
<1>1. /\ agg' = [agg EXCEPT ![g] = b] /\ stats' = stats
      /\ hold' = [hold EXCEPT ![w] = IF Emits(a, e) THEN {BuildEvent(g, a)} ELSE {}]
  BY DEF Update
<1>2. /\ c \in Counters /\ c.rows = a.rows /\ c.running = a.running
      /\ c.total = a.total /\ c.done = a.done /\ c.failed = a.failed
  BY DEF Counters
<1> HIDE DEF c
<1>3. /\ b \in Counters /\ b.rows = a.rows /\ b.running = a.running
      /\ b.total = a.total /\ b.done = a.done /\ b.failed = a.failed
  BY <1>2
<1> HIDE DEF b
<1>4. agg' \in [Group -> Counters] /\ agg'[g] = b /\ \A h \in Group \ {g} : agg'[h] = agg[h]
  BY <1>1, <1>3 DEF Shape
<1>5. BuildEvent(g, a) \in Events
  BY BuiltEvent
<1>6. /\ hold' \in [Worker -> SUBSET Events] /\ \A v \in Worker \ {w} : hold'[v] = hold[v]
      /\ hold'[w] = IF Emits(a, e) THEN {BuildEvent(g, a)} ELSE {}
  BY <1>1, <1>5 DEF Shape
<1>7. AllDone(a) => Emits(a, e)
  BY DEF Emits
<1> QED
  BY <1>1, <1>3, <1>4, <1>6, <1>7

LEMMA UpdateHandled ==
  ASSUME Shape, NEW w \in Worker, NEW k \in Task, NEW e, NEW t \in Nat, NEW d \in Nat,
         GroupOf[k] \in Chunked, e.group = GroupOf[k], Update(w, k, e),
         Counted(agg[GroupOf[k]], k, e) \in Counters,
         Counted(agg[GroupOf[k]], k, e).total = agg[GroupOf[k]].total + t,
         Counted(agg[GroupOf[k]], k, e).done = agg[GroupOf[k]].done + d,
         Counted(agg[GroupOf[k]], k, e).failed = agg[GroupOf[k]].failed
  PROVE  Handled(w, k, t, d)
<1> DEFINE g == GroupOf[k]
           a == Counted(agg[g], k, e)
           b == agg'[g]
           x == BuildEvent(g, a)
<1>1. g \in Group /\ a \in Counters
  BY ProgressConstants
<1> HIDE DEF a
<1>2. /\ agg' \in [Group -> Counters] /\ stats' = stats
      /\ \A h \in Group \ {g} : agg'[h] = agg[h]
      /\ b.total = a.total /\ b.done = a.done /\ b.failed = a.failed
      /\ hold' \in [Worker -> SUBSET Events]
      /\ \A v \in Worker \ {w} : hold'[v] = hold[v]
      /\ hold'[w] \in {{}, {x}}
      /\ AllDone(a) => hold'[w] = {x}
  BY <1>1, Updated DEF a
<1>3. /\ x.group = g /\ x.done = a.done
      /\ x.state = "COMPLETED" => AllDone(a)
      /\ AllDone(a) /\ a.failed = 0 => x.state = "COMPLETED"
  BY <1>1, BuiltEvent
<1>4. AllDone(b) <=> AllDone(a)
  BY <1>2 DEF AllDone
<1>5. a.total = agg[g].total + t /\ a.done = agg[g].done + d /\ a.failed = agg[g].failed
  BY DEF a
<1> HIDE DEF x
<1> QED
  BY <1>2, <1>3, <1>4, <1>5 DEF Handled, Shape

(* The messages that the handler recognises.                                *)
LEMMA Messages ==
  /\ StateOf("worker starting task") = "RUNNING" /\ StateOf("progress") = "RUNNING"
  /\ StateOf("worker completed task") = "COMPLETED" /\ StateOf("pipeline stats") = "STATS"
BY DEF StateOf

LEMMA StartHandled ==
  ASSUME Shape, NEW w \in Worker, NEW k \in Task, NEW msg, StateOf(msg) = "RUNNING",
         Handle(w, msg, k, 0)
  PROVE  Handled(w, k, 1, 0)
<1> DEFINE g == GroupOf[k]
           e == [group |-> g, state |-> "RUNNING", rows |-> 0, done |-> 0]
<1>1. CASE g \notin Chunked
  <2>1. hold' = [hold EXCEPT ![w] = {e}] /\ agg' = agg /\ stats' = stats
    BY <1>1 DEF Handle, aggVars
  <2>2. e \in Events /\ e.group = g /\ e.state = "RUNNING" /\ e.done = 0
    BY ProgressConstants DEF Events
  <2> HIDE DEF e
  <2> QED
    BY <1>1, <2>1, <2>2 DEF Handled, Shape
<1>2. CASE g \in Chunked
  <2>1. Update(w, k, e)
    BY <1>2 DEF Handle
  <2>2. agg[g] \in Counters
    BY ProgressConstants DEF Shape
  <2>3. agg[g].total + 0 = agg[g].total /\ agg[g].done + 0 = agg[g].done
    BY <2>2, CountersAreNumbers
  <2>4. /\ Counted(agg[g], k, e) \in Counters
        /\ Counted(agg[g], k, e).total = agg[g].total + 1
        /\ Counted(agg[g], k, e).done = agg[g].done + 0
        /\ Counted(agg[g], k, e).failed = agg[g].failed
    BY <2>2, <2>3, StartCounted
  <2> QED
    BY <1>2, <2>1, <2>4, UpdateHandled
<1> QED
  BY <1>1, <1>2

LEMMA ProgressHandled ==
  ASSUME Shape, NEW w \in Worker, NEW k \in Task, NEW n \in Nat, n > 0, NEW msg, StateOf(msg) = "RUNNING",
         Handle(w, msg, k, n)
  PROVE  Handled(w, k, 0, 0)
<1> DEFINE g == GroupOf[k]
           e == [group |-> g, state |-> "RUNNING", rows |-> n, done |-> 0]
<1>1. CASE g \notin Chunked
  <2>1. hold' = [hold EXCEPT ![w] = {e}] /\ agg' = agg /\ stats' = stats
    BY <1>1 DEF Handle, aggVars
  <2>2. e \in Events /\ e.group = g /\ e.state = "RUNNING" /\ e.done = 0
    BY ProgressConstants DEF Events
  <2> HIDE DEF e
  <2> QED
    BY <1>1, <2>1, <2>2 DEF Handled, Shape
<1>2. CASE g \in Chunked
  <2>1. Update(w, k, e)
    BY <1>2 DEF Handle
  <2>2. agg[g] \in Counters
    BY ProgressConstants DEF Shape
  <2>3. agg[g].total + 0 = agg[g].total /\ agg[g].done + 0 = agg[g].done
    BY <2>2, CountersAreNumbers
  <2>4. /\ Counted(agg[g], k, e) \in Counters
        /\ Counted(agg[g], k, e).total = agg[g].total + 0
        /\ Counted(agg[g], k, e).done = agg[g].done + 0
        /\ Counted(agg[g], k, e).failed = agg[g].failed
    BY <2>2, <2>3, ProgressCounted
  <2> QED
    BY <1>2, <2>1, <2>4, UpdateHandled
<1> QED
  BY <1>1, <1>2

LEMMA DoneHandled ==
  ASSUME Shape, NEW w \in Worker, NEW k \in Task, NEW msg, StateOf(msg) = "COMPLETED",
         Handle(w, msg, k, 0)
  PROVE  Handled(w, k, 0, 1)
<1> DEFINE g == GroupOf[k]
           e == [group |-> g, state |-> "COMPLETED", rows |-> 0, done |-> 1]
<1>1. CASE g \notin Chunked
  <2>1. hold' = [hold EXCEPT ![w] = {e}] /\ agg' = agg /\ stats' = stats
    BY <1>1 DEF Handle, aggVars
  <2>2. e \in Events /\ e.group = g /\ e.state = "COMPLETED" /\ e.done = 1
    BY ProgressConstants DEF Events
  <2> HIDE DEF e
  <2> QED
    BY <1>1, <2>1, <2>2 DEF Handled, Shape
<1>2. CASE g \in Chunked
  <2>1. Update(w, k, e)
    BY <1>2 DEF Handle
  <2>2. agg[g] \in Counters
    BY ProgressConstants DEF Shape
  <2>3. agg[g].total + 0 = agg[g].total /\ agg[g].done + 0 = agg[g].done
    BY <2>2, CountersAreNumbers
  <2>4. /\ Counted(agg[g], k, e) \in Counters
        /\ Counted(agg[g], k, e).total = agg[g].total + 0
        /\ Counted(agg[g], k, e).done = agg[g].done + 1
        /\ Counted(agg[g], k, e).failed = agg[g].failed
    BY <2>2, <2>3, DoneCounted
  <2> QED
    BY <1>2, <2>1, <2>4, UpdateHandled
<1> QED
  BY <1>1, <1>2

(* Statistics go past chunkAggregator, and a failure is not recognised.     *)
LEMMA StatsHandled ==
  ASSUME Shape, NEW w \in Worker, NEW k \in Task, NEW n \in Nat, NEW msg, StateOf(msg) = "STATS",
         Handle(w, msg, k, n)
  PROVE  Handled(w, k, 0, 0)
<1> DEFINE g == GroupOf[k]
           e == [group |-> g, state |-> "STATS", rows |-> n, done |-> 0]
<1>1. CASE g \notin Chunked
  <2>1. hold' = [hold EXCEPT ![w] = {e}] /\ agg' = agg /\ stats' = stats
    BY <1>1 DEF Handle, aggVars
  <2>2. e \in Events /\ e.group = g /\ e.state = "STATS" /\ e.done = 0
    BY ProgressConstants DEF Events
  <2> HIDE DEF e
  <2> QED
    BY <1>1, <2>1, <2>2 DEF Handled, Shape
<1>2. CASE g \in Chunked
  <2>1. UpdateStats(w, e)
    BY <1>2 DEF Handle
  <2> DEFINE m == stats[g].rows + n
             x == [e EXCEPT !.rows = m]
  <2>2. agg' = agg /\ agg[g] \in Counters /\ g \in Group
    BY <2>1, ProgressConstants DEF Shape, UpdateStats
  <2>3. m \in Nat
    <3>1. stats[g] \in [rows : Nat, recent : BOOLEAN]
      BY <2>2 DEF Shape
    <3> QED
      BY <3>1
  <2> HIDE DEF m
  <2>4. x \in Events /\ x.group = g /\ x.state = "STATS"
    BY <2>2, <2>3 DEF Events
  <2>5. /\ stats' = [stats EXCEPT ![g] = [rows |-> m, recent |-> TRUE]]
        /\ hold' = [hold EXCEPT ![w] = IF stats[g].recent THEN {} ELSE {x}]
    BY <2>1 DEF UpdateStats, m
  <2> HIDE DEF x
  <2>6. /\ stats' \in [Group -> [rows : Nat, recent : BOOLEAN]]
        /\ hold' \in [Worker -> SUBSET Events]
        /\ \A v \in Worker \ {w} : hold'[v] = hold[v]
        /\ \A y \in hold'[w] : y = x
    BY <2>3, <2>4, <2>5 DEF Shape
  <2>7. agg[g].total + 0 = agg[g].total /\ agg[g].done + 0 = agg[g].done
    BY <2>2, CountersAreNumbers
  <2>8. agg' \in [Group -> Counters]
    BY <2>2 DEF Shape
  <2> QED
    BY <2>2, <2>4, <2>6, <2>7, <2>8, <1>2 DEF Handled
<1> QED
  BY <1>1, <1>2

LEMMA FailureIgnored ==
  ASSUME NEW w \in Worker, NEW k \in Task, NEW n,
         Handle(w, "task failed, continuing with remaining tasks", k, n)
  PROVE  UNCHANGED <<hold, agg, stats>>
<1>1. StateOf("task failed, continuing with remaining tasks") = "none"
  BY DEF StateOf
<1> QED
  BY <1>1 DEF Handle, aggVars
-----------------------------------------------------------------------------
(* A step moves the counters of one group by what it starts and ends of it. *)
LEMMA CountStep ==
  ASSUME Shape, CountInv, NEW w \in Worker, NEW k \in Task, NEW t \in Nat, NEW d \in Nat,
         Handled(w, k, t, d),
         \A i \in Task \ {k} : (Started(i)' <=> Started(i)) /\ (Done(i)' <=> Done(i)),
         \/ t = 0 /\ (Started(k)' <=> Started(k))
         \/ t = 1 /\ ~Started(k) /\ Started(k)',
         \/ d = 0 /\ (Done(k)' <=> Done(k))
         \/ d = 1 /\ ~Done(k) /\ Done(k)'
  PROVE  CountInv'
<1> SUFFICES ASSUME NEW g \in Chunked
             PROVE  /\ agg'[g].total = Cardinality(StartedIn(g)')
                    /\ agg'[g].done = Cardinality(DoneIn(g)')
                    /\ agg'[g].failed = 0
  BY DEF CountInv
<1>1. g \in Group /\ GroupOf[k] \in Group /\ TasksOf(g) \subseteq Task
  BY ProgressConstants DEF TasksOf
<1>2. /\ agg[g].total = Cardinality(StartedIn(g)) /\ agg[g].done = Cardinality(DoneIn(g))
      /\ agg[g].failed = 0
  BY DEF CountInv
<1>3. /\ IsFiniteSet(StartedIn(g)) /\ IsFiniteSet(DoneIn(g))
      /\ Cardinality(StartedIn(g)) \in Nat /\ Cardinality(DoneIn(g)) \in Nat
  BY <1>1, FiniteGroups, FS_CardinalityType
<1>4. CASE g # GroupOf[k]
  <2>1. k \notin TasksOf(g) /\ agg'[g] = agg[g]
    BY <1>1, <1>4 DEF TasksOf, Handled
  <2>2. StartedIn(g)' = StartedIn(g) /\ DoneIn(g)' = DoneIn(g)
    BY <1>1, <2>1 DEF StartedIn, DoneIn, TasksOf
  <2> QED
    BY <1>2, <2>1, <2>2
<1>5. CASE g = GroupOf[k]
  <2>1. k \in TasksOf(g) /\ TasksOf(g)' = TasksOf(g)
    BY <1>5 DEF TasksOf
  <2>2. /\ agg'[g].total = agg[g].total + t /\ agg'[g].done = agg[g].done + d
        /\ agg'[g].failed = 0
    BY <1>2, <1>5 DEF Handled
  <2>3. Cardinality(StartedIn(g)') = Cardinality(StartedIn(g)) + t
    <3>1. CASE t = 0 /\ (Started(k)' <=> Started(k))
      <4>1. StartedIn(g)' = StartedIn(g)
        BY <1>1, <2>1, <3>1 DEF StartedIn
      <4> QED
        BY <1>3, <3>1, <4>1
    <3>2. CASE t = 1 /\ ~Started(k) /\ Started(k)'
      <4>1. StartedIn(g)' = StartedIn(g) \cup {k} /\ k \notin StartedIn(g)
        BY <1>1, <2>1, <3>2 DEF StartedIn
      <4> QED
        BY <1>3, <3>2, <4>1, FS_AddElement
    <3> QED
      BY <3>1, <3>2
  <2>4. Cardinality(DoneIn(g)') = Cardinality(DoneIn(g)) + d
    <3>1. CASE d = 0 /\ (Done(k)' <=> Done(k))
      <4>1. DoneIn(g)' = DoneIn(g)
        BY <1>1, <2>1, <3>1 DEF DoneIn
      <4> QED
        BY <1>3, <3>1, <4>1
    <3>2. CASE d = 1 /\ ~Done(k) /\ Done(k)'
      <4>1. DoneIn(g)' = DoneIn(g) \cup {k} /\ k \notin DoneIn(g)
        BY <1>1, <2>1, <3>2 DEF DoneIn
      <4> QED
        BY <1>3, <3>2, <4>1, FS_AddElement
    <3> QED
      BY <3>1, <3>2
  <2> QED
    BY <1>2, <2>2, <2>3, <2>4
<1> QED
  BY <1>4, <1>5

(* A COMPLETED event about a chunked group: what is started is done.        *)
LEMMA EventTrue ==
  ASSUME Shape', HeldInv', CountInv', NEW g \in Chunked, AllDone(agg'[g]), NEW k \in TasksOf(g)
  PROVE  job'[k] \in {"COMPLETED", "PENDING", "RETRYING"}
<1>1. g \in Group /\ k \in Task
  BY ProgressConstants DEF TasksOf
<1>2. /\ IsFiniteSet(StartedIn(g)') /\ IsFiniteSet(DoneIn(g)')
      /\ DoneIn(g)' \subseteq StartedIn(g)'
  <2>1. IsFiniteSet(Task) /\ TasksOf(g) \subseteq Task
    BY ProgressConstants DEF TasksOf
  <2>2. StartedIn(g)' \subseteq Task /\ DoneIn(g)' \subseteq StartedIn(g)'
    BY <2>1 DEF StartedIn, DoneIn, Started, Done, TasksOf
  <2> QED
    BY <2>1, <2>2, FS_Subset
<1>3. Cardinality(DoneIn(g)') = Cardinality(StartedIn(g)')
  <2>1. agg'[g].done + agg'[g].failed = agg'[g].total
    BY DEF AllDone
  <2>2. agg'[g].done \in Nat
    BY <1>1 DEF Shape, Counters
  <2> QED
    BY <2>1, <2>2 DEF CountInv
<1>4. DoneIn(g)' = StartedIn(g)'
  BY <1>2, <1>3, FS_Subset
<1>5. job'[k] \in JobState \ {"SKIPPED"}
  BY <1>1 DEF Shape
<1>6. CASE k \notin mine'
  BY <1>1, <1>6 DEF HeldInv
<1>7. CASE k \in mine' /\ job'[k] \in {"RUNNING", "FAILED"}
  <2>1. k \in StartedIn(g)'
    BY <1>7 DEF StartedIn, Started, TasksOf
  <2> QED
    BY <1>4, <1>7, <2>1 DEF DoneIn, Done
<1> QED
  BY <1>5, <1>6, <1>7 DEF JobState
-----------------------------------------------------------------------------
(* A worker goes on with its task, or takes one.                            *)
LEMMA GoesOn ==
  ASSUME Shape, HeldInv, NEW w \in Worker, NEW k \in mine, NEW at \in {"claim", "copy", "save", "tell"},
         \A v \in Worker \ {w} : \A t \in work[v] : t.task # k,
         \A t \in work[w] : t.task = k,
         Goes(w, k, at), mine' = mine,
         \A i \in Task \ {k} : job'[i] = job[i],
         job'[k] \in JobAt(at)
  PROVE  /\ HeldInv' /\ Held(k)' /\ \A i \in Task \ {k} : Held(i)' <=> Held(i)
         /\ work' \in [Worker -> SUBSET [task : Task, at : {"claim", "copy", "save", "tell"}]]
<1>1. k \in Task /\ [task |-> k, at |-> at] \in [task : Task, at : {"claim", "copy", "save", "tell"}]
  BY DEF Shape
<1>2. work' = [work EXCEPT ![w] = {[task |-> k, at |-> at]}]
  BY DEF Goes
<1>3. /\ work' \in [Worker -> SUBSET [task : Task, at : {"claim", "copy", "save", "tell"}]]
      /\ work'[w] = {[task |-> k, at |-> at]} /\ \A v \in Worker \ {w} : work'[v] = work[v]
  BY <1>1, <1>2 DEF Shape
<1>4. \A v \in Worker : \A t \in work[v] : t.task \in Task
  BY DEF Shape
<1>5. HeldInv'
  <2>1. ASSUME NEW v \in Worker
        PROVE  At1(v)' /\ \A t \in work'[v] : t.task \in mine' /\ job'[t.task] \in JobAt(t.at)
    <3>1. CASE v = w
      BY <1>3, <3>1 DEF At1
    <3>2. CASE v # w
      BY <1>3, <1>4, <3>2 DEF At1, HeldInv
    <3> QED
      BY <3>1, <3>2
  <2>2. \A v, u \in Worker : \A s \in work'[v], t \in work'[u] : s.task = t.task => v = u
    BY <1>3 DEF HeldInv
  <2>3. \A i \in Task \ mine' : job'[i] = "COMPLETED"
    BY DEF HeldInv
  <2> QED
    BY <2>1, <2>2, <2>3 DEF HeldInv
<1>6. Held(k)'
  <2>1. [task |-> k, at |-> at] \in work'[w]
    BY <1>3
  <2> QED
    BY <2>1 DEF Held
<1>7. \A i \in Task \ {k} : Held(i)' <=> Held(i)
  BY <1>3 DEF Held
<1> QED
  BY <1>3, <1>5, <1>6, <1>7

(* A worker leaves its task.                                                *)
LEMMA LeavesIt ==
  ASSUME Shape, HeldInv, NEW w \in Worker, NEW k \in Task, NEW t \in work[w], t.task = k,
         Ends(w), mine' = mine,
         \A i \in Task \ {k} : job'[i] = job[i]
  PROVE  /\ HeldInv' /\ ~Held(k)' /\ \A i \in Task \ {k} : Held(i)' <=> Held(i)
         /\ work' \in [Worker -> SUBSET [task : Task, at : {"claim", "copy", "save", "tell"}]]
<1>1. /\ work' \in [Worker -> SUBSET [task : Task, at : {"claim", "copy", "save", "tell"}]]
      /\ work'[w] = {} /\ \A v \in Worker \ {w} : work'[v] = work[v]
  BY DEF Ends, Shape
<1>2. \A v \in Worker : \A s \in work[v] : s.task \in Task
  BY DEF Shape
<1>3. \A v \in Worker \ {w} : \A s \in work[v] : s.task # k
  BY DEF HeldInv
<1>4. \A s \in work[w] : s.task = k
  BY DEF HeldInv, At1
<1>5. k \in mine
  BY DEF HeldInv
<1>6. HeldInv'
  <2>1. ASSUME NEW v \in Worker
        PROVE  At1(v)' /\ \A s \in work'[v] : s.task \in mine' /\ job'[s.task] \in JobAt(s.at)
    BY <1>1, <1>2, <1>3 DEF At1, HeldInv
  <2>2. \A v, u \in Worker : \A s \in work'[v], r \in work'[u] : s.task = r.task => v = u
    BY <1>1 DEF HeldInv
  <2>3. \A i \in Task \ mine' : job'[i] = "COMPLETED"
    BY <1>5 DEF HeldInv
  <2> QED
    BY <2>1, <2>2, <2>3 DEF HeldInv
<1>7. ~Held(k)' /\ \A i \in Task \ {k} : Held(i)' <=> Held(i)
  BY <1>1, <1>3, <1>4 DEF Held
<1> QED
  BY <1>1, <1>6, <1>7

(* The worker that is at a task of its own.                                 *)
LEMMA AtTask ==
  ASSUME Shape, HeldInv, NEW w \in Worker, NEW k, NEW at, At(w, k, at)
  PROVE  /\ k \in mine /\ k \in Task /\ Held(k) /\ job[k] \in JobAt(at)
         /\ [task |-> k, at |-> at] \in work[w] /\ \A t \in work[w] : t.task = k
         /\ \A v \in Worker \ {w} : \A t \in work[v] : t.task # k
<1>1. work[w] = {[task |-> k, at |-> at]}
  BY DEF At
<1>2. [task |-> k, at |-> at] \in work[w] /\ \A t \in work[w] : t.task = k
  BY <1>1
<1>3. k \in mine /\ job[k] \in JobAt(at)
  <2>1. \A t \in work[w] : t.task \in mine /\ job[t.task] \in JobAt(t.at)
    BY DEF HeldInv
  <2> QED
    BY <1>2, <2>1
<1>4. k \in Task /\ Held(k)
  BY <1>2, <1>3 DEF Shape, Held
<1>5. \A v \in Worker \ {w} : \A t \in work[v] : t.task # k
  BY <1>2 DEF HeldInv
<1> QED
  BY <1>2, <1>3, <1>4, <1>5
-----------------------------------------------------------------------------
TrueEvents ==
  \A w \in Worker : \A e \in hold'[w] \ hold[w] :
    e.state = "COMPLETED" =>
      \A k \in TasksOf(e.group) : job'[k] \in {"COMPLETED", "PENDING", "RETRYING"}

(* Tasks of group g that are started or done, after a step of one task.     *)
LEMMA SetsOfOthers ==
  ASSUME NEW k \in Task, NEW g \in Group,
         \A i \in Task \ {k} : (Started(i)' <=> Started(i)) /\ (Done(i)' <=> Done(i))
  PROVE  /\ g # GroupOf[k] => StartedIn(g)' = StartedIn(g) /\ DoneIn(g)' = DoneIn(g)
         /\ (Started(k)' <=> Started(k)) => StartedIn(g)' = StartedIn(g)
         /\ (Done(k)' <=> Done(k)) => DoneIn(g)' = DoneIn(g)
         /\ g = GroupOf[k] /\ ~Done(k) /\ Done(k)' => DoneIn(g)' = DoneIn(g) \cup {k} /\ k \notin DoneIn(g)
         /\ g = GroupOf[k] /\ Done(k)' => k \in DoneIn(g)'
         /\ g = GroupOf[k] /\ Started(k)' => k \in StartedIn(g)'
         /\ ~Done(k)' => k \notin DoneIn(g)'
BY DEF StartedIn, DoneIn, TasksOf

LEMMA DoneCount ==
  ASSUME NEW g \in Group
  PROVE  IsFiniteSet(DoneIn(g)) /\ Cardinality(DoneIn(g)) \in Nat
BY FiniteGroups, FS_CardinalityType

(* A message keeps it that what is done has been told or will be.           *)
LEMMA ToldStep ==
  ASSUME Inv, Shape', CountInv', NEW w \in Worker, NEW k \in Task, NEW t \in Nat, NEW d \in Nat,
         Handled(w, k, t, d), hold[w] = {}, told' = told,
         \A i \in Task \ {k} : (Started(i)' <=> Started(i)) /\ (Done(i)' <=> Done(i)),
         \/ t = 0 /\ (Started(k)' <=> Started(k))
         \/ t = 1 /\ ~Started(k) /\ Started(k)' /\ ~Done(k)',
         \/ d = 0 /\ (Done(k)' <=> Done(k))
         \/ d = 1 /\ ~Done(k) /\ Done(k)'
  PROVE  ToldInv'
<1> DEFINE g == GroupOf[k]
<1>1. g \in Group
  BY ProgressConstants
<1>2. \A h \in Group : /\ Cardinality(DoneIn(h)) \in Nat /\ Cardinality(DoneIn(h)') \in Nat
                       /\ Cardinality(DoneIn(h)) <= Cardinality(DoneIn(h)')
  <2> SUFFICES ASSUME NEW h \in Group
               PROVE  /\ Cardinality(DoneIn(h)) \in Nat /\ Cardinality(DoneIn(h)') \in Nat
                      /\ Cardinality(DoneIn(h)) <= Cardinality(DoneIn(h)')
    OBVIOUS
  <2>1. IsFiniteSet(DoneIn(h)) /\ Cardinality(DoneIn(h)) \in Nat
    BY DoneCount
  <2>2. \/ DoneIn(h)' = DoneIn(h)
        \/ DoneIn(h)' = DoneIn(h) \cup {k} /\ k \notin DoneIn(h)
    BY SetsOfOthers
  <2> QED
    BY <2>1, <2>2, FS_AddElement
<1>3. \A e \in hold'[w] : e.state = "COMPLETED" => e.group = g /\ e.done = Cardinality(DoneIn(g)')
  <2> SUFFICES ASSUME NEW e \in hold'[w], e.state = "COMPLETED"
               PROVE  e.group = g /\ e.done = Cardinality(DoneIn(g)')
    OBVIOUS
  <2>1. e.group = g /\ IF g \in Chunked THEN e.done = agg'[g].done ELSE d = 1 /\ e.done = 1
    BY DEF Handled
  <2>2. CASE g \in Chunked
    BY <2>1, <2>2 DEF CountInv
  <2>3. CASE g \notin Chunked
    <3>1. g \in Group \ Chunked /\ IsFiniteSet(TasksOf(g))
      BY <1>1, <2>3, FiniteGroups
    <3>2. PICK x : TasksOf(g) = {x}
      BY <3>1, ProgressConstants, FS_Singleton
    <3>3. Done(k)' /\ k \in TasksOf(g)
      BY <2>1, <2>3 DEF TasksOf
    <3>4. DoneIn(g)' \subseteq TasksOf(g) /\ k \in DoneIn(g)'
      BY <3>3 DEF DoneIn, TasksOf
    <3>5. DoneIn(g)' = {k}
      BY <3>2, <3>3, <3>4
    <3> QED
      BY <2>1, <2>3, <3>5, FS_Singleton
  <2> QED
    BY <2>2, <2>3
<1>4. \A v \in Worker : \A x, e \in hold'[v] : x = e
  BY DEF Handled, Inv, ToldInv
<1>5. \A h \in Group : told'[h] <= Cardinality(DoneIn(h)')
  <2>1. \A h \in Group : told[h] \in Nat /\ told[h] <= Cardinality(DoneIn(h))
    BY DEF Inv, Shape, ToldInv
  <2> QED
    BY <1>2, <2>1
<1>6. \A v \in Worker : \A e \in hold'[v] : e.state = "COMPLETED" => e.done <= Cardinality(DoneIn(e.group)')
  <2> SUFFICES ASSUME NEW v \in Worker, NEW e \in hold'[v], e.state = "COMPLETED"
               PROVE  e.done <= Cardinality(DoneIn(e.group)')
    OBVIOUS
  <2>1. e \in Events
    BY DEF Shape
  <2>2. e.group \in Group /\ e.done \in Nat
    BY <2>1 DEF Events
  <2>3. CASE v = w
    BY <1>2, <1>3, <2>2, <2>3
  <2>4. CASE v # w
    <3>1. e \in hold[v]
      BY <2>4 DEF Handled
    <3>2. e.done <= Cardinality(DoneIn(e.group))
      BY <3>1 DEF Inv, ToldInv
    <3> QED
      BY <1>2, <2>2, <3>2
  <2> QED
    BY <2>3, <2>4
<1>7. ASSUME NEW h \in Group, DoneIn(h)' = StartedIn(h)', DoneIn(h)' # {}
      PROVE  told'[h] = Cardinality(DoneIn(h)') \/ Pending(h)'
  <2>1. CASE StartedIn(h)' = StartedIn(h) /\ DoneIn(h)' = DoneIn(h)
    <3>1. told[h] = Cardinality(DoneIn(h)) \/ Pending(h)
      BY <1>7, <2>1 DEF Inv, ToldInv
    <3>2. Pending(h) => Pending(h)'
      <4> SUFFICES ASSUME NEW v \in Worker, NEW e \in hold[v], e.group = h, e.state = "COMPLETED",
                          e.done = Cardinality(DoneIn(h))
                   PROVE  Pending(h)'
        BY DEF Pending
      <4>1. v # w /\ e \in hold'[v]
        BY DEF Handled
      <4>2. Cardinality(DoneIn(h)') = Cardinality(DoneIn(h))
        BY <2>1
      <4> QED
        BY <4>1, <4>2 DEF Pending
    <3>3. Cardinality(DoneIn(h)') = Cardinality(DoneIn(h))
      BY <2>1
    <3> QED
      BY <3>1, <3>2, <3>3
  <2>2. CASE ~(StartedIn(h)' = StartedIn(h) /\ DoneIn(h)' = DoneIn(h))
    <3>1. h = g /\ ~(t = 0 /\ d = 0)
      BY <2>2, SetsOfOthers
    <3>2. ~(t = 1 /\ ~Started(k) /\ Started(k)' /\ ~Done(k)')
      BY <1>7, <3>1, SetsOfOthers
    <3>3. d = 1 /\ ~Done(k) /\ Done(k)'
      BY <3>1, <3>2
    <3>4. g \in Chunked => AllDone(agg'[g]) /\ agg'[g].failed = 0
      <4> SUFFICES ASSUME g \in Chunked PROVE AllDone(agg'[g]) /\ agg'[g].failed = 0
        OBVIOUS
      <4>1. /\ agg'[g].total = Cardinality(StartedIn(g)') /\ agg'[g].done = Cardinality(DoneIn(g)')
            /\ agg'[g].failed = 0
        BY DEF CountInv
      <4>2. Cardinality(DoneIn(g)') = Cardinality(DoneIn(g)) + 1
        <5>1. DoneIn(g)' = DoneIn(g) \cup {k} /\ k \notin DoneIn(g)
          BY <1>1, <3>3, SetsOfOthers
        <5> QED
          BY <1>1, <5>1, DoneCount, FS_AddElement
      <4>3. Cardinality(StartedIn(g)') = Cardinality(DoneIn(g)')
        BY <1>7, <3>1
      <4>4. Cardinality(DoneIn(g)) \in Nat
        BY <1>1, <1>2
      <4> QED
        BY <4>1, <4>2, <4>3, <4>4 DEF AllDone
    <3>5. PICK e \in hold'[w] : e.state = "COMPLETED"
      BY <3>3, <3>4 DEF Handled
    <3>6. e.group = g /\ e.done = Cardinality(DoneIn(g)')
      BY <1>3, <3>5
    <3> QED
      BY <3>1, <3>5, <3>6 DEF Pending
  <2> QED
    BY <2>1, <2>2
<1> QED
  BY <1>4, <1>5, <1>6, <1>7 DEF ToldInv

(* What is left to show of a step in which a worker logs a message.         *)
LEMMA LoggedStep ==
  ASSUME Inv, Shape', HeldInv', NEW w \in Worker, NEW k \in Task, NEW t \in Nat, NEW d \in Nat,
         Handled(w, k, t, d), hold[w] = {}, told' = told,
         \A i \in Task \ {k} : (Started(i)' <=> Started(i)) /\ (Done(i)' <=> Done(i)),
         \/ t = 0 /\ (Started(k)' <=> Started(k))
         \/ t = 1 /\ ~Started(k) /\ Started(k)' /\ ~Done(k)',
         \/ d = 0 /\ (Done(k)' <=> Done(k))
         \/ d = 1 /\ ~Done(k) /\ Done(k)'
  PROVE  Inv' /\ TrueEvents
<1>1. CountInv'
  <2>1. \/ t = 0 /\ (Started(k)' <=> Started(k))
        \/ t = 1 /\ ~Started(k) /\ Started(k)'
    OBVIOUS
  <2> QED
    BY <2>1, CountStep DEF Inv
<1>2. ToldInv'
  BY <1>1, ToldStep
<1>3. ASSUME NEW v \in Worker, NEW e \in hold'[v] \ hold[v], e.state = "COMPLETED", NEW i \in TasksOf(e.group)
      PROVE  job'[i] \in {"COMPLETED", "PENDING", "RETRYING"}
  <2>1. /\ v = w /\ e.group = GroupOf[k]
        /\ IF GroupOf[k] \in Chunked THEN AllDone(agg'[GroupOf[k]]) ELSE d = 1
    BY <1>3 DEF Handled
  <2>2. CASE GroupOf[k] \in Chunked
    BY <1>1, <1>3, <2>1, <2>2, EventTrue
  <2>3. CASE GroupOf[k] \notin Chunked
    <3>1. GroupOf[k] \in Group \ Chunked /\ IsFiniteSet(TasksOf(GroupOf[k]))
      BY <2>3, ProgressConstants, FiniteGroups
    <3>2. PICK x : TasksOf(GroupOf[k]) = {x}
      BY <3>1, ProgressConstants, FS_Singleton
    <3>3. i = k
      BY <1>3, <2>1, <3>2 DEF TasksOf
    <3>4. d = 1 /\ Done(k)'
      BY <2>1, <2>3
    <3> QED
      BY <3>3, <3>4 DEF Done
  <2> QED
    BY <2>2, <2>3
<1> QED
  BY <1>1, <1>2, <1>3 DEF Inv, TrueEvents

(* Nothing is started or done, as the aggregator counts it.                 *)
LEMMA QuietCounts ==
  ASSUME Inv, \A i \in Task : (Started(i)' <=> Started(i)) /\ (Done(i)' <=> Done(i)),
         \A g \in Chunked : /\ agg'[g].total = agg[g].total /\ agg'[g].done = agg[g].done
                            /\ agg'[g].failed = agg[g].failed
  PROVE  /\ \A g \in Group : StartedIn(g)' = StartedIn(g) /\ DoneIn(g)' = DoneIn(g)
         /\ CountInv'
<1>1. \A g \in Group : StartedIn(g)' = StartedIn(g) /\ DoneIn(g)' = DoneIn(g)
  BY DEF StartedIn, DoneIn, TasksOf
<1>2. \A g \in Chunked : StartedIn(g)' = StartedIn(g) /\ DoneIn(g)' = DoneIn(g)
  BY <1>1, ProgressConstants
<1>3. CountInv'
  BY <1>2 DEF Inv, CountInv
<1> QED
  BY <1>1, <1>3

LEMMA SilentStep ==
  ASSUME Inv, Shape', HeldInv',
         \A i \in Task : (Started(i)' <=> Started(i)) /\ (Done(i)' <=> Done(i)),
         hold' = hold, told' = told,
         \A g \in Chunked : /\ agg'[g].total = agg[g].total /\ agg'[g].done = agg[g].done
                            /\ agg'[g].failed = agg[g].failed
  PROVE  Inv' /\ TrueEvents
<1>1. CountInv' /\ \A g \in Group : StartedIn(g)' = StartedIn(g) /\ DoneIn(g)' = DoneIn(g)
  BY QuietCounts
<1>2. \A g \in Group : Cardinality(DoneIn(g)') = Cardinality(DoneIn(g))
  BY <1>1
<1>3. \A w \in Worker : \A e \in hold[w] : e.group \in Group
  BY DEF Inv, Shape, Events
<1>4. \A g \in Group : Pending(g) => Pending(g)'
  BY <1>2 DEF Pending
<1>5. ToldInv'
  BY <1>1, <1>2, <1>3, <1>4 DEF Inv, ToldInv
<1>6. TrueEvents
  BY DEF TrueEvents
<1> QED
  BY <1>1, <1>5, <1>6 DEF Inv

LEMMA StartStep ==
  ASSUME Inv, NEW w \in Worker, NEW k \in Task, Start(w, k)
  PROVE  Inv' /\ TrueEvents
<1>1. Handled(w, k, 1, 0)
  BY StartHandled, Messages DEF Start, Inv
<1>2. /\ Goes(w, k, "claim") /\ mine' = mine /\ job' = job /\ written' = written
      /\ k \in mine /\ job[k] \in {"PENDING", "RETRYING"} /\ ~Held(k) /\ work[w] = {}
      /\ hold[w] = {} /\ told' = told
  BY DEF Start, Waiting, Idle, storeVars, sentVars, Held
<1>3. job'[k] \in JobAt("claim")
  BY <1>2 DEF JobAt
<1>4. /\ HeldInv' /\ Held(k)' /\ \A i \in Task \ {k} : Held(i)' <=> Held(i)
      /\ work' \in [Worker -> SUBSET [task : Task, at : {"claim", "copy", "save", "tell"}]]
  BY <1>2, <1>3, GoesOn DEF Inv, Held
<1>5. Shape'
  BY <1>1, <1>2, <1>4 DEF Shape, Inv, Handled
<1>6. \A i \in Task \ {k} : (Started(i)' <=> Started(i)) /\ (Done(i)' <=> Done(i))
  BY <1>2, <1>4 DEF Started, Done
<1>7. ~Started(k) /\ Started(k)' /\ ~Done(k) /\ ~Done(k)'
  BY <1>2, <1>4 DEF Started, Done
<1> QED
  BY <1>1, <1>2, <1>4, <1>5, <1>6, <1>7, LoggedStep

LEMMA ClaimStep ==
  ASSUME Inv, NEW w \in Worker, NEW k \in Task, Claim(w, k)
  PROVE  Inv' /\ TrueEvents
<1>1. /\ At(w, k, "claim") /\ Goes(w, k, "copy") /\ mine' = mine /\ hold' = hold /\ agg' = agg
      /\ job' = [job EXCEPT ![k] = "RUNNING"] /\ written' = [written EXCEPT ![k] = 0]
      /\ stats' = stats /\ told' = told
  BY DEF Claim, aggVars, sentVars
<1>2. /\ k \in mine /\ Held(k) /\ job[k] \in JobAt("claim") /\ \A t \in work[w] : t.task = k
      /\ \A v \in Worker \ {w} : \A t \in work[v] : t.task # k
  BY <1>1, AtTask DEF Inv
<1>3. /\ job' \in [Task -> JobState \ {"SKIPPED"}] /\ written' \in [Task -> Nat]
      /\ job'[k] = "RUNNING" /\ \A i \in Task \ {k} : job'[i] = job[i]
  BY <1>1 DEF Inv, Shape, JobState
<1>4. job'[k] \in JobAt("copy")
  BY <1>3 DEF JobAt
<1>5. /\ HeldInv' /\ Held(k)' /\ \A i \in Task \ {k} : Held(i)' <=> Held(i)
      /\ work' \in [Worker -> SUBSET [task : Task, at : {"claim", "copy", "save", "tell"}]]
  BY <1>1, <1>2, <1>3, <1>4, GoesOn DEF Inv
<1>6. Shape'
  BY <1>1, <1>3, <1>5 DEF Shape, Inv
<1>7. \A i \in Task : (Started(i)' <=> Started(i)) /\ (Done(i)' <=> Done(i))
  BY <1>1, <1>2, <1>3, <1>5 DEF Started, Done
<1> QED
  BY <1>1, <1>5, <1>6, <1>7, SilentStep

LEMMA CopyBatchStep ==
  ASSUME Inv, NEW w \in Worker, NEW k \in Task, CopyBatch(w, k)
  PROVE  Inv' /\ TrueEvents
<1>1. /\ job' = job /\ mine' = mine /\ work' = work /\ told' = told /\ hold[w] = {}
      /\ written[k] \in Nat /\ written' \in [Task -> Nat]
  BY DEF CopyBatch, sentVars, At, Inv, Shape
<1>2. HeldInv' /\ \A i \in Task : (Started(i)' <=> Started(i)) /\ (Done(i)' <=> Done(i))
  BY <1>1 DEF Inv, HeldInv, At1, Started, Done, Held
<1>3. CASE k \in logged
  <2>1. hold' = hold /\ agg' = agg /\ stats' = stats
    BY <1>3 DEF CopyBatch, aggVars
  <2>2. Shape'
    BY <1>1, <2>1 DEF Shape, Inv
  <2> QED
    BY <1>1, <1>2, <2>1, <2>2, SilentStep
<1>4. CASE k \notin logged
  <2>1. Handle(w, "progress", k, written[k] + 1)
    BY <1>4 DEF CopyBatch
  <2>2. Handled(w, k, 0, 0)
    <3>1. written[k] + 1 \in Nat /\ written[k] + 1 > 0
      BY <1>1
    <3> QED
      BY <2>1, <3>1, ProgressHandled, Messages DEF Inv
  <2>3. Shape'
    BY <1>1, <2>2 DEF Shape, Inv, Handled
  <2> QED
    BY <1>1, <1>2, <2>2, <2>3, LoggedStep
<1> QED
  BY <1>3, <1>4

LEMMA CopyDoneStep ==
  ASSUME Inv, NEW w \in Worker, NEW k \in Task, CopyDone(w, k)
  PROVE  Inv' /\ TrueEvents
<1>1. /\ At(w, k, "copy") /\ Goes(w, k, "save") /\ mine' = mine /\ job' = job /\ written' = written
      /\ written[k] \in Nat /\ hold[w] = {} /\ told' = told
  BY DEF CopyDone, storeVars, sentVars, At, Inv, Shape
<1>2. Handled(w, k, 0, 0)
  BY <1>1, StatsHandled, Messages DEF CopyDone, Inv
<1>3. /\ k \in mine /\ Held(k) /\ job[k] \in JobAt("copy") /\ \A t \in work[w] : t.task = k
      /\ \A v \in Worker \ {w} : \A t \in work[v] : t.task # k
  BY <1>1, AtTask DEF Inv
<1>4. job'[k] \in JobAt("save")
  BY <1>1, <1>3 DEF JobAt
<1>5. /\ HeldInv' /\ Held(k)' /\ \A i \in Task \ {k} : Held(i)' <=> Held(i)
      /\ work' \in [Worker -> SUBSET [task : Task, at : {"claim", "copy", "save", "tell"}]]
  BY <1>1, <1>3, <1>4, GoesOn DEF Inv
<1>6. Shape'
  BY <1>1, <1>2, <1>5 DEF Shape, Inv, Handled
<1>7. \A i \in Task : (Started(i)' <=> Started(i)) /\ (Done(i)' <=> Done(i))
  BY <1>1, <1>3, <1>5 DEF Started, Done
<1> QED
  BY <1>1, <1>2, <1>5, <1>6, <1>7, LoggedStep

LEMMA SaveStep ==
  ASSUME Inv, NEW w \in Worker, NEW k \in Task, Save(w, k)
  PROVE  Inv' /\ TrueEvents
<1>1. /\ At(w, k, "save") /\ Goes(w, k, "tell") /\ mine' = mine /\ hold' = hold /\ agg' = agg
      /\ job' = [job EXCEPT ![k] = "COMPLETED"] /\ written' = written
      /\ stats' = stats /\ told' = told
  BY DEF Save, aggVars, sentVars
<1>2. /\ k \in mine /\ Held(k) /\ \A t \in work[w] : t.task = k
      /\ \A v \in Worker \ {w} : \A t \in work[v] : t.task # k
  BY <1>1, AtTask DEF Inv
<1>3. /\ job' \in [Task -> JobState \ {"SKIPPED"}]
      /\ job'[k] = "COMPLETED" /\ \A i \in Task \ {k} : job'[i] = job[i]
  BY <1>1 DEF Inv, Shape, JobState
<1>4. job'[k] \in JobAt("tell")
  BY <1>3 DEF JobAt
<1>5. /\ HeldInv' /\ Held(k)' /\ \A i \in Task \ {k} : Held(i)' <=> Held(i)
      /\ work' \in [Worker -> SUBSET [task : Task, at : {"claim", "copy", "save", "tell"}]]
  BY <1>1, <1>2, <1>3, <1>4, GoesOn DEF Inv
<1>6. Shape'
  BY <1>1, <1>3, <1>5 DEF Shape, Inv
<1>7. \A i \in Task : (Started(i)' <=> Started(i)) /\ (Done(i)' <=> Done(i))
  BY <1>1, <1>2, <1>3, <1>5 DEF Started, Done
<1> QED
  BY <1>1, <1>5, <1>6, <1>7, SilentStep

LEMMA TellStep ==
  ASSUME Inv, NEW w \in Worker, NEW k \in Task, Tell(w, k)
  PROVE  Inv' /\ TrueEvents
<1>1. /\ At(w, k, "tell") /\ Ends(w) /\ mine' = mine /\ job' = job /\ written' = written
      /\ hold[w] = {} /\ told' = told
  BY DEF Tell, storeVars, sentVars, At
<1>2. Handled(w, k, 0, 1)
  BY DoneHandled, Messages DEF Tell, Inv
<1>3. /\ k \in mine /\ Held(k) /\ job[k] = "COMPLETED"
      /\ [task |-> k, at |-> "tell"] \in work[w]
  <2>1. JobAt("tell") = {"COMPLETED"}
    BY DEF JobAt
  <2> QED
    BY <1>1, <2>1, AtTask DEF Inv
<1>4. /\ HeldInv' /\ ~Held(k)' /\ \A i \in Task \ {k} : Held(i)' <=> Held(i)
      /\ work' \in [Worker -> SUBSET [task : Task, at : {"claim", "copy", "save", "tell"}]]
  BY <1>1, <1>3, LeavesIt DEF Inv
<1>5. Shape'
  BY <1>1, <1>2, <1>4 DEF Shape, Inv, Handled
<1>6. \A i \in Task \ {k} : (Started(i)' <=> Started(i)) /\ (Done(i)' <=> Done(i))
  BY <1>1, <1>4 DEF Started, Done
<1>7. (Started(k)' <=> Started(k)) /\ ~Done(k) /\ Done(k)'
  BY <1>1, <1>3, <1>4 DEF Started, Done
<1> QED
  BY <1>1, <1>2, <1>4, <1>5, <1>6, <1>7, LoggedStep

LEMMA FailStep ==
  ASSUME Inv, NEW w \in Worker, NEW k \in Task, Fail(w, k)
  PROVE  Inv' /\ TrueEvents
<1>1. PICK at \in {"copy", "save"} : At(w, k, at)
  BY DEF Fail
<1>2. PICK state \in {"FAILED", "RUNNING"} : job' = [job EXCEPT ![k] = state]
  BY DEF Fail
<1>3. /\ Ends(w) /\ mine' = mine /\ written' = written /\ hold' = hold /\ agg' = agg
      /\ stats' = stats /\ told' = told
  BY FailureIgnored DEF Fail, sentVars
<1>4. /\ k \in mine /\ Held(k) /\ job[k] \in JobAt(at)
      /\ [task |-> k, at |-> at] \in work[w]
  BY <1>1, AtTask DEF Inv
<1>5. /\ job' \in [Task -> JobState \ {"SKIPPED"}]
      /\ job'[k] = state /\ \A i \in Task \ {k} : job'[i] = job[i]
  BY <1>2 DEF Inv, Shape, JobState
<1>6. /\ HeldInv' /\ ~Held(k)' /\ \A i \in Task \ {k} : Held(i)' <=> Held(i)
      /\ work' \in [Worker -> SUBSET [task : Task, at : {"claim", "copy", "save", "tell"}]]
  BY <1>3, <1>4, <1>5, LeavesIt DEF Inv
<1>7. Shape'
  BY <1>3, <1>5, <1>6 DEF Shape, Inv
<1>8. \A i \in Task : (Started(i)' <=> Started(i)) /\ (Done(i)' <=> Done(i))
  BY <1>3, <1>4, <1>5, <1>6 DEF Started, Done
<1> QED
  BY <1>3, <1>6, <1>7, <1>8, SilentStep

LEMMA SendStep ==
  ASSUME Inv, NEW w \in Worker, Send(w)
  PROVE  Inv' /\ TrueEvents
<1>1. /\ hold' = [hold EXCEPT ![w] = {}]
      /\ UNCHANGED <<job, written, mine, work, agg, stats>>
  BY DEF Send, storeVars, aggVars
<1>2. PICK e \in hold[w] :
        \/ told' = told /\ e.state # "COMPLETED"
        \/ told' = IF e.state = "COMPLETED" /\ e.done > told[e.group]
                     THEN [told EXCEPT ![e.group] = e.done] ELSE told
  <2>1. \A e \in hold[w] : e.state = "RUNNING" => e.state # "COMPLETED"
    OBVIOUS
  <2> QED
    BY <2>1 DEF Send, sentVars
<1>3. /\ e \in Events /\ e.group \in Group /\ e.done \in Nat /\ \A x \in hold[w] : x = e
      /\ e.state = "COMPLETED" => e.done <= Cardinality(DoneIn(e.group))
  BY DEF Inv, Shape, Events, ToldInv
<1>4. /\ \A v \in Worker : hold'[v] \subseteq hold[v]
      /\ \A v \in Worker \ {w} : hold'[v] = hold[v]
      /\ hold' \in [Worker -> SUBSET Events]
  BY <1>1 DEF Inv, Shape
<1>5. \A g \in Group : /\ told[g] \in Nat /\ told[g] <= Cardinality(DoneIn(g))
                       /\ Cardinality(DoneIn(g)) \in Nat
  BY DoneCount DEF Inv, Shape, ToldInv
<1>6. /\ told' \in [Group -> Nat]
      /\ \A g \in Group : told[g] <= told'[g] /\ told'[g] <= Cardinality(DoneIn(g))
      /\ e.state = "COMPLETED" => e.done <= told'[e.group]
  BY <1>2, <1>3, <1>5 DEF Inv, Shape
<1>7. Shape'
  BY <1>1, <1>4, <1>6 DEF Inv, Shape
<1>8. HeldInv' /\ \A i \in Task : (Started(i)' <=> Started(i)) /\ (Done(i)' <=> Done(i))
  BY <1>1 DEF Inv, HeldInv, At1, Started, Done, Held
<1>9. CountInv' /\ \A g \in Group : StartedIn(g)' = StartedIn(g) /\ DoneIn(g)' = DoneIn(g)
  BY <1>1, <1>8, QuietCounts
<1>10. \A g \in Group : Cardinality(DoneIn(g)') = Cardinality(DoneIn(g))
  BY <1>9
<1>11. ASSUME NEW g \in Group, DoneIn(g) = StartedIn(g), DoneIn(g) # {}
       PROVE  told'[g] = Cardinality(DoneIn(g)) \/ Pending(g)'
  <2>1. CASE told[g] = Cardinality(DoneIn(g))
    <3>1. told'[g] \in Nat
      BY <1>6
    <3> QED
      BY <1>5, <1>6, <2>1, <3>1
  <2>2. ASSUME NEW v \in Worker, NEW x \in hold[v], x.group = g, x.state = "COMPLETED",
               x.done = Cardinality(DoneIn(g))
        PROVE  told'[g] = Cardinality(DoneIn(g)) \/ Pending(g)'
    <3>1. CASE v = w
      <4>1. x = e /\ told'[g] \in Nat
        BY <1>3, <1>6, <3>1
      <4> QED
        BY <1>5, <1>6, <2>2, <4>1
    <3>2. CASE v # w
      BY <1>4, <1>10, <2>2, <3>2 DEF Pending
    <3> QED
      BY <3>1, <3>2
  <2> QED
    BY <1>11, <2>1, <2>2 DEF Inv, ToldInv, Pending
<1>12. ToldInv'
  <2>1. \A v \in Worker : \A x \in hold'[v] :
          x.group \in Group /\ (x.state = "COMPLETED" => x.done <= Cardinality(DoneIn(x.group)))
    BY <1>4 DEF Inv, Shape, Events, ToldInv
  <2>2. \A v \in Worker : \A x, y \in hold'[v] : x = y
    BY <1>4 DEF Inv, ToldInv
  <2> QED
    BY <1>6, <1>9, <1>10, <1>11, <2>1, <2>2 DEF ToldInv
<1>13. TrueEvents
  BY <1>4 DEF TrueEvents
<1> QED
  BY <1>7, <1>8, <1>9, <1>12, <1>13 DEF Inv

LEMMA TickStep ==
  ASSUME Inv, Tick
  PROVE  Inv' /\ TrueEvents
<1>1. /\ agg' = [g \in Group |-> [agg[g] EXCEPT !.recent = FALSE]]
      /\ stats' = [g \in Group |-> [stats[g] EXCEPT !.recent = FALSE]]
      /\ UNCHANGED <<job, written, mine, work, hold, told>>
  BY DEF Tick, storeVars
<1>2. \A g \in Group : LET c == [agg[g] EXCEPT !.recent = FALSE]
                       IN  /\ c \in Counters
                           /\ c.total = agg[g].total /\ c.done = agg[g].done /\ c.failed = agg[g].failed
  BY DEF Inv, Shape, Counters
<1>3. Shape'
  <2>1. agg' \in [Group -> Counters]
    BY <1>1, <1>2
  <2>2. stats' \in [Group -> [rows : Nat, recent : BOOLEAN]]
    BY <1>1 DEF Inv, Shape
  <2> QED
    BY <1>1, <2>1, <2>2 DEF Inv, Shape
<1>4. \A g \in Chunked : /\ agg'[g].total = agg[g].total /\ agg'[g].done = agg[g].done
                         /\ agg'[g].failed = agg[g].failed
  BY <1>1, <1>2, ProgressConstants
<1>5. HeldInv' /\ \A i \in Task : (Started(i)' <=> Started(i)) /\ (Done(i)' <=> Done(i))
  BY <1>1 DEF Inv, HeldInv, At1, Started, Done, Held
<1> QED
  BY <1>1, <1>3, <1>4, <1>5, SilentStep

LEMMA NewCounters ==
  NewAggregate \in Counters /\ NewAggregate.total = 0 /\ NewAggregate.done = 0 /\ NewAggregate.failed = 0
BY DEF NewAggregate, Counters

LEMMA ResumeStep ==
  ASSUME Inv, Resume
  PROVE  Inv' /\ TrueEvents
<1>1. /\ \A w \in Worker : work[w] = {} /\ hold[w] = {}
      /\ job' = [k \in Task |-> IF job[k] \in {"FAILED", "RUNNING"} THEN "RETRYING" ELSE job[k]]
      /\ mine' = {k \in Task : job[k] # "COMPLETED"}
      /\ agg' = [g \in Group |-> NewAggregate] /\ stats' = [g \in Group |-> NewStats]
      /\ told' = [g \in Group |-> 0]
      /\ UNCHANGED <<written, work, hold>>
  BY DEF Resume, Idle
<1>2. Shape'
  <2>1. job' \in [Task -> JobState \ {"SKIPPED"}] /\ mine' \subseteq Task
    BY <1>1 DEF Inv, Shape, JobState
  <2>2. /\ agg' \in [Group -> Counters] /\ stats' \in [Group -> [rows : Nat, recent : BOOLEAN]]
        /\ told' \in [Group -> Nat]
    BY <1>1, NewCounters DEF NewStats
  <2>3. UNCHANGED <<written, work, hold>>
    BY <1>1
  <2> QED
    BY <2>1, <2>2, <2>3 DEF Inv, Shape
<1>3. HeldInv'
  BY <1>1 DEF HeldInv, At1
<1>4. \A k \in Task : ~Started(k)' /\ ~Done(k)'
  BY <1>1 DEF Started, Done, Held
<1>5. CountInv'
  <2>1. \A g \in Chunked : StartedIn(g)' = {} /\ DoneIn(g)' = {}
    BY <1>4 DEF StartedIn, DoneIn, TasksOf
  <2>2. \A g \in Chunked : agg'[g] = NewAggregate
    BY <1>1, ProgressConstants
  <2> QED
    BY <2>1, <2>2, NewCounters, FS_EmptySet DEF CountInv
<1>6. TrueEvents
  BY <1>1 DEF TrueEvents
<1>7. ToldInv'
  <2>1. \A g \in Group : DoneIn(g)' = {}
    BY <1>4 DEF DoneIn, TasksOf
  <2>2. \A g \in Group : told'[g] = 0 /\ Cardinality(DoneIn(g)') = 0
    BY <1>1, <2>1, FS_EmptySet
  <2> QED
    BY <1>1, <2>1, <2>2 DEF ToldInv
<1> QED
  BY <1>2, <1>3, <1>5, <1>6, <1>7 DEF Inv
-----------------------------------------------------------------------------
LEMMA InvAtFirst == Init => Inv
<1> SUFFICES ASSUME Init PROVE Inv
  OBVIOUS
<1>1. Shape
  BY NewCounters DEF Init, Shape, JobState, NewStats
<1>2. HeldInv
  BY DEF Init, HeldInv, At1
<1>3. \A k \in Task : ~Started(k) /\ ~Done(k)
  BY DEF Init, Started, Done, Held
<1>4. CountInv
  <2>1. \A g \in Chunked : StartedIn(g) = {} /\ DoneIn(g) = {}
    BY <1>3 DEF StartedIn, DoneIn, TasksOf
  <2>2. \A g \in Chunked : agg[g] = NewAggregate
    BY ProgressConstants DEF Init
  <2> QED
    BY <2>1, <2>2, NewCounters, FS_EmptySet DEF CountInv
<1>5. ToldInv
  <2>1. \A g \in Group : DoneIn(g) = {}
    BY <1>3 DEF DoneIn, TasksOf
  <2>2. \A g \in Group : told[g] = 0 /\ Cardinality(DoneIn(g)) = 0
    BY <2>1, FS_EmptySet DEF Init
  <2> QED
    BY <2>1, <2>2 DEF ToldInv, Init
<1> QED
  BY <1>1, <1>2, <1>4, <1>5 DEF Inv

LEMMA InvStep ==
  ASSUME Inv, [Next]_vars
  PROVE  Inv' /\ TrueEvents
<1>1. CASE UNCHANGED vars
  <2>1. UNCHANGED <<job, written, mine, work, hold, agg, stats, told>>
    BY <1>1 DEF vars, storeVars, aggVars, sentVars
  <2>2. Shape'
    BY <2>1 DEF Inv, Shape
  <2>3. HeldInv' /\ \A i \in Task : (Started(i)' <=> Started(i)) /\ (Done(i)' <=> Done(i))
    BY <2>1 DEF Inv, HeldInv, At1, Started, Done, Held
  <2> QED
    BY <2>1, <2>2, <2>3, SilentStep
<1>2. CASE Tick
  BY <1>2, TickStep
<1>3. CASE Resume
  BY <1>3, ResumeStep
<1>4. ASSUME NEW w \in Worker, WorkerStep(w) PROVE Inv' /\ TrueEvents
  <2>1. CASE Send(w)
    BY <2>1, SendStep
  <2>2. ASSUME NEW k \in Task,
               \/ Start(w, k) \/ Claim(w, k) \/ CopyBatch(w, k) \/ CopyDone(w, k)
               \/ Save(w, k) \/ Tell(w, k) \/ Fail(w, k)
        PROVE  Inv' /\ TrueEvents
    BY <2>2, StartStep, ClaimStep, CopyBatchStep, CopyDoneStep, SaveStep, TellStep, FailStep
  <2> QED
    BY <1>4, <2>1, <2>2 DEF WorkerStep
<1> QED
  BY <1>1, <1>2, <1>3, <1>4 DEF Next

LEMMA InvAlways == Spec => []Inv
BY InvAtFirst, InvStep, PTL DEF Spec

(* For any number of workers, tasks and chunks, any failures and any number *)
(* of resumptions: a line is reported COMPLETED (chunkAggregator.Update or   *)
(* the handler itself, handlers.go) only at a moment when each of its tasks  *)
(* is done or has not been started by this run.                              *)
THEOREM CompletionIsTrue == Spec => NoFalseCompletion
<1>1. Inv /\ [Next]_vars => Inv' /\ TrueEvents
  BY InvStep
<1>2. Inv /\ [Next]_vars => [TrueEvents]_vars
  BY <1>1
<1> QED
  BY <1>2, InvAlways, PTL DEF Spec, NoFalseCompletion, TrueEvents

(* When all tasks of a line are done and no event about it is on its way,   *)
(* an event has told that each of them is: chunkAggregator.Update never     *)
(* drops the last one, however often chunks report in a second.             *)
THEOREM AllDoneIsTold == Spec => []CompletionIsTold
<1>1. Inv => CompletionIsTold
  <2> SUFFICES ASSUME Inv, NEW g \in Group, TasksOf(g) \cap mine # {},
                      \A k \in TasksOf(g) \cap mine : job[k] = "COMPLETED", ~Busy(g)
               PROVE  told[g] = Cardinality(TasksOf(g) \cap mine)
    BY DEF CompletionIsTold
  <2>1. \A k \in TasksOf(g) : ~Held(k)
    BY DEF Busy, Held, TasksOf
  <2>2. DoneIn(g) = TasksOf(g) \cap mine /\ StartedIn(g) = TasksOf(g) \cap mine
    BY <2>1 DEF DoneIn, StartedIn, Done, Started
  <2>3. ~Pending(g)
    BY DEF Busy, Pending
  <2> QED
    BY <2>2, <2>3 DEF Inv, ToldInv
<1> QED
  BY <1>1, InvAlways, PTL
-----------------------------------------------------------------------------
(* Rows. What a run may report of a task: the rows in the target, unless it *)
(* still waits to be copied again; and those that are all in the target.    *)
Fresh == [k \in Task |-> IF job[k] \in {"PENDING", "RETRYING"} THEN 0 ELSE written[k]]

Shipped(k) ==
  /\ job[k] \notin {"PENDING", "RETRYING"}
  /\ \A w \in Worker : \A t \in work[w] : t.task = k => t.at \in {"save", "tell"}

Finished == [k \in Task |-> IF Shipped(k) THEN written[k] ELSE 0]

FreshIn(g) == Sum(Fresh, TasksOf(g))
FinishedIn(g) == Sum(Finished, TasksOf(g))

(* The aggregators and the events never exceed them.                        *)
AggRows == \A g \in Group, k \in Task : agg[g].rows[k] <= IF GroupOf[k] = g THEN Fresh[k] ELSE 0
StatsRows == \A g \in Group : stats[g].rows <= FinishedIn(g)
HeldRows == \A w \in Worker : \A e \in hold[w] : e.rows <= FreshIn(e.group)
SentRows ==
  /\ statsTold \in [Group -> Nat] /\ last \in [Group -> SUBSET Events]
  /\ \A g \in Group : statsTold[g] <= FreshIn(g) /\ \A e \in last[g] : e.rows <= FreshIn(g)

RowInv == AggRows /\ StatsRows /\ HeldRows /\ SentRows

RowFacts ==
  /\ \A k \in Task : Fresh[k] \in Nat /\ Finished[k] \in Nat /\ Finished[k] <= Fresh[k]
  /\ \A g \in Group : /\ FreshIn(g) \in Nat /\ FinishedIn(g) \in Nat
                      /\ FinishedIn(g) <= FreshIn(g)
                      /\ \A k \in TasksOf(g) : Fresh[k] <= FreshIn(g)

LEMMA RowsAreNumbers == Shape => RowFacts
<1> SUFFICES ASSUME Shape PROVE RowFacts
  OBVIOUS
<1>1. \A k \in Task : written[k] \in Nat
  BY DEF Shape
<1>2. \A k \in Task : Fresh[k] \in Nat /\ Finished[k] \in Nat /\ Finished[k] <= Fresh[k]
  BY <1>1 DEF Fresh, Finished, Shipped
<1>3. ASSUME NEW g \in Group
      PROVE  /\ FreshIn(g) \in Nat /\ FinishedIn(g) \in Nat
             /\ FinishedIn(g) <= FreshIn(g)
             /\ \A k \in TasksOf(g) : Fresh[k] <= FreshIn(g)
  <2>1. IsFiniteSet(TasksOf(g)) /\ TasksOf(g) \subseteq Task
    BY FiniteGroups DEF TasksOf
  <2>2. \A k \in TasksOf(g) : Fresh[k] \in Nat /\ Finished[k] \in Nat /\ Finished[k] <= Fresh[k]
    BY <1>2, <2>1
  <2>3. FreshIn(g) \in Nat /\ FinishedIn(g) \in Nat
    BY <2>1, <2>2, SumType DEF FreshIn, FinishedIn
  <2>4. FinishedIn(g) <= FreshIn(g)
    BY <2>1, <2>2, SumMonotone DEF FreshIn, FinishedIn
  <2>5. \A k \in TasksOf(g) : Fresh[k] <= FreshIn(g)
    BY <2>1, <2>2, SumAtLeast DEF FreshIn
  <2> QED
    BY <2>3, <2>4, <2>5
<1> QED
  BY <1>2, <1>3 DEF RowFacts

LEMMA NextRowsAreNumbers == Shape' => RowFacts'
BY RowsAreNumbers, PTL

(* The sums grow with their parts.                                          *)
Grow ==
  \A i \in Task : Fresh[i] <= Fresh'[i] /\ Finished[i] <= Finished'[i]

LEMMA SumsGrow ==
  ASSUME Shape, Shape', Grow, NEW g \in Group
  PROVE  FreshIn(g) <= FreshIn(g)' /\ FinishedIn(g) <= FinishedIn(g)'
<1>1. IsFiniteSet(TasksOf(g)) /\ TasksOf(g) \subseteq Task
  BY FiniteGroups DEF TasksOf
<1>2. \A k \in TasksOf(g) : /\ Fresh[k] \in Nat /\ Fresh'[k] \in Nat /\ Fresh[k] <= Fresh'[k]
                            /\ Finished[k] \in Nat /\ Finished'[k] \in Nat
                            /\ Finished[k] <= Finished'[k]
  BY <1>1, RowsAreNumbers, NextRowsAreNumbers DEF RowFacts, Grow
<1>3. FreshIn(g)' = Sum(Fresh', TasksOf(g)) /\ FinishedIn(g)' = Sum(Finished', TasksOf(g))
  BY DEF FreshIn, FinishedIn, TasksOf
<1>4. Sum(Fresh, TasksOf(g)) <= Sum(Fresh', TasksOf(g))
  BY <1>1, <1>2, SumMonotone
<1>5. Sum(Finished, TasksOf(g)) <= Sum(Finished', TasksOf(g))
  BY <1>1, <1>2, SumMonotone
<1> QED
  BY <1>3, <1>4, <1>5 DEF FreshIn, FinishedIn

(* The statistics of a group grow by the rows of a task that is shipped.    *)
LEMMA FinishedGrows ==
  ASSUME Shape, Shape', Grow, NEW k \in Task, NEW m \in Nat, Finished[k] + m <= Finished'[k]
  PROVE  FinishedIn(GroupOf[k]) + m <= FinishedIn(GroupOf[k])'
<1> DEFINE g == GroupOf[k]
           f == [Finished EXCEPT ![k] = Finished[k] + m]
<1>1. IsFiniteSet(TasksOf(g)) /\ TasksOf(g) \subseteq Task /\ k \in TasksOf(g)
  BY FiniteGroups, ProgressConstants DEF TasksOf
<1>2. \A i \in Task : Finished[i] \in Nat /\ Finished'[i] \in Nat /\ Finished[i] <= Finished'[i]
  BY RowsAreNumbers, NextRowsAreNumbers DEF RowFacts, Grow
<1>3. f[k] = Finished[k] + m /\ \A i \in Task \ {k} : f[i] = Finished[i]
  BY DEF Finished
<1> HIDE DEF f
<1>4. Sum(f, TasksOf(g)) = Sum(Finished, TasksOf(g)) + m
  <2>1. \A i \in TasksOf(g) : Finished[i] \in Nat
    BY <1>1, <1>2
  <2>2. \A i \in TasksOf(g) \ {k} : f[i] = Finished[i]
    BY <1>1, <1>3
  <2> QED
    BY <1>1, <1>3, <2>1, <2>2, SumAdd
<1>5. Sum(f, TasksOf(g)) <= Sum(Finished', TasksOf(g))
  <2>1. \A i \in TasksOf(g) : f[i] \in Nat /\ Finished'[i] \in Nat /\ f[i] <= Finished'[i]
    BY <1>1, <1>2, <1>3
  <2> QED
    BY <1>1, <2>1, SumMonotone
<1>6. FinishedIn(g)' = Sum(Finished', TasksOf(g))
  BY DEF FinishedIn, TasksOf
<1> QED
  BY <1>4, <1>5, <1>6 DEF FinishedIn

(* What the aggregator adds up for a group.                                 *)
LEMMA TotalIsBounded ==
  ASSUME Shape, AggRows, NEW g \in Group
  PROVE  Total(agg[g].rows) <= FreshIn(g)
<1> DEFINE r == agg[g].rows
<1>1. /\ IsFiniteSet(Task) /\ IsFiniteSet(TasksOf(g)) /\ TasksOf(g) \in SUBSET Task
      /\ Total(r) = Sum(r, Task)
  BY FiniteGroups, ProgressConstants DEF TasksOf, Total, Sum
<1>2. \A k \in Task : r[k] \in Nat
  <2>1. agg[g] \in Counters
    BY DEF Shape
  <2> QED
    BY <2>1 DEF Counters
<1>3. \A k \in Task : Fresh[k] \in Nat
  BY RowsAreNumbers DEF RowFacts
<1>4. \A k \in Task \ TasksOf(g) : r[k] = 0
  <2> SUFFICES ASSUME NEW k \in Task \ TasksOf(g) PROVE r[k] = 0
    OBVIOUS
  <2>1. r[k] <= 0
    BY DEF AggRows, TasksOf
  <2> QED
    BY <1>2, <2>1
<1>5. \A k \in TasksOf(g) : r[k] \in Nat /\ Fresh[k] \in Nat /\ r[k] <= Fresh[k]
  BY <1>2, <1>3 DEF AggRows, TasksOf
<1> HIDE DEF r
<1>6. Sum(r, Task) = Sum(r, TasksOf(g))
  BY <1>1, <1>2, <1>4, SumOfSupport
<1>7. Sum(r, TasksOf(g)) <= Sum(Fresh, TasksOf(g))
  BY <1>1, <1>5, SumMonotone
<1> QED
  BY <1>1, <1>6, <1>7 DEF r, FreshIn

LEMMA NextTotalIsBounded ==
  Shape' /\ AggRows' => \A g \in Group : Total(agg'[g].rows) <= FreshIn(g)'
<1>1. Shape /\ AggRows => \A g \in Group : Total(agg[g].rows) <= FreshIn(g)
  BY TotalIsBounded
<1>2. (Shape /\ AggRows => \A g \in Group : Total(agg[g].rows) <= FreshIn(g))'
  BY <1>1, PTL
<1> QED
  BY <1>2
-----------------------------------------------------------------------------
(* A message about task k that tells of n rows of it, m of them for the     *)
(* statistics.                                                              *)
RowsHandled(w, k, n, m) ==
  LET g == GroupOf[k]
  IN  /\ \A h \in Group : \A i \in Task :
           \/ agg'[h].rows[i] = agg[h].rows[i]
           \/ h = g /\ i = k /\ agg'[h].rows[i] = n
      /\ \A h \in Group :
           \/ stats'[h].rows = stats[h].rows
           \/ h = g /\ stats'[h].rows = stats[h].rows + m
      /\ \A v \in Worker \ {w} : hold'[v] = hold[v]
      /\ \A e \in hold'[w] :
           e.group = g /\ (e.rows = n \/ e.rows = Total(agg'[g].rows) \/ e.rows = stats'[g].rows)

LEMMA MessageRows ==
  ASSUME Shape, NEW w \in Worker, NEW k \in Task, NEW n \in Nat, NEW msg, Handle(w, msg, k, n),
         StateOf(msg) = "RUNNING" \/ (StateOf(msg) = "COMPLETED" /\ n = 0)
  PROVE  RowsHandled(w, k, n, 0)
<1> DEFINE g == GroupOf[k]
           e == [group |-> g, state |-> StateOf(msg), rows |-> n,
                 done |-> IF StateOf(msg) = "COMPLETED" THEN 1 ELSE 0]
<1>1. g \in Group /\ agg[g] \in Counters /\ StateOf(msg) # "none" /\ StateOf(msg) # "STATS"
  BY ProgressConstants DEF Shape
<1>2. CASE g \notin Chunked
  <2>1. hold' = [hold EXCEPT ![w] = {e}] /\ agg' = agg /\ stats' = stats
    BY <1>1, <1>2 DEF Handle, aggVars
  <2>2. e.group = g /\ e.rows = n
    OBVIOUS
  <2> HIDE DEF e
  <2>3. \A v \in Worker \ {w} : hold'[v] = hold[v]
    BY <2>1 DEF Shape
  <2>4. \A x \in hold'[w] : x = e
    BY <2>1 DEF Shape
  <2> QED
    BY <2>1, <2>2, <2>3, <2>4 DEF RowsHandled
<1>3. CASE g \in Chunked
  <2> DEFINE a == Counted(agg[g], k, e)
  <2>1. Update(w, k, e) /\ e.group = g
    BY <1>1, <1>3 DEF Handle
  <2>2. e.rows = n /\ (e.state = "RUNNING" \/ (e.state = "COMPLETED" /\ e.rows = 0))
    OBVIOUS
  <2> HIDE DEF e
  <2>3. a \in Counters
    <3>1. CASE e.state = "RUNNING" /\ e.rows = 0
      BY <1>1, <3>1, StartCounted
    <3>2. CASE e.state = "RUNNING" /\ e.rows > 0
      BY <1>1, <2>2, <3>2, ProgressCounted
    <3>3. CASE e.state = "COMPLETED" /\ e.rows = 0
      BY <1>1, <3>3, DoneCounted
    <3> QED
      BY <2>2, <3>1, <3>2, <3>3
  <2>4. \A i \in Task : a.rows[i] = agg[g].rows[i] \/ (i = k /\ a.rows[i] = n)
    <3> DEFINE b == agg[g]
    <3>1. b \in Counters
      BY <1>1
    <3> HIDE DEF b
    <3>2. CASE e.state = "RUNNING" /\ e.rows = 0
      <4>1. Counted(b, k, e) = [b EXCEPT !.running = @ + 1, !.total = @ + 1]
        BY <3>2 DEF Counted
      <4>2. Counted(b, k, e).rows = b.rows
        BY <3>1, <4>1 DEF Counters
      <4> QED
        BY <4>2 DEF b
    <3>3. CASE e.state = "RUNNING" /\ e.rows > 0
      <4>1. Counted(b, k, e) = [b EXCEPT !.rows[k] = n]
        BY <2>2, <3>3 DEF Counted
      <4>2. \A i \in Task : Counted(b, k, e).rows[i] = b.rows[i] \/ (i = k /\ Counted(b, k, e).rows[i] = n)
        BY <3>1, <4>1 DEF Counters
      <4> QED
        BY <4>2 DEF b
    <3>4. CASE e.state = "COMPLETED" /\ e.rows = 0
      <4>1. Counted(b, k, e) = [b EXCEPT !.done = @ + 1, !.running = Minus(@), !.rows[k] = @]
        BY <3>4 DEF Counted
      <4>2. \A i \in Task : Counted(b, k, e).rows[i] = b.rows[i]
        BY <3>1, <4>1 DEF Counters
      <4> QED
        BY <4>2 DEF b
    <3> QED
      BY <2>2, <3>2, <3>3, <3>4
  <2> HIDE DEF a
  <2>5. /\ stats' = stats /\ \A h \in Group \ {g} : agg'[h] = agg[h]
        /\ agg'[g].rows = a.rows
        /\ \A v \in Worker \ {w} : hold'[v] = hold[v]
        /\ hold'[w] \in {{}, {BuildEvent(g, a)}}
    BY <1>1, <2>1, <2>3, Updated DEF a
  <2>6. BuildEvent(g, a).group = g /\ BuildEvent(g, a).rows = Total(a.rows)
    BY <1>1, <2>3, BuiltEvent
  <2>7. Total(agg'[g].rows) = Total(a.rows)
    BY <2>5
  <2> QED
    BY <2>4, <2>5, <2>6, <2>7 DEF RowsHandled
<1> QED
  BY <1>2, <1>3

LEMMA StatsMessageRows ==
  ASSUME Shape, NEW w \in Worker, NEW k \in Task, NEW n \in Nat, NEW msg, Handle(w, msg, k, n),
         StateOf(msg) = "STATS"
  PROVE  RowsHandled(w, k, n, n)
<1> DEFINE g == GroupOf[k]
           e == [group |-> g, state |-> "STATS", rows |-> n, done |-> 0]
<1>1. g \in Group
  BY ProgressConstants
<1>2. CASE g \notin Chunked
  <2>1. hold' = [hold EXCEPT ![w] = {e}] /\ agg' = agg /\ stats' = stats
    BY <1>2 DEF Handle, aggVars
  <2>2. e.group = g /\ e.rows = n
    OBVIOUS
  <2> HIDE DEF e
  <2>3. \A v \in Worker \ {w} : hold'[v] = hold[v]
    BY <2>1 DEF Shape
  <2>4. \A x \in hold'[w] : x = e
    BY <2>1 DEF Shape
  <2> QED
    BY <2>1, <2>2, <2>3, <2>4 DEF RowsHandled
<1>3. CASE g \in Chunked
  <2> DEFINE m == stats[g].rows + n
             x == [e EXCEPT !.rows = m]
  <2>1. UpdateStats(w, e) /\ e.group = g
    BY <1>3 DEF Handle
  <2>2. x.group = g /\ x.rows = m
    OBVIOUS
  <2>3. /\ agg' = agg /\ stats' = [stats EXCEPT ![g] = [rows |-> m, recent |-> TRUE]]
        /\ hold' = [hold EXCEPT ![w] = IF stats[g].recent THEN {} ELSE {x}]
    BY <2>1 DEF UpdateStats
  <2> HIDE DEF x, e, m
  <2>4. stats'[g].rows = m /\ \A h \in Group \ {g} : stats'[h] = stats[h]
    BY <1>1, <2>3 DEF Shape
  <2>5. (\A v \in Worker \ {w} : hold'[v] = hold[v]) /\ \A y \in hold'[w] : y = x
    BY <2>3 DEF Shape
  <2> QED
    BY <2>2, <2>3, <2>4, <2>5 DEF RowsHandled, m
<1> QED
  BY <1>2, <1>3

(* What has been reported stays within the rows when these only grow.       *)
LEMMA OldRowsStay ==
  ASSUME Shape, Shape', RowInv, Grow
  PROVE  /\ \A h \in Group, i \in Task : agg[h].rows[i] <= IF GroupOf[i] = h THEN Fresh'[i] ELSE 0
         /\ \A h \in Group : stats[h].rows <= FinishedIn(h)'
         /\ \A w \in Worker : \A e \in hold[w] : e.rows <= FreshIn(e.group)'
         /\ \A h \in Group : statsTold[h] <= FreshIn(h)' /\ \A e \in last[h] : e.rows <= FreshIn(h)'
<1>1. \A h \in Group : /\ FreshIn(h) \in Nat /\ FreshIn(h)' \in Nat /\ FreshIn(h) <= FreshIn(h)'
                       /\ FinishedIn(h) \in Nat /\ FinishedIn(h)' \in Nat
                       /\ FinishedIn(h) <= FinishedIn(h)'
  BY SumsGrow, RowsAreNumbers, NextRowsAreNumbers DEF RowFacts
<1>2. \A i \in Task : Fresh[i] \in Nat /\ Fresh'[i] \in Nat /\ Fresh[i] <= Fresh'[i]
  BY RowsAreNumbers, NextRowsAreNumbers DEF RowFacts, Grow
<1>3. \A h \in Group : stats[h].rows \in Nat /\ \A i \in Task : agg[h].rows[i] \in Nat
  <2> SUFFICES ASSUME NEW h \in Group
               PROVE  stats[h].rows \in Nat /\ \A i \in Task : agg[h].rows[i] \in Nat
    OBVIOUS
  <2>1. stats[h] \in [rows : Nat, recent : BOOLEAN] /\ agg[h] \in Counters
    BY DEF Shape
  <2> QED
    BY <2>1 DEF Counters
<1>4. \A h \in Group, i \in Task : agg[h].rows[i] <= IF GroupOf[i] = h THEN Fresh'[i] ELSE 0
  <2> SUFFICES ASSUME NEW h \in Group, NEW i \in Task
               PROVE  agg[h].rows[i] <= IF GroupOf[i] = h THEN Fresh'[i] ELSE 0
    OBVIOUS
  <2>1. agg[h].rows[i] <= IF GroupOf[i] = h THEN Fresh[i] ELSE 0
    BY DEF RowInv, AggRows
  <2> QED
    BY <1>2, <1>3, <2>1
<1>5. \A h \in Group : stats[h].rows <= FinishedIn(h)'
  <2>1. \A h \in Group : stats[h].rows <= FinishedIn(h)
    BY DEF RowInv, StatsRows
  <2> QED
    BY <1>1, <1>3, <2>1
<1>6. \A w \in Worker : \A e \in hold[w] : e.rows <= FreshIn(e.group)'
  <2> SUFFICES ASSUME NEW w \in Worker, NEW e \in hold[w] PROVE e.rows <= FreshIn(e.group)'
    OBVIOUS
  <2>1. e.group \in Group /\ e.rows \in Nat
    BY DEF Shape, Events
  <2>2. e.rows <= FreshIn(e.group)
    BY DEF RowInv, HeldRows
  <2> QED
    BY <1>1, <2>1, <2>2
<1>7. ASSUME NEW h \in Group
      PROVE  statsTold[h] <= FreshIn(h)' /\ \A e \in last[h] : e.rows <= FreshIn(h)'
  <2>1. /\ statsTold[h] \in Nat /\ statsTold[h] <= FreshIn(h)
        /\ \A e \in last[h] : e \in Events /\ e.rows <= FreshIn(h)
    BY DEF RowInv, SentRows
  <2>2. \A e \in last[h] : e.rows \in Nat
    BY <2>1 DEF Events
  <2> QED
    BY <1>1, <2>1, <2>2
<1> QED
  BY <1>4, <1>5, <1>6, <1>7

LEMMA MessageKeepsRows ==
  ASSUME Shape, Shape', RowInv, Grow, NEW w \in Worker, NEW k \in Task, NEW n \in Nat, NEW m \in Nat,
         RowsHandled(w, k, n, m), n <= Fresh'[k], Finished[k] + m <= Finished'[k],
         statsTold' = statsTold, last' = last
  PROVE  RowInv'
<1> DEFINE g == GroupOf[k]
<1>1. g \in Group /\ k \in TasksOf(g)
  BY ProgressConstants DEF TasksOf
<1>2. /\ \A h \in Group, i \in Task : agg[h].rows[i] <= IF GroupOf[i] = h THEN Fresh'[i] ELSE 0
      /\ \A h \in Group : stats[h].rows <= FinishedIn(h)'
      /\ \A v \in Worker : \A e \in hold[v] : e.rows <= FreshIn(e.group)'
      /\ \A h \in Group : statsTold[h] <= FreshIn(h)' /\ \A e \in last[h] : e.rows <= FreshIn(h)'
  BY OldRowsStay
<1>3. AggRows'
  <2> SUFFICES ASSUME NEW h \in Group, NEW i \in Task
               PROVE  agg'[h].rows[i] <= IF GroupOf[i] = h THEN Fresh'[i] ELSE 0
    BY DEF AggRows
  <2>1. \/ agg'[h].rows[i] = agg[h].rows[i]
        \/ h = g /\ i = k /\ agg'[h].rows[i] = n
    BY DEF RowsHandled
  <2> QED
    BY <1>2, <2>1
<1>4. StatsRows'
  <2> SUFFICES ASSUME NEW h \in Group PROVE stats'[h].rows <= FinishedIn(h)'
    BY DEF StatsRows
  <2>1. CASE stats'[h].rows = stats[h].rows
    BY <1>2, <2>1
  <2>2. CASE h = g /\ stats'[h].rows = stats[h].rows + m
    <3>1. FinishedIn(g) + m <= FinishedIn(g)'
      BY FinishedGrows
    <3>2. stats[g].rows <= FinishedIn(g)
      BY <1>1 DEF RowInv, StatsRows
    <3>3. stats[g].rows \in Nat /\ FinishedIn(g) \in Nat /\ FinishedIn(g)' \in Nat
      <4>1. stats[g] \in [rows : Nat, recent : BOOLEAN]
        BY <1>1 DEF Shape
      <4>2. stats[g].rows \in Nat
        BY <4>1
      <4> QED
        BY <1>1, <4>2, RowsAreNumbers, NextRowsAreNumbers DEF RowFacts
    <3>4. stats[g].rows + m <= FinishedIn(g)'
      BY <3>1, <3>2, <3>3
    <3> QED
      BY <2>2, <3>4
  <2> QED
    BY <2>1, <2>2 DEF RowsHandled
<1>5. HeldRows'
  <2> SUFFICES ASSUME NEW v \in Worker, NEW e \in hold'[v] PROVE e.rows <= FreshIn(e.group)'
    BY DEF HeldRows
  <2>1. CASE v # w
    <3>1. e \in hold[v]
      BY <2>1 DEF RowsHandled
    <3> QED
      BY <1>2, <3>1
  <2>2. CASE v = w
    <3>1. e.group = g /\ (e.rows = n \/ e.rows = Total(agg'[g].rows) \/ e.rows = stats'[g].rows)
      BY <2>2 DEF RowsHandled
    <3>2. Total(agg'[g].rows) <= FreshIn(g)'
      BY <1>1, <1>3, NextTotalIsBounded
    <3>3. /\ FreshIn(g)' \in Nat /\ FinishedIn(g)' \in Nat /\ FinishedIn(g)' <= FreshIn(g)'
          /\ Fresh'[k] \in Nat /\ Fresh'[k] <= FreshIn(g)'
      BY <1>1, NextRowsAreNumbers DEF RowFacts, TasksOf
    <3>4. stats'[g].rows <= FinishedIn(g)' /\ stats'[g].rows \in Nat
      <4>1. stats'[g] \in [rows : Nat, recent : BOOLEAN]
        BY <1>1 DEF Shape
      <4> QED
        BY <1>1, <1>4, <4>1 DEF StatsRows
    <3>5. n <= FreshIn(g)' /\ stats'[g].rows <= FreshIn(g)'
      BY <3>3, <3>4
    <3> QED
      BY <3>1, <3>2, <3>5
  <2> QED
    BY <2>1, <2>2
<1>6. SentRows'
  BY <1>2 DEF RowInv, SentRows
<1> QED
  BY <1>3, <1>4, <1>5, <1>6 DEF RowInv

LEMMA SilenceKeepsRows ==
  ASSUME Shape, Shape', RowInv, Grow,
         \A h \in Group : agg'[h].rows = agg[h].rows /\ stats'[h].rows = stats[h].rows,
         hold' = hold, statsTold' = statsTold, last' = last
  PROVE  RowInv'
<1>1. /\ \A h \in Group, i \in Task : agg[h].rows[i] <= IF GroupOf[i] = h THEN Fresh'[i] ELSE 0
      /\ \A h \in Group : stats[h].rows <= FinishedIn(h)'
      /\ \A v \in Worker : \A e \in hold[v] : e.rows <= FreshIn(e.group)'
      /\ \A h \in Group : statsTold[h] <= FreshIn(h)' /\ \A e \in last[h] : e.rows <= FreshIn(h)'
  BY OldRowsStay
<1>2. AggRows' /\ StatsRows'
  BY <1>1 DEF AggRows, StatsRows
<1>3. HeldRows'
  BY <1>1 DEF HeldRows
<1>4. SentRows'
  BY <1>1 DEF RowInv, SentRows
<1> QED
  BY <1>2, <1>3, <1>4 DEF RowInv
-----------------------------------------------------------------------------
(* A step of worker w at task k: nothing changes for the other tasks.       *)
LEMMA OtherRowsStay ==
  ASSUME Shape, NEW w \in Worker, NEW k \in Task, NEW ts, work' = [work EXCEPT ![w] = ts],
         \A t \in work[w] \cup ts : t.task = k,
         \A i \in Task \ {k} : job'[i] = job[i] /\ written'[i] = written[i]
  PROVE  \A i \in Task \ {k} : Fresh'[i] = Fresh[i] /\ Finished'[i] = Finished[i]
<1>1. work'[w] = ts /\ \A v \in Worker \ {w} : work'[v] = work[v]
  BY DEF Shape
<1>2. \A i \in Task \ {k} : Shipped(i)' <=> Shipped(i)
  BY <1>1 DEF Shipped
<1> QED
  BY <1>2 DEF Fresh, Finished

LEMMA GrowAt ==
  ASSUME Shape, NEW k \in Task,
         \A i \in Task \ {k} : Fresh'[i] = Fresh[i] /\ Finished'[i] = Finished[i],
         Fresh[k] <= Fresh'[k], Finished[k] <= Finished'[k]
  PROVE  Grow
<1>1. \A i \in Task : Fresh[i] \in Nat /\ Finished[i] \in Nat
  BY RowsAreNumbers DEF RowFacts
<1> QED
  BY <1>1 DEF Grow

LEMMA JobsAt ==
  /\ JobAt("claim") = {"PENDING", "RETRYING"} /\ JobAt("copy") = {"RUNNING"}
  /\ JobAt("save") = {"RUNNING"} /\ JobAt("tell") = {"COMPLETED"}
BY DEF JobAt

LEMMA StartRows ==
  ASSUME Inv, Inv', RowInv, NEW w \in Worker, NEW k \in Task, Start(w, k)
  PROVE  RowInv'
<1>1. /\ work' = [work EXCEPT ![w] = {[task |-> k, at |-> "claim"]}] /\ work[w] = {}
      /\ job' = job /\ written' = written /\ job[k] \in {"PENDING", "RETRYING"}
      /\ statsTold' = statsTold /\ last' = last
  BY DEF Start, Goes, Idle, Waiting, storeVars, sentVars
<1>2. RowsHandled(w, k, 0, 0)
  BY MessageRows, Messages DEF Start, Inv
<1>3. \A i \in Task \ {k} : Fresh'[i] = Fresh[i] /\ Finished'[i] = Finished[i]
  <2> DEFINE ts == {[task |-> k, at |-> "claim"]}
  <2>1. \A t \in work[w] \cup ts : t.task = k
    BY <1>1
  <2> QED
    BY <1>1, <2>1, OtherRowsStay DEF Inv
<1>4. Fresh[k] = 0 /\ Fresh'[k] = 0 /\ Finished[k] = 0 /\ Finished'[k] = 0
  BY <1>1 DEF Fresh, Finished, Shipped
<1>5. Grow
  BY <1>3, <1>4, GrowAt DEF Inv
<1>6. Shape /\ Shape' /\ 0 <= Fresh'[k] /\ Finished[k] + 0 <= Finished'[k]
  BY <1>4 DEF Inv
<1> QED
  BY <1>1, <1>2, <1>5, <1>6, MessageKeepsRows

LEMMA ClaimRows ==
  ASSUME Inv, Inv', RowInv, NEW w \in Worker, NEW k \in Task, Claim(w, k)
  PROVE  RowInv'
<1>1. /\ work' = [work EXCEPT ![w] = {[task |-> k, at |-> "copy"]}] /\ At(w, k, "claim")
      /\ job' = [job EXCEPT ![k] = "RUNNING"] /\ written' = [written EXCEPT ![k] = 0]
      /\ UNCHANGED <<statsTold, last, hold, agg, stats>>
  BY DEF Claim, Goes, aggVars, sentVars
<1>2. /\ job[k] \in {"PENDING", "RETRYING"} /\ \A t \in work[w] : t.task = k
      /\ job' = [i \in Task |-> IF i = k THEN "RUNNING" ELSE job[i]]
      /\ written' = [i \in Task |-> IF i = k THEN 0 ELSE written[i]]
  BY <1>1, AtTask, JobsAt DEF Inv, Shape
<1>3. \A i \in Task \ {k} : Fresh'[i] = Fresh[i] /\ Finished'[i] = Finished[i]
  <2> DEFINE ts == {[task |-> k, at |-> "copy"]}
  <2>1. \A t \in work[w] \cup ts : t.task = k
    BY <1>2
  <2>2. \A i \in Task \ {k} : job'[i] = job[i] /\ written'[i] = written[i]
    BY <1>2
  <2> QED
    BY <1>1, <2>1, <2>2, OtherRowsStay DEF Inv
<1>4. Fresh[k] = 0 /\ Fresh'[k] = 0 /\ Finished[k] = 0 /\ Finished'[k] = 0
  BY <1>2 DEF Fresh, Finished, Shipped
<1>5. Grow
  BY <1>3, <1>4, GrowAt DEF Inv
<1> QED
  BY <1>1, <1>5, SilenceKeepsRows DEF Inv

LEMMA CopyBatchRows ==
  ASSUME Inv, Inv', RowInv, NEW w \in Worker, NEW k \in Task, CopyBatch(w, k)
  PROVE  RowInv'
<1>1. /\ At(w, k, "copy") /\ job' = job /\ work' = work
      /\ written' = [i \in Task |-> IF i = k THEN written[k] + 1 ELSE written[i]]
      /\ written[k] \in Nat /\ statsTold' = statsTold /\ last' = last
  BY DEF CopyBatch, sentVars, Inv, Shape
<1>2. /\ job[k] = "RUNNING" /\ [task |-> k, at |-> "copy"] \in work[w]
  BY <1>1, AtTask, JobsAt DEF Inv
<1>3. \A i \in Task : Shipped(i)' <=> Shipped(i)
  BY <1>1 DEF Shipped
<1>4. ~Shipped(k)
  BY <1>2 DEF Shipped
<1>5. \A i \in Task \ {k} : Fresh'[i] = Fresh[i] /\ Finished'[i] = Finished[i]
  BY <1>1, <1>3 DEF Fresh, Finished
<1>6. /\ Fresh[k] = written[k] /\ Fresh'[k] = written[k] + 1
      /\ Finished[k] = 0 /\ Finished'[k] = 0
  BY <1>1, <1>2, <1>3, <1>4 DEF Fresh, Finished
<1>7. Grow
  BY <1>1, <1>5, <1>6, GrowAt DEF Inv
<1>8. CASE k \in logged
  <2>1. hold' = hold /\ agg' = agg /\ stats' = stats
    BY <1>8 DEF CopyBatch, aggVars
  <2> QED
    BY <1>1, <1>7, <2>1, SilenceKeepsRows DEF Inv
<1>9. CASE k \notin logged
  <2> DEFINE n == written[k] + 1
  <2>1. n \in Nat /\ n <= Fresh'[k] /\ Finished[k] + 0 <= Finished'[k]
    BY <1>1, <1>6
  <2>2. Handle(w, "progress", k, n)
    BY <1>9 DEF CopyBatch
  <2> HIDE DEF n
  <2>3. RowsHandled(w, k, n, 0)
    BY <2>1, <2>2, MessageRows, Messages DEF Inv
  <2> QED
    BY <1>1, <1>7, <2>1, <2>3, MessageKeepsRows DEF Inv
<1> QED
  BY <1>8, <1>9

LEMMA CopyDoneRows ==
  ASSUME Inv, Inv', RowInv, NEW w \in Worker, NEW k \in Task, CopyDone(w, k)
  PROVE  RowInv'
<1>1. /\ work' = [work EXCEPT ![w] = {[task |-> k, at |-> "save"]}] /\ At(w, k, "copy")
      /\ job' = job /\ written' = written /\ written[k] \in Nat
      /\ statsTold' = statsTold /\ last' = last
  BY DEF CopyDone, Goes, storeVars, sentVars, Inv, Shape
<1>2. /\ job[k] = "RUNNING" /\ \A t \in work[w] : t.task = k
      /\ \A v \in Worker \ {w} : \A t \in work[v] : t.task # k
      /\ [task |-> k, at |-> "copy"] \in work[w]
  BY <1>1, AtTask, JobsAt DEF Inv
<1>3. RowsHandled(w, k, written[k], written[k])
  BY <1>1, StatsMessageRows, Messages DEF CopyDone, Inv
<1>4. \A i \in Task \ {k} : Fresh'[i] = Fresh[i] /\ Finished'[i] = Finished[i]
  <2> DEFINE ts == {[task |-> k, at |-> "save"]}
  <2>1. \A t \in work[w] \cup ts : t.task = k
    BY <1>2
  <2> QED
    BY <1>1, <2>1, OtherRowsStay DEF Inv
<1>5. ~Shipped(k) /\ Shipped(k)'
  <2>1. work'[w] = {[task |-> k, at |-> "save"]} /\ \A v \in Worker \ {w} : work'[v] = work[v]
    BY <1>1 DEF Inv, Shape
  <2>2. \A v \in Worker : \A t \in work'[v] : t.task = k => t.at = "save"
    BY <1>2, <2>1
  <2>3. Shipped(k)'
    BY <1>1, <1>2, <2>2 DEF Shipped
  <2> QED
    BY <1>2, <2>3 DEF Shipped
<1>6. /\ Fresh[k] = written[k] /\ Fresh'[k] = written[k]
      /\ Finished[k] = 0 /\ Finished'[k] = written[k]
  BY <1>1, <1>2, <1>5 DEF Fresh, Finished
<1>7. /\ Fresh[k] <= Fresh'[k] /\ Finished[k] <= Finished'[k]
      /\ written[k] <= Fresh'[k] /\ Finished[k] + written[k] <= Finished'[k]
  BY <1>1, <1>6
<1>8. Grow
  BY <1>4, <1>7, GrowAt DEF Inv
<1> QED
  BY <1>1, <1>3, <1>7, <1>8, MessageKeepsRows DEF Inv

LEMMA SaveRows ==
  ASSUME Inv, Inv', RowInv, NEW w \in Worker, NEW k \in Task, Save(w, k)
  PROVE  RowInv'
<1>1. /\ work' = [work EXCEPT ![w] = {[task |-> k, at |-> "tell"]}] /\ At(w, k, "save")
      /\ job' = [job EXCEPT ![k] = "COMPLETED"] /\ written' = written /\ written[k] \in Nat
      /\ UNCHANGED <<statsTold, last, hold, agg, stats>>
  BY DEF Save, Goes, aggVars, sentVars, Inv, Shape
<1>2. /\ job[k] = "RUNNING" /\ \A t \in work[w] : t.task = k
      /\ \A v \in Worker \ {w} : \A t \in work[v] : t.task # k
      /\ job' = [i \in Task |-> IF i = k THEN "COMPLETED" ELSE job[i]]
  BY <1>1, AtTask, JobsAt DEF Inv, Shape
<1>3. \A i \in Task \ {k} : Fresh'[i] = Fresh[i] /\ Finished'[i] = Finished[i]
  <2> DEFINE ts == {[task |-> k, at |-> "tell"]}
  <2>1. \A t \in work[w] \cup ts : t.task = k
    BY <1>2
  <2>2. \A i \in Task \ {k} : job'[i] = job[i] /\ written'[i] = written[i]
    BY <1>1, <1>2
  <2> QED
    BY <1>1, <2>1, <2>2, OtherRowsStay DEF Inv
<1>4. Shipped(k)'
  <2>1. work'[w] = {[task |-> k, at |-> "tell"]} /\ \A v \in Worker \ {w} : work'[v] = work[v]
    BY <1>1 DEF Inv, Shape
  <2>2. \A v \in Worker : \A t \in work'[v] : t.task = k => t.at = "tell"
    BY <1>2, <2>1
  <2> QED
    BY <1>2, <2>2 DEF Shipped
<1>5. /\ Fresh[k] = written[k] /\ Fresh'[k] = written[k]
      /\ Finished[k] \in {0, written[k]} /\ Finished'[k] = written[k]
  BY <1>1, <1>2, <1>4 DEF Fresh, Finished
<1>6. Grow
  BY <1>1, <1>3, <1>5, GrowAt DEF Inv
<1> QED
  BY <1>1, <1>6, SilenceKeepsRows DEF Inv

LEMMA TellRows ==
  ASSUME Inv, Inv', RowInv, NEW w \in Worker, NEW k \in Task, Tell(w, k)
  PROVE  RowInv'
<1>1. /\ work' = [work EXCEPT ![w] = {}] /\ At(w, k, "tell")
      /\ job' = job /\ written' = written /\ written[k] \in Nat
      /\ statsTold' = statsTold /\ last' = last
  BY DEF Tell, Ends, storeVars, sentVars, Inv, Shape
<1>2. /\ job[k] = "COMPLETED" /\ \A t \in work[w] : t.task = k
      /\ \A v \in Worker \ {w} : \A t \in work[v] : t.task # k
  BY <1>1, AtTask, JobsAt DEF Inv
<1>3. RowsHandled(w, k, 0, 0)
  BY MessageRows, Messages DEF Tell, Inv
<1>4. \A i \in Task \ {k} : Fresh'[i] = Fresh[i] /\ Finished'[i] = Finished[i]
  BY <1>1, <1>2, OtherRowsStay DEF Inv
<1>5. Shipped(k)'
  <2>1. work'[w] = {} /\ \A v \in Worker \ {w} : work'[v] = work[v]
    BY <1>1 DEF Inv, Shape
  <2> QED
    BY <1>1, <1>2, <2>1 DEF Shipped
<1>6. /\ Fresh[k] = written[k] /\ Fresh'[k] = written[k]
      /\ Finished[k] \in {0, written[k]} /\ Finished'[k] = written[k]
  BY <1>1, <1>2, <1>5 DEF Fresh, Finished
<1>7. /\ Fresh[k] <= Fresh'[k] /\ Finished[k] <= Finished'[k]
      /\ 0 <= Fresh'[k] /\ Finished[k] + 0 <= Finished'[k]
  BY <1>1, <1>6
<1>8. Grow
  BY <1>4, <1>7, GrowAt DEF Inv
<1> QED
  BY <1>1, <1>3, <1>7, <1>8, MessageKeepsRows DEF Inv

LEMMA FailRows ==
  ASSUME Inv, Inv', RowInv, NEW w \in Worker, NEW k \in Task, Fail(w, k)
  PROVE  RowInv'
<1>1. PICK at \in {"copy", "save"} : At(w, k, at)
  BY DEF Fail
<1>2. PICK state \in {"FAILED", "RUNNING"} : job' = [job EXCEPT ![k] = state]
  BY DEF Fail
<1>3. /\ work' = [work EXCEPT ![w] = {}] /\ written' = written /\ written[k] \in Nat
      /\ UNCHANGED <<statsTold, last, hold, agg, stats>>
  BY FailureIgnored DEF Fail, Ends, sentVars, Inv, Shape
<1>4. /\ job[k] = "RUNNING" /\ \A t \in work[w] : t.task = k
      /\ \A v \in Worker \ {w} : \A t \in work[v] : t.task # k
      /\ job' = [i \in Task |-> IF i = k THEN state ELSE job[i]]
  <2>1. job' = [i \in Task |-> IF i = k THEN state ELSE job[i]]
    BY <1>2 DEF Inv, Shape
  <2>2. /\ job[k] \in JobAt(at) /\ \A t \in work[w] : t.task = k
        /\ \A v \in Worker \ {w} : \A t \in work[v] : t.task # k
    BY <1>1, AtTask DEF Inv
  <2>3. JobAt(at) = {"RUNNING"}
    BY JobsAt
  <2> QED
    BY <2>1, <2>2, <2>3
<1>5. \A i \in Task \ {k} : Fresh'[i] = Fresh[i] /\ Finished'[i] = Finished[i]
  <2>1. \A i \in Task \ {k} : job'[i] = job[i] /\ written'[i] = written[i]
    BY <1>3, <1>4
  <2> QED
    BY <1>3, <1>4, <2>1, OtherRowsStay DEF Inv
<1>6. Shipped(k)'
  <2>1. work'[w] = {} /\ \A v \in Worker \ {w} : work'[v] = work[v]
    BY <1>3 DEF Inv, Shape
  <2> QED
    BY <1>4, <2>1 DEF Shipped
<1>7. /\ Fresh[k] = written[k] /\ Fresh'[k] = written[k]
      /\ Finished[k] \in {0, written[k]} /\ Finished'[k] = written[k]
  BY <1>3, <1>4, <1>6 DEF Fresh, Finished
<1>8. Grow
  BY <1>3, <1>5, <1>7, GrowAt DEF Inv
<1> QED
  BY <1>3, <1>8, SilenceKeepsRows DEF Inv

LEMMA SameRowsGrow ==
  ASSUME Shape, UNCHANGED <<job, written, work>>
  PROVE  Grow
<1>1. Fresh' = Fresh
  BY DEF Fresh
<1>2. Finished' = Finished
  BY DEF Finished, Shipped
<1>3. \A i \in Task : Fresh[i] \in Nat /\ Finished[i] \in Nat
  BY RowsAreNumbers DEF RowFacts
<1> QED
  BY <1>1, <1>2, <1>3 DEF Grow

LEMMA SendRows ==
  ASSUME Inv, Inv', RowInv, NEW w \in Worker, Send(w)
  PROVE  RowInv'
<1>1. /\ hold' = [hold EXCEPT ![w] = {}] /\ UNCHANGED <<job, written, work, agg, stats>>
  BY DEF Send, storeVars, aggVars
<1>2. PICK e \in hold[w] :
        \/ statsTold' = statsTold /\ last' = last
        \/ /\ statsTold' = statsTold \/ statsTold' = [statsTold EXCEPT ![e.group] = e.rows]
           /\ last' = [last EXCEPT ![e.group] = {e}]
  BY DEF Send, sentVars
<1>3. e \in Events /\ e.group \in Group /\ e.rows \in Nat /\ e.rows <= FreshIn(e.group)
  BY DEF Inv, Shape, Events, RowInv, HeldRows
<1>4. Grow
  BY <1>1, SameRowsGrow DEF Inv
<1>5. /\ \A h \in Group, i \in Task : agg[h].rows[i] <= IF GroupOf[i] = h THEN Fresh'[i] ELSE 0
      /\ \A h \in Group : stats[h].rows <= FinishedIn(h)'
      /\ \A v \in Worker : \A x \in hold[v] : x.rows <= FreshIn(x.group)'
      /\ \A h \in Group : statsTold[h] <= FreshIn(h)' /\ \A x \in last[h] : x.rows <= FreshIn(h)'
  BY <1>4, OldRowsStay DEF Inv
<1>6. AggRows' /\ StatsRows'
  BY <1>1, <1>5 DEF AggRows, StatsRows
<1>7. HeldRows'
  <2>1. \A v \in Worker : hold'[v] \subseteq hold[v]
    BY <1>1 DEF Inv, Shape
  <2> QED
    BY <1>5, <2>1 DEF HeldRows
<1>8. SentRows'
  <2>1. statsTold \in [Group -> Nat] /\ last \in [Group -> SUBSET Events]
    BY DEF RowInv, SentRows
  <2>2. CASE statsTold' = statsTold /\ last' = last
    BY <1>5, <2>1, <2>2 DEF SentRows
  <2>3. CASE /\ statsTold' = statsTold \/ statsTold' = [statsTold EXCEPT ![e.group] = e.rows]
             /\ last' = [last EXCEPT ![e.group] = {e}]
    <3>1. statsTold' \in [Group -> Nat] /\ last' \in [Group -> SUBSET Events]
      BY <1>3, <2>1, <2>3
    <3>2. e.rows <= FreshIn(e.group)'
      BY <1>5
    <3>3. \A h \in Group : statsTold'[h] <= FreshIn(h)'
      BY <1>3, <1>5, <2>1, <2>3, <3>2
    <3>4. \A h \in Group : \A x \in last'[h] : x.rows <= FreshIn(h)'
      BY <1>3, <1>5, <2>1, <2>3, <3>2
    <3> QED
      BY <3>1, <3>3, <3>4 DEF SentRows
  <2> QED
    BY <1>2, <2>2, <2>3
<1> QED
  BY <1>6, <1>7, <1>8 DEF RowInv

LEMMA TickRows ==
  ASSUME Inv, Inv', RowInv, Tick
  PROVE  RowInv'
<1>1. /\ agg' = [g \in Group |-> [agg[g] EXCEPT !.recent = FALSE]]
      /\ stats' = [g \in Group |-> [stats[g] EXCEPT !.recent = FALSE]]
      /\ UNCHANGED <<job, written, work, hold, statsTold, last>>
  BY DEF Tick, storeVars
<1>2. \A h \in Group : agg[h] \in Counters /\ stats[h] \in [rows : Nat, recent : BOOLEAN]
  BY DEF Inv, Shape
<1>3. \A h \in Group : agg'[h].rows = agg[h].rows /\ stats'[h].rows = stats[h].rows
  BY <1>1, <1>2 DEF Counters
<1> QED
  BY <1>1, <1>3, SameRowsGrow, SilenceKeepsRows DEF Inv

(* Where nothing is reported yet. *)
Unreported ==
  /\ Shape /\ agg = [g \in Group |-> NewAggregate] /\ stats = [g \in Group |-> NewStats]
  /\ statsTold = [g \in Group |-> 0] /\ last = [g \in Group |-> {}]
  /\ \A w \in Worker : hold[w] = {}

LEMMA NothingReported == Unreported => RowInv
<1> SUFFICES ASSUME Unreported PROVE RowInv
  OBVIOUS
<1> USE DEF Unreported
<1>1. \A k \in Task : Fresh[k] \in Nat
  BY RowsAreNumbers DEF RowFacts
<1>2. \A g \in Group : FreshIn(g) \in Nat /\ FinishedIn(g) \in Nat
  BY RowsAreNumbers DEF RowFacts
<1>3. AggRows
  <2>1. \A g \in Group : agg[g].rows = [k \in Task |-> 0]
    BY DEF NewAggregate
  <2> QED
    BY <1>1, <2>1 DEF AggRows
<1>4. StatsRows
  BY <1>2 DEF StatsRows, NewStats
<1>5. HeldRows /\ SentRows
  BY <1>2 DEF HeldRows, SentRows
<1> QED
  BY <1>3, <1>4, <1>5 DEF RowInv

LEMMA NextNothingReported == Unreported' => RowInv'
BY NothingReported, PTL

LEMMA RowInvAtFirst == Init => RowInv
BY InvAtFirst, NothingReported DEF Init, Inv, Unreported

LEMMA ResumeRows ==
  ASSUME Inv, Inv', RowInv, Resume
  PROVE  RowInv'
<1>1. Unreported'
  BY DEF Resume, Inv, Idle, Unreported
<1> QED
  BY <1>1, NextNothingReported

LEMMA RowInvStep ==
  ASSUME Inv, Inv', RowInv, [Next]_vars
  PROVE  RowInv'
<1>1. CASE UNCHANGED vars
  <2>1. UNCHANGED <<job, written, work, hold, agg, stats, statsTold, last>>
    BY <1>1 DEF vars, storeVars, aggVars, sentVars
  <2> QED
    BY <2>1, SameRowsGrow, SilenceKeepsRows DEF Inv
<1>2. CASE Tick
  BY <1>2, TickRows
<1>3. CASE Resume
  BY <1>3, ResumeRows
<1>4. ASSUME NEW w \in Worker, WorkerStep(w) PROVE RowInv'
  <2>1. CASE Send(w)
    BY <2>1, SendRows
  <2>2. ASSUME NEW k \in Task,
               \/ Start(w, k) \/ Claim(w, k) \/ CopyBatch(w, k) \/ CopyDone(w, k)
               \/ Save(w, k) \/ Tell(w, k) \/ Fail(w, k)
        PROVE  RowInv'
    BY <2>2, StartRows, ClaimRows, CopyBatchRows, CopyDoneRows, SaveRows, TellRows, FailRows
  <2> QED
    BY <1>4, <2>1, <2>2 DEF WorkerStep
<1> QED
  BY <1>1, <1>2, <1>3, <1>4 DEF Next

LEMMA RowInvAlways == Spec => []RowInv
<1>1. Inv /\ Inv' /\ RowInv /\ [Next]_vars => RowInv'
  BY RowInvStep
<1> QED
  BY <1>1, InvAlways, RowInvAtFirst, PTL DEF Spec

(* No event, and no statistics, tell of more rows of a group than its tasks *)
(* have copied: the reports of a chunk replace each other, and a chunk's    *)
(* rows are added to the statistics once in a run.                          *)
THEOREM RowsAreNotOverstated == Spec => []RowsNotOverstated
<1>1. Inv /\ RowInv => RowsNotOverstated
  <2> SUFFICES ASSUME Inv, RowInv, NEW g \in Chunked
               PROVE  LET copied == MapThenSumSet(LAMBDA k : written[k], TasksOf(g))
                      IN  /\ \A w \in Worker : \A e \in hold[w] : e.group = g => e.rows <= copied
                          /\ \A e \in last[g] : e.rows <= copied
                          /\ statsTold[g] <= copied
    BY DEF RowsNotOverstated
  <2> DEFINE copied == Sum(written, TasksOf(g))
  <2>1. g \in Group /\ IsFiniteSet(TasksOf(g)) /\ TasksOf(g) \subseteq Task
    BY ProgressConstants, FiniteGroups DEF TasksOf
  <2>2. \A k \in TasksOf(g) : Fresh[k] \in Nat /\ written[k] \in Nat /\ Fresh[k] <= written[k]
    BY <2>1 DEF Inv, Shape, Fresh
  <2>3. FreshIn(g) <= copied
    BY <2>1, <2>2, SumMonotone DEF FreshIn
  <2>4. FreshIn(g) \in Nat /\ copied \in Nat
    BY <2>1, <2>2, SumType DEF FreshIn
  <2>5. ASSUME NEW w \in Worker, NEW e \in hold[w], e.group = g PROVE e.rows <= copied
    <3>1. e.rows \in Nat /\ e.rows <= FreshIn(g)
      BY <2>5 DEF Inv, Shape, Events, RowInv, HeldRows
    <3> QED
      BY <2>3, <2>4, <3>1
  <2>6. /\ statsTold[g] \in Nat /\ statsTold[g] <= FreshIn(g)
        /\ \A e \in last[g] : e.rows \in Nat /\ e.rows <= FreshIn(g)
    BY <2>1 DEF RowInv, SentRows, Events
  <2>7. statsTold[g] <= copied /\ \A e \in last[g] : e.rows <= copied
    BY <2>3, <2>4, <2>6
  <2> QED
    BY <2>5, <2>7 DEF Sum
<1> QED
  BY <1>1, InvAlways, RowInvAlways, PTL
-----------------------------------------------------------------------------
(* Types: what is left of TypeOK when the counters are numbers of tasks and *)
(* the rows are bounded by those in the target.                             *)
AggKinds ==
  \A g \in Group :
    /\ agg[g].running <= agg[g].total
    /\ g \notin Chunked => agg[g].total = 0 /\ agg[g].done = 0 /\ agg[g].failed = 0

Rest ==
  /\ written \in [Task -> 0..Batches] /\ logged \subseteq Task /\ throttled \subseteq Table
  /\ fails \in 0..MaxFails /\ resumes \in 0..MaxResumes

EventCounts ==
  /\ \A w \in Worker : \A e \in hold[w] : e.done \in Count
  /\ \A g \in Group : \A e \in last[g] : e.done \in Count

KindInv == AggKinds /\ Rest /\ EventCounts

(* A message lets no more tasks run than it starts.                         *)
KindHandled(w, k) ==
  LET g == GroupOf[k]
  IN  /\ \A h \in Group \ {g} : agg'[h] = agg[h]
      /\ \/ agg'[g] = agg[g]
         \/ g \in Chunked /\ agg'[g].running + agg[g].total <= agg[g].running + agg'[g].total
      /\ \A v \in Worker \ {w} : hold'[v] = hold[v]
      /\ \A e \in hold'[w] : e.done \in {0, 1} \/ (g \in Chunked /\ e.done = agg'[g].done)

LEMMA MessageKinds ==
  ASSUME Shape, NEW w \in Worker, NEW k \in Task, NEW n \in Nat, NEW msg, Handle(w, msg, k, n),
         StateOf(msg) = "RUNNING" \/ (StateOf(msg) = "COMPLETED" /\ n = 0) \/ StateOf(msg) = "STATS"
  PROVE  KindHandled(w, k)
<1> DEFINE g == GroupOf[k]
           e == [group |-> g, state |-> StateOf(msg), rows |-> n,
                 done |-> IF StateOf(msg) = "COMPLETED" THEN 1 ELSE 0]
<1>1. g \in Group /\ agg[g] \in Counters /\ StateOf(msg) # "none"
  BY ProgressConstants DEF Shape
<1>2. /\ e.group = g /\ e.rows = n /\ e.state = StateOf(msg) /\ e.done \in {0, 1}
  OBVIOUS
<1>3. CASE g \notin Chunked
  <2>1. hold' = [hold EXCEPT ![w] = {e}] /\ agg' = agg
    BY <1>1, <1>3 DEF Handle, aggVars
  <2> HIDE DEF e
  <2>2. (\A v \in Worker \ {w} : hold'[v] = hold[v]) /\ \A x \in hold'[w] : x = e
    BY <2>1 DEF Shape
  <2> QED
    BY <1>2, <2>1, <2>2 DEF KindHandled
<1>4. CASE g \in Chunked /\ StateOf(msg) = "STATS"
  <2> DEFINE x == [e EXCEPT !.rows = stats[g].rows + n]
  <2>1. UpdateStats(w, e)
    BY <1>4 DEF Handle
  <2>2. x.done = e.done
    OBVIOUS
  <2>3. agg' = agg /\ hold' = [hold EXCEPT ![w] = IF stats[g].recent THEN {} ELSE {x}]
    BY <2>1 DEF UpdateStats
  <2> HIDE DEF x, e
  <2>4. (\A v \in Worker \ {w} : hold'[v] = hold[v]) /\ \A y \in hold'[w] : y = x
    BY <2>3 DEF Shape
  <2> QED
    BY <1>2, <2>2, <2>3, <2>4 DEF KindHandled
<1>5. CASE g \in Chunked /\ StateOf(msg) # "STATS"
  <2> DEFINE b == agg[g]
             a == Counted(b, k, e)
  <2>1. Update(w, k, e)
    BY <1>1, <1>5 DEF Handle
  <2> HIDE DEF e
  <2>2. b \in Counters /\ b.running \in Nat /\ b.total \in Nat
    <3>1. b \in Counters
      BY <1>1
    <3> QED
      BY <3>1 DEF Counters
  <2> HIDE DEF b
  <2>3. a \in Counters /\ a.running + b.total <= b.running + a.total
    <3>1. CASE e.state = "RUNNING" /\ e.rows = 0
      <4>1. Counted(b, k, e) = [b EXCEPT !.running = @ + 1, !.total = @ + 1]
        BY <3>1 DEF Counted
      <4>2. a.running = b.running + 1 /\ a.total = b.total + 1
        BY <2>2, <4>1 DEF Counters
      <4>3. a \in Counters
        BY <2>2, <3>1, StartCounted
      <4> QED
        BY <2>2, <4>2, <4>3
    <3>2. CASE e.state = "RUNNING" /\ e.rows > 0
      <4>1. Counted(b, k, e) = [b EXCEPT !.rows[k] = e.rows]
        BY <3>2 DEF Counted
      <4>2. a.running = b.running /\ a.total = b.total
        BY <2>2, <4>1 DEF Counters
      <4>3. a \in Counters
        BY <1>2, <2>2, <3>2, ProgressCounted
      <4> QED
        BY <2>2, <4>2, <4>3
    <3>3. CASE e.state = "COMPLETED" /\ e.rows = 0
      <4>1. Counted(b, k, e) = [b EXCEPT !.done = @ + 1, !.running = Minus(@), !.rows[k] = @]
        BY <3>3 DEF Counted
      <4>2. a.running = Minus(b.running) /\ a.total = b.total
        BY <2>2, <4>1 DEF Counters
      <4>3. a \in Counters
        BY <2>2, <3>3, DoneCounted
      <4>4. Minus(b.running) \in Nat /\ Minus(b.running) <= b.running
        BY <2>2 DEF Minus
      <4> QED
        BY <2>2, <4>2, <4>3, <4>4
    <3> QED
      BY <1>2, <1>5, <3>1, <3>2, <3>3
  <2>4. a = Counted(agg[g], k, e)
    BY DEF b
  <2> HIDE DEF a
  <2>5. /\ \A h \in Group \ {g} : agg'[h] = agg[h]
        /\ agg'[g].running = a.running /\ agg'[g].total = a.total /\ agg'[g].done = a.done
        /\ \A v \in Worker \ {w} : hold'[v] = hold[v]
        /\ hold'[w] \in {{}, {BuildEvent(g, a)}}
    BY <1>1, <1>2, <2>1, <2>3, <2>4, Updated
  <2>6. BuildEvent(g, a).done = a.done
    BY <1>1, <2>3, BuiltEvent
  <2> QED
    BY <1>5, <2>3, <2>5, <2>6 DEF KindHandled, b
<1> QED
  BY <1>3, <1>4, <1>5

LEMMA TaskCounts ==
  ASSUME NEW g \in Group
  PROVE  /\ Cardinality(StartedIn(g)) \in Count /\ Cardinality(DoneIn(g)) \in Count
         /\ 0 \in Count
<1>1. IsFiniteSet(Task) /\ StartedIn(g) \subseteq Task /\ DoneIn(g) \subseteq Task
  BY ProgressConstants DEF StartedIn, DoneIn, TasksOf
<1>2. /\ Cardinality(Task) \in Nat /\ Cardinality(StartedIn(g)) \in Nat /\ Cardinality(DoneIn(g)) \in Nat
      /\ Cardinality(StartedIn(g)) <= Cardinality(Task) /\ Cardinality(DoneIn(g)) <= Cardinality(Task)
  BY <1>1, FS_Subset, FS_CardinalityType
<1> QED
  BY <1>2 DEF Count

LEMMA OneIsACount ==
  ASSUME NEW k \in Task
  PROVE  {0, 1} \subseteq Count
<1>1. IsFiniteSet({k}) /\ Cardinality({k}) = 1
  BY FS_Singleton
<1>2. Cardinality({k}) <= Cardinality(Task) /\ Cardinality(Task) \in Nat
  BY ProgressConstants, FS_Subset, FS_CardinalityType
<1> QED
  BY <1>1, <1>2 DEF Count

(* The counters of the aggregator are numbers of tasks.                     *)
CountsAreCounts ==
  \A g \in Group : agg[g].total \in Count /\ agg[g].done \in Count /\ agg[g].failed \in Count

LEMMA AggCounts == Inv /\ AggKinds => CountsAreCounts
<1> SUFFICES ASSUME Inv, AggKinds, NEW g \in Group
             PROVE  agg[g].total \in Count /\ agg[g].done \in Count /\ agg[g].failed \in Count
  BY DEF CountsAreCounts
<1>1. CASE g \in Chunked
  BY <1>1, TaskCounts DEF Inv, CountInv
<1>2. CASE g \notin Chunked
  BY <1>2, TaskCounts DEF AggKinds
<1> QED
  BY <1>1, <1>2

LEMMA NextAggCounts == Inv' /\ AggKinds' => CountsAreCounts'
BY AggCounts, PTL

LEMMA MessageKeepsKinds ==
  ASSUME Inv, Inv', KindInv, Rest', NEW w \in Worker, NEW k \in Task, KindHandled(w, k), last' = last
  PROVE  KindInv'
<1> DEFINE g == GroupOf[k]
<1>1. g \in Group
  BY ProgressConstants
<1>2. AggKinds'
  <2> SUFFICES ASSUME NEW h \in Group
               PROVE  /\ agg'[h].running <= agg'[h].total
                      /\ h \notin Chunked => agg'[h].total = 0 /\ agg'[h].done = 0 /\ agg'[h].failed = 0
    BY DEF AggKinds
  <2>1. /\ agg[h].running <= agg[h].total
        /\ h \notin Chunked => agg[h].total = 0 /\ agg[h].done = 0 /\ agg[h].failed = 0
    BY DEF KindInv, AggKinds
  <2>2. CASE agg'[h] = agg[h]
    BY <2>1, <2>2
  <2>3. CASE h = g /\ g \in Chunked /\ agg'[g].running + agg[g].total <= agg[g].running + agg'[g].total
    <3>1. agg[g] \in Counters /\ agg'[g] \in Counters
      BY <1>1 DEF Inv, Shape
    <3>2. /\ agg[g].running \in Nat /\ agg[g].total \in Nat
          /\ agg'[g].running \in Nat /\ agg'[g].total \in Nat
      BY <3>1 DEF Counters
    <3> QED
      BY <2>1, <2>3, <3>2
  <2> QED
    BY <2>2, <2>3 DEF KindHandled
<1>3. EventCounts'
  <2>1. ASSUME NEW v \in Worker, NEW e \in hold'[v] PROVE e.done \in Count
    <3>1. CASE v = w
      <4>1. agg'[g].done \in Count
        BY <1>1, <1>2, NextAggCounts DEF CountsAreCounts
      <4>2. e.done \in {0, 1} \/ e.done = agg'[g].done
        BY <2>1, <3>1 DEF KindHandled
      <4> QED
        BY <4>1, <4>2, OneIsACount
    <3>2. CASE v # w
      BY <2>1, <3>2 DEF KindHandled, KindInv, EventCounts
    <3> QED
      BY <3>1, <3>2
  <2> QED
    BY <2>1 DEF KindInv, EventCounts
<1> QED
  BY <1>2, <1>3 DEF KindInv

LEMMA SilenceKeepsKinds ==
  ASSUME KindInv, Rest', last' = last, \A w \in Worker : hold'[w] \subseteq hold[w],
         \A g \in Group : /\ agg'[g].running = agg[g].running /\ agg'[g].total = agg[g].total
                          /\ agg'[g].done = agg[g].done /\ agg'[g].failed = agg[g].failed
  PROVE  KindInv'
<1>1. AggKinds'
  BY DEF KindInv, AggKinds
<1>2. EventCounts'
  BY DEF KindInv, EventCounts
<1> QED
  BY <1>1, <1>2 DEF KindInv

LEMMA KindInvAtFirst == Init => KindInv
<1> SUFFICES ASSUME Init PROVE KindInv
  OBVIOUS
<1>1. \A g \in Group : agg[g] = NewAggregate
  BY DEF Init
<1>2. AggKinds
  BY <1>1 DEF AggKinds, NewAggregate
<1>3. Rest
  BY ProgressConstants DEF Init, Rest
<1>4. EventCounts
  BY DEF Init, EventCounts
<1> QED
  BY <1>2, <1>3, <1>4 DEF KindInv

LEMMA TaskKinds ==
  ASSUME Inv, Inv', KindInv, NEW w \in Worker, NEW k \in Task,
         \/ Start(w, k) \/ Claim(w, k) \/ CopyBatch(w, k) \/ CopyDone(w, k)
         \/ Save(w, k) \/ Tell(w, k) \/ Fail(w, k)
  PROVE  KindInv'
<1>0. written \in [Task -> 0..Batches] /\ written[k] \in 0..Batches /\ written[k] \in Nat
  BY DEF KindInv, Rest, Inv, Shape
<1>1. CASE Start(w, k)
  <2>1. Rest' /\ last' = last
    BY <1>1 DEF Start, KindInv, Rest, storeVars, sentVars, boundVars
  <2>2. KindHandled(w, k)
    BY <1>1, MessageKinds, Messages DEF Start, Inv
  <2> QED
    BY <2>1, <2>2, MessageKeepsKinds
<1>2. CASE Claim(w, k)
  <2>1. 0 \in 0..Batches
    BY ProgressConstants
  <2>2. written' \in [Task -> 0..Batches]
    BY <1>0, <1>2, <2>1 DEF Claim
  <2>3. Rest' /\ UNCHANGED <<last, hold, agg>>
    BY <1>2, <2>2 DEF Claim, KindInv, Rest, sentVars, aggVars, boundVars
  <2> QED
    BY <2>3, SilenceKeepsKinds
<1>3. CASE CopyBatch(w, k)
  <2>1. written[k] + 1 \in 0..Batches /\ written[k] + 1 \in Nat
    BY <1>0, <1>3, ProgressConstants DEF CopyBatch
  <2>2. written' \in [Task -> 0..Batches]
    BY <1>0, <1>3, <2>1 DEF CopyBatch
  <2>3. Rest' /\ last' = last
    BY <1>3, <2>2 DEF CopyBatch, KindInv, Rest, sentVars, boundVars
  <2>4. CASE k \in logged
    <3>1. hold' = hold /\ agg' = agg
      BY <1>3, <2>4 DEF CopyBatch, aggVars
    <3> QED
      BY <2>3, <3>1, SilenceKeepsKinds
  <2>5. CASE k \notin logged
    <3>1. Handle(w, "progress", k, written[k] + 1)
      BY <1>3, <2>5 DEF CopyBatch
    <3>2. KindHandled(w, k)
      BY <2>1, <3>1, MessageKinds, Messages DEF Inv
    <3> QED
      BY <2>3, <3>2, MessageKeepsKinds
  <2> QED
    BY <2>4, <2>5
<1>4. CASE CopyDone(w, k)
  <2>1. Rest' /\ last' = last
    BY <1>4 DEF CopyDone, KindInv, Rest, storeVars, sentVars, boundVars
  <2>2. KindHandled(w, k)
    BY <1>0, <1>4, MessageKinds, Messages DEF CopyDone, Inv
  <2> QED
    BY <2>1, <2>2, MessageKeepsKinds
<1>5. CASE Save(w, k)
  <2>1. Rest' /\ UNCHANGED <<last, hold, agg>>
    BY <1>5 DEF Save, KindInv, Rest, sentVars, aggVars, boundVars
  <2> QED
    BY <2>1, SilenceKeepsKinds
<1>6. CASE Tell(w, k)
  <2>1. Rest' /\ last' = last
    BY <1>6 DEF Tell, KindInv, Rest, storeVars, sentVars, boundVars
  <2>2. KindHandled(w, k)
    BY <1>6, MessageKinds, Messages DEF Tell, Inv
  <2> QED
    BY <2>1, <2>2, MessageKeepsKinds
<1>7. CASE Fail(w, k)
  <2>1. /\ UNCHANGED <<written, logged, throttled, last, resumes>>
        /\ fails < MaxFails /\ fails' = fails + 1
    BY <1>7 DEF Fail, sentVars
  <2>2. hold' = hold /\ agg' = agg
    BY <1>7, FailureIgnored DEF Fail
  <2>3. fails' \in 0..MaxFails
    BY <2>1, ProgressConstants DEF KindInv, Rest
  <2>4. Rest'
    BY <2>1, <2>3 DEF KindInv, Rest
  <2> QED
    BY <2>1, <2>2, <2>4, SilenceKeepsKinds
<1> QED
  BY <1>1, <1>2, <1>3, <1>4, <1>5, <1>6, <1>7

LEMMA SendKinds ==
  ASSUME Inv, RowInv, KindInv, NEW w \in Worker, Send(w)
  PROVE  KindInv'
<1>1. /\ hold' = [hold EXCEPT ![w] = {}] /\ UNCHANGED <<written, agg, logged, fails, resumes>>
  BY DEF Send, storeVars, aggVars, boundVars
<1>2. PICK e \in hold[w] :
        \/ throttled' = throttled /\ last' = last
        \/ /\ throttled' = throttled \/ throttled' = throttled \cup {TableOf[e.group]}
           /\ last' = [last EXCEPT ![e.group] = {e}]
  BY DEF Send, sentVars
<1>3. e.group \in Group /\ e.done \in Count
  BY DEF Inv, Shape, Events, KindInv, EventCounts
<1>4. throttled' \subseteq Table
  BY <1>2, <1>3, ProgressConstants DEF KindInv, Rest
<1>5. Rest'
  BY <1>1, <1>4 DEF KindInv, Rest
<1>6. AggKinds'
  BY <1>1 DEF KindInv, AggKinds
<1>7. EventCounts'
  <2>1. \A v \in Worker : hold'[v] \subseteq hold[v]
    BY <1>1 DEF Inv, Shape
  <2>2. \A g \in Group : \A x \in last'[g] : x.done \in Count
    <3>1. last \in [Group -> SUBSET Events] /\ \A g \in Group : \A x \in last[g] : x.done \in Count
      BY DEF RowInv, SentRows, KindInv, EventCounts
    <3> QED
      BY <1>2, <1>3, <3>1
  <2> QED
    BY <2>1, <2>2 DEF KindInv, EventCounts
<1> QED
  BY <1>5, <1>6, <1>7 DEF KindInv

LEMMA KindInvStep ==
  ASSUME Inv, Inv', RowInv, KindInv, [Next]_vars
  PROVE  KindInv'
<1>1. CASE UNCHANGED vars
  <2>1. UNCHANGED <<written, logged, throttled, fails, resumes, agg, hold, last>>
    BY <1>1 DEF vars, storeVars, aggVars, sentVars, boundVars
  <2>2. Rest'
    BY <2>1 DEF KindInv, Rest
  <2> QED
    BY <2>1, <2>2, SilenceKeepsKinds
<1>2. CASE Tick
  <2>1. /\ UNCHANGED <<written, hold, last, fails, resumes>> /\ logged' = {} /\ throttled' = {}
        /\ agg' = [g \in Group |-> [agg[g] EXCEPT !.recent = FALSE]]
    BY <1>2 DEF Tick, storeVars, boundVars
  <2>2. Rest'
    BY <2>1 DEF KindInv, Rest
  <2>3. \A g \in Group : /\ agg'[g].running = agg[g].running /\ agg'[g].total = agg[g].total
                         /\ agg'[g].done = agg[g].done /\ agg'[g].failed = agg[g].failed
    BY <2>1 DEF Inv, Shape, Counters
  <2> QED
    BY <2>1, <2>2, <2>3, SilenceKeepsKinds
<1>3. CASE Resume
  <2>1. /\ resumes < MaxResumes /\ resumes' = resumes + 1
        /\ agg' = [g \in Group |-> NewAggregate] /\ last' = [g \in Group |-> {}]
        /\ logged' = {} /\ throttled' = {} /\ UNCHANGED <<written, hold, fails>>
    BY <1>3 DEF Resume
  <2>2. resumes' \in 0..MaxResumes
    BY <2>1, ProgressConstants DEF KindInv, Rest
  <2>3. Rest'
    BY <2>1, <2>2 DEF KindInv, Rest
  <2>4. AggKinds'
    BY <2>1 DEF AggKinds, NewAggregate
  <2>5. EventCounts'
    BY <2>1 DEF KindInv, EventCounts
  <2> QED
    BY <2>3, <2>4, <2>5 DEF KindInv
<1>4. ASSUME NEW w \in Worker, WorkerStep(w) PROVE KindInv'
  <2>1. CASE Send(w)
    BY <2>1, SendKinds
  <2>2. ASSUME NEW k \in Task,
               \/ Start(w, k) \/ Claim(w, k) \/ CopyBatch(w, k) \/ CopyDone(w, k)
               \/ Save(w, k) \/ Tell(w, k) \/ Fail(w, k)
        PROVE  KindInv'
    BY <2>2, TaskKinds
  <2> QED
    BY <1>4, <2>1, <2>2 DEF WorkerStep
<1> QED
  BY <1>1, <1>2, <1>3, <1>4 DEF Next

LEMMA KindInvAlways == Spec => []KindInv
<1>1. Inv /\ Inv' /\ RowInv /\ KindInv /\ [Next]_vars => KindInv'
  BY KindInvStep
<1> QED
  BY <1>1, InvAlways, RowInvAlways, KindInvAtFirst, PTL DEF Spec

LEMMA RowsOfGroup ==
  ASSUME Shape, Rest, NEW g \in Group
  PROVE  \A n \in Nat : n <= FreshIn(g) => n \in Rows
<1> DEFINE c == Cardinality(TasksOf(g))
           d == Cardinality(Task)
<1>1. IsFiniteSet(Task) /\ TasksOf(g) \subseteq Task /\ IsFiniteSet(TasksOf(g)) /\ Batches \in Nat
  BY ProgressConstants, FiniteGroups DEF TasksOf
<1>2. \A k \in TasksOf(g) : Fresh[k] \in 0..Batches
  BY <1>1 DEF Rest, Fresh
<1>3. FreshIn(g) \in 0..(Batches * c)
  BY <1>1, <1>2, SumBound DEF FreshIn
<1>4. c \in Nat /\ d \in Nat /\ c <= d
  BY <1>1, FS_Subset, FS_CardinalityType
<1> HIDE DEF c, d
<1>5. Batches * c <= Batches * d
  <2> DEFINE r == d - c
  <2>1. r \in Nat /\ d = c + r
    BY <1>4
  <2> HIDE DEF r
  <2>2. Batches * (c + r) = Batches * c + Batches * r /\ Batches * r \in Nat /\ Batches * c \in Nat
    BY <1>1, <1>4, <2>1
  <2> QED
    BY <2>1, <2>2
<1>6. Batches * c \in Nat /\ Batches * d \in Nat
  BY <1>1, <1>4
<1>7. \A n \in Nat : n <= FreshIn(g) => n \in 0..(Batches * d)
  BY <1>3, <1>5, <1>6
<1> QED
  BY <1>7 DEF d, Rows

LEMMA AtMostOne ==
  ASSUME NEW s, \A x, y \in s : x = y
  PROVE  Cardinality(s) <= 1
<1>1. CASE s = {}
  BY <1>1, FS_EmptySet
<1>2. ASSUME NEW x \in s PROVE Cardinality(s) <= 1
  <2>1. s = {x}
    BY <1>2
  <2> QED
    BY <2>1, FS_Singleton
<1> QED
  BY <1>1, <1>2

LEMMA EventKinds ==
  ASSUME Shape, Rest, NEW e \in Events, e.rows <= FreshIn(e.group), e.done \in Count
  PROVE  e \in Event
<1>1. e.group \in Group /\ e.rows \in Nat
  BY DEF Events
<1>2. e.rows \in Rows
  BY <1>1, RowsOfGroup
<1> QED
  BY <1>2 DEF Events, Event

LEMMA AggregateKinds ==
  ASSUME Inv, RowInv, KindInv, NEW g \in Group
  PROVE  agg[g] \in Aggregate
<1> DEFINE a == agg[g]
<1>1. a \in Counters
  BY DEF Inv, Shape
<1>2. /\ a.rows \in [Task -> Nat] /\ a.running \in Nat /\ a.recent \in BOOLEAN
      /\ a = [rows |-> a.rows, running |-> a.running, total |-> a.total,
               done |-> a.done, failed |-> a.failed, recent |-> a.recent]
  <2> HIDE DEF a
  <2> QED
    BY <1>1 DEF Counters
<1>3. a.total \in Count /\ a.done \in Count /\ a.failed \in Count
  BY AggCounts DEF CountsAreCounts, KindInv
<1>4. a.running \in Count
  <2>1. a.running <= a.total
    BY DEF KindInv, AggKinds
  <2>2. Cardinality(Task) \in Nat
    BY ProgressConstants, FS_CardinalityType
  <2> HIDE DEF a
  <2> QED
    BY <1>2, <1>3, <2>1, <2>2 DEF Count
<1>5. ASSUME NEW k \in Task PROVE a.rows[k] \in 0..Batches
  <2>1. a.rows[k] <= IF GroupOf[k] = g THEN Fresh[k] ELSE 0
    BY DEF RowInv, AggRows
  <2>2. Fresh[k] \in 0..Batches /\ Batches \in Nat
    BY ProgressConstants DEF KindInv, Rest, Fresh
  <2>3. a.rows[k] \in Nat
    BY <1>2
  <2> HIDE DEF a
  <2> QED
    BY <2>1, <2>2, <2>3
<1>6. a.rows \in [Task -> 0..Batches]
  <2> HIDE DEF a
  <2> QED
    BY <1>2, <1>5
<1> HIDE DEF a
<1>7. a \in Aggregate
  BY <1>2, <1>3, <1>4, <1>6 DEF Aggregate
<1> QED
  BY <1>7 DEF a

(* Every variable keeps its type: in particular no counter of an aggregator *)
(* exceeds the number of tasks, and no row count that of the rows there are.*)
THEOREM TypeCorrect == Spec => []TypeOK
<1>1. Inv /\ RowInv /\ KindInv => TypeOK
  <2> SUFFICES ASSUME Inv, RowInv, KindInv PROVE TypeOK
    OBVIOUS
  <2>0. Shape /\ Rest
    BY DEF Inv, KindInv
  <2>1. /\ job \in [Task -> JobState] /\ written \in [Task -> 0..Batches] /\ mine \subseteq Task
        /\ logged \subseteq Task /\ throttled \subseteq Table
        /\ fails \in 0..MaxFails /\ resumes \in 0..MaxResumes
    BY <2>0 DEF Shape, Rest
  <2>2. ASSUME NEW w \in Worker
        PROVE  /\ work[w] \subseteq [task : Task, at : {"claim", "copy", "save", "tell"}]
               /\ hold[w] \subseteq Event
               /\ Cardinality(work[w]) <= 1 /\ Cardinality(hold[w]) <= 1
    <3>1. work[w] \subseteq [task : Task, at : {"claim", "copy", "save", "tell"}]
      BY <2>0 DEF Shape
    <3>2. \A e \in hold[w] : e \in Events /\ e.rows <= FreshIn(e.group) /\ e.done \in Count
      BY <2>0 DEF Shape, RowInv, HeldRows, KindInv, EventCounts
    <3>3. hold[w] \subseteq Event
      BY <2>0, <3>2, EventKinds
    <3>4. (\A s, t \in work[w] : s = t) /\ (\A d, e \in hold[w] : d = e)
      BY DEF Inv, HeldInv, At1, ToldInv
    <3>5. Cardinality(work[w]) <= 1 /\ Cardinality(hold[w]) <= 1
      BY <3>4, AtMostOne
    <3> QED
      BY <3>1, <3>3, <3>5
  <2>3. agg \in [Group -> Aggregate]
    BY <2>0, AggregateKinds DEF Shape
  <2>4. stats \in [Group -> [rows : Rows, recent : BOOLEAN]]
    <3>1. stats \in [Group -> [rows : Nat, recent : BOOLEAN]]
      BY <2>0 DEF Shape
    <3>2. ASSUME NEW g \in Group PROVE stats[g].rows \in Rows
      <4>1. /\ stats[g].rows \in Nat /\ stats[g].rows <= FinishedIn(g)
            /\ FinishedIn(g) <= FreshIn(g) /\ FinishedIn(g) \in Nat /\ FreshIn(g) \in Nat
        BY <2>0, <3>1, RowsAreNumbers DEF RowInv, StatsRows, RowFacts
      <4>2. stats[g].rows <= FreshIn(g)
        BY <4>1
      <4> QED
        BY <2>0, <4>1, <4>2, RowsOfGroup
    <3> QED
      BY <3>1, <3>2
  <2>5. statsTold \in [Group -> Rows]
    <3>1. statsTold \in [Group -> Nat] /\ \A g \in Group : statsTold[g] <= FreshIn(g)
      BY DEF RowInv, SentRows
    <3>2. \A g \in Group : statsTold[g] \in Rows
      BY <2>0, <3>1, RowsOfGroup
    <3> QED
      BY <3>1, <3>2
  <2>6. ASSUME NEW g \in Group PROVE last[g] \subseteq Event
    <3> SUFFICES ASSUME NEW e \in last[g] PROVE e \in Event
      OBVIOUS
    <3>1. e \in Events /\ e.rows <= FreshIn(g) /\ e.done \in Count
      BY DEF RowInv, SentRows, KindInv, EventCounts
    <3>2. e.rows \in Rows
      BY <2>0, <3>1, RowsOfGroup DEF Events
    <3> QED
      BY <3>1, <3>2 DEF Events, Event
  <2>7. told \in [Group -> Count]
    <3>1. told \in [Group -> Nat] /\ \A g \in Group : told[g] <= Cardinality(DoneIn(g))
      BY <2>0 DEF Shape, Inv, ToldInv
    <3>2. Cardinality(Task) \in Nat
      BY ProgressConstants, FS_CardinalityType
    <3>3. \A g \in Group : Cardinality(DoneIn(g)) \in 0..Cardinality(Task)
      BY TaskCounts DEF Count
    <3>4. \A g \in Group : told[g] \in 0..Cardinality(Task)
      BY <3>1, <3>2, <3>3
    <3> QED
      BY <3>1, <3>4 DEF Count
  <2> QED
    BY <2>1, <2>2, <2>3, <2>4, <2>5, <2>6, <2>7 DEF TypeOK
<1> QED
  BY <1>1, InvAlways, RowInvAlways, KindInvAlways, PTL
-----------------------------------------------------------------------------
(* The list and the summary. The merge of the list takes the worst state,   *)
(* in whatever order it meets the tasks.                                    *)
Worst(S) == FoldSet(LAMBDA s, r : MergeJobState(r, s), "SKIPPED", S)

Worsts(S) ==
  CHOOSE F : F = [s \in SUBSET S |-> IF s = {} THEN "SKIPPED"
                                     ELSE MergeJobState(F[s \ {First(s)}], First(s))]

LEMMA WorstIsLast ==
  ASSUME NEW S
  PROVE  Worst(S) = Worsts(S)[S]
BY DEF Worst, Worsts, First, FoldSet, MapThenFoldSet

LEMMA PrioritiesAreNumbers == \A a \in JobState : Priority(a) \in Nat
BY DEF JobState, Priority

LEMMA WorstsUnfold ==
  ASSUME NEW S \in SUBSET JobState, IsFiniteSet(S)
  PROVE  \A s \in SUBSET S :
           /\ Worsts(S)[s] \in JobState
           /\ Worsts(S)[s] = IF s = {} THEN "SKIPPED"
                             ELSE MergeJobState(Worsts(S)[s \ {First(s)}], First(s))
<1> DEFINE merge == [p \in JobState \X JobState |-> MergeJobState(p[2], p[1])]
           self == [x \in S |-> x]
           Body(F) == [s \in SUBSET S |-> IF s = {} THEN "SKIPPED"
                                          ELSE MergeJobState(F[s \ {First(s)}], First(s))]
           G == Worsts(S)
<1>0. "SKIPPED" \in JobState
  BY DEF JobState
<1>1. \A a, b \in JobState : MergeJobState(a, b) \in JobState
  BY DEF MergeJobState
<1>2. merge \in [JobState \X JobState -> JobState]
  BY <1>1
<1>3. \A a, b \in JobState : merge[<<a, b>>] = MergeJobState(b, a)
  OBVIOUS
<1>4. \A x \in S : self[x] \in JobState /\ self[x] = x
  OBVIOUS
<1>5. \A s \in SUBSET S : s # {} => First(s) \in S /\ s \ {First(s)} \in SUBSET S
  BY FirstIsIn
<1> HIDE DEF merge, self
<1>6. PICK F \in [SUBSET S -> JobState] : FirstFolded(F, merge, "SKIPPED", self, S)
  BY <1>0, <1>2, <1>4, FirstFoldExists
<1>7. \A s \in SUBSET S : F[s] = IF s = {} THEN "SKIPPED"
                                  ELSE MergeJobState(F[s \ {First(s)}], First(s))
  <2>1. \A s \in SUBSET S : F[s] = IF s = {} THEN "SKIPPED"
                                    ELSE merge[<<self[First(s)], F[s \ {First(s)}]>>]
    BY <1>6 DEF FirstFolded
  <2>2. \A s \in SUBSET S : F[s] \in JobState
    BY <1>6
  <2> QED
    BY <1>3, <1>4, <1>5, <2>1, <2>2
<1>8. F = Body(F)
  BY <1>7
<1>9. G = Body(G)
  BY <1>8 DEF Worsts
<1>10. \A s \in SUBSET S : G[s] = IF s = {} THEN "SKIPPED"
                                   ELSE MergeJobState(G[s \ {First(s)}], First(s))
  <2> HIDE DEF G
  <2> QED
    BY <1>9
<1> HIDE DEF G
<1> DEFINE P == {s \in SUBSET S : G[s] \in JobState}
<1>11. \A s \in SUBSET S : (\A r \in SUBSET s : r # s => r \in P) => s \in P
  <2> SUFFICES ASSUME NEW s \in SUBSET S, \A r \in SUBSET s : r # s => r \in P PROVE s \in P
    OBVIOUS
  <2>1. CASE s = {}
    BY <1>0, <1>10, <2>1
  <2>2. CASE s # {}
    <3>1. First(s) \in S /\ G[s \ {First(s)}] \in JobState
      BY <2>2, FirstIsIn
    <3>2. G[s] = MergeJobState(G[s \ {First(s)}], First(s))
      BY <1>10, <2>2
    <3>3. First(s) \in JobState
      BY <3>1
    <3>4. G[s] \in JobState
      BY <3>1, <3>2, <3>3 DEF MergeJobState
    <3> QED
      BY <3>4
  <2> QED
    BY <2>1, <2>2
<1>12. \A s \in SUBSET S : s \in P
  <2> HIDE DEF P
  <2> QED
    BY <1>11, SubsetInduction
<1> QED
  BY <1>10, <1>12 DEF G

LEMMA WorstIsWorst ==
  ASSUME NEW S \in SUBSET JobState, IsFiniteSet(S)
  PROVE  /\ Worst(S) \in S \cup {"SKIPPED"}
         /\ \A x \in S : Priority(x) <= Priority(Worst(S))
<1> DEFINE G == Worsts(S)
           P == {s \in SUBSET S : /\ G[s] \in s \cup {"SKIPPED"}
                                  /\ \A x \in s : Priority(x) <= Priority(G[s])}
<1>1. \A s \in SUBSET S : /\ G[s] \in JobState
                           /\ G[s] = IF s = {} THEN "SKIPPED"
                                     ELSE MergeJobState(G[s \ {First(s)}], First(s))
  BY WorstsUnfold
<1> HIDE DEF G
<1>2. \A s \in SUBSET S : (\A r \in SUBSET s : r # s => r \in P) => s \in P
  <2> SUFFICES ASSUME NEW s \in SUBSET S, \A r \in SUBSET s : r # s => r \in P
               PROVE  /\ G[s] \in s \cup {"SKIPPED"}
                      /\ \A x \in s : Priority(x) <= Priority(G[s])
    OBVIOUS
  <2>1. CASE s = {}
    BY <1>1, <2>1
  <2>2. CASE s # {}
    <3> DEFINE c == First(s)
               r == s \ {c}
    <3>1. c \in s /\ r \in SUBSET s /\ r # s
      BY <2>2, FirstIsIn
    <3>2. G[s] = MergeJobState(G[r], c)
      BY <1>1, <2>2
    <3>3. /\ G[r] \in r \cup {"SKIPPED"} /\ G[r] \in JobState
          /\ \A x \in r : Priority(x) <= Priority(G[r])
      BY <1>1, <3>1
    <3>4. c \in JobState /\ \A x \in s : x = c \/ (x \in r /\ x \in JobState)
      BY <3>1
    <3> HIDE DEF c, P
    <3>5. \A x \in JobState : Priority(x) \in Nat
      BY PrioritiesAreNumbers
    <3>6. G[s] \in s \cup {"SKIPPED"}
      BY <3>1, <3>2, <3>3 DEF MergeJobState
    <3> HIDE DEF r
    <3>7. ASSUME NEW x \in s PROVE Priority(x) <= Priority(G[s])
      <4>1. Priority(x) \in Nat /\ Priority(c) \in Nat /\ Priority(G[r]) \in Nat
        BY <3>3, <3>4, <3>5
      <4>2. x = c \/ Priority(x) <= Priority(G[r])
        BY <3>3, <3>4
      <4>3. CASE Priority(c) > Priority(G[r])
        <5>1. G[s] = c
          BY <3>2, <4>3 DEF MergeJobState
        <5>2. x = c \/ Priority(x) <= Priority(c)
          BY <4>1, <4>2, <4>3
        <5> QED
          BY <4>1, <5>1, <5>2
      <4>4. CASE ~(Priority(c) > Priority(G[r]))
        <5>1. G[s] = G[r]
          BY <3>2, <4>4 DEF MergeJobState
        <5>2. Priority(c) <= Priority(G[r])
          BY <4>1, <4>4
        <5> QED
          BY <4>1, <4>2, <5>1, <5>2
      <4> QED
        BY <4>3, <4>4
    <3> QED
      BY <3>6, <3>7
  <2> QED
    BY <2>1, <2>2
<1>3. S \in P
  <2> HIDE DEF P
  <2> QED
    BY <1>2, SubsetInduction
<1>4. Worst(S) = G[S]
  BY WorstIsLast DEF G
<1> QED
  BY <1>3, <1>4

LEMMA FiniteStates == IsFiniteSet(JobState)
<1>1. \A a, b : IsFiniteSet({a} \cup {b})
  BY FS_Singleton, FS_Union
<1>2. JobState = (({"PENDING"} \cup {"RUNNING"}) \cup ({"COMPLETED"} \cup {"FAILED"}))
                 \cup ({"RETRYING"} \cup {"SKIPPED"})
  BY DEF JobState
<1> QED
  BY <1>1, <1>2, FS_Union

(* The line of the list and the summary tell the same of a chunked table    *)
(* that is one line: no data job is ever SKIPPED, and the order in which    *)
(* the summary looks for states is that of the priorities.                  *)
THEOREM ListAndSummaryAgree == Spec => []ListMatchesSummary
<1>1. Inv => ListMatchesSummary
  <2> SUFFICES ASSUME Inv, NEW g \in Chunked, TasksOf(g) # {},
                      \A h \in Chunked : TableOf[h] = TableOf[g] => h = g
               PROVE  ListState(g) = SummaryState(TableOf[g])
    BY DEF ListMatchesSummary
  <2> DEFINE S == {job[k] : k \in TasksOf(g)}
             t == TableOf[g]
  <2>1. ChunksOf(t) = TasksOf(g)
    BY ProgressConstants DEF ChunksOf, TasksOf
  <2>2. S \in SUBSET (JobState \ {"SKIPPED"}) /\ S # {}
    BY DEF Inv, Shape, TasksOf
  <2>3. \A s : (\E k \in ChunksOf(t) : job[k] = s) <=> s \in S
    BY <2>1
  <2>4. (\A k \in ChunksOf(t) : job[k] = "COMPLETED") <=> S = {"COMPLETED"}
    BY <2>1, <2>2
  <2>5. ListState(g) = Worst(S)
    BY DEF ListState, Worst
  <2> HIDE DEF S, t
  <2>6. S \in SUBSET JobState /\ IsFiniteSet(S)
    BY <2>2, FiniteStates, FS_Subset
  <2>7. Worst(S) \in S \cup {"SKIPPED"} /\ \A x \in S : Priority(x) <= Priority(Worst(S))
    BY <2>6, WorstIsWorst
  <2>8. Worst(S) \in S
    <3>1. \A x \in S : Priority(x) \in Nat /\ Priority(x) > 0
      BY <2>2 DEF JobState, Priority
    <3>2. Priority("SKIPPED") = 0
      BY DEF Priority
    <3> QED
      BY <2>2, <2>7, <3>1, <3>2
  <2>9. SummaryState(t) =
          IF "FAILED" \in S THEN "FAILED" ELSE IF "RUNNING" \in S THEN "RUNNING"
          ELSE IF "RETRYING" \in S THEN "RETRYING" ELSE IF "PENDING" \in S THEN "PENDING"
          ELSE IF S = {"COMPLETED"} THEN "COMPLETED" ELSE "SKIPPED"
    BY <2>3, <2>4 DEF SummaryState
  <2>10. Worst(S) = IF "FAILED" \in S THEN "FAILED" ELSE IF "RUNNING" \in S THEN "RUNNING"
          ELSE IF "RETRYING" \in S THEN "RETRYING" ELSE IF "PENDING" \in S THEN "PENDING"
          ELSE IF S = {"COMPLETED"} THEN "COMPLETED" ELSE "SKIPPED"
    BY <2>2, <2>7, <2>8 DEF JobState, Priority
  <2> QED
    BY <2>5, <2>9, <2>10 DEF t
<1> QED
  BY <1>1, InvAlways, PTL
=============================================================================
