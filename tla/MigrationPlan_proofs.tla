------------------------ MODULE MigrationPlan_proofs ------------------------
(***************************************************************************)
(* Theorems about MigrationPlan, for every schema, chunk list and number   *)
(* of chunks: which partitions are migrated, in what order the tables are, *)
(* and the tasks of the plan, from the first one to the interleaved list.  *)
(***************************************************************************)
EXTENDS MigrationPlan, FoldLemmas, TLAPS

(* A chunk list whose intervals follow one another. *)
Chain(chunks) ==
  /\ \A i, j \in DOMAIN chunks : i <= j => chunks[i].lo <= chunks[j].hi
  /\ \A i, j \in DOMAIN chunks : i < j => chunks[i].hi < chunks[j].lo
  /\ \A i \in 1..(Len(chunks) - 1) : chunks[i + 1].lo = chunks[i].hi + 1

ChunkType == [id : Nat, lo : Nat, hi : Nat, part : Nat]

(* A table of a schema is one.                                             *)
LEMMA TableTypes ==
  ASSUME NEW s \in Schemas, NEW t \in ToSet(s)
  PROVE  t \in TableType
BY SchemaTypes DEF ToSet

(* Where the bounds ascend, a partition is included if it may hold a row.  *)
LEMMA PruningOfTable ==
  ASSUME NEW t \in TableType, t.filter = {}, t.low # 0, ~PartitionRangeReversed(t), BoundsAscend(t),
         NEW i \in DOMAIN t.parts
  PROVE  Includes(t, i) <=> \E v \in t.low..LeastCommon(t, i) :
                               MayHold(t, i, v) /\ (t.high # 0 => v < t.high)
<1> DEFINE low == LowerBound(t, i)
           high == t.parts[i].high
<1>1. t.low \in Nat /\ t.high \in Nat /\ t.parts \in Seq(PartitionType)
  BY DEF TableType
<1>2. high \in Nat
  <2>1. t.parts[i] \in PartitionType
    BY <1>1
  <2> QED
    BY <2>1 DEF PartitionType
<1>3. low \in Nat
  <2>1. CASE i = 1
    BY <2>1 DEF LowerBound
  <2>2. CASE i # 1
    <3>1. t.parts[i - 1] \in PartitionType
      BY <1>1, <2>2
    <3> QED
      BY <2>2, <3>1 DEF LowerBound, PartitionType
  <2> QED
    BY <2>1, <2>2
<1>4. high # 0 => low < high
  BY DEF BoundsAscend
<1>5. t.high # 0 => t.low < t.high
  BY <1>1 DEF PartitionRangeReversed
<1>6. Includes(t, i) <=> (low # 0 /\ t.high # 0 => low < t.high) /\ (high # 0 => t.low < high)
  BY DEF Includes, PartitionOverlaps
<1>7. \A v : MayHold(t, i, v) <=> low <= v /\ (high # 0 => v < high)
  BY DEF MayHold
<1>8. ASSUME Includes(t, i)
      PROVE  \E v \in t.low..LeastCommon(t, i) : MayHold(t, i, v) /\ (t.high # 0 => v < t.high)
  <2>1. LeastCommon(t, i) \in t.low..LeastCommon(t, i)
    BY <1>1, <1>3 DEF LeastCommon, LargerOf
  <2>2. /\ low <= LeastCommon(t, i) /\ (high # 0 => LeastCommon(t, i) < high)
        /\ t.high # 0 => LeastCommon(t, i) < t.high
    BY <1>1, <1>2, <1>3, <1>4, <1>5, <1>6, <1>8 DEF LeastCommon, LargerOf
  <2> QED
    BY <2>1, <2>2, <1>7
<1>9. ASSUME NEW v \in t.low..LeastCommon(t, i), MayHold(t, i, v), t.high # 0 => v < t.high
      PROVE  Includes(t, i)
  <2>1. LeastCommon(t, i) \in Nat
    BY <1>1, <1>3 DEF LeastCommon, LargerOf
  <2>2. v \in Nat /\ t.low <= v /\ low <= v /\ (high # 0 => v < high)
    BY <1>1, <1>7, <1>9, <2>1
  <2>3. (low # 0 /\ t.high # 0 => low < t.high) /\ (high # 0 => t.low < high)
    BY <1>1, <1>2, <1>3, <1>9, <2>2
  <2> QED
    BY <2>3, <1>6
<1> QED
  BY <1>8, <1>9

(* Whatever its partitions and range, a table with ascending bounds is      *)
(* migrated by exactly the partitions that can hold a value of the range.   *)
THEOREM PruningIsCorrect == Spec => []PruningIsExact
<1>1. Init => schema \in Schemas
  BY DEF Init
<1>2. schema \in Schemas /\ [Next]_vars => (schema \in Schemas)'
  BY DEF Next, vars, Build, ResolvePartitionTable, ResolveTable, ResolveOraHash, OrderTasks
<1>3. schema \in Schemas => PruningIsExact
  BY TableTypes, PruningOfTable DEF PruningIsExact, Wanted
<1> QED
  BY <1>1, <1>2, <1>3, PTL DEF Spec
-----------------------------------------------------------------------------
(* The groups that MergeChunks makes of n chunks: none is empty, the first  *)
(* starts at the first chunk and the last ends at the last one.             *)
LEMMA GroupsAreChunks ==
  ASSUME NEW chunks \in Seq(ChunkType), NEW target \in Nat, target > 0, Len(chunks) > target
  PROVE  /\ GroupStart(chunks, target, 1) = 1
         /\ GroupStart(chunks, target, target + 1) = Len(chunks) + 1
         /\ \A i \in 1..target : /\ GroupStart(chunks, target, i) \in 1..Len(chunks)
                                 /\ GroupStart(chunks, target, i + 1) \in Int
                                 /\ GroupStart(chunks, target, i) < GroupStart(chunks, target, i + 1)
                                 /\ GroupStart(chunks, target, i + 1) <= Len(chunks) + 1
         /\ \A i, j \in 1..target : i < j => GroupStart(chunks, target, i + 1) <= GroupStart(chunks, target, j)
<1> DEFINE n == Len(chunks)
           per == n \div target
           rest == n % target
           G(i) == (i - 1) * per + SmallerOf(i - 1, rest) + 1
<1>1. \A i : GroupStart(chunks, target, i) = G(i)
  BY DEF GroupStart
<1>2. n \in Nat /\ per \in Nat /\ rest \in 0..(target - 1) /\ n = target * per + rest /\ per >= 1
  <2>1. n \in Nat /\ n > target
    OBVIOUS
  <2> HIDE DEF n
  <2>2. per \in Nat /\ rest \in 0..(target - 1) /\ n = target * per + rest
    BY <2>1, Z3
  <2>3. per >= 1
    <3>1. SUFFICES ASSUME per = 0 PROVE FALSE
      BY <2>2
    <3>2. target * per = 0
      BY <3>1
    <3> QED
      BY <2>1, <2>2, <3>2
  <2> QED
    BY <2>1, <2>2, <2>3
<1> HIDE DEF n, per, rest
<1>3. G(1) = 1
  BY <1>2 DEF SmallerOf
<1>4. G(target + 1) = n + 1
  BY <1>2 DEF SmallerOf
<1>5. ASSUME NEW i \in 1..target
      PROVE  G(i) \in Int /\ G(i + 1) \in Int /\ G(i) < G(i + 1) /\ 1 <= G(i) /\ G(i + 1) <= n + 1
  <2>1. (i - 1) * per \in Nat /\ i * per = (i - 1) * per + per
    BY <1>2
  <2>2. target * per = i * per + (target - i) * per /\ (target - i) * per \in Nat
    BY <1>2
  <2>3. (i + 1) - 1 = i
    OBVIOUS
  <2> HIDE DEF G
  <2>4. G(i) = (i - 1) * per + SmallerOf(i - 1, rest) + 1 /\ G(i + 1) = i * per + SmallerOf(i, rest) + 1
    BY <2>3 DEF G
  <2> QED
    BY <1>2, <2>1, <2>2, <2>4 DEF SmallerOf
<1>6. ASSUME NEW i \in 1..target, NEW j \in 1..target, i < j
      PROVE  G(i + 1) <= G(j)
  <2>1. (j - 1) * per = i * per + (j - 1 - i) * per /\ (j - 1 - i) * per \in Nat /\ i * per \in Nat
    BY <1>2, <1>6
  <2>2. (i + 1) - 1 = i
    OBVIOUS
  <2> HIDE DEF G
  <2>3. G(i + 1) = i * per + SmallerOf(i, rest) + 1 /\ G(j) = (j - 1) * per + SmallerOf(j - 1, rest) + 1
    BY <2>2 DEF G
  <2> QED
    BY <1>2, <1>6, <2>1, <2>3 DEF SmallerOf
<1> HIDE DEF G
<1>7. \A i \in 1..target : G(i) \in 1..n
  BY <1>5, <1>2
<1> QED
  BY <1>1, <1>3, <1>4, <1>5, <1>6, <1>7 DEF n

(* Merging keeps the rowids of a chunk list: the merged list is as long as  *)
(* wanted at most, its intervals follow one another, it starts where the    *)
(* list starts and ends where it ends.                                      *)
THEOREM MergeKeepsRowids ==
  ASSUME NEW chunks \in Seq(ChunkType), chunks # <<>>, Chain(chunks), NEW target \in Nat \ {0}
  PROVE  LET m == MergeChunks(chunks, target)
         IN  /\ m \in Seq(ChunkType) /\ m # <<>> /\ Len(m) <= target
             /\ Chain(m)
             /\ m[1].lo = chunks[1].lo /\ m[Len(m)].hi = chunks[Len(chunks)].hi
<1> DEFINE n == Len(chunks)
           m == MergeChunks(chunks, target)
           G(i) == GroupStart(chunks, target, i)
<1>1. n \in Nat /\ n >= 1 /\ target \in Nat /\ target > 0
  OBVIOUS
<1>2. CASE n <= target
  <2>1. m = chunks
    BY <1>2 DEF MergeChunks
  <2> QED
    BY <1>1, <1>2, <2>1
<1>3. CASE n > target
  <2>1. ~(Len(chunks) <= target \/ target <= 0)
    BY <1>1, <1>3
  <2>2. m = [i \in 1..target |-> [chunks[G(i)] EXCEPT !.id = i - 1, !.hi = chunks[G(i + 1) - 1].hi]]
    BY <2>1, Zenon DEF MergeChunks
  <2>3. /\ G(1) = 1 /\ G(target + 1) = n + 1
        /\ \A i \in 1..target : /\ G(i) \in 1..n /\ G(i + 1) - 1 \in 1..n
                                /\ G(i) <= G(i + 1) - 1 /\ G(i + 1) \in Int
    <3>1. /\ G(1) = 1 /\ G(target + 1) = n + 1
          /\ \A i \in 1..target : /\ G(i) \in 1..n /\ G(i + 1) \in Int
                                  /\ G(i) < G(i + 1) /\ G(i + 1) <= n + 1
      BY <1>1, <1>3, GroupsAreChunks
    <3> HIDE DEF n, G
    <3> QED
      BY <3>1, <1>1
  <2>4. \A i, j \in 1..target : i < j => G(i + 1) <= G(j)
    BY <1>1, <1>3, GroupsAreChunks
  <2>5. \A k \in 1..n : chunks[k] \in ChunkType
    OBVIOUS
  <2>6. /\ \A i, j \in 1..n : i <= j => chunks[i].lo <= chunks[j].hi
        /\ \A i, j \in 1..n : i < j => chunks[i].hi < chunks[j].lo
        /\ \A i \in 1..(n - 1) : chunks[i + 1].lo = chunks[i].hi + 1
    BY DEF Chain
  <2> HIDE DEF n, m, G
  <2>7. ASSUME NEW i \in 1..target
        PROVE  /\ m[i] \in ChunkType
               /\ m[i].lo = chunks[G(i)].lo /\ m[i].hi = chunks[G(i + 1) - 1].hi
    <3>1. chunks[G(i)] \in ChunkType /\ chunks[G(i + 1) - 1] \in ChunkType
      BY <2>3, <2>5
    <3>2. i - 1 \in Nat
      BY <1>1
    <3>3. m[i] = [chunks[G(i)] EXCEPT !.id = i - 1, !.hi = chunks[G(i + 1) - 1].hi]
      BY <2>2
    <3> QED
      BY <3>1, <3>2, <3>3 DEF ChunkType
  <2>8. m \in Seq(ChunkType) /\ Len(m) = target /\ DOMAIN m = 1..target
    <3>1. DOMAIN m = 1..target /\ m \in [1..target -> ChunkType]
      BY <2>2, <2>7
    <3> QED
      BY <3>1, <1>1
  <2>9. /\ \A i, j \in 1..target : i <= j => m[i].lo <= m[j].hi
        /\ \A i, j \in 1..target : i < j => m[i].hi < m[j].lo
    <3>1. ASSUME NEW i \in 1..target, NEW j \in 1..target, i <= j
          PROVE  G(i) <= G(j + 1) - 1
      <4>1. CASE i = j
        BY <4>1, <2>3
      <4>2. CASE i # j
        <5>1. i < j /\ G(i) \in 1..n /\ G(j) \in 1..n /\ G(i + 1) \in Int /\ G(j + 1) \in Int
          <6>1. i < j
            BY <3>1, <4>2
          <6> QED
            BY <2>3, <6>1
        <5>2. G(i) <= G(i + 1) - 1 /\ G(i + 1) <= G(j) /\ G(j) <= G(j + 1) - 1
          BY <5>1, <2>3, <2>4
        <5> QED
          BY <5>1, <5>2, <1>1
      <4> QED
        BY <4>1, <4>2
    <3>2. ASSUME NEW i \in 1..target, NEW j \in 1..target, i < j
          PROVE  G(i + 1) - 1 < G(j)
      <4>1. G(i + 1) \in Int /\ G(j) \in Int /\ G(i + 1) <= G(j)
        BY <3>2, <2>3, <2>4, <1>1
      <4> QED
        BY <4>1
    <3> QED
      BY <2>3, <2>6, <2>7, <3>1, <3>2
  <2>10. ASSUME NEW i \in 1..(target - 1)
         PROVE  m[i + 1].lo = m[i].hi + 1
    <3>1. i \in 1..target /\ i + 1 \in 1..target
      BY <1>1
    <3>2. m[i + 1].lo = chunks[G(i + 1)].lo /\ m[i].hi = chunks[G(i + 1) - 1].hi
      BY <2>7, <3>1
    <3>3. G(i + 1) \in 1..n /\ G(i + 1) - 1 \in 1..n
      BY <2>3, <3>1
    <3>4. G(i + 1) - 1 \in 1..(n - 1) /\ (G(i + 1) - 1) + 1 = G(i + 1)
      BY <3>3, <1>1
    <3> QED
      BY <2>6, <3>2, <3>4
  <2>11. Chain(m)
    BY <2>8, <2>9, <2>10 DEF Chain
  <2>12. m[1].lo = chunks[1].lo /\ m[target].hi = chunks[n].hi
    <3>1. 1 \in 1..target /\ target \in 1..target /\ (n + 1) - 1 = n
      BY <1>1
    <3> QED
      BY <2>3, <2>7, <3>1
  <2>13. m # <<>> /\ m[Len(m)].hi = chunks[Len(chunks)].hi
    BY <2>8, <2>12, <1>1 DEF n
  <2> QED
    BY <2>8, <2>11, <2>12, <2>13, <1>1 DEF m
<1> QED
  BY <1>1, <1>2, <1>3
-----------------------------------------------------------------------------
(* Induction over an interval, for sets instead of predicates.             *)
LEMMA IntervalInduction ==
  ASSUME NEW n \in Nat, NEW P, 0 \in P, \A k \in 1..n : k - 1 \in P => k \in P
  PROVE  \A k \in 0..n : k \in P
<1> DEFINE T == {m \in Nat : m <= n => m \in P}
<1>1. 0 \in T
  OBVIOUS
<1>2. ASSUME NEW m \in T PROVE m + 1 \in T
  <2> SUFFICES ASSUME m + 1 <= n PROVE m + 1 \in P
    OBVIOUS
  <2>1. m + 1 \in 1..n /\ (m + 1) - 1 = m /\ m <= n
    OBVIOUS
  <2>2. m \in P
    BY <2>1
  <2> QED
    BY <2>1, <2>2
<1>3. T = Nat
  <2> HIDE DEF T
  <2>1. T \in SUBSET Nat
    BY DEF T
  <2> QED
    BY <1>1, <1>2, <2>1, NumberInduction
<1>4. ASSUME NEW k \in 0..n PROVE k \in P
  <2>1. k \in T /\ k <= n
    BY <1>3
  <2> QED
    BY <2>1
<1> QED
  BY <1>4
-----------------------------------------------------------------------------
(* Only: what it has collected after each element.                          *)
Collected(G, s, K) ==
  /\ G[0] = <<>>
  /\ \A k \in 1..Len(s) : G[k] = IF s[k] \in K THEN Append(G[k - 1], s[k]) ELSE G[k - 1]

(* What Only has collected after each element.                             *)
LEMMA OnlyUnfold ==
  ASSUME NEW T, NEW s \in Seq(T), NEW K
  PROVE  \E G \in [0..Len(s) -> Seq(T)] : Collected(G, s, K) /\ Only(s, K) = G[Len(s)]
<1> DEFINE n == Len(s)
           Step(a, x) == IF x \in K THEN Append(a, x) ELSE a
           op == [p \in Seq(T) \X (1..n) |-> Step(p[1], s[p[2]])]
           Body(F) == [d \in SUBSET DOMAIN s |->
                         IF d = {} THEN <<>> ELSE Step(F[d \ {Max(d)}], s[Max(d)])]
           H == CHOOSE F : F = Body(F)
           G == [k \in 0..n |-> H[1..k]]
<1>1. n \in Nat /\ DOMAIN s = 1..n /\ \A k \in 1..n : s[k] \in T
  OBVIOUS
<1>2. Only(s, K) = H[DOMAIN s]
  BY DEF Only, FoldLeft, MapThenFoldSet
<1>3. \A a \in Seq(T), x \in T : Step(a, x) \in Seq(T)
  OBVIOUS
<1>4. <<>> \in Seq(T)
  OBVIOUS
<1> HIDE DEF n, Step
<1>5. op \in [Seq(T) \X (1..n) -> Seq(T)]
  BY <1>1, <1>3
<1>6. \A a \in Seq(T), k \in 1..n : op[<<a, k>>] = Step(a, s[k])
  OBVIOUS
<1> HIDE DEF op
<1>7. PICK F \in [SUBSET (1..n) -> Seq(T)] : LeftFolded(F, op, <<>>, n)
  BY <1>1, <1>4, <1>5, LeftFoldExists
<1>8. F = Body(F)
  <2>1. ASSUME NEW d \in SUBSET (1..n), d # {}
        PROVE  F[d] = Step(F[d \ {Max(d)}], s[Max(d)])
    <3>1. F[d] = op[<<F[d \ {Max(d)}], Max(d)>>]
      BY <1>7, <2>1 DEF LeftFolded
    <3>2. Max(d) \in 1..n /\ F[d \ {Max(d)}] \in Seq(T)
      BY <1>1, <2>1, MaxIsIn
    <3> QED
      BY <1>6, <3>1, <3>2
  <2>2. F[{}] = <<>>
    BY <1>7 DEF LeftFolded
  <2>3. \A d \in SUBSET DOMAIN s : F[d] = Body(F)[d]
    BY <1>1, <2>1, <2>2
  <2>4. F = [d \in SUBSET DOMAIN s |-> F[d]]
    BY <1>1, <1>7
  <2> QED
    BY <2>3, <2>4
<1>9. H = Body(H)
  BY <1>8
<1> HIDE DEF H
<1>10. \A d \in SUBSET (1..n) : H[d] = IF d = {} THEN <<>> ELSE Step(H[d \ {Max(d)}], s[Max(d)])
  BY <1>1, <1>9
<1>11. \A k \in 0..n : G[k] = H[1..k]
  OBVIOUS
<1> HIDE DEF G
<1>12. G[0] = <<>>
  <2>1. 1..0 = {} /\ 0 \in 0..n /\ {} \in SUBSET (1..n)
    BY <1>1
  <2> QED
    BY <1>10, <1>11, <2>1
<1>13. ASSUME NEW k \in 1..n PROVE G[k] = Step(G[k - 1], s[k])
  <2>1. k \in 0..n /\ k - 1 \in 0..n
    BY <1>1
  <2>2. H[1..k] = Step(H[1..(k - 1)], s[k])
    BY <1>1, <1>10, LeftFoldPrefix
  <2> QED
    BY <1>11, <2>1, <2>2
<1> DEFINE P == {k \in 0..n : G[k] \in Seq(T)}
<1>14. \A k \in 0..n : k \in P
  <2>1. 0 \in 0..n /\ \A k \in 1..n : k \in 0..n
    BY <1>1
  <2>2. 0 \in P
    BY <1>4, <1>12, <2>1
  <2>3. ASSUME NEW k \in 1..n, k - 1 \in P PROVE k \in P
    <3>1. G[k - 1] \in Seq(T) /\ s[k] \in T
      BY <1>1, <2>3
    <3>2. G[k] \in Seq(T)
      BY <1>3, <1>13, <3>1
    <3> QED
      BY <2>1, <3>2
  <2> HIDE DEF P
  <2> QED
    BY <1>1, <2>2, <2>3, IntervalInduction
<1>15. G \in [0..n -> Seq(T)]
  BY <1>14 DEF G
<1>16. Only(s, K) = G[n]
  <2>1. n \in 0..n
    BY <1>1
  <2> QED
    BY <1>1, <1>2, <1>11, <2>1
<1> QED
  BY <1>12, <1>13, <1>15, <1>16 DEF Collected, n, Step

(* VisitAll: the state after each name.                                     *)
VisitedAll(G, visit, names, ns, from) ==
  /\ G[0] = from
  /\ \A k \in 1..Len(ns) : G[k] = IF ns[k] \in names THEN visit[<<ns[k], G[k - 1]>>] ELSE G[k - 1]

Walked(V, visit, names, ns, from) ==
  \E G \in [0..Len(ns) -> V] :
    VisitedAll(G, visit, names, ns, from) /\ VisitAll(visit, names, ns, from) = G[Len(ns)]

Closed(visit, names, V) == \A n \in names, a \in V : visit[<<n, a>>] \in V

(* The state of the walk after each name.                                  *)
LEMMA VisitAllUnfold ==
  ASSUME NEW names, NEW V, NEW visit, Closed(visit, names, V), NEW T, NEW ns \in Seq(T), NEW from \in V
  PROVE  Walked(V, visit, names, ns, from)
<1> DEFINE n == Len(ns)
           Step(a, x) == IF x \in names THEN visit[<<x, a>>] ELSE a
           op == [p \in V \X (1..n) |-> Step(p[1], ns[p[2]])]
           Body(F) == [d \in SUBSET DOMAIN ns |->
                         IF d = {} THEN from ELSE Step(F[d \ {Max(d)}], ns[Max(d)])]
           H == CHOOSE F : F = Body(F)
           G == [k \in 0..n |-> H[1..k]]
<1>1. n \in Nat /\ DOMAIN ns = 1..n /\ \A k \in 1..n : ns[k] \in T
  OBVIOUS
<1>2. VisitAll(visit, names, ns, from) = H[DOMAIN ns]
  BY DEF VisitAll, FoldLeft, MapThenFoldSet
<1>3. \A a \in V, x \in T : Step(a, x) \in V
  BY DEF Closed
<1>4. from \in V
  OBVIOUS
<1> HIDE DEF n, Step
<1>5. op \in [V \X (1..n) -> V]
  BY <1>1, <1>3
<1>6. \A a \in V, k \in 1..n : op[<<a, k>>] = Step(a, ns[k])
  OBVIOUS
<1> HIDE DEF op
<1>7. PICK F \in [SUBSET (1..n) -> V] : LeftFolded(F, op, from, n)
  BY <1>1, <1>4, <1>5, LeftFoldExists
<1>8. F = Body(F)
  <2>1. ASSUME NEW d \in SUBSET (1..n), d # {}
        PROVE  F[d] = Step(F[d \ {Max(d)}], ns[Max(d)])
    <3>1. F[d] = op[<<F[d \ {Max(d)}], Max(d)>>]
      BY <1>7, <2>1 DEF LeftFolded
    <3>2. Max(d) \in 1..n /\ F[d \ {Max(d)}] \in V
      BY <1>1, <2>1, MaxIsIn
    <3> QED
      BY <1>6, <3>1, <3>2
  <2>2. F[{}] = from
    BY <1>7 DEF LeftFolded
  <2>3. \A d \in SUBSET DOMAIN ns : F[d] = Body(F)[d]
    BY <1>1, <2>1, <2>2
  <2>4. F = [d \in SUBSET DOMAIN ns |-> F[d]]
    BY <1>1, <1>7
  <2> QED
    BY <2>3, <2>4
<1>9. H = Body(H)
  BY <1>8
<1> HIDE DEF H
<1>10. \A d \in SUBSET (1..n) : H[d] = IF d = {} THEN from ELSE Step(H[d \ {Max(d)}], ns[Max(d)])
  BY <1>1, <1>9
<1>11. \A k \in 0..n : G[k] = H[1..k]
  OBVIOUS
<1> HIDE DEF G
<1>12. G[0] = from
  <2>1. 1..0 = {} /\ 0 \in 0..n /\ {} \in SUBSET (1..n)
    BY <1>1
  <2> QED
    BY <1>10, <1>11, <2>1
<1>13. ASSUME NEW k \in 1..n PROVE G[k] = Step(G[k - 1], ns[k])
  <2>1. k \in 0..n /\ k - 1 \in 0..n
    BY <1>1
  <2>2. H[1..k] = Step(H[1..(k - 1)], ns[k])
    BY <1>1, <1>10, LeftFoldPrefix
  <2> QED
    BY <1>11, <2>1, <2>2
<1> DEFINE P == {k \in 0..n : G[k] \in V}
<1>14. \A k \in 0..n : k \in P
  <2>1. 0 \in 0..n /\ \A k \in 1..n : k \in 0..n
    BY <1>1
  <2>2. 0 \in P
    BY <1>4, <1>12, <2>1
  <2>3. ASSUME NEW k \in 1..n, k - 1 \in P PROVE k \in P
    <3>1. G[k - 1] \in V /\ ns[k] \in T
      BY <1>1, <2>3
    <3>2. G[k] \in V
      BY <1>3, <1>13, <3>1
    <3> QED
      BY <2>1, <3>2
  <2> HIDE DEF P
  <2> QED
    BY <1>1, <2>2, <2>3, IntervalInduction
<1>15. G \in [0..n -> V]
  BY <1>14 DEF G
<1>16. VisitAll(visit, names, ns, from) = G[n]
  <2>1. n \in 0..n
    BY <1>1
  <2> QED
    BY <1>1, <1>2, <1>11, <2>1
<1> QED
  BY <1>12, <1>13, <1>15, <1>16 DEF VisitedAll, Walked, n, Step

(* The elements that Only keeps are at ascending places of the sequence:    *)
(* r are the elements at pos, those of K among the first k.                 *)
Picked(pos, r, s, K, k) ==
  /\ pos \in [1..Len(r) -> 1..k]
  /\ \A j \in 1..Len(r) : r[j] = s[pos[j]] /\ s[pos[j]] \in K
  /\ \A i, j \in 1..Len(r) : i < j => pos[i] < pos[j]
  /\ \A i \in 1..k : s[i] \in K => \E j \in 1..Len(r) : pos[j] = i

(* Only keeps the elements of K, in the order of the sequence.             *)
LEMMA OnlyPicks ==
  ASSUME NEW T, NEW s \in Seq(T), NEW K
  PROVE  Only(s, K) \in Seq(T) /\ \E pos : Picked(pos, Only(s, K), s, K, Len(s))
<1> DEFINE n == Len(s)
<1>1. PICK G \in [0..n -> Seq(T)] : Collected(G, s, K) /\ Only(s, K) = G[n]
  BY OnlyUnfold
<1>2. n \in Nat /\ \A k \in 1..n : s[k] \in T
  OBVIOUS
<1>3. G[0] = <<>> /\ \A k \in 1..n : G[k] = IF s[k] \in K THEN Append(G[k - 1], s[k]) ELSE G[k - 1]
  BY <1>1 DEF Collected
<1> HIDE DEF n
<1> DEFINE P == {k \in 0..n : \E pos : Picked(pos, G[k], s, K, k)}
<1>4. 0 \in P
  <2>1. Picked(<<>>, G[0], s, K, 0)
    <3>1. Len(G[0]) = 0 /\ 1..0 = {} /\ <<>> \in [1..0 -> 1..0]
      BY <1>3
    <3> QED
      BY <3>1 DEF Picked
  <2> QED
    BY <1>2, <2>1
<1>5. ASSUME NEW k \in 1..n, k - 1 \in P PROVE k \in P
  <2> DEFINE a == G[k - 1]
             r == G[k]
  <2>1. PICK pos : Picked(pos, a, s, K, k - 1)
    BY <1>5
  <2>2. k \in 0..n /\ k - 1 \in 0..n /\ k - 1 \in Nat /\ k \in Nat
    BY <1>2
  <2>3. a \in Seq(T) /\ Len(a) \in Nat /\ s[k] \in T
    BY <1>1, <1>2, <2>2
  <2>4. r = IF s[k] \in K THEN Append(a, s[k]) ELSE a
    BY <1>3
  <2> HIDE DEF a, r
  <2>5. /\ pos \in [1..Len(a) -> 1..(k - 1)]
        /\ \A j \in 1..Len(a) : a[j] = s[pos[j]] /\ s[pos[j]] \in K
        /\ \A i, j \in 1..Len(a) : i < j => pos[i] < pos[j]
        /\ \A i \in 1..(k - 1) : s[i] \in K => \E j \in 1..Len(a) : pos[j] = i
    BY <2>1 DEF Picked
  <2>6. CASE s[k] \notin K
    <3>1. r = a
      BY <2>4, <2>6
    <3>2. pos \in [1..Len(a) -> 1..k]
      <4>1. 1..(k - 1) \subseteq 1..k
        BY <2>2
      <4> QED
        BY <2>5, <4>1
    <3>3. \A i \in 1..k : s[i] \in K => i \in 1..(k - 1)
      BY <2>2, <2>6
    <3>4. Picked(pos, a, s, K, k)
      BY <2>5, <3>2, <3>3 DEF Picked
    <3> QED
      BY <2>2, <3>1, <3>4 DEF r
  <2>7. CASE s[k] \in K
    <3> DEFINE m == Len(a) + 1
               new == [j \in 1..m |-> IF j = m THEN k ELSE pos[j]]
    <3>1. r = Append(a, s[k])
      BY <2>4, <2>7
    <3>2. Len(r) = m /\ r[m] = s[k] /\ \A j \in 1..Len(a) : r[j] = a[j]
      BY <2>3, <3>1
    <3>3. m \in 1..m /\ \A j \in 1..m : j # m => j \in 1..Len(a)
      BY <2>3
    <3>9. \A j \in 1..Len(a) : j \in 1..m /\ j # m /\ j < m
      BY <2>3
    <3> HIDE DEF m
    <3>4. new[m] = k /\ \A j \in 1..Len(a) : new[j] = pos[j]
      BY <3>3, <3>9
    <3>5. \A j \in 1..m : new[j] \in 1..k
      <4>1. k \in 1..k /\ \A j \in 1..Len(a) : pos[j] \in 1..k
        BY <2>2, <2>5
      <4> QED
        BY <3>3, <3>4, <4>1
    <3>10. new \in [1..m -> 1..k]
      BY <3>5
    <3> HIDE DEF new
    <3>6. \A j \in 1..m : r[j] = s[new[j]] /\ s[new[j]] \in K
      BY <2>5, <2>7, <3>2, <3>3, <3>4
    <3>7. ASSUME NEW i \in 1..m, NEW j \in 1..m, i < j PROVE new[i] < new[j]
      <4>1. m \in Nat /\ m = Len(a) + 1
        BY <2>3 DEF m
      <4>2. i \in 1..Len(a)
        BY <2>3, <3>7, <4>1
      <4>3. CASE j = m
        <5>1. pos[i] \in 1..(k - 1)
          BY <2>5, <4>2
        <5> QED
          BY <2>2, <3>4, <4>2, <4>3, <5>1
      <4>4. CASE j # m
        BY <2>5, <3>3, <3>4, <3>7, <4>2, <4>4
      <4> QED
        BY <4>3, <4>4
    <3>8. ASSUME NEW i \in 1..k, s[i] \in K PROVE \E j \in 1..m : new[j] = i
      <4>1. CASE i = k
        BY <3>3, <3>4, <4>1
      <4>2. CASE i # k
        <5>1. i \in 1..(k - 1)
          BY <2>2, <4>2
        <5>2. PICK j \in 1..Len(a) : pos[j] = i
          BY <2>5, <3>8, <5>1
        <5> QED
          BY <3>4, <3>9, <5>2
      <4> QED
        BY <4>1, <4>2
    <3>11. Picked(new, r, s, K, k)
      BY <3>2, <3>6, <3>7, <3>8, <3>10 DEF Picked
    <3> QED
      BY <2>2, <3>11 DEF r
  <2> QED
    BY <2>6, <2>7
<1>6. n \in P
  <2>1. n \in 0..n
    BY <1>2
  <2> HIDE DEF P
  <2> QED
    BY <1>2, <1>4, <1>5, <2>1, IntervalInduction
<1>7. Only(s, K) \in Seq(T)
  <2>1. n \in 0..n
    BY <1>2
  <2> QED
    BY <1>1, <2>1
<1> QED
  BY <1>1, <1>6, <1>7 DEF n

(* ... as a set, and without two of one key if the sequence had none.      *)
LEMMA OnlyElements ==
  ASSUME NEW T, NEW s \in Seq(T), NEW K
  PROVE  ToSet(Only(s, K)) = ToSet(s) \cap K
<1> DEFINE r == Only(s, K)
<1>1. r \in Seq(T)
  BY OnlyPicks
<1>2. PICK pos : Picked(pos, r, s, K, Len(s))
  BY OnlyPicks
<1> HIDE DEF r
<1>3. DOMAIN r = 1..Len(r) /\ DOMAIN s = 1..Len(s)
  BY <1>1
<1>4. ASSUME NEW x \in ToSet(r) PROVE x \in ToSet(s) \cap K
  <2>1. PICK j \in 1..Len(r) : x = r[j]
    BY <1>3 DEF ToSet
  <2>2. pos[j] \in DOMAIN s /\ x = s[pos[j]] /\ x \in K
    BY <1>2, <1>3, <2>1 DEF Picked
  <2> QED
    BY <2>2 DEF ToSet
<1>5. ASSUME NEW x \in ToSet(s), x \in K PROVE x \in ToSet(r)
  <2>1. PICK i \in 1..Len(s) : x = s[i]
    BY <1>3 DEF ToSet
  <2>2. PICK j \in 1..Len(r) : pos[j] = i
    BY <1>2, <1>5, <2>1 DEF Picked
  <2>3. j \in DOMAIN r /\ r[j] = x
    BY <1>2, <1>3, <2>1, <2>2 DEF Picked
  <2> QED
    BY <2>3 DEF ToSet
<1> QED
  BY <1>4, <1>5 DEF r

(* ... and the ones that are left have keys of their own too.              *)
LEMMA OnlyDistinct ==
  ASSUME NEW T, NEW s \in Seq(T), NEW K, NEW key, Distinct(s, key)
  PROVE  Distinct(Only(s, K), key)
<1> DEFINE r == Only(s, K)
<1>1. r \in Seq(T)
  BY OnlyPicks
<1>2. PICK pos : Picked(pos, r, s, K, Len(s))
  BY OnlyPicks
<1> HIDE DEF r
<1>3. DOMAIN r = 1..Len(r) /\ DOMAIN s = 1..Len(s) /\ Len(r) \in Nat
  BY <1>1
<1>4. SUFFICES ASSUME NEW i \in 1..Len(r), NEW j \in 1..Len(r), key[r[i]] = key[r[j]]
               PROVE  i = j
  BY <1>3 DEF Distinct, r
<1>5. pos[i] \in 1..Len(s) /\ pos[j] \in 1..Len(s) /\ r[i] = s[pos[i]] /\ r[j] = s[pos[j]]
  BY <1>2 DEF Picked
<1>6. pos[i] = pos[j]
  BY <1>3, <1>4, <1>5 DEF Distinct
<1>7. ~(i < j) /\ ~(j < i)
  <2>1. pos[i] \in Int /\ pos[j] \in Int
    BY <1>5
  <2> QED
    BY <1>2, <1>6, <2>1 DEF Picked
<1> QED
  BY <1>7
-----------------------------------------------------------------------------
(* The states of the walk over the tables and what a visit does, given as a *)
(* function.                                                                *)
Walks == [open : SUBSET Names, order : Seq(Names)]
Enter(n, st) == [st EXCEPT !.open = @ \cup {n}]
RefSeq(n) == TableNamed(schema, n).refs
VisitBody(F, v) ==
  IF v[1] \in v[2].open \/ v[1] \in ToSet(v[2].order) THEN v[2]
  ELSE Visited(v[1], v[2], VisitAll(F, Names, RefSeq(v[1]), Enter(v[1], v[2])))
Visit == CHOOSE F : F = [v \in Names \X Walks |-> VisitBody(F, v)]

(* The order is the walk over the tables of the schema.                    *)
LEMMA TopoSortUnfold ==
  TopoSort(schema) = VisitAll(Visit, Names, [i \in DOMAIN schema |-> schema[i].name],
                              [open |-> {}, order |-> <<>>]).order
BY DEF TopoSort, Visit, VisitBody, Enter, RefSeq, Names, Walks

SchemaOK == schema \in Schemas

(* A schema has finitely many tables, each known by its name.              *)
LEMMA NamesAreFinite ==
  ASSUME SchemaOK
  PROVE  /\ schema \in Seq(TableType) /\ IsFiniteSet(Names) /\ Names \subseteq Nat
         /\ \A n \in Names : TableNamed(schema, n) \in ToSet(schema) /\ TableNamed(schema, n).name = n
         /\ \A n \in Names : RefSeq(n) \in Seq(Nat)
         /\ \A n \in Names : RefsOf(n) = ToSet(RefSeq(n)) \cap Names
         /\ \A i \in DOMAIN schema : TableNamed(schema, schema[i].name) = schema[i]
<1>1. schema \in Seq(TableType) /\ \A i, j \in DOMAIN schema : schema[i].name = schema[j].name => i = j
  BY SchemaTypes DEF SchemaOK
<1>2. \A t \in ToSet(schema) : t \in TableType
  BY <1>1 DEF ToSet
<1>3. IsFiniteSet(Names)
  <2>1. IsFiniteSet(1..Len(schema))
    BY <1>1, FS_Interval
  <2> DEFINE f == [i \in 1..Len(schema) |-> schema[i].name]
  <2>2. Names = {f[i] : i \in 1..Len(schema)}
    <3>1. DOMAIN schema = 1..Len(schema)
      BY <1>1
    <3> QED
      BY <3>1 DEF Names, ToSet
  <2> HIDE DEF f
  <2>3. f \in Surjection(1..Len(schema), Names)
    BY <2>2 DEF Surjection, f
  <2> QED
    BY <2>1, <2>3, FS_Surjection
<1>4. Names \subseteq Nat
  BY <1>2 DEF Names, TableType
<1>5. \A n \in Names : TableNamed(schema, n) \in ToSet(schema) /\ TableNamed(schema, n).name = n
  BY DEF Names, TableNamed
<1>6. \A n \in Names : RefSeq(n) \in Seq(Nat)
  BY <1>2, <1>5 DEF RefSeq, TableType
<1>7. ASSUME NEW i \in DOMAIN schema PROVE TableNamed(schema, schema[i].name) = schema[i]
  <2> DEFINE n == schema[i].name
  <2>1. n \in Names /\ schema[i] \in ToSet(schema)
    BY DEF Names, ToSet
  <2>2. PICK j \in DOMAIN schema : TableNamed(schema, n) = schema[j]
    BY <1>5, <2>1 DEF ToSet
  <2>3. schema[j].name = schema[i].name
    BY <1>5, <2>1, <2>2
  <2> QED
    BY <1>1, <2>2, <2>3
<1> QED
  BY <1>1, <1>3, <1>4, <1>5, <1>6, <1>7 DEF RefsOf, RefSeq

(* Two visits that agree as long as a set of tables is open give the same   *)
(* walk over a list of names, and leave open what was open.                 *)
Opened(o) == {a \in Walks : a.open = o}
Agree(E, F, o) ==
  \A n \in Names, a \in Opened(o) : E[<<n, a>>] = F[<<n, a>>] /\ F[<<n, a>>] \in Opened(o)

SameWalk(E, F, ns, from) ==
  /\ VisitAll(E, Names, ns, from) = VisitAll(F, Names, ns, from)
  /\ VisitAll(F, Names, ns, from) \in Opened(from.open)

(* Two visits that agree where the walk goes walk alike.                   *)
LEMMA VisitAllAgrees ==
  ASSUME NEW E, NEW F, NEW T, NEW ns \in Seq(T), NEW from \in Walks, Agree(E, F, from.open)
  PROVE  SameWalk(E, F, ns, from)
<1> DEFINE V == Opened(from.open)
<1>1. from \in V
  BY DEF Opened
<1>2. Closed(E, Names, V) /\ Closed(F, Names, V)
  BY DEF Closed, Agree
<1>3. \A n \in Names, a \in V : E[<<n, a>>] = F[<<n, a>>]
  BY DEF Agree
<1> HIDE DEF V
<1>4. Walked(V, E, Names, ns, from) /\ Walked(V, F, Names, ns, from)
  BY <1>1, <1>2, VisitAllUnfold
<1>5. PICK G \in [0..Len(ns) -> V] :
        VisitedAll(G, E, Names, ns, from) /\ VisitAll(E, Names, ns, from) = G[Len(ns)]
  BY <1>4 DEF Walked
<1>6. PICK H \in [0..Len(ns) -> V] :
        VisitedAll(H, F, Names, ns, from) /\ VisitAll(F, Names, ns, from) = H[Len(ns)]
  BY <1>4 DEF Walked
<1> DEFINE P == {k \in 0..Len(ns) : G[k] = H[k]}
<1>7. Len(ns) \in Nat
  OBVIOUS
<1>8. 0 \in P
  BY <1>5, <1>6, <1>7 DEF VisitedAll
<1>9. ASSUME NEW k \in 1..Len(ns), k - 1 \in P PROVE k \in P
  <2>1. k \in 0..Len(ns) /\ k - 1 \in 0..Len(ns)
    BY <1>7
  <2>2. G[k] = IF ns[k] \in Names THEN E[<<ns[k], G[k - 1]>>] ELSE G[k - 1]
    BY <1>5 DEF VisitedAll
  <2>3. H[k] = IF ns[k] \in Names THEN F[<<ns[k], H[k - 1]>>] ELSE H[k - 1]
    BY <1>6 DEF VisitedAll
  <2>4. G[k - 1] = H[k - 1] /\ H[k - 1] \in V
    BY <1>9, <2>1
  <2>5. ns[k] \in Names => E[<<ns[k], H[k - 1]>>] = F[<<ns[k], H[k - 1]>>]
    BY <1>3, <2>4
  <2>6. G[k] = H[k]
    BY <2>2, <2>3, <2>4, <2>5
  <2> QED
    BY <2>1, <2>6
<1>10. Len(ns) \in 0..Len(ns)
  BY <1>7
<1>11. Len(ns) \in P
  <2> HIDE DEF P
  <2> QED
    BY <1>7, <1>8, <1>9, <1>10, IntervalInduction
<1>12. H[Len(ns)] \in V /\ G[Len(ns)] = H[Len(ns)]
  BY <1>10, <1>11
<1> QED
  BY <1>5, <1>6, <1>12 DEF SameWalk, V

(* Entering a table and leaving it keep the state of the walk typed.       *)
LEMMA EnterType ==
  ASSUME NEW n \in Names, NEW st \in Walks
  PROVE  /\ Enter(n, st) \in Walks /\ Enter(n, st).open = st.open \cup {n}
         /\ Enter(n, st).order = st.order
BY DEF Enter, Walks

(* What a visit leaves, with its table out and in the order, is typed.     *)
LEMMA VisitedType ==
  ASSUME NEW n \in Names, NEW st \in Walks, NEW after \in Walks
  PROVE  /\ Visited(n, st, after) \in Walks
         /\ Visited(n, st, after).open = after.open \ {n}
         /\ Visited(n, st, after).order = Append(after.order, n)
BY DEF Visited, Walks

(* How many tables a walk has not opened: less at every visit within it.    *)
Room(st) == Cardinality(Names \ st.open)

(* A visit that enters its table leaves less room.                         *)
LEMMA RoomShrinks ==
  ASSUME SchemaOK, NEW st \in Walks
  PROVE  /\ Room(st) \in Nat /\ Room(st) <= Cardinality(Names)
         /\ \A n \in Names : n \notin st.open => Room(Enter(n, st)) = Room(st) - 1
<1>1. IsFiniteSet(Names) /\ IsFiniteSet(Names \ st.open)
  BY NamesAreFinite, FS_Subset
<1>2. Room(st) \in Nat /\ Room(st) <= Cardinality(Names)
  BY <1>1, FS_CardinalityType, FS_Subset DEF Room
<1>3. ASSUME NEW n \in Names, n \notin st.open PROVE Room(Enter(n, st)) = Room(st) - 1
  <2>1. Names \ Enter(n, st).open = (Names \ st.open) \ {n}
    BY EnterType
  <2>2. n \in Names \ st.open
    BY <1>3
  <2>3. Cardinality((Names \ st.open) \ {n}) = Cardinality(Names \ st.open) - 1
    BY <1>1, <2>2, FS_RemoveElement
  <2> QED
    BY <2>1, <2>3 DEF Room
<1> QED
  BY <1>2, <1>3

(* F is the visit wherever at most m tables are not open.                   *)
VisitsWithin(F, m) ==
  \A n \in Names, st \in Walks :
    Room(st) <= m => F[<<n, st>>] = VisitBody(F, <<n, st>>) /\ F[<<n, st>>].open = st.open

(* The body of the recursion is typed if the visits it makes are.          *)
LEMMA VisitBodyType ==
  ASSUME SchemaOK, NEW F \in [Names \X Walks -> Walks], NEW n \in Names, NEW st \in Walks
  PROVE  VisitBody(F, <<n, st>>) \in Walks
<1>1. RefSeq(n) \in Seq(Nat) /\ Enter(n, st) \in Walks
  BY NamesAreFinite, EnterType
<1>5. Walked(Walks, F, Names, RefSeq(n), Enter(n, st))
  <2>1. Closed(F, Names, Walks)
    BY DEF Closed
  <2> QED
    BY <1>1, <2>1, VisitAllUnfold
<1>2. PICK G \in [0..Len(RefSeq(n)) -> Walks] : VisitAll(F, Names, RefSeq(n), Enter(n, st)) = G[Len(RefSeq(n))]
  BY <1>5 DEF Walked
<1>3. Len(RefSeq(n)) \in 0..Len(RefSeq(n))
  BY <1>1
<1>4. VisitAll(F, Names, RefSeq(n), Enter(n, st)) \in Walks
  BY <1>2, <1>3
<1> QED
  BY <1>4, VisitedType DEF VisitBody

(* By induction on the room, some function obeys the recursion that deep.  *)
LEMMA VisitWithin ==
  ASSUME SchemaOK, NEW m \in Nat
  PROVE  \E F \in [Names \X Walks -> Walks] : VisitsWithin(F, m)
<1> DEFINE T == {k \in Nat : \E F \in [Names \X Walks -> Walks] : VisitsWithin(F, k)}
<1>1. 0 \in T
  <2> DEFINE F == [v \in Names \X Walks |-> v[2]]
  <2>1. F \in [Names \X Walks -> Walks] /\ \A n \in Names, st \in Walks : F[<<n, st>>] = st
    OBVIOUS
  <2> HIDE DEF F
  <2>2. ASSUME NEW n \in Names, NEW st \in Walks, Room(st) <= 0
        PROVE  F[<<n, st>>] = VisitBody(F, <<n, st>>) /\ F[<<n, st>>].open = st.open
    <3>1. n \in st.open
      <4>1. SUFFICES ASSUME n \notin st.open PROVE FALSE
        OBVIOUS
      <4>2. Enter(n, st) \in Walks
        BY EnterType
      <4>3. Room(Enter(n, st)) = Room(st) - 1 /\ Room(Enter(n, st)) \in Nat /\ Room(st) \in Nat
        BY <4>1, <4>2, RoomShrinks
      <4> QED
        BY <2>2, <4>3
    <3> QED
      BY <2>1, <3>1 DEF VisitBody
  <2>3. VisitsWithin(F, 0)
    BY <2>2 DEF VisitsWithin
  <2> QED
    BY <2>1, <2>3
<1>2. ASSUME NEW k \in T PROVE k + 1 \in T
  <2>1. PICK F \in [Names \X Walks -> Walks] : VisitsWithin(F, k)
    BY <1>2
  <2> DEFINE E == [v \in Names \X Walks |-> IF Room(v[2]) <= k + 1 THEN VisitBody(F, v) ELSE v[2]]
  <2>2. \A n \in Names, st \in Walks :
          E[<<n, st>>] = IF Room(st) <= k + 1 THEN VisitBody(F, <<n, st>>) ELSE st
    OBVIOUS
  <2>3. E \in [Names \X Walks -> Walks]
    <3>1. \A v \in Names \X Walks : v = <<v[1], v[2]>> /\ v[1] \in Names /\ v[2] \in Walks
      OBVIOUS
    <3>2. \A v \in Names \X Walks : VisitBody(F, v) \in Walks
      BY <3>1, VisitBodyType
    <3> QED
      BY <3>1, <3>2
  <2> HIDE DEF E
  <2>4. \A st \in Walks : Room(st) \in Nat
    BY RoomShrinks
  <2>5. ASSUME NEW n \in Names, NEW st \in Walks, Room(st) <= k
        PROVE  E[<<n, st>>] = F[<<n, st>>] /\ F[<<n, st>>].open = st.open
    <3>1. Room(st) <= k + 1
      BY <2>4, <2>5
    <3> QED
      BY <2>1, <2>2, <2>5, <3>1 DEF VisitsWithin
  <2>6. ASSUME NEW n \in Names, NEW st \in Walks, Room(st) <= k + 1
        PROVE  E[<<n, st>>] = VisitBody(E, <<n, st>>) /\ E[<<n, st>>].open = st.open
    <3>1. E[<<n, st>>] = VisitBody(F, <<n, st>>)
      BY <2>2, <2>6
    <3>2. CASE n \in st.open \/ n \in ToSet(st.order)
      BY <3>1, <3>2 DEF VisitBody
    <3>3. CASE ~(n \in st.open \/ n \in ToSet(st.order))
      <4> DEFINE from == Enter(n, st)
                 after == VisitAll(F, Names, RefSeq(n), from)
      <4>1. from \in Walks /\ from.open = st.open \cup {n} /\ RefSeq(n) \in Seq(Nat)
        BY EnterType, NamesAreFinite
      <4>2. Room(from) <= k
        <5>1. Room(from) = Room(st) - 1
          BY <3>3, RoomShrinks
        <5> QED
          BY <2>4, <2>6, <5>1
      <4>3. Agree(E, F, from.open)
        <5> SUFFICES ASSUME NEW d \in Names, NEW a \in Walks, a.open = from.open
                     PROVE  E[<<d, a>>] = F[<<d, a>>] /\ F[<<d, a>>].open = from.open
          BY <2>1 DEF Agree, Opened
        <5>1. Room(a) <= k
          BY <4>2 DEF Room
        <5> QED
          BY <2>5, <5>1
      <4>8. SameWalk(E, F, RefSeq(n), from)
        <5> HIDE DEF from
        <5> QED
          BY <2>1, <2>3, <4>1, <4>3, VisitAllAgrees
      <4>4. /\ VisitAll(E, Names, RefSeq(n), from) = after
            /\ after \in Walks /\ after.open = from.open
        BY <4>8 DEF SameWalk, Opened
      <4>5. VisitBody(F, <<n, st>>) = Visited(n, st, after)
        BY <3>3 DEF VisitBody
      <4>6. VisitBody(E, <<n, st>>) = Visited(n, st, after)
        BY <3>3, <4>4 DEF VisitBody
      <4> HIDE DEF after, from
      <4>7. Visited(n, st, after).open = st.open
        <5>1. Visited(n, st, after).open = after.open \ {n}
          BY <4>4, VisitedType
        <5> QED
          BY <3>3, <4>1, <4>4, <5>1
      <4> QED
        BY <3>1, <4>5, <4>6, <4>7
    <3> QED
      BY <3>2, <3>3
  <2>7. VisitsWithin(E, k + 1)
    BY <2>6 DEF VisitsWithin
  <2> QED
    BY <2>3, <2>7
<1>3. T = Nat
  <2> HIDE DEF T
  <2>1. T \in SUBSET Nat
    BY DEF T
  <2> QED
    BY <1>1, <1>2, <2>1, NumberInduction
<1> QED
  BY <1>3

(* So the function of topoSortTables exists and obeys its equation.        *)
LEMMA VisitExists ==
  ASSUME SchemaOK
  PROVE  /\ Visit \in [Names \X Walks -> Walks]
         /\ \A n \in Names, st \in Walks : Visit[<<n, st>>] = VisitBody(Visit, <<n, st>>)
<1> DEFINE V == Visit
<1>1. IsFiniteSet(Names)
  BY NamesAreFinite
<1>2. Cardinality(Names) \in Nat
  BY <1>1, FS_CardinalityType
<1>3. PICK F \in [Names \X Walks -> Walks] : VisitsWithin(F, Cardinality(Names))
  BY <1>2, VisitWithin
<1>4. \A n \in Names, st \in Walks : /\ F[<<n, st>>] = VisitBody(F, <<n, st>>)
                                     /\ F[<<n, st>>] \in Opened(st.open)
  BY <1>3, RoomShrinks DEF VisitsWithin, Opened
<1>5. F = [v \in Names \X Walks |-> VisitBody(F, v)]
  <2>1. \A v \in Names \X Walks : v = <<v[1], v[2]>> /\ v[1] \in Names /\ v[2] \in Walks
    OBVIOUS
  <2>2. \A v \in Names \X Walks : F[v] = VisitBody(F, v)
    BY <1>4, <2>1
  <2>3. F = [v \in Names \X Walks |-> F[v]]
    OBVIOUS
  <2> QED
    BY <2>2, <2>3
<1>6. V = [v \in Names \X Walks |-> VisitBody(V, v)]
  BY <1>5 DEF Visit
<1> HIDE DEF V
<1>7. \A n \in Names, st \in Walks : V[<<n, st>>] = VisitBody(V, <<n, st>>)
  <2>1. \A v \in Names \X Walks : V[v] = VisitBody(V, v)
    BY <1>6
  <2> QED
    BY <2>1
<1> DEFINE T == {m \in Nat : \A n \in Names, st \in Walks : Room(st) <= m => V[<<n, st>>] = F[<<n, st>>]}
<1>8. \A st \in Walks : Room(st) \in Nat /\ \A n \in Names : n \notin st.open => Room(Enter(n, st)) = Room(st) - 1
  BY RoomShrinks
<1>9. ASSUME NEW n \in Names, NEW st \in Walks, n \in st.open \/ n \in ToSet(st.order)
      PROVE  V[<<n, st>>] = F[<<n, st>>]
  BY <1>4, <1>7, <1>9 DEF VisitBody
<1>10. 0 \in T
  <2> SUFFICES ASSUME NEW n \in Names, NEW st \in Walks, Room(st) <= 0 PROVE V[<<n, st>>] = F[<<n, st>>]
    OBVIOUS
  <2>1. n \in st.open
    <3>1. SUFFICES ASSUME n \notin st.open PROVE FALSE
      OBVIOUS
    <3>2. Enter(n, st) \in Walks
      BY EnterType
    <3>3. Room(Enter(n, st)) = Room(st) - 1 /\ Room(Enter(n, st)) \in Nat /\ Room(st) \in Nat
      BY <1>8, <3>1, <3>2
    <3> QED
      BY <3>3
  <2> QED
    BY <1>9, <2>1
<1>11. ASSUME NEW m \in T PROVE m + 1 \in T
  <2> SUFFICES ASSUME NEW n \in Names, NEW st \in Walks, Room(st) <= m + 1 PROVE V[<<n, st>>] = F[<<n, st>>]
    OBVIOUS
  <2>1. CASE n \in st.open \/ n \in ToSet(st.order)
    BY <1>9, <2>1
  <2>2. CASE ~(n \in st.open \/ n \in ToSet(st.order))
    <3> DEFINE from == Enter(n, st)
    <3>1. from \in Walks /\ RefSeq(n) \in Seq(Nat)
      BY EnterType, NamesAreFinite
    <3>2. Room(from) <= m
      <4>1. Room(from) = Room(st) - 1 /\ Room(st) \in Nat
        BY <1>8, <2>2
      <4> HIDE DEF from
      <4> QED
        BY <4>1
    <3> HIDE DEF from
    <3>3. Agree(V, F, from.open)
      <4> SUFFICES ASSUME NEW d \in Names, NEW a \in Walks, a.open = from.open
                   PROVE  V[<<d, a>>] = F[<<d, a>>] /\ F[<<d, a>>] \in Opened(from.open)
        BY DEF Agree, Opened
      <4>1. Room(a) <= m
        BY <3>2 DEF Room
      <4> QED
        BY <1>4, <4>1
    <3>4. SameWalk(V, F, RefSeq(n), from)
      BY <3>1, <3>3, VisitAllAgrees
    <3>5. VisitAll(V, Names, RefSeq(n), from) = VisitAll(F, Names, RefSeq(n), from)
      BY <3>4 DEF SameWalk
    <3>6. VisitBody(V, <<n, st>>) = VisitBody(F, <<n, st>>)
      BY <2>2, <3>5 DEF VisitBody, from
    <3> QED
      BY <1>4, <1>7, <3>6
  <2> QED
    BY <2>1, <2>2
<1>12. T = Nat
  <2> HIDE DEF T
  <2>1. T \in SUBSET Nat
    BY DEF T
  <2> QED
    BY <1>10, <1>11, <2>1, NumberInduction
<1>13. ASSUME NEW n \in Names, NEW st \in Walks PROVE V[<<n, st>>] = F[<<n, st>>]
  <2>1. Room(st) \in T /\ Room(st) <= Room(st)
    BY <1>8, <1>12
  <2> QED
    BY <2>1
<1>14. V \in [Names \X Walks -> Walks]
  <2>1. \A v \in Names \X Walks : v = <<v[1], v[2]>> /\ v[1] \in Names /\ v[2] \in Walks
    OBVIOUS
  <2>2. \A v \in Names \X Walks : V[v] \in Walks
    BY <1>13, <2>1
  <2> QED
    BY <1>6, <2>2
<1> QED
  BY <1>7, <1>14 DEF V
-----------------------------------------------------------------------------
(* What a table refers to it needs, and what those need it needs too.      *)
LEMMA NeedsClosed ==
  ASSUME SchemaOK, NEW n \in Names
  PROVE  /\ RefsOf(n) \subseteq Needs(n)
         /\ \A m \in Needs(n) : RefsOf(m) \subseteq Needs(n)
BY DEF Needs, RefsOf

(* An order without repetition in which every table it holds is behind the  *)
(* tables it refers to, but for those that need it.                         *)
Unique(order) == \A i, j \in DOMAIN order : order[i] = order[j] => i = j
Behind(order) ==
  \A i \in DOMAIN order : \A d \in RefsOf(order[i]) :
    order[i] \in Needs(d) \/ \E j \in 1..(i - 1) : order[j] = d
Ordered(order) == Unique(order) /\ Behind(order)

(* The walk b goes on from a; n is dealt with in b; a may visit n.          *)
Follows(a, b) ==
  /\ b \in Walks /\ b.open = a.open /\ Begins(a.order, b.order)
  /\ \A x \in ToSet(b.order) : x \in ToSet(a.order) \/ x \notin a.open
Dealt(n, b) == n \in ToSet(b.order) \/ n \in b.open
Leads(n, a, b) == Follows(a, b) /\ Ordered(b.order) /\ Dealt(n, b)
MayVisit(n, a) == Ordered(a.order) /\ \A o \in a.open : n \in Needs(o)

(* What an order that goes on from another one keeps of it.                *)
LEMMA BeginsElements ==
  ASSUME NEW T, NEW p \in Seq(T), NEW c \in Seq(T), Begins(p, c)
  PROVE  \A x \in ToSet(p) : x \in ToSet(c)
<1>1. DOMAIN p = 1..Len(p) /\ DOMAIN c = 1..Len(c) /\ Len(p) \in Nat /\ Len(c) \in Nat
  OBVIOUS
<1>2. Len(p) <= Len(c) /\ \A i \in 1..Len(p) : c[i] = p[i]
  BY DEF Begins
<1>3. \A i \in 1..Len(p) : i \in 1..Len(c)
  BY <1>1, <1>2
<1> QED
  BY <1>1, <1>2, <1>3 DEF ToSet

(* Going on from an order, twice over.                                     *)
LEMMA BeginsTransitive ==
  ASSUME NEW T, NEW a \in Seq(T), NEW b \in Seq(T), NEW c \in Seq(T), Begins(a, b), Begins(b, c)
  PROVE  Begins(a, c)
<1>1. Len(a) \in Nat /\ Len(b) \in Nat /\ Len(c) \in Nat
  OBVIOUS
<1>2. Len(a) <= Len(b) /\ Len(b) <= Len(c)
  BY DEF Begins
<1>3. Len(a) <= Len(c) /\ \A i \in 1..Len(a) : i \in 1..Len(b)
  BY <1>1, <1>2
<1> QED
  BY <1>3 DEF Begins

(* Going on with a walk, twice over.                                       *)
LEMMA FollowsTransitive ==
  ASSUME NEW a \in Walks, NEW b, NEW c, Follows(a, b), Follows(b, c)
  PROVE  Follows(a, c)
<1>1. a.order \in Seq(Names) /\ b.order \in Seq(Names) /\ c.order \in Seq(Names)
  BY DEF Follows, Walks
<1>2. Begins(a.order, c.order)
  BY <1>1, BeginsTransitive DEF Follows
<1> QED
  BY <1>2 DEF Follows

(* A table that was dealt with stays so.                                   *)
LEMMA DealtStays ==
  ASSUME NEW n, NEW a \in Walks, NEW b, Dealt(n, a), Follows(a, b)
  PROVE  Dealt(n, b)
<1>1. a.order \in Seq(Names) /\ b.order \in Seq(Names)
  BY DEF Follows, Walks
<1> QED
  BY <1>1, BeginsElements DEF Follows, Dealt

(* A walk that visits nothing leads where it is.                           *)
LEMMA FollowsItself ==
  ASSUME NEW a \in Walks
  PROVE  Follows(a, a)
<1>1. Len(a.order) \in Nat
  BY DEF Walks
<1> QED
  BY <1>1 DEF Follows, Begins

(* A walk over a list leads where its visits lead.                          *)
LeadsWithin(F, ns, from) ==
  \A n \in ToSet(ns) \cap Names, a \in Walks :
    a.open = from.open /\ Ordered(a.order) => Leads(n, a, F[<<n, a>>])

LeadsAll(F, ns, from) ==
  LET to == VisitAll(F, Names, ns, from)
  IN  /\ Follows(from, to) /\ Ordered(to.order)
      /\ \A n \in ToSet(ns) \cap Names : Dealt(n, to)

(* If each visit leads to its table, the walk leads to all of them.        *)
LEMMA VisitAllLeads ==
  ASSUME NEW F \in [Names \X Walks -> Walks], NEW T, NEW ns \in Seq(T), NEW from \in Walks,
         Ordered(from.order), LeadsWithin(F, ns, from)
  PROVE  LeadsAll(F, ns, from)
<1> DEFINE n == Len(ns)
           to == VisitAll(F, Names, ns, from)
<1>1. Walked(Walks, F, Names, ns, from)
  <2>1. Closed(F, Names, Walks)
    BY DEF Closed
  <2> QED
    BY <2>1, VisitAllUnfold
<1>2. PICK G \in [0..n -> Walks] : VisitedAll(G, F, Names, ns, from) /\ to = G[n]
  BY <1>1 DEF Walked
<1>3. n \in Nat /\ DOMAIN ns = 1..n
  OBVIOUS
<1>4. G[0] = from /\ \A k \in 1..n : G[k] = IF ns[k] \in Names THEN F[<<ns[k], G[k - 1]>>] ELSE G[k - 1]
  BY <1>2 DEF VisitedAll
<1> HIDE DEF n, to
<1> DEFINE Fine(k) == /\ Follows(from, G[k]) /\ Ordered(G[k].order)
                      /\ \A i \in 1..k : ns[i] \in Names => Dealt(ns[i], G[k])
           P == {k \in 0..n : Fine(k)}
<1>5. 0 \in P
  <2>1. 0 \in 0..n /\ \A i \in 1..0 : FALSE
    BY <1>3
  <2> QED
    BY <1>4, <2>1, FollowsItself
<1>6. ASSUME NEW k \in 1..n, k - 1 \in P PROVE k \in P
  <2> DEFINE a == G[k - 1]
             b == G[k]
             d == ns[k]
  <2>1. k \in 0..n /\ k - 1 \in 0..n /\ \A i \in 1..k : i # k => i \in 1..(k - 1)
    BY <1>3
  <2>2. a \in Walks /\ b \in Walks
    BY <2>1
  <2>3. /\ Follows(from, a) /\ Ordered(a.order)
        /\ \A i \in 1..(k - 1) : ns[i] \in Names => Dealt(ns[i], a)
    BY <1>6
  <2>4. b = IF d \in Names THEN F[<<d, a>>] ELSE a
    BY <1>4
  <2>5. d \in ToSet(ns)
    BY <1>3 DEF ToSet
  <2> HIDE DEF a, b, d
  <2>6. Follows(a, b) /\ Ordered(b.order) /\ (d \in Names => Dealt(d, b))
    <3>1. CASE d \in Names
      <4>1. a.open = from.open
        BY <2>3 DEF Follows
      <4>2. Leads(d, a, b)
        BY <2>2, <2>3, <2>4, <2>5, <3>1, <4>1 DEF LeadsWithin
      <4> QED
        BY <4>2 DEF Leads
    <3>2. CASE d \notin Names
      BY <2>2, <2>3, <2>4, <3>2, FollowsItself
    <3> QED
      BY <3>1, <3>2
  <2>7. Follows(from, b)
    BY <2>3, <2>6, FollowsTransitive
  <2>8. ASSUME NEW i \in 1..k, ns[i] \in Names PROVE Dealt(ns[i], b)
    <3>1. CASE i = k
      BY <2>6, <2>8, <3>1 DEF d
    <3>2. CASE i # k
      <4>1. Dealt(ns[i], a)
        BY <2>1, <2>3, <2>8, <3>2
      <4> QED
        BY <2>2, <2>6, <4>1, DealtStays
    <3> QED
      BY <3>1, <3>2
  <2> QED
    BY <2>1, <2>6, <2>7, <2>8 DEF b
<1>7. n \in P
  <2>1. n \in 0..n
    BY <1>3
  <2> HIDE DEF P
  <2> QED
    BY <1>3, <1>5, <1>6, <2>1, IntervalInduction
<1>8. Fine(n)
  BY <1>7
<1>9. \A x \in ToSet(ns) : \E i \in 1..n : x = ns[i]
  BY <1>3 DEF ToSet
<1> HIDE DEF Fine
<1>10. /\ Follows(from, to) /\ Ordered(to.order)
       /\ \A i \in 1..n : ns[i] \in Names => Dealt(ns[i], to)
  BY <1>2, <1>8 DEF Fine
<1> QED
  BY <1>9, <1>10 DEF LeadsAll, to

(* An order with one more table.                                           *)
LEMMA AppendFacts ==
  ASSUME NEW T, NEW a \in Seq(T), NEW x \in T
  PROVE  /\ Append(a, x) \in Seq(T) /\ Len(Append(a, x)) = Len(a) + 1 /\ Len(a) \in Nat
         /\ Append(a, x)[Len(a) + 1] = x /\ \A i \in 1..Len(a) : Append(a, x)[i] = a[i]
         /\ DOMAIN Append(a, x) = 1..(Len(a) + 1) /\ DOMAIN a = 1..Len(a)
OBVIOUS

(* ... as a set.                                                           *)
LEMMA AppendElements ==
  ASSUME NEW T, NEW a \in Seq(T), NEW x \in T
  PROVE  ToSet(Append(a, x)) = ToSet(a) \cup {x}
<1> DEFINE b == Append(a, x)
<1>1. /\ Len(a) \in Nat /\ b[Len(a) + 1] = x /\ \A i \in 1..Len(a) : b[i] = a[i]
      /\ DOMAIN b = 1..(Len(a) + 1) /\ DOMAIN a = 1..Len(a)
  BY AppendFacts
<1> HIDE DEF b
<1>2. /\ Len(a) + 1 \in DOMAIN b /\ \A i \in DOMAIN a : i \in DOMAIN b
      /\ \A i \in DOMAIN b : i = Len(a) + 1 \/ i \in DOMAIN a
  BY <1>1
<1>3. ToSet(b) = ToSet(a) \cup {x}
  BY <1>1, <1>2 DEF ToSet
<1> QED
  BY <1>3 DEF b

(* The table that is visited is put behind an order that has all those it   *)
(* refers to, or needs it for them.                                         *)
LEMMA OrderedAppend ==
  ASSUME NEW a \in Seq(Names), NEW n \in Names, Ordered(a), n \notin ToSet(a),
         \A d \in RefsOf(n) : d \in ToSet(a) \/ n \in Needs(d)
  PROVE  Ordered(Append(a, n))
<1> DEFINE b == Append(a, n)
           m == Len(a)
<1>1. /\ m \in Nat /\ b[m + 1] = n /\ \A i \in 1..m : b[i] = a[i]
      /\ DOMAIN b = 1..(m + 1) /\ DOMAIN a = 1..m
  BY AppendFacts
<1>2. \A i \in DOMAIN b : i = m + 1 \/ i \in 1..m
  BY <1>1
<1>3. \A i \in 1..m : a[i] # n
  BY <1>1 DEF ToSet
<1>4. /\ \A i, j \in 1..m : a[i] = a[j] => i = j
      /\ \A i \in 1..m : \A d \in RefsOf(a[i]) : a[i] \in Needs(d) \/ \E j \in 1..(i - 1) : a[j] = d
  BY <1>1 DEF Ordered, Unique, Behind
<1> HIDE DEF b, m
<1>5. Unique(b)
  BY <1>1, <1>2, <1>3, <1>4 DEF Unique
<1>6. ASSUME NEW i \in DOMAIN b, NEW d \in RefsOf(b[i])
      PROVE  b[i] \in Needs(d) \/ \E j \in 1..(i - 1) : b[j] = d
  <2>1. CASE i \in 1..m
    <3>1. \A j \in 1..(i - 1) : b[j] = a[j]
      <4>1. \A j \in 1..(i - 1) : j \in 1..m
        BY <1>1, <2>1
      <4> QED
        BY <1>1, <4>1
    <3> QED
      BY <1>1, <1>4, <1>6, <2>1, <3>1
  <2>2. CASE i = m + 1
    <3>1. d \in RefsOf(n) /\ b[i] = n
      BY <1>1, <1>6, <2>2
    <3>2. CASE n \in Needs(d)
      BY <3>1, <3>2
    <3>3. CASE d \in ToSet(a)
      <4>1. PICK j \in 1..m : a[j] = d
        BY <1>1, <3>3 DEF ToSet
      <4>2. j \in 1..(i - 1) /\ b[j] = d
        BY <1>1, <2>2, <4>1
      <4> QED
        BY <4>2
    <3> QED
      BY <3>1, <3>2, <3>3
  <2> QED
    BY <1>2, <2>1, <2>2
<1>7. Behind(b)
  BY <1>6 DEF Behind
<1> QED
  BY <1>5, <1>7 DEF Ordered, b

(* By induction on the room: a visit leads to its table.                    *)
LEMMA VisitLeads ==
  ASSUME SchemaOK
  PROVE  \A n \in Names, st \in Walks : MayVisit(n, st) => Leads(n, st, Visit[<<n, st>>])
<1> DEFINE T == {m \in Nat : \A n \in Names, st \in Walks :
                   Room(st) <= m /\ MayVisit(n, st) => Leads(n, st, Visit[<<n, st>>])}
<1>1. ASSUME NEW n \in Names, NEW st \in Walks, MayVisit(n, st), n \in st.open \/ n \in ToSet(st.order)
      PROVE  Leads(n, st, Visit[<<n, st>>])
  <2>1. Visit[<<n, st>>] = st
    BY <1>1, VisitExists DEF VisitBody
  <2> QED
    BY <1>1, <2>1, FollowsItself DEF Leads, Dealt, MayVisit
<1>2. \A st \in Walks : Room(st) \in Nat /\ \A n \in Names : n \notin st.open => Room(Enter(n, st)) = Room(st) - 1
  BY RoomShrinks
<1>3. 0 \in T
  <2> SUFFICES ASSUME NEW n \in Names, NEW st \in Walks, Room(st) <= 0, MayVisit(n, st)
               PROVE  Leads(n, st, Visit[<<n, st>>])
    OBVIOUS
  <2>1. n \in st.open
    <3>1. SUFFICES ASSUME n \notin st.open PROVE FALSE
      OBVIOUS
    <3>2. Enter(n, st) \in Walks
      BY EnterType
    <3>3. Room(Enter(n, st)) = Room(st) - 1 /\ Room(Enter(n, st)) \in Nat /\ Room(st) \in Nat
      BY <1>2, <3>1, <3>2
    <3> QED
      BY <3>3
  <2> QED
    BY <1>1, <2>1
<1>4. ASSUME NEW m \in T PROVE m + 1 \in T
  <2> SUFFICES ASSUME NEW n \in Names, NEW st \in Walks, Room(st) <= m + 1, MayVisit(n, st)
               PROVE  Leads(n, st, Visit[<<n, st>>])
    OBVIOUS
  <2>1. CASE n \in st.open \/ n \in ToSet(st.order)
    BY <1>1, <2>1
  <2>2. CASE n \notin st.open /\ n \notin ToSet(st.order)
    <3> DEFINE from == Enter(n, st)
               ns == RefSeq(n)
               to == VisitAll(Visit, Names, ns, from)
               r == Visit[<<n, st>>]
    <3>1. /\ from \in Walks /\ from.open = st.open \cup {n} /\ from.order = st.order
          /\ ns \in Seq(Nat) /\ RefsOf(n) = ToSet(ns) \cap Names
      BY EnterType, NamesAreFinite
    <3>2. Room(from) <= m
      <4>1. Room(from) = Room(st) - 1 /\ Room(st) \in Nat
        BY <1>2, <2>2
      <4> HIDE DEF from
      <4> QED
        BY <4>1
    <3>3. r = Visited(n, st, to)
      BY <2>2, VisitExists DEF VisitBody
    <3>4. Ordered(st.order) /\ \A o \in st.open : n \in Needs(o)
      BY DEF MayVisit
    <3> HIDE DEF from, ns, to, r
    <3>5. \A o \in from.open : \A d \in RefsOf(n) : d \in Needs(o)
      <4>1. \A o \in from.open : o \in Names
        BY <3>1 DEF Walks
      <4> QED
        BY <3>1, <3>4, <4>1, NeedsClosed
    <3>6. LeadsWithin(Visit, ns, from)
      <4> SUFFICES ASSUME NEW d \in ToSet(ns) \cap Names, NEW a \in Walks, a.open = from.open, Ordered(a.order)
                   PROVE  Leads(d, a, Visit[<<d, a>>])
        BY DEF LeadsWithin
      <4>1. Room(a) <= m
        BY <3>2 DEF Room
      <4>2. MayVisit(d, a)
        BY <3>1, <3>5 DEF MayVisit
      <4> QED
        BY <4>1, <4>2
    <3>7. LeadsAll(Visit, ns, from)
      BY <3>1, <3>4, <3>6, VisitExists, VisitAllLeads
    <3>8. /\ Follows(from, to) /\ Ordered(to.order)
          /\ \A d \in RefsOf(n) : Dealt(d, to)
      BY <3>1, <3>7 DEF LeadsAll, to
    <3>9. to \in Walks /\ to.open = from.open /\ to.order \in Seq(Names)
      BY <3>8 DEF Follows, Walks
    <3>10. r \in Walks /\ r.open = st.open /\ r.order = Append(to.order, n)
      <4>1. r \in Walks /\ r.open = to.open \ {n} /\ r.order = Append(to.order, n)
        BY <3>3, <3>9, VisitedType
      <4> QED
        BY <2>2, <3>1, <3>9, <4>1
    <3>11. n \notin ToSet(to.order)
      BY <2>2, <3>1, <3>8 DEF Follows
    <3>12. \A d \in RefsOf(n) : d \in ToSet(to.order) \/ n \in Needs(d)
      <4> SUFFICES ASSUME NEW d \in RefsOf(n), d \notin ToSet(to.order) PROVE n \in Needs(d)
        OBVIOUS
      <4>1. d \in st.open \/ d = n
        BY <3>1, <3>8, <3>9 DEF Dealt
      <4> QED
        BY <3>4, <4>1, NeedsClosed
    <3>13. Ordered(r.order)
      BY <3>8, <3>9, <3>10, <3>11, <3>12, OrderedAppend
    <3>14. ToSet(r.order) = ToSet(to.order) \cup {n}
      BY <3>9, <3>10, AppendElements
    <3>15. Begins(st.order, r.order)
      <4>1. Begins(st.order, to.order) /\ st.order \in Seq(Names) /\ <<n>> \in Seq(Names)
        BY <3>1, <3>8 DEF Follows, Walks
      <4>2. Begins(to.order, r.order)
        BY <3>9, <3>10, AppendFacts DEF Begins
      <4>3. r.order \in Seq(Names)
        BY <3>10 DEF Walks
      <4> QED
        BY <3>9, <4>1, <4>2, <4>3, BeginsTransitive
    <3>16. Follows(st, r)
      BY <2>2, <3>1, <3>8, <3>10, <3>14, <3>15 DEF Follows
    <3> QED
      BY <3>13, <3>14, <3>16 DEF Leads, Dealt, r
  <2> QED
    BY <2>1, <2>2
<1>5. T = Nat
  <2> HIDE DEF T
  <2>1. T \in SUBSET Nat
    BY DEF T
  <2> QED
    BY <1>3, <1>4, <2>1, NumberInduction
<1>6. ASSUME NEW n \in Names, NEW st \in Walks, MayVisit(n, st) PROVE Leads(n, st, Visit[<<n, st>>])
  <2>1. Room(st) \in T /\ Room(st) <= Room(st)
    BY <1>2, <1>5
  <2> QED
    BY <1>6, <2>1
<1> QED
  BY <1>6

(* The order of the tables is a permutation of them in which each is behind *)
(* those it refers to, but for references in a circle.                      *)
LEMMA TopoSortIsOrdered ==
  ASSUME SchemaOK
  PROVE  /\ TopoSort(schema) \in Seq(Names) /\ Ordered(TopoSort(schema))
         /\ ToSet(TopoSort(schema)) = Names
<1> DEFINE ns == [i \in DOMAIN schema |-> schema[i].name]
           from == [open |-> {}, order |-> <<>>]
           to == VisitAll(Visit, Names, ns, from)
<1>1. Visit \in [Names \X Walks -> Walks]
  BY VisitExists
<1>2. TopoSort(schema) = to.order
  BY TopoSortUnfold
<1>3. schema \in Seq(TableType)
  BY NamesAreFinite
<1>4. ns \in Seq(Nat) /\ ToSet(ns) = Names
  <2>1. DOMAIN schema = 1..Len(schema) /\ Len(schema) \in Nat
    BY <1>3
  <2>2. \A i \in DOMAIN schema : schema[i].name \in Nat
    <3>1. \A t \in TableType : t.name \in Nat
      BY DEF TableType
    <3>2. \A i \in DOMAIN schema : schema[i] \in TableType
      BY <1>3
    <3> QED
      BY <3>1, <3>2
  <2>3. ns \in Seq(Nat) /\ DOMAIN ns = DOMAIN schema
    BY <2>1, <2>2
  <2> QED
    BY <2>3 DEF ToSet, Names
<1>5. from \in Walks /\ from.open = {} /\ from.order = <<>>
  BY DEF Walks
<1>6. Ordered(from.order)
  BY <1>5 DEF Ordered, Unique, Behind
<1> HIDE DEF ns, from, to
<1>7. LeadsWithin(Visit, ns, from)
  BY <1>1, <1>5, VisitLeads DEF LeadsWithin, MayVisit
<1>8. LeadsAll(Visit, ns, from)
  BY <1>1, <1>4, <1>5, <1>6, <1>7, VisitAllLeads
<1>9. /\ to \in Walks /\ to.open = {} /\ Ordered(to.order)
      /\ \A n \in Names : Dealt(n, to)
  BY <1>4, <1>5, <1>8 DEF LeadsAll, Follows, to
<1>10. to.order \in Seq(Names)
  BY <1>9 DEF Walks
<1>11. ToSet(to.order) = Names
  <2>1. \A x \in ToSet(to.order) : x \in Names
    BY <1>10 DEF ToSet
  <2> QED
    BY <1>9, <2>1 DEF Dealt
<1> QED
  BY <1>2, <1>9, <1>10, <1>11
-----------------------------------------------------------------------------
(* The place of a table in an order that holds it once; the reverse order. *)
LEMMA PositionIs ==
  ASSUME NEW s, Unique(s), NEW i \in DOMAIN s
  PROVE  Position(s, s[i]) = i
BY DEF Position, Unique

(* A reversed sequence, by its places.                                     *)
LEMMA ReverseFacts ==
  ASSUME NEW T, NEW s \in Seq(T)
  PROVE  /\ Reverse(s) \in Seq(T) /\ Len(Reverse(s)) = Len(s) /\ Len(s) \in Nat
         /\ \A i \in 1..Len(s) : Reverse(s)[i] = s[Len(s) - i + 1]
<1> DEFINE n == Len(s)
<1>1. n \in Nat /\ \A i \in 1..n : n - i + 1 \in 1..n /\ s[n - i + 1] \in T
  <2>1. n \in Nat /\ \A i \in 1..n : n - i + 1 \in 1..n
    OBVIOUS
  <2> QED
    BY <2>1
<1>2. Reverse(s) = [i \in 1..n |-> s[n - i + 1]]
  <2>1. \A i \in 1..n : (n - i) + 1 = n - i + 1
    OBVIOUS
  <2> QED
    BY <2>1 DEF Reverse
<1> HIDE DEF n
<1>3. Reverse(s) \in Seq(T) /\ Len(Reverse(s)) = n
  BY <1>1, <1>2
<1> QED
  BY <1>1, <1>2, <1>3 DEF n

(* The wanted tables and their names.                                      *)
LEMMA WantedTables ==
  ASSUME SchemaOK, NEW t \in Wanted
  PROVE  t \in TableType /\ t.name \in Names /\ TableNamed(schema, t.name) = t /\ ~t.skip
<1>1. PICK i \in DOMAIN schema : t = schema[i]
  BY DEF Wanted, ToSet
<1>2. TableNamed(schema, t.name) = t
  BY <1>1, NamesAreFinite
<1>3. t \in ToSet(schema) /\ ~t.skip
  BY DEF Wanted
<1> QED
  BY <1>2, <1>3, TableTypes DEF SchemaOK, Names

WantedNames == {n \in Names : ~TableNamed(schema, n).skip}

(* The names that are wanted are those of the wanted tables.               *)
LEMMA WantedByName ==
  ASSUME SchemaOK
  PROVE  WantedNames = {t.name : t \in Wanted}
<1>1. \A n \in WantedNames : TableNamed(schema, n) \in Wanted /\ TableNamed(schema, n).name = n
  BY NamesAreFinite DEF WantedNames, Wanted
<1>2. \A t \in Wanted : t.name \in WantedNames
  BY WantedTables DEF WantedNames
<1> QED
  BY <1>1, <1>2

(* The order without the skipped tables and the reverse order are as long   *)
(* as ParentsFirst says, and in the order it says.                          *)
LEMMA OrderOfTables ==
  ASSUME SchemaOK, NEW order \in Seq(Names), Ordered(order), ToSet(order) = Names,
         ddl = Only(order, WantedNames), constraints = Reverse(order)
  PROVE  ParentsFirst
<1>1. ddl \in Seq(Names)
  BY OnlyPicks
<1>2. PICK pos : Picked(pos, ddl, order, WantedNames, Len(order))
  BY OnlyPicks
<1>3. DOMAIN order = 1..Len(order) /\ DOMAIN ddl = 1..Len(ddl) /\ Len(order) \in Nat /\ Len(ddl) \in Nat
  BY <1>1
<1>4. ToSet(ddl) = {t.name : t \in Wanted}
  <2>1. ToSet(ddl) = Names \cap WantedNames
    BY OnlyElements
  <2> QED
    BY <2>1, WantedByName DEF WantedNames
<1>5. /\ pos \in [1..Len(ddl) -> 1..Len(order)]
      /\ \A j \in 1..Len(ddl) : ddl[j] = order[pos[j]]
      /\ \A i, j \in 1..Len(ddl) : i < j => pos[i] < pos[j]
      /\ \A i \in 1..Len(order) : order[i] \in WantedNames => \E j \in 1..Len(ddl) : pos[j] = i
  BY <1>2 DEF Picked
<1>6. Unique(order)
  BY DEF Ordered
<1>7. Unique(ddl)
  <2> SUFFICES ASSUME NEW i \in 1..Len(ddl), NEW j \in 1..Len(ddl), ddl[i] = ddl[j]
               PROVE  i = j
    BY <1>3 DEF Unique
  <2>1. pos[i] \in 1..Len(order) /\ pos[j] \in 1..Len(order) /\ order[pos[i]] = order[pos[j]]
    BY <1>5
  <2>2. pos[i] = pos[j]
    BY <1>3, <1>6, <2>1 DEF Unique
  <2>3. ~(i < j) /\ ~(j < i)
    <3>1. pos[i] \in Int /\ pos[j] \in Int
      BY <2>1
    <3> QED
      BY <1>5, <2>2, <3>1
  <2> QED
    BY <2>3
<1>8. Len(ddl) = Cardinality(Wanted)
  <2> DEFINE f == [i \in 1..Len(ddl) |-> TableNamed(schema, ddl[i])]
  <2>1. \A i \in 1..Len(ddl) : ddl[i] \in WantedNames
    <3>1. \A i \in 1..Len(ddl) : ddl[i] \in ToSet(ddl)
      BY <1>3 DEF ToSet
    <3> QED
      BY <1>4, <3>1, WantedByName
  <2>2. \A i \in 1..Len(ddl) : f[i] \in Wanted /\ f[i].name = ddl[i]
    BY <2>1, NamesAreFinite DEF WantedNames, Wanted
  <2>3. \A t \in Wanted : \E i \in 1..Len(ddl) : f[i] = t
    <3> SUFFICES ASSUME NEW t \in Wanted PROVE \E i \in 1..Len(ddl) : f[i] = t
      OBVIOUS
    <3>1. PICK i \in 1..Len(ddl) : ddl[i] = t.name
      BY <1>3, <1>4 DEF ToSet
    <3>2. TableNamed(schema, t.name) = t
      BY WantedTables
    <3> QED
      BY <3>1, <3>2
  <2>4. f \in [1..Len(ddl) -> Wanted]
    BY <2>2
  <2> HIDE DEF f
  <2>5. \A i, j \in 1..Len(ddl) : f[i] = f[j] => i = j
    BY <1>3, <1>7, <2>2 DEF Unique
  <2>6. f \in Bijection(1..Len(ddl), Wanted)
    BY <2>3, <2>4, <2>5 DEF Bijection, Injection, Surjection, IsInjective
  <2>7. IsFiniteSet(1..Len(ddl)) /\ Cardinality(1..Len(ddl)) = Len(ddl)
    <3>1. \A n \in Nat : IsFiniteSet(1..n) /\ Cardinality(1..n) = n
      BY FS_Interval
    <3> QED
      BY <1>3, <3>1
  <2>8. ExistsBijection(1..Len(ddl), Wanted)
    BY <2>6 DEF ExistsBijection
  <2> QED
    BY <2>7, <2>8, FS_Bijection
<1>9. ASSUME NEW t \in Wanted, NEW u \in Wanted, u.name \in ToSet(t.refs), t.name \notin Needs(u.name)
      PROVE  /\ Position(ddl, u.name) < Position(ddl, t.name)
             /\ Position(constraints, t.name) < Position(constraints, u.name)
  <2>1. /\ t.name \in Names /\ u.name \in Names /\ t.name \in WantedNames /\ u.name \in WantedNames
        /\ TableNamed(schema, t.name) = t
    BY WantedTables, WantedByName
  <2>2. u.name \in RefsOf(t.name)
    BY <1>9, <2>1 DEF RefsOf
  <2>3. PICK p \in 1..Len(order) : order[p] = t.name
    BY <1>3, <2>1 DEF ToSet
  <2>4. PICK q \in 1..(p - 1) : order[q] = u.name
    BY <1>3, <1>9, <2>2, <2>3 DEF Ordered, Behind
  <2>5. q \in 1..Len(order) /\ q < p
    BY <1>3
  <2>6. PICK i \in 1..Len(ddl) : pos[i] = p
    BY <1>5, <2>1, <2>3
  <2>7. PICK j \in 1..Len(ddl) : pos[j] = q
    BY <1>5, <2>1, <2>4, <2>5
  <2>8. ddl[i] = t.name /\ ddl[j] = u.name
    BY <1>5, <2>3, <2>4, <2>6, <2>7
  <2>9. j < i
    <3>1. ~(i < j) /\ i # j
      BY <1>5, <2>5, <2>6, <2>7
    <3> QED
      BY <3>1
  <2>10. Position(ddl, t.name) = i /\ Position(ddl, u.name) = j
    BY <1>3, <1>7, <2>8, PositionIs
  <2>11. Position(constraints, t.name) < Position(constraints, u.name)
    <3> DEFINE n == Len(order)
    <3>1. /\ n \in Nat /\ Len(constraints) = n /\ constraints \in Seq(Names)
          /\ \A k \in 1..n : constraints[k] = order[n - k + 1]
      BY ReverseFacts
    <3> HIDE DEF n
    <3>2. DOMAIN constraints = 1..n
      BY <3>1
    <3>3. \A k \in 1..n : n - k + 1 \in 1..n
      BY <3>1
    <3>4. Unique(constraints)
      <4> SUFFICES ASSUME NEW k \in 1..n, NEW m \in 1..n, constraints[k] = constraints[m]
                   PROVE  k = m
        BY <3>2 DEF Unique
      <4>1. n - k + 1 \in DOMAIN order /\ n - m + 1 \in DOMAIN order
        BY <1>3, <3>3 DEF n
      <4>2. order[n - k + 1] = order[n - m + 1]
        BY <3>1
      <4>3. n - k + 1 = n - m + 1
        BY <1>6, <4>1, <4>2 DEF Unique
      <4> QED
        BY <3>1, <4>3
    <3>5. p \in 1..n /\ q \in 1..n
      BY <2>5 DEF n
    <3>6. n - p + 1 \in 1..n /\ n - q + 1 \in 1..n /\ n - (n - p + 1) + 1 = p /\ n - (n - q + 1) + 1 = q
      BY <3>1, <3>5
    <3>7. constraints[n - p + 1] = t.name /\ constraints[n - q + 1] = u.name
      BY <2>3, <2>4, <3>1, <3>6
    <3>8. Position(constraints, t.name) = n - p + 1 /\ Position(constraints, u.name) = n - q + 1
      BY <3>2, <3>4, <3>6, <3>7, PositionIs
    <3>9. n - p + 1 < n - q + 1
      BY <2>5, <3>1, <3>5
    <3> QED
      BY <3>8, <3>9
  <2> QED
    BY <2>9, <2>10, <2>11
<1> QED
  BY <1>4, <1>8, <1>9 DEF ParentsFirst

(* The inductive invariant of the two orders.                               *)
OrdersKept ==
  /\ SchemaOK
  /\ step # "build" => ddl = Only(TopoSort(schema), WantedNames) /\ constraints = Reverse(TopoSort(schema))

(* Every schema: the DDL order holds each wanted table once, behind those   *)
(* it refers to but for circles; constraints come in the reverse order.     *)
THEOREM ParentsComeFirst == Spec => []ParentsFirst
<1>1. Init => OrdersKept
  BY DEF Init, OrdersKept, SchemaOK
<1>2. OrdersKept /\ [Next]_vars => OrdersKept'
  <2> SUFFICES ASSUME OrdersKept, [Next]_vars PROVE OrdersKept'
    OBVIOUS
  <2>1. CASE Build
    <3>1. ToSet(TopoSort(schema)) = Names
      BY TopoSortIsOrdered DEF OrdersKept
    <3>2. {n \in ToSet(TopoSort(schema)) : ~TableNamed(schema, n).skip} = WantedNames
      BY <3>1 DEF WantedNames
    <3>3. BuildPlan.order = TopoSort(schema)
      BY DEF BuildPlan
    <3>4. schema' = schema /\ ddl' = Only(TopoSort(schema), WantedNames) /\ constraints' = Reverse(TopoSort(schema))
      BY <2>1, <3>2, <3>3 DEF Build
    <3>5. WantedNames' = WantedNames
      BY <3>4 DEF WantedNames, Names
    <3> QED
      BY <3>4, <3>5 DEF OrdersKept, SchemaOK
  <2>2. CASE UNCHANGED vars
    BY <2>2 DEF vars, OrdersKept, SchemaOK, WantedNames, Names
  <2>3. CASE ~Build /\ Next
    <3>1. /\ schema' = schema /\ ddl' = ddl /\ constraints' = constraints
          /\ step # "build"
      BY <2>3 DEF Next, ResolvePartitionTable, ResolveTable, ResolveOraHash, OrderTasks, Resolving
    <3>2. WantedNames' = WantedNames
      BY <3>1 DEF WantedNames, Names
    <3> QED
      BY <3>1, <3>2 DEF OrdersKept, SchemaOK
  <2> QED
    BY <2>1, <2>2, <2>3
<1>3. OrdersKept => ParentsFirst
  <2> SUFFICES ASSUME OrdersKept PROVE ParentsFirst
    OBVIOUS
  <2>1. CASE step = "build"
    BY <2>1 DEF ParentsFirst
  <2>2. CASE step # "build"
    BY <2>2, TopoSortIsOrdered, OrderOfTables DEF OrdersKept
  <2> QED
    BY <2>1, <2>2
<1> QED
  BY <1>1, <1>2, <1>3, PTL DEF Spec
-----------------------------------------------------------------------------
(* A table of a schema; how many chunks a bucket may have.                  *)
TableOK(t) == t \in TableType /\ Len(t.parts) <= MaxParts
Limit(p) == IF p = 0 THEN MaxHashes ELSE MaxPartChunks

KeyOf == [x \in Task |-> JobKey(x)]

(* The tables that are migrated are tables of the kind TableOK names.      *)
LEMMA WantedAreOK == ASSUME SchemaOK, NEW t \in Wanted PROVE TableOK(t)
<1>1. PICK i \in DOMAIN schema : t = schema[i]
  BY DEF Wanted, ToSet
<1> QED
  BY <1>1, WantedTables, SchemaTypes DEF TableOK, SchemaOK

(* The bounds, as numbers.                                                 *)
LEMMA Limits ==
  /\ Extent \in Nat /\ Extent > 0 /\ MaxParts \in Nat /\ MaxParts > 0
  /\ MaxPartChunks \in Nat /\ MaxPartChunks >= 8 /\ MaxTableChunks \in Nat /\ MaxTableChunks > 1
  /\ MaxHashes \in Nat /\ MaxPartChunks <= MaxHashes /\ MaxTableChunks <= MaxHashes
  /\ BatchSize \in Nat /\ BatchSize > 0
<1>1. Workers \in Nat /\ 4 * Workers \in Nat
  BY PlanConstants
<1>2. MaxPartChunks \in Nat /\ MaxPartChunks >= 8
  BY <1>1 DEF MaxPartChunks, LargerOf
<1>3. MaxTableChunks \in Nat /\ MaxTableChunks > 1
  BY PlanConstants
<1> QED
  BY <1>2, <1>3, PlanConstants DEF MaxHashes, LargerOf

(* The fields of a table, as numbers, sequences and sets.                  *)
LEMMA TableFields ==
  ASSUME NEW t \in TableType
  PROVE  /\ t.name \in Nat /\ t.parts \in Seq(PartitionType) /\ t.num \in Nat /\ t.batch \in Nat
         /\ t.chunkSize \in Nat /\ t.low \in Nat /\ t.high \in Nat /\ t.filter \in SUBSET Nat
         /\ t.refs \in Seq(Nat) /\ t.skip \in BOOLEAN /\ t.strategy \in StrategyNames
         /\ Len(t.parts) \in Nat /\ DOMAIN t.parts = 1..Len(t.parts)
         /\ \A i \in DOMAIN t.parts : t.parts[i].high \in Nat /\ t.parts[i].num \in Nat
<1>1. /\ t.name \in Nat /\ t.parts \in Seq(PartitionType) /\ t.num \in Nat /\ t.batch \in Nat
      /\ t.chunkSize \in Nat /\ t.low \in Nat /\ t.high \in Nat /\ t.filter \in SUBSET Nat
      /\ t.refs \in Seq(Nat) /\ t.skip \in BOOLEAN /\ t.strategy \in StrategyNames
  BY DEF TableType
<1>2. \A i \in DOMAIN t.parts : t.parts[i] \in PartitionType
  BY <1>1
<1>3. Len(t.parts) \in Nat /\ DOMAIN t.parts = 1..Len(t.parts)
  BY <1>1
<1> QED
  BY <1>1, <1>2, <1>3 DEF PartitionType

(* The partitions that are migrated, each once.                             *)
LEMMA Included ==
  ASSUME NEW t \in TableType
  PROVE  /\ ResolvePartitions(t) \in Seq(Nat) /\ Unique(ResolvePartitions(t))
         /\ ToSet(ResolvePartitions(t)) = {i \in DOMAIN t.parts : Includes(t, i)}
         /\ \A k \in DOMAIN ResolvePartitions(t) :
              /\ ResolvePartitions(t)[k] \in DOMAIN t.parts /\ ResolvePartitions(t)[k] # 0
              /\ Includes(t, ResolvePartitions(t)[k])
<1> DEFINE K == {i \in DOMAIN t.parts : Includes(t, i)}
           s == [i \in DOMAIN t.parts |-> i]
           inc == ResolvePartitions(t)
           self == [i \in Nat |-> i]
<1>1. DOMAIN t.parts = 1..Len(t.parts) /\ Len(t.parts) \in Nat
  BY TableFields
<1>2. s \in Seq(Nat) /\ ToSet(s) = DOMAIN t.parts /\ Distinct(s, self)
  <2>1. s \in Seq(Nat) /\ DOMAIN s = DOMAIN t.parts /\ \A i \in DOMAIN t.parts : s[i] = i
    BY <1>1
  <2>2. \A i \in DOMAIN t.parts : self[i] = i
    BY <1>1
  <2> HIDE DEF s, self
  <2> QED
    BY <2>1, <2>2 DEF ToSet, Distinct
<1>3. inc = Only(s, K)
  BY DEF ResolvePartitions
<1> HIDE DEF inc, s, K, self
<1>4. inc \in Seq(Nat)
  BY <1>2, <1>3, OnlyPicks
<1>5. ToSet(inc) = DOMAIN t.parts \cap K
  BY <1>2, <1>3, OnlyElements
<1>6. Distinct(inc, self)
  BY <1>2, <1>3, OnlyDistinct
<1>7. \A k \in DOMAIN inc : inc[k] \in DOMAIN t.parts /\ inc[k] \in K /\ inc[k] # 0
  <2>1. \A k \in DOMAIN inc : inc[k] \in ToSet(inc)
    BY DEF ToSet
  <2> QED
    BY <1>1, <1>5, <2>1
<1>8. Unique(inc)
  <2>1. \A k \in DOMAIN inc : inc[k] \in Nat
    BY <1>1, <1>7
  <2> QED
    BY <1>6, <2>1 DEF Unique, Distinct, self
<1>9. ToSet(inc) = K
  BY <1>5 DEF K
<1> QED
  BY <1>4, <1>7, <1>8, <1>9 DEF inc, K

(* Division with a remainder.                                              *)
LEMMA Divided ==
  ASSUME NEW x \in Nat, NEW y \in Nat, y > 0
  PROVE  x \div y \in Nat /\ x % y \in 0..(y - 1) /\ x = y * (x \div y) + (x % y)
BY Z3

(* An estimate makes one chunk of a partition at least.                    *)
LEMMA PartCounts ==
  ASSUME NEW num \in Nat, NEW size \in Nat
  PROVE  PartitionChunkCount(num, size) \in 1..MaxPartChunks
<1> DEFINE b == IF size <= 0 THEN 50000 ELSE size
           q == num \div b
<1>1. b \in Nat /\ b > 0
  OBVIOUS
<1> HIDE DEF b
<1>2. q \in Nat
  BY <1>1, Z3
<1> HIDE DEF q
<1>3. PartitionChunkCount(num, size) = IF num <= 10 * b THEN 1 ELSE LargerOf(2, SmallerOf(q, MaxPartChunks))
  BY DEF PartitionChunkCount, b, q
<1> QED
  BY <1>2, <1>3, Limits DEF LargerOf, SmallerOf

(* The rows of a table and the segments they are in.                        *)
LEMMA RowsAreRowids ==
  ASSUME NEW t, TableOK(t), NEW r \in RowsOf(t)
  PROVE  /\ r \in Rowids /\ r \in Nat /\ r > 0
         /\ Partitioned(t) => PartOf(t, r) \in DOMAIN t.parts
         /\ ~Partitioned(t) => PartOf(t, r) = 0
         /\ (Segment(PartOf(t, r)) - 1) * Extent < r /\ r <= (Segment(PartOf(t, r)) - 1) * Extent + Extent
<1> DEFINE n == Len(t.parts)
           q == (r - 1) \div Extent
           rest == (r - 1) % Extent
<1>1. /\ n \in Nat /\ n <= MaxParts /\ DOMAIN t.parts = 1..n /\ (Partitioned(t) <=> n > 0)
  <2>1. t.parts \in Seq(PartitionType) /\ n \in Nat /\ DOMAIN t.parts = 1..n /\ n <= MaxParts
    BY TableFields DEF TableOK
  <2>2. t.parts # <<>> <=> n > 0
    BY <2>1
  <2> QED
    BY <2>1, <2>2 DEF Partitioned
<1>2. r \in 1..(Extent * LargerOf(1, n))
  BY DEF RowsOf
<1>3. PartOf(t, r) = IF Partitioned(t) THEN q + 1 ELSE 0
  BY DEF PartOf
<1> HIDE DEF n
<1> DEFINE m == LargerOf(1, n)
<1>4. m \in Nat /\ m <= MaxParts /\ m > 0
  BY <1>1, Limits DEF LargerOf
<1>5. r \in 1..(Extent * m)
  BY <1>2
<1>12. (Partitioned(t) => m = n) /\ (~Partitioned(t) => m = 1)
  BY <1>1 DEF LargerOf
<1> HIDE DEF m
<1>6. Extent * m \in Nat /\ MaxParts * Extent = Extent * m + (MaxParts - m) * Extent /\ (MaxParts - m) * Extent \in Nat
  BY <1>4, Limits
<1>7. r \in Nat /\ r > 0 /\ r <= Extent * m /\ r \in Rowids
  BY <1>5, <1>6 DEF Rowids
<1>8. q \in Nat /\ q * Extent < r /\ r <= q * Extent + Extent
  <2>1. Extent \in Nat /\ Extent > 0 /\ r - 1 \in Nat
    BY <1>7, Limits
  <2>2. q \in Nat /\ rest \in 0..(Extent - 1) /\ r - 1 = Extent * q + rest
    BY <2>1, Divided
  <2> HIDE DEF q, rest
  <2>3. Extent * q = q * Extent /\ q * Extent \in Nat
    BY <2>1, <2>2
  <2> QED
    BY <1>7, <2>1, <2>2, <2>3
<1>9. q < m
  <2> SUFFICES ASSUME q >= m PROVE FALSE
    BY <1>4, <1>8
  <2> HIDE DEF q
  <2>1. q * Extent = m * Extent + (q - m) * Extent /\ (q - m) * Extent \in Nat /\ m * Extent = Extent * m
    BY <1>4, <1>8, Limits
  <2> QED
    BY <1>6, <1>7, <1>8, <2>1
<1> HIDE DEF q
<1>10. CASE Partitioned(t)
  <2>1. PartOf(t, r) = q + 1 /\ q + 1 \in 1..n /\ Segment(q + 1) - 1 = q
    BY <1>1, <1>3, <1>8, <1>9, <1>10, <1>12 DEF Segment
  <2> QED
    BY <1>1, <1>7, <1>8, <1>10, <2>1
<1>11. CASE ~Partitioned(t)
  <2>1. PartOf(t, r) = 0 /\ q = 0 /\ Segment(0) - 1 = 0
    BY <1>3, <1>8, <1>9, <1>11, <1>12 DEF Segment
  <2> QED
    BY <1>7, <1>8, <1>11, <2>1
<1> QED
  BY <1>10, <1>11
-----------------------------------------------------------------------------
(* The elements of a sequence, by their places.                            *)
LEMMA SeqElements ==
  ASSUME NEW T, NEW s \in Seq(T)
  PROVE  Len(s) \in Nat /\ DOMAIN s = 1..Len(s) /\ \A i \in 1..Len(s) : s[i] \in T
OBVIOUS

(* How a set of tasks reads the rows of a table: no selected row twice, no  *)
(* row that is not selected, and each selected row unless a list was short. *)
ReadOnce(S, t, r) == \A x, y \in S : Reads(x, t, r) /\ Reads(y, t, r) => x = y
IsRead(S, t, r) == \E x \in S : Reads(x, t, r)

(* Tasks that a partition of t, or a table without any, is split in.        *)
Split(t, p, ts) ==
  /\ ts \in Seq(Task) /\ ts # <<>> /\ Distinct(ts, KeyOf)
  /\ \A x \in ToSet(ts) : x.table = t.name /\ x.part = p /\ (x.kind = "hash" => x.id < x.of)
  /\ (\E x \in ToSet(ts) : x.kind # "whole") => Len(ts) <= Limit(p)
  /\ \A r \in RowsOf(t) : PartOf(t, r) = p => ReadOnce(ToSet(ts), t, r)
IsFull(t, p, ts) == \A r \in RowsOf(t) : PartOf(t, r) = p => IsRead(ToSet(ts), t, r)

(* The key of a task, as a function.                                       *)
LEMMA KeyIs == ASSUME NEW x \in Task PROVE KeyOf[x] = JobKey(x)
BY DEF KeyOf

(* A task that reads a table or a partition whole.                         *)
LEMMA WholeType ==
  ASSUME NEW t \in TableType, NEW p \in Nat
  PROVE  /\ Whole(t, p) \in Task /\ Whole(t, p).table = t.name /\ Whole(t, p).part = p
         /\ Whole(t, p).kind = "whole"
BY TableFields DEF Whole, Task

(* ... reads the rows of the partition, or of the table.                   *)
LEMMA WholeReads ==
  ASSUME NEW t \in TableType, NEW p \in Nat, NEW r
  PROVE  Reads(Whole(t, p), t, r) <=> p \in {0, PartOf(t, r)}
BY DEF Whole, Reads

(* ... and leaves no row unread.                                           *)
LEMMA WholeSplits ==
  ASSUME NEW t, TableOK(t), NEW p \in Nat
  PROVE  Split(t, p, <<Whole(t, p)>>) /\ IsFull(t, p, <<Whole(t, p)>>)
<1> DEFINE w == Whole(t, p)
           ts == <<w>>
<1>1. w \in Task /\ w.table = t.name /\ w.part = p /\ w.kind = "whole"
  BY WholeType DEF TableOK
<1>2. \A r : p = PartOf(t, r) => Reads(w, t, r)
  BY WholeReads DEF TableOK
<1> HIDE DEF w
<1>3. ts \in Seq(Task) /\ ts # <<>> /\ DOMAIN ts = {1} /\ ts[1] = w /\ ToSet(ts) = {w}
  BY <1>1 DEF ToSet
<1> HIDE DEF ts
<1>4. Split(t, p, ts)
  BY <1>1, <1>3 DEF Split, Distinct, ReadOnce
<1>5. IsFull(t, p, ts)
  BY <1>2, <1>3 DEF IsFull, IsRead
<1> QED
  BY <1>4, <1>5 DEF ts, w

(* The i-th of n hash tasks has bucket i - 1 of n.                         *)
LEMMA HashTaskIs ==
  ASSUME NEW t \in TableType, NEW p \in Nat, NEW n \in Nat, NEW i \in 1..n
  PROVE  LET x == HashTasks(t, p, n)[i]
         IN  /\ x \in Task /\ x.table = t.name /\ x.part = p /\ x.kind = "hash"
             /\ x.id = i - 1 /\ x.of = n
<1> DEFINE x == HashTasks(t, p, n)[i]
           k == i - 1
<1>1. x = [table |-> t.name, part |-> p, kind |-> "hash", id |-> k, of |-> n, lo |-> 0, hi |-> 0]
  BY DEF HashTasks, Whole
<1>2. k \in Nat /\ t.name \in Nat
  BY TableFields
<1> HIDE DEF x, k
<1>3. x \in Task
  BY <1>1, <1>2 DEF Task
<1> QED
  BY <1>1, <1>3 DEF x, k

(* Hash tasks read each row once, whatever the hash function is.           *)
LEMMA HashSplits ==
  ASSUME NEW t, TableOK(t), NEW p \in Nat, NEW n \in 1..Limit(p)
  PROVE  /\ Split(t, p, HashTasks(t, p, n)) /\ IsFull(t, p, HashTasks(t, p, n))
         /\ Len(HashTasks(t, p, n)) = n
         /\ \A x \in ToSet(HashTasks(t, p, n)) : x.kind # "whole"
<1> DEFINE ts == HashTasks(t, p, n)
<1>1. n \in Nat /\ n > 0 /\ n <= Limit(p) /\ n \in 1..MaxHashes
  BY Limits DEF Limit
<1>2. \A i \in 1..n : /\ ts[i] \in Task /\ ts[i].table = t.name /\ ts[i].part = p /\ ts[i].kind = "hash"
                      /\ ts[i].id = i - 1 /\ ts[i].of = n
  BY <1>1, HashTaskIs DEF TableOK
<1>3. DOMAIN ts = 1..n
  BY DEF HashTasks
<1>4. ts = [i \in 1..n |-> ts[i]]
  BY DEF HashTasks
<1> HIDE DEF ts
<1>5. ts \in Seq(Task) /\ Len(ts) = n /\ ts # <<>>
  <2>1. ts \in [1..n -> Task]
    BY <1>2, <1>4
  <2> QED
    BY <1>1, <2>1
<1>6. \A x \in ToSet(ts) : \E i \in 1..n : x = ts[i]
  BY <1>3 DEF ToSet
<1>7. Distinct(ts, KeyOf)
  <2> SUFFICES ASSUME NEW i \in 1..n, NEW j \in 1..n, KeyOf[ts[i]] = KeyOf[ts[j]]
               PROVE  i = j
    BY <1>3 DEF Distinct
  <2>1. JobKey(ts[i]) = JobKey(ts[j])
    BY <1>2, KeyIs
  <2>2. {i - 1} = {j - 1}
    BY <1>2, <2>1 DEF JobKey
  <2>3. i - 1 = j - 1
    BY <2>2
  <2> QED
    BY <2>3
<1>8. \A x \in ToSet(ts) : x.table = t.name /\ x.part = p /\ x.kind = "hash" /\ x.id < x.of
  <2>1. \A i \in 1..n : i - 1 < n
    BY <1>1
  <2> QED
    BY <1>2, <1>6, <2>1
<1>9. ASSUME NEW r \in RowsOf(t), PartOf(t, r) = p
      PROVE  ReadOnce(ToSet(ts), t, r) /\ IsRead(ToSet(ts), t, r)
  <2>1. Hash(r, n) \in 0..(n - 1)
    BY <1>1, RowsAreRowids, HashRange
  <2>2. \A i \in 1..n : Reads(ts[i], t, r) <=> i - 1 = Hash(r, n)
    BY <1>2, <1>9 DEF Reads
  <2>3. ReadOnce(ToSet(ts), t, r)
    <3> SUFFICES ASSUME NEW i \in 1..n, NEW j \in 1..n, Reads(ts[i], t, r), Reads(ts[j], t, r)
                 PROVE  i = j
      BY <1>6 DEF ReadOnce
    <3>1. i - 1 = j - 1
      BY <2>2
    <3> QED
      BY <3>1
  <2>4. IsRead(ToSet(ts), t, r)
    <3> DEFINE i == Hash(r, n) + 1
    <3>1. i \in 1..n /\ i - 1 = Hash(r, n)
      BY <1>1, <2>1
    <3> HIDE DEF i
    <3>2. Reads(ts[i], t, r) /\ ts[i] \in ToSet(ts)
      BY <1>3, <2>2, <3>1 DEF ToSet
    <3> QED
      BY <3>2 DEF IsRead
  <2> QED
    BY <2>3, <2>4
<1>10. Split(t, p, ts) /\ IsFull(t, p, ts)
  BY <1>1, <1>5, <1>7, <1>8, <1>9 DEF Split, IsFull
<1> QED
  BY <1>5, <1>8, <1>10 DEF ts

(* So do those an estimate of the rows leads to.                           *)
LEMMA ByHashSplits ==
  ASSUME NEW t, TableOK(t), NEW p \in Nat, NEW num \in Nat, NEW size \in Nat
  PROVE  Split(t, p, ByHash(t, p, num, size)) /\ IsFull(t, p, ByHash(t, p, num, size))
<1> DEFINE n == PartitionChunkCount(num, size)
<1>1. n \in 1..MaxPartChunks
  BY PartCounts
<1>2. n \in 1..Limit(p)
  BY <1>1, Limits DEF Limit
<1>3. ByHash(t, p, num, size) = IF n > 1 THEN HashTasks(t, p, n) ELSE <<Whole(t, p)>>
  BY DEF ByHash
<1> HIDE DEF n
<1> QED
  BY <1>2, <1>3, HashSplits, WholeSplits
-----------------------------------------------------------------------------
(* Chunk lists.                                                             *)
LEMMA StepsAscend ==
  ASSUME NEW n \in Nat, NEW f, \A i \in 1..n : f[i] \in Int,
         \A i \in 1..(n - 1) : f[i] < f[i + 1]
  PROVE  \A i, j \in 1..n : i < j => f[i] < f[j]
<1> DEFINE P == {k \in 0..n : \A i \in 1..k : i < k => f[i] < f[k]}
<1>1. 0 \in P
  OBVIOUS
<1>2. ASSUME NEW k \in 1..n, k - 1 \in P PROVE k \in P
  <2> SUFFICES ASSUME NEW i \in 1..k, i < k PROVE f[i] < f[k]
    OBVIOUS
  <2>1. i \in 1..(k - 1) /\ k - 1 \in 1..(n - 1) /\ (k - 1) + 1 = k /\ i \in 1..n /\ k - 1 \in 1..n
    OBVIOUS
  <2>2. f[k - 1] < f[k]
    BY <2>1
  <2>3. i = k - 1 \/ f[i] < f[k - 1]
    BY <1>2, <2>1
  <2>4. f[i] \in Int /\ f[k - 1] \in Int /\ f[k] \in Int
    BY <2>1
  <2> HIDE DEF P
  <2> QED
    BY <2>2, <2>3, <2>4
<1>3. \A k \in 0..n : k \in P
  <2> HIDE DEF P
  <2> QED
    BY <1>1, <1>2, IntervalInduction
<1> QED
  BY <1>3

SegmentBase(p) == (Segment(p) - 1) * Extent

(* A full list of a segment is a chain of chunks from end to end.          *)
LEMMA SegmentChunks ==
  ASSUME NEW p \in Nat, NEW ends \in Cuts
  PROVE  LET s == ChunksAt(p, ends)
         IN  /\ s \in Seq(ChunkType) /\ s # <<>> /\ Chain(s) /\ Len(s) = Len(ends)
             /\ s[1].lo = SegmentBase(p) + 1 /\ s[Len(s)].hi = SegmentBase(p) + Extent
             /\ \A i \in DOMAIN s : s[i].id = s[i].lo /\ s[i].part = p
<1> DEFINE n == Len(ends)
           base == SegmentBase(p)
           from(i) == IF i = 1 THEN 0 ELSE ends[i - 1]
           s == ChunksAt(p, ends)
<1>1. /\ ends \in Seq(1..Extent) /\ ends # <<>> /\ Last(ends) = Extent
      /\ \A i \in 1..(n - 1) : ends[i] < ends[i + 1]
  BY PlanConstants
<1>2. n \in Nat /\ n > 0 /\ DOMAIN ends = 1..n
  BY <1>1
<1>3. \A i \in 1..n : ends[i] \in Nat /\ ends[i] > 0
  <2>1. \A i \in 1..n : ends[i] \in 1..Extent
    BY <1>1, SeqElements
  <2>2. Extent \in Nat
    BY Limits
  <2> QED
    BY <2>1, <2>2
<1>4. ends[n] = Extent
  BY <1>1 DEF Last
<1>5. base \in Nat
  <2>1. Segment(p) - 1 \in Nat
    BY DEF Segment
  <2> QED
    BY <2>1, Limits DEF SegmentBase
<1>6. s = [i \in 1..n |-> [id |-> base + 1 + from(i), lo |-> base + 1 + from(i),
                           hi |-> base + ends[i], part |-> p]]
  BY <1>2 DEF ChunksAt, SegmentBase
<1> HIDE DEF n, base, s
<1>7. \A i, j \in 1..n : i < j => ends[i] < ends[j]
  <2>1. \A i \in 1..n : ends[i] \in Int
    BY <1>3
  <2> QED
    BY <1>1, <1>2, <2>1, StepsAscend
<1>8. \A i \in 1..n : from(i) \in Nat /\ from(i) < ends[i]
  <2> SUFFICES ASSUME NEW i \in 1..n PROVE from(i) \in Nat /\ from(i) < ends[i]
    OBVIOUS
  <2>1. CASE i = 1
    BY <1>3, <2>1
  <2>2. CASE i # 1
    <3>1. i - 1 \in 1..n /\ i - 1 < i
      BY <1>2, <2>2
    <3> QED
      BY <1>3, <1>7, <2>2, <3>1
  <2> QED
    BY <2>1, <2>2
<1>9. \A i, j \in 1..n : i < j => ends[i] <= from(j)
  <2> SUFFICES ASSUME NEW i \in 1..n, NEW j \in 1..n, i < j PROVE ends[i] <= ends[j - 1] /\ j # 1
    OBVIOUS
  <2>1. j - 1 \in 1..n /\ j # 1 /\ (i = j - 1 \/ i < j - 1)
    BY <1>2
  <2>2. i = j - 1 \/ ends[i] < ends[j - 1]
    BY <1>7, <2>1
  <2> QED
    BY <1>3, <2>1, <2>2
<1>10. \A i \in 1..(n - 1) : i + 1 \in 1..n /\ i \in 1..n /\ from(i + 1) = ends[i]
  BY <1>2
<1>11. from(1) = 0
  OBVIOUS
<1> HIDE DEF from
<1>12. \A i \in 1..n : /\ s[i].id = base + 1 + from(i) /\ s[i].lo = base + 1 + from(i)
                       /\ s[i].hi = base + ends[i] /\ s[i].part = p
  BY <1>6
<1>13. s \in Seq(ChunkType) /\ Len(s) = n /\ DOMAIN s = 1..n
  <2>1. \A i \in 1..n : base + 1 + from(i) \in Nat /\ base + ends[i] \in Nat
    BY <1>3, <1>5, <1>8
  <2>2. s \in [1..n -> ChunkType]
    BY <1>6, <2>1 DEF ChunkType
  <2> QED
    BY <1>2, <2>2
<1>14. /\ \A i, j \in 1..n : i <= j => s[i].lo <= s[j].hi
       /\ \A i, j \in 1..n : i < j => s[i].hi < s[j].lo
  <2> SUFFICES ASSUME NEW i \in 1..n, NEW j \in 1..n
               PROVE  (i <= j => s[i].lo <= s[j].hi) /\ (i < j => s[i].hi < s[j].lo)
    OBVIOUS
  <2>1. i < j => ends[i] < ends[j] /\ ends[i] <= from(j)
    BY <1>7, <1>9
  <2>2. from(i) \in Nat /\ from(i) < ends[i] /\ from(j) \in Nat /\ ends[i] \in Nat /\ ends[j] \in Nat
    BY <1>3, <1>8
  <2>3. i = j => ends[i] = ends[j]
    OBVIOUS
  <2>4. s[i].lo = base + 1 + from(i) /\ s[j].hi = base + ends[j] /\ s[i].hi = base + ends[i] /\ s[j].lo = base + 1 + from(j)
    BY <1>12
  <2>5. i <= j => base + 1 + from(i) <= base + ends[j]
    BY <1>5, <2>1, <2>2, <2>3
  <2>6. i < j => base + ends[i] < base + 1 + from(j)
    BY <1>5, <2>1, <2>2
  <2> QED
    BY <2>4, <2>5, <2>6
<1>15. \A i \in 1..(n - 1) : s[i + 1].lo = s[i].hi + 1
  BY <1>3, <1>5, <1>10, <1>12
<1>16. Chain(s)
  BY <1>13, <1>14, <1>15 DEF Chain
<1>17. 1 \in 1..n /\ n \in 1..n /\ s # <<>>
  BY <1>2, <1>13
<1>18. s[1].lo = base + 1 /\ s[n].hi = base + Extent
  BY <1>4, <1>5, <1>11, <1>12, <1>17
<1> QED
  BY <1>12, <1>13, <1>16, <1>17, <1>18 DEF s, base, n
-----------------------------------------------------------------------------
(* The chunks of a chain have a rowid between its ends in one of them.      *)
LEMMA ChainCovers ==
  ASSUME NEW m \in Seq(ChunkType), m # <<>>, Chain(m), NEW r \in Nat,
         m[1].lo <= r, r <= m[Len(m)].hi
  PROVE  \E i \in DOMAIN m : m[i].lo <= r /\ r <= m[i].hi
<1> DEFINE n == Len(m)
           P == {k \in 0..n : k > 0 /\ r <= m[k].hi => \E i \in 1..n : m[i].lo <= r /\ r <= m[i].hi}
<1>1. n \in Nat /\ n > 0 /\ DOMAIN m = 1..n
  OBVIOUS
<1>2. \A k \in 1..n : m[k] \in ChunkType /\ m[k].lo \in Nat /\ m[k].hi \in Nat
  <2>1. \A k \in 1..n : m[k] \in ChunkType
    BY SeqElements
  <2> QED
    BY <2>1 DEF ChunkType
<1>3. \A k \in 1..(n - 1) : m[k + 1].lo = m[k].hi + 1
  BY DEF Chain
<1>4. m[1].lo <= r /\ r <= m[n].hi
  OBVIOUS
<1> HIDE DEF n
<1>5. 0 \in P
  BY <1>1
<1>6. ASSUME NEW k \in 1..n, k - 1 \in P PROVE k \in P
  <2> SUFFICES ASSUME r <= m[k].hi PROVE \E i \in 1..n : m[i].lo <= r /\ r <= m[i].hi
    BY <1>1
  <2>1. CASE k = 1
    BY <1>1, <1>4, <2>1
  <2>2. CASE k # 1
    <3>1. k - 1 \in 1..(n - 1) /\ k - 1 \in 1..n /\ k - 1 > 0 /\ (k - 1) + 1 = k
      BY <1>1, <2>2
    <3>2. m[k].lo = m[k - 1].hi + 1
      BY <1>3, <3>1
    <3>3. m[k - 1].hi \in Nat /\ m[k].lo \in Nat
      BY <1>2, <3>1
    <3>4. CASE r <= m[k - 1].hi
      BY <1>6, <3>1, <3>4
    <3>5. CASE ~(r <= m[k - 1].hi)
      <4>1. m[k].lo <= r
        BY <3>2, <3>3, <3>5
      <4> QED
        BY <4>1
    <3> QED
      BY <3>4, <3>5
  <2> QED
    BY <2>1, <2>2
<1>7. n \in P
  <2>1. n \in 0..n
    BY <1>1
  <2> HIDE DEF P
  <2> QED
    BY <1>1, <1>5, <1>6, <2>1, IntervalInduction
<1> QED
  BY <1>1, <1>4, <1>7

(* The tasks of a chain of chunks.                                          *)
Ids(m) == \A i, j \in DOMAIN m : m[i].id = m[j].id => i = j
IsChunked(t, p, m) ==
  /\ m \in Seq(ChunkType) /\ m # <<>> /\ Chain(m) /\ Ids(m) /\ Len(m) <= Limit(p)
  /\ TableOK(t) /\ p \in Nat
FillsSegment(p, m) == m[1].lo = SegmentBase(p) + 1 /\ m[Len(m)].hi = SegmentBase(p) + Extent

(* The i-th rowid task reads between the ends of the i-th chunk.           *)
LEMMA RowidTaskIs ==
  ASSUME NEW t, NEW p, NEW m, IsChunked(t, p, m), NEW i \in DOMAIN m
  PROVE  LET x == RowidTasks(t, p, m)[i]
         IN  /\ x \in Task /\ x.table = t.name /\ x.part = p /\ x.kind = "rowid"
             /\ x.id = m[i].id /\ x.lo = m[i].lo /\ x.hi = m[i].hi
<1> DEFINE x == RowidTasks(t, p, m)[i]
           n == Len(m)
<1>1. x = [table |-> t.name, part |-> p, kind |-> "rowid", id |-> m[i].id, of |-> n,
           lo |-> m[i].lo, hi |-> m[i].hi]
  BY DEF RowidTasks, Whole
<1>2. n \in Nat /\ t.name \in Nat /\ p \in Nat
  BY TableFields DEF IsChunked, TableOK
<1>3. m[i].id \in Nat /\ m[i].lo \in Nat /\ m[i].hi \in Nat
  <2>1. m[i] \in ChunkType
    BY SeqElements DEF IsChunked
  <2> QED
    BY <2>1 DEF ChunkType
<1> HIDE DEF x, n
<1>4. x \in Task
  BY <1>1, <1>2, <1>3 DEF Task
<1> QED
  BY <1>1, <1>4 DEF x

(* Rowid tasks read no row twice, and each row if they fill the segment.   *)
LEMMA RowidSplits ==
  ASSUME NEW t, NEW p, NEW m, IsChunked(t, p, m)
  PROVE  /\ Split(t, p, RowidTasks(t, p, m))
         /\ FillsSegment(p, m) => IsFull(t, p, RowidTasks(t, p, m))
         /\ Len(RowidTasks(t, p, m)) = Len(m)
         /\ \A x \in ToSet(RowidTasks(t, p, m)) : x.kind # "whole"
<1> DEFINE ts == RowidTasks(t, p, m)
           n == Len(m)
<1>1. n \in Nat /\ n > 0 /\ n <= Limit(p) /\ DOMAIN m = 1..n /\ m \in Seq(ChunkType) /\ m # <<>> /\ Chain(m)
  BY DEF IsChunked
<1>2. \A i \in 1..n : /\ ts[i] \in Task /\ ts[i].table = t.name /\ ts[i].part = p /\ ts[i].kind = "rowid"
                      /\ ts[i].id = m[i].id /\ ts[i].lo = m[i].lo /\ ts[i].hi = m[i].hi
  BY <1>1, RowidTaskIs
<1>3. DOMAIN ts = 1..n /\ ts = [i \in 1..n |-> ts[i]]
  BY <1>1 DEF RowidTasks
<1>4. \A i \in 1..n : m[i].lo \in Nat /\ m[i].hi \in Nat
  <2>1. \A i \in 1..n : m[i] \in ChunkType
    BY <1>1, SeqElements
  <2> QED
    BY <2>1 DEF ChunkType
<1> HIDE DEF ts, n
<1>5. ts \in Seq(Task) /\ Len(ts) = n /\ ts # <<>>
  <2>1. ts \in [1..n -> Task]
    BY <1>2, <1>3
  <2> QED
    BY <1>1, <2>1
<1>6. \A x \in ToSet(ts) : \E i \in 1..n : x = ts[i]
  BY <1>3 DEF ToSet
<1>7. Distinct(ts, KeyOf)
  <2> SUFFICES ASSUME NEW i \in 1..n, NEW j \in 1..n, KeyOf[ts[i]] = KeyOf[ts[j]]
               PROVE  i = j
    BY <1>3 DEF Distinct
  <2>1. JobKey(ts[i]) = JobKey(ts[j])
    BY <1>2, KeyIs
  <2>2. {m[i].id} = {m[j].id}
    BY <1>2, <2>1 DEF JobKey
  <2>3. m[i].id = m[j].id
    BY <2>2
  <2> QED
    BY <1>1, <2>3 DEF IsChunked, Ids
<1>8. \A x \in ToSet(ts) : x.table = t.name /\ x.part = p /\ x.kind = "rowid"
  BY <1>2, <1>6
<1>9. ASSUME NEW r \in RowsOf(t), PartOf(t, r) = p
      PROVE  ReadOnce(ToSet(ts), t, r) /\ (FillsSegment(p, m) => IsRead(ToSet(ts), t, r))
  <2>1. r \in Nat /\ SegmentBase(p) < r /\ r <= SegmentBase(p) + Extent
    BY <1>9, RowsAreRowids DEF SegmentBase, IsChunked
  <2>2. \A i \in 1..n : Reads(ts[i], t, r) <=> m[i].lo <= r /\ r <= m[i].hi
    BY <1>2, <1>9 DEF Reads
  <2>3. ReadOnce(ToSet(ts), t, r)
    <3> SUFFICES ASSUME NEW i \in 1..n, NEW j \in 1..n, Reads(ts[i], t, r), Reads(ts[j], t, r)
                 PROVE  i = j
      BY <1>6 DEF ReadOnce
    <3>1. m[i].lo <= r /\ r <= m[i].hi /\ m[j].lo <= r /\ r <= m[j].hi
      BY <2>2
    <3>2. (i < j => m[i].hi < m[j].lo) /\ (j < i => m[j].hi < m[i].lo)
      BY <1>1 DEF Chain
    <3>3. ~(i < j) /\ ~(j < i)
      BY <1>4, <2>1, <3>1, <3>2
    <3> QED
      BY <3>3
  <2>4. ASSUME FillsSegment(p, m) PROVE IsRead(ToSet(ts), t, r)
    <3>1. m[1].lo <= r /\ r <= m[Len(m)].hi
      <4>1. m[1].lo = SegmentBase(p) + 1 /\ m[Len(m)].hi = SegmentBase(p) + Extent
        BY <2>4 DEF FillsSegment
      <4>2. SegmentBase(p) \in Int /\ Extent \in Nat
        <5>1. Segment(p) \in Int
          BY DEF Segment, IsChunked
        <5> QED
          BY <5>1, Limits DEF SegmentBase
      <4> QED
        BY <2>1, <4>1, <4>2
    <3>2. PICK i \in 1..n : m[i].lo <= r /\ r <= m[i].hi
      BY <1>1, <2>1, <3>1, ChainCovers
    <3>3. Reads(ts[i], t, r) /\ ts[i] \in ToSet(ts)
      BY <1>3, <2>2, <3>2 DEF ToSet
    <3> QED
      BY <3>3 DEF IsRead
  <2> QED
    BY <2>3, <2>4
<1>10. Split(t, p, ts) /\ (FillsSegment(p, m) => IsFull(t, p, ts))
  BY <1>1, <1>5, <1>7, <1>8, <1>9 DEF Split, IsFull
<1> QED
  BY <1>5, <1>8, <1>10 DEF ts, n
-----------------------------------------------------------------------------
(* Merging gives the chunks ids of their own, or leaves them theirs.        *)
LEMMA MergeKeepsIds ==
  ASSUME NEW chunks \in Seq(ChunkType), Ids(chunks), NEW target \in Nat, target > 0
  PROVE  Ids(MergeChunks(chunks, target))
<1> DEFINE n == Len(chunks)
           m == MergeChunks(chunks, target)
           G(i) == GroupStart(chunks, target, i)
<1>1. n \in Nat
  OBVIOUS
<1>2. CASE n <= target
  BY <1>2 DEF MergeChunks
<1>3. CASE n > target
  <2>1. ~(Len(chunks) <= target \/ target <= 0)
    BY <1>1, <1>3
  <2>2. m = [i \in 1..target |-> [chunks[G(i)] EXCEPT !.id = i - 1, !.hi = chunks[G(i + 1) - 1].hi]]
    BY <2>1, Zenon DEF MergeChunks
  <2>3. \A i \in 1..target : chunks[G(i)] \in ChunkType
    <3>1. \A i \in 1..target : G(i) \in 1..n
      BY <1>3, GroupsAreChunks
    <3>2. \A k \in 1..n : chunks[k] \in ChunkType
      BY SeqElements
    <3> QED
      BY <3>1, <3>2
  <2> HIDE DEF m, G
  <2>4. \A i \in 1..target : m[i].id = i - 1
    BY <2>2, <2>3 DEF ChunkType
  <2>5. DOMAIN m = 1..target
    BY <2>2
  <2>6. \A i, j \in 1..target : i - 1 = j - 1 => i = j
    OBVIOUS
  <2>7. Ids(m)
    BY <2>4, <2>5, <2>6 DEF Ids
  <2> QED
    BY <2>7 DEF m
<1> QED
  BY <1>1, <1>2, <1>3

(* Whatever was read of the list of a segment, its tasks split the segment. *)
LEMMA ReadListIsChunked ==
  ASSUME NEW t, TableOK(t), NEW p \in Nat, NEW ends \in Cuts, NEW target \in 1..Limit(p),
         NEW of \in Seq(ChunkType), of # <<>>, Begins(of, ChunksAt(p, ends))
  PROVE  /\ IsChunked(t, p, MergeChunks(of, target))
         /\ Len(of) = Len(ChunksAt(p, ends)) => FillsSegment(p, MergeChunks(of, target))
<1> DEFINE s == ChunksAt(p, ends)
           n == Len(of)
           m == MergeChunks(of, target)
<1>1. /\ s \in Seq(ChunkType) /\ Chain(s)
      /\ s[1].lo = SegmentBase(p) + 1 /\ s[Len(s)].hi = SegmentBase(p) + Extent
      /\ \A i \in DOMAIN s : s[i].id = s[i].lo
  BY SegmentChunks
<1>2. n \in Nat /\ n > 0 /\ DOMAIN of = 1..n /\ Len(s) \in Nat /\ DOMAIN s = 1..Len(s)
  BY <1>1
<1>3. n <= Len(s) /\ \A i \in 1..n : of[i] = s[i] /\ i \in DOMAIN s
  <2>1. n <= Len(s) /\ \A i \in 1..n : s[i] = of[i]
    BY DEF Begins
  <2> HIDE DEF s, n
  <2> QED
    BY <1>2, <2>1
<1>4. \A i \in 1..n : of[i].lo \in Nat /\ of[i].hi \in Nat
  <2>1. \A i \in 1..n : of[i] \in ChunkType
    BY SeqElements
  <2> QED
    BY <2>1 DEF ChunkType
<1> HIDE DEF s, n
<1>5. Chain(of)
  <2>1. \A i, j \in DOMAIN of : i <= j => of[i].lo <= of[j].hi
    BY <1>1, <1>2, <1>3 DEF Chain
  <2>2. \A i, j \in DOMAIN of : i < j => of[i].hi < of[j].lo
    BY <1>1, <1>2, <1>3 DEF Chain
  <2>3. \A i \in 1..(n - 1) : of[i + 1].lo = of[i].hi + 1
    <3>1. \A i \in 1..(n - 1) : i \in 1..n /\ i + 1 \in 1..n /\ i \in 1..(Len(s) - 1)
      BY <1>2, <1>3
    <3> QED
      BY <1>1, <1>3, <3>1 DEF Chain
  <2> QED
    BY <2>1, <2>2, <2>3 DEF Chain, n
<1>6. Ids(of)
  <2> SUFFICES ASSUME NEW i \in 1..n, NEW j \in 1..n, of[i].id = of[j].id PROVE i = j
    BY <1>2 DEF Ids
  <2>1. of[i].lo = of[j].lo
    BY <1>1, <1>3
  <2>2. of[i].lo <= of[i].hi /\ of[j].lo <= of[j].hi
    BY <1>2, <1>5 DEF Chain
  <2>3. (i < j => of[i].hi < of[j].lo) /\ (j < i => of[j].hi < of[i].lo)
    BY <1>2, <1>5 DEF Chain
  <2>4. ~(i < j) /\ ~(j < i)
    BY <1>4, <2>1, <2>2, <2>3
  <2> QED
    BY <2>4
<1>7. target \in Nat /\ target > 0 /\ target <= Limit(p) /\ target \in Nat \ {0} /\ Limit(p) \in Nat
  BY Limits DEF Limit
<1>8. m \in Seq(ChunkType) /\ m # <<>> /\ Len(m) <= target /\ Chain(m)
      /\ m[1].lo = of[1].lo /\ m[Len(m)].hi = of[n].hi
  BY <1>5, <1>7, MergeKeepsRowids DEF n
<1>9. Ids(m)
  BY <1>6, <1>7, MergeKeepsIds
<1> HIDE DEF m
<1>10. Len(m) <= Limit(p)
  <2>1. Len(m) \in Nat
    BY <1>8
  <2> QED
    BY <1>7, <1>8, <2>1
<1>11. IsChunked(t, p, m)
  BY <1>8, <1>9, <1>10 DEF IsChunked
<1>12. ASSUME n = Len(s) PROVE FillsSegment(p, m)
  <2>1. of[1] = s[1] /\ of[n] = s[n]
    BY <1>2, <1>3
  <2> QED
    BY <1>1, <1>8, <1>12, <2>1 DEF FillsSegment
<1> QED
  BY <1>11, <1>12 DEF m, s, n
-----------------------------------------------------------------------------
(* When the elements of K are those at the places a + 1 .. a + w, Only      *)
(* collects exactly these.                                                  *)
AreAt(s, K, a, w) == \A i \in 1..Len(s) : s[i] \in K <=> a < i /\ i <= a + w

(* ... in the places they had.                                             *)
LEMMA OnlyInterval ==
  ASSUME NEW T, NEW s \in Seq(T), NEW K, NEW a \in Nat, NEW w \in Nat, a + w <= Len(s), AreAt(s, K, a, w)
  PROVE  Only(s, K) \in Seq(T) /\ Len(Only(s, K)) = w /\ \A i \in 1..w : Only(s, K)[i] = s[a + i]
<1> DEFINE n == Len(s)
           cnt(k) == IF k <= a THEN 0 ELSE IF k <= a + w THEN k - a ELSE w
<1>1. PICK G \in [0..n -> Seq(T)] : Collected(G, s, K) /\ Only(s, K) = G[n]
  BY OnlyUnfold
<1>2. n \in Nat /\ a + w <= n /\ \A k \in 1..n : s[k] \in T
  BY SeqElements
<1>3. G[0] = <<>> /\ \A k \in 1..n : G[k] = IF s[k] \in K THEN Append(G[k - 1], s[k]) ELSE G[k - 1]
  BY <1>1 DEF Collected
<1>4. \A i \in 1..n : s[i] \in K <=> a < i /\ i <= a + w
  BY DEF AreAt
<1> HIDE DEF n
<1> DEFINE P == {k \in 0..n : Len(G[k]) = cnt(k) /\ \A i \in 1..cnt(k) : G[k][i] = s[a + i]}
<1>5. 0 \in P
  <2>1. cnt(0) = 0 /\ Len(G[0]) = 0 /\ 0 \in 0..n
    BY <1>2, <1>3
  <2> QED
    BY <2>1
<1>6. ASSUME NEW k \in 1..n, k - 1 \in P PROVE k \in P
  <2> DEFINE g == G[k - 1]
             c == cnt(k - 1)
  <2>1. k \in 0..n /\ k - 1 \in 0..n /\ k \in Nat
    BY <1>2
  <2>2. g \in Seq(T) /\ s[k] \in T /\ G[k] = IF s[k] \in K THEN Append(g, s[k]) ELSE g
    BY <1>1, <1>2, <1>3, <2>1
  <2>3. Len(g) = c /\ \A i \in 1..c : g[i] = s[a + i]
    BY <1>6
  <2>4. CASE s[k] \in K
    <3>1. a < k /\ k <= a + w
      BY <1>4, <2>4
    <3>2. cnt(k) = c + 1 /\ a + cnt(k) = k /\ c \in Nat
      BY <2>1, <3>1
    <3> HIDE DEF g, c, cnt
    <3>3. G[k] = Append(g, s[k])
      BY <2>2, <2>4
    <3>4. Len(G[k]) = c + 1 /\ G[k][c + 1] = s[k] /\ \A i \in 1..c : G[k][i] = g[i]
      BY <2>2, <2>3, <3>3, <3>2
    <3>5. \A i \in 1..(c + 1) : i \in 1..c \/ i = c + 1
      BY <3>2
    <3>6. \A i \in 1..cnt(k) : G[k][i] = s[a + i]
      BY <2>3, <3>2, <3>4, <3>5
    <3> QED
      BY <2>1, <3>2, <3>4, <3>6
  <2>5. CASE s[k] \notin K
    <3>1. ~(a < k /\ k <= a + w)
      BY <1>4, <2>5
    <3>2. cnt(k) = c
      BY <2>1, <3>1
    <3> HIDE DEF g, c, cnt
    <3>3. G[k] = g
      BY <2>2, <2>5
    <3> QED
      BY <2>1, <2>3, <3>2, <3>3
  <2> QED
    BY <2>4, <2>5
<1>7. n \in P
  <2>1. n \in 0..n
    BY <1>2
  <2> HIDE DEF P
  <2> QED
    BY <1>2, <1>5, <1>6, <2>1, IntervalInduction
<1>8. cnt(n) = w
  BY <1>2
<1>9. G[n] \in Seq(T)
  <2>1. n \in 0..n
    BY <1>2
  <2> QED
    BY <1>1, <2>1
<1> HIDE DEF cnt
<1> QED
  BY <1>1, <1>7, <1>8, <1>9
-----------------------------------------------------------------------------
(* The chunk list of a partitioned table, and what is kept of the first n   *)
(* of its chunks for partition p.                                           *)
ListsOf(t, cut) == [p \in DOMAIN t.parts |-> ChunksAt(p, cut[p])]
PartList(list, p) == Only(list, {ch \in ToSet(list) : ch.part = p})

(* The lists of the partitions, each a list of chunks of its own.          *)
LEMMA ListsAreLists ==
  ASSUME NEW t, TableOK(t), NEW cut \in [DOMAIN t.parts -> Cuts]
  PROVE  /\ ListsOf(t, cut) \in Seq(Seq(ChunkType)) /\ Len(ListsOf(t, cut)) = Len(t.parts)
         /\ Len(t.parts) \in Nat /\ DOMAIN t.parts = 1..Len(t.parts)
         /\ \A p \in DOMAIN t.parts : /\ p \in Nat /\ cut[p] \in Cuts
                                      /\ ListsOf(t, cut)[p] = ChunksAt(p, cut[p])
                                      /\ ListsOf(t, cut)[p] \in Seq(ChunkType)
                                      /\ \A j \in 1..Len(ListsOf(t, cut)[p]) : ListsOf(t, cut)[p][j].part = p
<1> DEFINE n == Len(t.parts)
           ss == ListsOf(t, cut)
<1>1. n \in Nat /\ DOMAIN t.parts = 1..n
  BY TableFields DEF TableOK
<1> HIDE DEF n
<1>2. \A p \in 1..n : /\ p \in Nat /\ cut[p] \in Cuts /\ ss[p] = ChunksAt(p, cut[p])
  BY <1>1 DEF ListsOf
<1>3. \A p \in 1..n : /\ ss[p] \in Seq(ChunkType)
                      /\ \A j \in 1..Len(ss[p]) : ss[p][j].part = p
  <2> SUFFICES ASSUME NEW p \in 1..n
               PROVE  ss[p] \in Seq(ChunkType) /\ \A j \in 1..Len(ss[p]) : ss[p][j].part = p
    OBVIOUS
  <2> DEFINE s == ChunksAt(p, cut[p])
  <2>1. s \in Seq(ChunkType) /\ \A i \in DOMAIN s : s[i].part = p
    BY <1>2, SegmentChunks
  <2> HIDE DEF s
  <2>2. DOMAIN s = 1..Len(s)
    BY <2>1
  <2>3. ss[p] = s
    BY <1>2 DEF s
  <2> QED
    BY <2>1, <2>2, <2>3
<1>4. ss = [p \in 1..n |-> ss[p]]
  BY <1>1 DEF ListsOf
<1> HIDE DEF ss
<1>5. ss \in Seq(Seq(ChunkType)) /\ Len(ss) = n
  <2>1. ss \in [1..n -> Seq(ChunkType)]
    BY <1>3, <1>4
  <2> QED
    BY <1>1, <2>1
<1> QED
  BY <1>1, <1>2, <1>3, <1>5 DEF ss, n

(* What is kept of a list is the beginning of the partition's own list.    *)
LEMMA PartListBegins ==
  ASSUME NEW t, TableOK(t), NEW cut \in [DOMAIN t.parts -> Cuts],
         NEW flat, flat = FlattenSeq(ListsOf(t, cut)),
         NEW n \in Nat, n <= Len(flat), NEW p \in DOMAIN t.parts
  PROVE  LET of == PartList(SubSeq(flat, 1, n), p)
         IN  /\ of \in Seq(ChunkType) /\ Begins(of, ChunksAt(p, cut[p]))
             /\ n = Len(flat) => Len(of) = Len(ChunksAt(p, cut[p]))
<1> DEFINE ss == ListsOf(t, cut)
           m == Len(t.parts)
           list == SubSeq(flat, 1, n)
           K == {ch \in ToSet(list) : ch.part = p}
<1>1. /\ ss \in Seq(Seq(ChunkType)) /\ Len(ss) = m /\ m \in Nat /\ DOMAIN t.parts = 1..m
      /\ \A k \in 1..m : /\ k \in Nat /\ ss[k] = ChunksAt(k, cut[k]) /\ ss[k] \in Seq(ChunkType)
                         /\ Len(ss[k]) \in Nat
                         /\ \A j \in 1..Len(ss[k]) : ss[k][j].part = k
  <2>1. \A k \in 1..m : ss[k] \in Seq(ChunkType) => Len(ss[k]) \in Nat
    OBVIOUS
  <2> HIDE DEF ss, m
  <2> QED
    BY <2>1, ListsAreLists DEF ss, m
<1>2. p \in 1..m
  BY <1>1
<1> HIDE DEF ss, m
<1>3. flat \in Seq(ChunkType) /\ \E off \in [0..Len(ss) -> Nat] : Placed(off, ss, flat)
  BY <1>1, FlattenPlaces DEF ss
<1>4. PICK off \in [0..m -> Nat] : Placed(off, ss, flat)
  BY <1>1, <1>3
<1>5. /\ off[m] = Len(flat)
      /\ \A k \in 1..m : /\ off[k] = off[k - 1] + Len(ss[k])
                         /\ \A j \in 1..Len(ss[k]) : flat[off[k - 1] + j] = ss[k][j]
  BY <1>1, <1>4 DEF Placed
<1>6. \A i \in 1..Len(flat) : \E k \in 1..m : \E j \in 1..Len(ss[k]) : i = off[k - 1] + j
  <2>1. Covers(off, ss, flat)
    BY <1>1, <1>4, PlacesCover
  <2> QED
    BY <1>1, <2>1 DEF Covers
<1>7. \A k, j \in 0..m : k <= j => off[k] <= off[j]
  BY <1>1, <1>4, PlacesAscend
<1>8. \A k \in 0..m : off[k] \in Nat
  BY <1>4
<1> DEFINE a == off[p - 1]
           b == off[p]
           w == Len(ss[p])
<1>9. a \in Nat /\ b \in Nat /\ w \in Nat /\ b = a + w /\ b <= Len(flat) /\ Len(flat) \in Nat
  <2>1. p - 1 \in 0..m /\ p \in 0..m /\ m \in 0..m /\ p <= m
    BY <1>1, <1>2
  <2>2. a \in Nat /\ b \in Nat /\ off[m] \in Nat
    BY <1>8, <2>1
  <2>3. b <= off[m]
    BY <1>7, <2>1
  <2>4. b = a + w /\ w \in Nat
    BY <1>1, <1>2, <1>5
  <2> HIDE DEF a, b, w
  <2> QED
    BY <1>5, <2>2, <2>3, <2>4
<1>10. ASSUME NEW i \in 1..Len(flat)
       PROVE  flat[i].part = p <=> a < i /\ i <= b
  <2>1. PICK k \in 1..m : \E j \in 1..Len(ss[k]) : i = off[k - 1] + j
    BY <1>6
  <2>9. PICK j \in 1..Len(ss[k]) : i = off[k - 1] + j
    BY <2>1
  <2>2. flat[i].part = k
    <3>1. flat[off[k - 1] + j] = ss[k][j]
      BY <1>5
    <3>2. ss[k][j].part = k
      BY <1>1
    <3> QED
      BY <2>9, <3>1, <3>2
  <2>3. k - 1 \in 0..m /\ k \in 0..m /\ p - 1 \in 0..m /\ p \in 0..m
    <3>1. m \in Nat /\ k \in 1..m /\ p \in 1..m
      BY <1>1, <1>2
    <3> QED
      BY <3>1
  <2>4. off[k - 1] \in Nat /\ off[k] \in Nat /\ off[k] = off[k - 1] + Len(ss[k]) /\ Len(ss[k]) \in Nat
    BY <1>1, <1>5, <1>8, <2>3
  <2>5. off[k - 1] < i /\ i <= off[k]
    BY <2>9, <2>4
  <2>6. CASE k = p
    BY <2>2, <2>5, <2>6
  <2>7. CASE k < p
    <3>1. k <= p - 1
      BY <1>1, <1>2, <2>7
    <3>2. off[k] <= a
      BY <1>7, <2>3, <3>1
    <3>3. i <= a
      BY <1>9, <2>4, <2>5, <3>2
    <3> HIDE DEF a, b
    <3> QED
      BY <1>9, <2>2, <2>7, <3>3
  <2>8. CASE p < k
    <3>1. p <= k - 1
      BY <1>1, <1>2, <2>8
    <3>2. b <= off[k - 1]
      BY <1>7, <2>3, <3>1
    <3>3. b < i
      BY <1>9, <2>4, <2>5, <3>2
    <3> HIDE DEF a, b
    <3> QED
      BY <1>9, <2>2, <2>8, <3>3
  <2> QED
    BY <1>1, <1>2, <2>6, <2>7, <2>8
<1>11. list \in Seq(ChunkType) /\ Len(list) = n /\ DOMAIN list = 1..n /\ \A i \in 1..n : list[i] = flat[i]
  <2>1. \A i \in 1..n : i \in 1..Len(flat)
    BY <1>9
  <2>2. \A i \in 1..n : flat[i] \in ChunkType
    BY <1>3, <2>1, SeqElements
  <2>3. list = [i \in 1..n |-> flat[i]]
    <3>1. list = [i \in 1..((n - 1) + 1) |-> flat[(i + 1) - 1]]
      BY DEF list
    <3> QED
      BY <3>1
  <2> HIDE DEF list
  <2>4. list \in [1..n -> ChunkType]
    BY <2>2, <2>3
  <2> QED
    BY <2>3, <2>4
<1> HIDE DEF a, b, w, list
<1> DEFINE a1 == IF a <= n THEN a ELSE n
           b1 == IF b <= n THEN b ELSE n
           w1 == b1 - a1
<1>12. a1 \in Nat /\ w1 \in Nat /\ a1 + w1 = b1 /\ b1 <= n
  BY <1>9
<1>13. \A i \in 1..n : list[i] \in K <=> a1 < i /\ i <= b1
  <2> SUFFICES ASSUME NEW i \in 1..n PROVE list[i] \in K <=> a1 < i /\ i <= b1
    OBVIOUS
  <2>1. list[i] \in K <=> flat[i].part = p
    BY <1>11 DEF ToSet
  <2>2. i \in 1..Len(flat)
    BY <1>9
  <2>3. flat[i].part = p <=> a < i /\ i <= b
    BY <1>10, <2>2
  <2> HIDE DEF K
  <2> QED
    BY <1>9, <2>1, <2>3
<1> HIDE DEF K, a1, b1, w1
<1>14. AreAt(list, K, a1, w1)
  BY <1>11, <1>12, <1>13 DEF AreAt
<1> DEFINE of == Only(list, K)
<1>15. of \in Seq(ChunkType) /\ Len(of) = w1 /\ \A i \in 1..w1 : of[i] = list[a1 + i]
  BY <1>11, <1>12, <1>14, OnlyInterval
<1> HIDE DEF of
<1>16. Begins(of, ss[p])
  <2>1. w1 <= w
    BY <1>9 DEF a1, b1, w1
  <2>2. ASSUME NEW i \in 1..w1 PROVE ss[p][i] = of[i]
    <3>1. a1 = a /\ i \in 1..w /\ a1 + i \in 1..n
      BY <1>9, <1>12, <2>1 DEF a1, b1, w1
    <3>2. flat[a + i] = ss[p][i]
      BY <1>2, <1>5, <3>1 DEF a, w
    <3> QED
      BY <1>11, <1>15, <3>1, <3>2
  <2> QED
    BY <1>15, <2>1, <2>2 DEF Begins, w
<1>17. n = Len(flat) => Len(of) = Len(ss[p])
  BY <1>9, <1>15 DEF a1, b1, w1, w
<1> QED
  BY <1>1, <1>2, <1>15, <1>16, <1>17 DEF of, PartList, K, list

(* The tasks of one partition of the list.                                  *)
RowidPart(t, list, p) ==
  IF PartList(list, p) = <<>> THEN <<Whole(t, p)>>
  ELSE RowidTasks(t, p, MergeChunks(PartList(list, p), MaxPartChunks))

(* ... so its tasks split the partition, if the list was whole in full.    *)
LEMMA RowidPartSplits ==
  ASSUME NEW t, TableOK(t), NEW cut \in [DOMAIN t.parts -> Cuts],
         NEW flat, flat = FlattenSeq(ListsOf(t, cut)),
         NEW n \in Nat, n <= Len(flat), NEW p \in DOMAIN t.parts
  PROVE  /\ Split(t, p, RowidPart(t, SubSeq(flat, 1, n), p))
         /\ n = Len(flat) => IsFull(t, p, RowidPart(t, SubSeq(flat, 1, n), p))
<1> DEFINE list == SubSeq(flat, 1, n)
           of == PartList(list, p)
           s == ChunksAt(p, cut[p])
<1>1. of \in Seq(ChunkType) /\ Begins(of, s) /\ (n = Len(flat) => Len(of) = Len(s))
  BY PartListBegins
<1>2. p \in Nat /\ cut[p] \in Cuts /\ p # 0
  <2>1. DOMAIN t.parts = 1..Len(t.parts) /\ Len(t.parts) \in Nat
    BY TableFields DEF TableOK
  <2> QED
    BY <2>1
<1>3. MaxPartChunks \in 1..Limit(p)
  BY <1>2, Limits DEF Limit
<1> HIDE DEF of, list
<1>4. CASE of = <<>>
  BY <1>2, <1>4, WholeSplits DEF RowidPart, of, list
<1>5. CASE of # <<>>
  <2> DEFINE m == MergeChunks(of, MaxPartChunks)
  <2>1. IsChunked(t, p, m) /\ (n = Len(flat) => FillsSegment(p, m))
    BY <1>1, <1>2, <1>3, <1>5, ReadListIsChunked
  <2>2. RowidPart(t, list, p) = RowidTasks(t, p, m)
    BY <1>5 DEF RowidPart, of
  <2> HIDE DEF m
  <2> QED
    BY <2>1, <2>2, RowidSplits DEF list
<1> QED
  BY <1>4, <1>5

(* The tasks of a partitioned table are those of its partitions in turn.   *)
LEMMA ByRowidIs ==
  ASSUME NEW t, NEW list
  PROVE  LET inc == ResolvePartitions(t)
         IN  ByRowid(t, list) = FlattenSeq([k \in DOMAIN inc |-> RowidPart(t, list, inc[k])])
BY DEF ByRowid, RowidPart, PartList
-----------------------------------------------------------------------------
(* Sequences that are not empty make up one at least as long.              *)
LEMMA FlattenLength ==
  ASSUME NEW T, NEW ss \in Seq(Seq(T)), \A k \in 1..Len(ss) : ss[k] # <<>>
  PROVE  Len(FlattenSeq(ss)) >= Len(ss)
<1> DEFINE n == Len(ss)
           flat == FlattenSeq(ss)
<1>1. n \in Nat /\ \A k \in 1..n : Len(ss[k]) \in Nat /\ Len(ss[k]) > 0
  <2>1. n \in Nat /\ \A k \in 1..n : ss[k] \in Seq(T)
    OBVIOUS
  <2>2. \A s \in Seq(T) : Len(s) \in Nat /\ (s # <<>> => Len(s) > 0)
    OBVIOUS
  <2> QED
    BY <2>1, <2>2
<1>2. PICK off \in [0..n -> Nat] : Placed(off, ss, flat)
  BY FlattenPlaces
<1>3. /\ off[0] = 0 /\ off[n] = Len(flat)
      /\ \A k \in 1..n : off[k] = off[k - 1] + Len(ss[k])
  BY <1>2 DEF Placed
<1> HIDE DEF n, flat
<1> DEFINE P == {k \in 0..n : off[k] >= k}
<1>4. 0 \in P
  BY <1>1, <1>3
<1>5. ASSUME NEW k \in 1..n, k - 1 \in P PROVE k \in P
  <2>1. k - 1 \in 0..n /\ k \in 0..n
    BY <1>1
  <2>2. off[k - 1] \in Nat /\ off[k - 1] >= k - 1
    BY <1>2, <1>5, <2>1
  <2>3. off[k] = off[k - 1] + Len(ss[k]) /\ Len(ss[k]) \in Nat /\ Len(ss[k]) > 0
    BY <1>1, <1>3
  <2> QED
    BY <2>1, <2>2, <2>3
<1>6. n \in P
  <2>1. n \in 0..n
    BY <1>1
  <2> HIDE DEF P
  <2> QED
    BY <1>1, <1>4, <1>5, <2>1, IntervalInduction
<1> QED
  BY <1>3, <1>6 DEF n, flat

(* What a set S of tasks of t is to be: of no bucket more chunks than the   *)
(* limit; no selected row read twice, the others not at all, and, unless a  *)
(* list was short, every selected row read.                                 *)
Within(S, p, L) == Len(L) <= Limit(p) /\ \A x \in S : x.part = p /\ x.kind # "whole" => x \in ToSet(L)
Bounded(S) == \A p \in Nat : \E L \in Seq(Task) : Within(S, p, L)

ReadsWell(S, t, sh) ==
  \A r \in RowsOf(t) :
    /\ ReadOnce(S, t, r)
    /\ ~Selected(t, r) => ~IsRead(S, t, r)
    /\ Selected(t, r) /\ ~sh => IsRead(S, t, r)

IsOf(t, x) == x.table = t.name /\ (x.kind = "hash" => x.id < x.of)

Planned(t, new, sh) ==
  /\ new \in Seq(Task) /\ Distinct(new, KeyOf)
  /\ \A x \in ToSet(new) : IsOf(t, x)
  /\ Bounded(ToSet(new)) /\ ReadsWell(ToSet(new), t, sh)

(* The tasks that split a partition are within its limit.                  *)
LEMMA SplitWithin ==
  ASSUME NEW t, NEW p \in Nat, NEW ts, Split(t, p, ts)
  PROVE  \E L \in Seq(Task) : Within(ToSet(ts), p, L)
<1>1. CASE \E x \in ToSet(ts) : x.kind # "whole"
  <2>1. ts \in Seq(Task) /\ Len(ts) <= Limit(p)
    BY <1>1 DEF Split
  <2>2. Within(ToSet(ts), p, ts)
    BY <2>1 DEF Within
  <2> QED
    BY <2>1, <2>2
<1>2. CASE ~\E x \in ToSet(ts) : x.kind # "whole"
  <2>1. <<>> \in Seq(Task) /\ Len(<<>>) = 0 /\ 0 <= Limit(p)
    BY Limits DEF Limit
  <2>2. Within(ToSet(ts), p, <<>>)
    BY <1>2, <2>1 DEF Within
  <2> QED
    BY <2>1, <2>2
<1> QED
  BY <1>1, <1>2

(* A table without partitions, split in tasks.                              *)
LEMMA SplitIsPlanned ==
  ASSUME NEW t, TableOK(t), ~Partitioned(t), NEW ts, Split(t, 0, ts), NEW sh, sh \/ IsFull(t, 0, ts)
  PROVE  Planned(t, ts, sh)
<1>1. ts \in Seq(Task) /\ Distinct(ts, KeyOf) /\ \A x \in ToSet(ts) : IsOf(t, x) /\ x.part = 0
  BY DEF Split, IsOf
<1>2. Bounded(ToSet(ts))
  <2> SUFFICES ASSUME NEW p \in Nat PROVE \E L \in Seq(Task) : Within(ToSet(ts), p, L)
    BY DEF Bounded
  <2>1. CASE p = 0
    BY <2>1, SplitWithin
  <2>2. CASE p # 0
    <3>1. <<>> \in Seq(Task) /\ Len(<<>>) = 0 /\ 0 <= Limit(p)
      BY Limits DEF Limit
    <3>2. Within(ToSet(ts), p, <<>>)
      BY <1>1, <2>2, <3>1 DEF Within
    <3> QED
      BY <3>1, <3>2
  <2> QED
    BY <2>1, <2>2
<1>3. ReadsWell(ToSet(ts), t, sh)
  <2> SUFFICES ASSUME NEW r \in RowsOf(t)
               PROVE  ReadOnce(ToSet(ts), t, r) /\ Selected(t, r) /\ (~sh => IsRead(ToSet(ts), t, r))
    BY DEF ReadsWell
  <2>1. PartOf(t, r) = 0
    BY DEF PartOf
  <2>2. ReadOnce(ToSet(ts), t, r)
    BY <2>1 DEF Split
  <2>3. ~sh => IsRead(ToSet(ts), t, r)
    BY <2>1 DEF IsFull
  <2> QED
    BY <2>2, <2>3 DEF Selected
<1> QED
  BY <1>1, <1>2, <1>3 DEF Planned

(* A partitioned table, every selected partition split in tasks.            *)
SplitParts(t, sh, f) ==
  LET inc == ResolvePartitions(t)
  IN  \A k \in DOMAIN inc : Split(t, inc[k], f[k]) /\ (sh \/ IsFull(t, inc[k], f[k]))

(* ... is planned, in at least as many tasks as placeholders.              *)
LEMMA PartsArePlanned ==
  ASSUME NEW t, TableOK(t), Partitioned(t), NEW sh, NEW f, SplitParts(t, sh, f)
  PROVE  LET inc == ResolvePartitions(t)
             new == FlattenSeq([k \in DOMAIN inc |-> f[k]])
         IN  Planned(t, new, sh) /\ Len(new) >= Len(inc)
<1> DEFINE inc == ResolvePartitions(t)
           n == Len(inc)
           ss == [k \in DOMAIN inc |-> f[k]]
           new == FlattenSeq(ss)
<1>1. /\ inc \in Seq(Nat) /\ Unique(inc) /\ ToSet(inc) = {i \in DOMAIN t.parts : Includes(t, i)}
      /\ \A k \in DOMAIN inc : inc[k] \in DOMAIN t.parts /\ inc[k] # 0 /\ Includes(t, inc[k])
  BY Included DEF TableOK
<1>2. n \in Nat /\ DOMAIN inc = 1..n /\ \A k \in 1..n : inc[k] \in Nat
  BY <1>1, SeqElements
<1> HIDE DEF inc, n
<1>3. \A k \in 1..n : /\ ss[k] = f[k] /\ Split(t, inc[k], ss[k]) /\ (sh \/ IsFull(t, inc[k], ss[k]))
  BY <1>2 DEF SplitParts, inc
<1>4. DOMAIN ss = 1..n /\ ss = [k \in 1..n |-> ss[k]]
  BY <1>2
<1> HIDE DEF ss
<1>5. \A k \in 1..n : /\ ss[k] \in Seq(Task) /\ ss[k] # <<>> /\ Distinct(ss[k], KeyOf)
                      /\ \A x \in ToSet(ss[k]) : x \in Task /\ IsOf(t, x) /\ x.part = inc[k]
  <2> SUFFICES ASSUME NEW k \in 1..n
               PROVE  /\ ss[k] \in Seq(Task) /\ ss[k] # <<>> /\ Distinct(ss[k], KeyOf)
                      /\ \A x \in ToSet(ss[k]) : x \in Task /\ IsOf(t, x) /\ x.part = inc[k]
    OBVIOUS
  <2>1. Split(t, inc[k], ss[k])
    BY <1>3
  <2>2. ss[k] \in Seq(Task)
    BY <2>1 DEF Split
  <2>3. \A x \in ToSet(ss[k]) : x \in Task
    BY <2>2, SeqElements DEF ToSet
  <2> QED
    BY <2>1, <2>3 DEF Split, IsOf
<1>6. ss \in Seq(Seq(Task)) /\ Len(ss) = n
  <2>1. ss \in [1..n -> Seq(Task)]
    BY <1>4, <1>5
  <2> QED
    BY <1>2, <2>1
<1>7. ToSet(new) = UNION {ToSet(ss[k]) : k \in 1..n}
  BY <1>4, <1>6, FlattenElements
<1>8. new \in Seq(Task) /\ \E off \in [0..Len(ss) -> Nat] : Placed(off, ss, new)
  BY <1>6, FlattenPlaces
<1> HIDE DEF new
<1>9. Distinct(new, KeyOf)
  <2>1. ASSUME NEW k \in 1..n, NEW m \in 1..n, k # m, NEW x \in ToSet(ss[k]), NEW y \in ToSet(ss[m])
        PROVE  KeyOf[x] # KeyOf[y]
    <3>1. inc[k] # inc[m]
      BY <1>1, <1>2, <2>1 DEF Unique
    <3>2. x \in Task /\ y \in Task /\ x.part # y.part
      BY <1>5, <3>1
    <3>3. KeyOf[x] = JobKey(x) /\ KeyOf[y] = JobKey(y)
      BY <3>2, KeyIs
    <3>4. JobKey(x) # JobKey(y)
      BY <3>2 DEF JobKey
    <3> QED
      BY <3>3, <3>4
  <2>2. \A k \in DOMAIN ss : Distinct(ss[k], KeyOf)
    BY <1>4, <1>5
  <2>3. \A k, m \in DOMAIN ss : \A x \in ToSet(ss[k]), y \in ToSet(ss[m]) : KeyOf[x] = KeyOf[y] => k = m
    BY <1>4, <2>1
  <2> HIDE DEF KeyOf
  <2>4. Distinct(FlattenSeq(ss), KeyOf)
    <3>1. PartsDistinct(ss, KeyOf)
      BY <2>2, <2>3 DEF PartsDistinct
    <3> QED
      BY <1>6, <3>1, FlattenDistinct
  <2> QED
    BY <2>4 DEF new
<1>10. \A x \in ToSet(new) : IsOf(t, x) /\ \E k \in 1..n : x \in ToSet(ss[k]) /\ x.part = inc[k]
  BY <1>5, <1>7
<1>11. Bounded(ToSet(new))
  <2> SUFFICES ASSUME NEW p \in Nat PROVE \E L \in Seq(Task) : Within(ToSet(new), p, L)
    BY DEF Bounded
  <2>1. CASE \E k \in 1..n : inc[k] = p
    <3>1. PICK k \in 1..n : inc[k] = p
      BY <2>1
    <3>2. PICK L \in Seq(Task) : Within(ToSet(ss[k]), p, L)
      BY <1>3, <3>1, SplitWithin
    <3>3. \A x \in ToSet(new) : x.part = p => x \in ToSet(ss[k])
      <4> SUFFICES ASSUME NEW x \in ToSet(new), x.part = p PROVE x \in ToSet(ss[k])
        OBVIOUS
      <4>1. PICK m \in 1..n : x \in ToSet(ss[m]) /\ x.part = inc[m]
        BY <1>10
      <4>2. m = k
        BY <1>1, <1>2, <3>1, <4>1 DEF Unique
      <4> QED
        BY <4>1, <4>2
    <3>4. Within(ToSet(new), p, L)
      BY <3>2, <3>3 DEF Within
    <3> QED
      BY <3>4
  <2>2. CASE ~\E k \in 1..n : inc[k] = p
    <3>1. <<>> \in Seq(Task) /\ Len(<<>>) = 0 /\ 0 <= Limit(p)
      BY Limits DEF Limit
    <3>2. Within(ToSet(new), p, <<>>)
      BY <1>10, <2>2, <3>1 DEF Within
    <3> QED
      BY <3>1, <3>2
  <2> QED
    BY <2>1, <2>2
<1>12. ReadsWell(ToSet(new), t, sh)
  <2> SUFFICES ASSUME NEW r \in RowsOf(t)
               PROVE  /\ ReadOnce(ToSet(new), t, r)
                      /\ ~Selected(t, r) => ~IsRead(ToSet(new), t, r)
                      /\ Selected(t, r) /\ ~sh => IsRead(ToSet(new), t, r)
    BY DEF ReadsWell
  <2> DEFINE q == PartOf(t, r)
  <2>1. q \in DOMAIN t.parts
    BY RowsAreRowids
  <2>2. Selected(t, r) <=> Includes(t, q)
    BY DEF Selected
  <2> HIDE DEF q
  <2>3. ASSUME NEW x \in ToSet(new), Reads(x, t, r)
        PROVE  \E k \in 1..n : inc[k] = q /\ x \in ToSet(ss[k])
    <3>1. PICK k \in 1..n : x \in ToSet(ss[k]) /\ x.part = inc[k]
      BY <1>10
    <3>2. x.part \in {0, q}
      BY <2>3 DEF Reads, q
    <3>3. inc[k] # 0
      BY <1>1, <1>2
    <3> QED
      BY <3>1, <3>2, <3>3
  <2>4. CASE Includes(t, q)
    <3>1. PICK k \in 1..n : inc[k] = q
      <4>1. q \in ToSet(inc)
        BY <1>1, <2>1, <2>4
      <4> QED
        BY <1>2, <4>1 DEF ToSet
    <3>2. \A x \in ToSet(new) : Reads(x, t, r) => x \in ToSet(ss[k])
      <4> SUFFICES ASSUME NEW x \in ToSet(new), Reads(x, t, r) PROVE x \in ToSet(ss[k])
        OBVIOUS
      <4>1. PICK m \in 1..n : inc[m] = q /\ x \in ToSet(ss[m])
        BY <2>3
      <4>2. m = k
        BY <1>1, <1>2, <3>1, <4>1 DEF Unique
      <4> QED
        BY <4>1, <4>2
    <3>3. ReadOnce(ToSet(ss[k]), t, r)
      BY <1>3, <3>1 DEF Split, q
    <3>4. ReadOnce(ToSet(new), t, r)
      BY <3>2, <3>3 DEF ReadOnce
    <3>5. ~sh => IsRead(ToSet(ss[k]), t, r)
      BY <1>3, <3>1 DEF IsFull, q
    <3>6. ToSet(ss[k]) \subseteq ToSet(new)
      BY <1>7
    <3> QED
      BY <2>2, <2>4, <3>4, <3>5, <3>6 DEF IsRead
  <2>5. CASE ~Includes(t, q)
    <3>1. \A x \in ToSet(new) : ~Reads(x, t, r)
      <4> SUFFICES ASSUME NEW x \in ToSet(new), Reads(x, t, r) PROVE FALSE
        OBVIOUS
      <4>1. PICK k \in 1..n : inc[k] = q
        BY <2>3
      <4> QED
        BY <1>1, <1>2, <2>5, <4>1
    <3> QED
      BY <2>2, <2>5, <3>1 DEF ReadOnce, IsRead
  <2> QED
    BY <2>4, <2>5
<1>13. Planned(t, new, sh)
  BY <1>8, <1>9, <1>10, <1>11, <1>12 DEF Planned
<1>14. Len(new) >= n
  <2>1. \A k \in 1..Len(ss) : ss[k] # <<>>
    BY <1>5, <1>6
  <2>2. Len(FlattenSeq(ss)) >= Len(ss)
    BY <1>6, <2>1, FlattenLength
  <2> QED
    BY <1>6, <2>2 DEF new
<1> QED
  BY <1>13, <1>14 DEF new, ss, inc, n
-----------------------------------------------------------------------------
(* One-element sequences make up the sequence of their elements.           *)
LEMMA FlattenSingles ==
  ASSUME NEW T, NEW s \in Seq(T)
  PROVE  FlattenSeq([k \in DOMAIN s |-> <<s[k]>>]) = s
<1> DEFINE n == Len(s)
           ss == [k \in DOMAIN s |-> <<s[k]>>]
           flat == FlattenSeq(ss)
<1>1. n \in Nat /\ DOMAIN s = 1..n /\ \A k \in 1..n : s[k] \in T
  BY SeqElements
<1>2. \A x \in T : <<x>> \in Seq(T) /\ Len(<<x>>) = 1 /\ <<x>>[1] = x
  OBVIOUS
<1>10. s = [k \in 1..n |-> s[k]]
  BY <1>1
<1> HIDE DEF n
<1>3. \A k \in 1..n : ss[k] \in Seq(T) /\ Len(ss[k]) = 1 /\ ss[k][1] = s[k]
  BY <1>1, <1>2
<1>4. ss \in Seq(Seq(T)) /\ Len(ss) = n
  <2>1. ss = [k \in 1..n |-> ss[k]]
    BY <1>1
  <2> HIDE DEF ss
  <2>2. ss \in [1..n -> Seq(T)]
    BY <1>3, <2>1
  <2> QED
    BY <1>1, <2>2
<1> HIDE DEF ss
<1>5. flat \in Seq(T) /\ \E off \in [0..Len(ss) -> Nat] : Placed(off, ss, flat)
  BY <1>4, FlattenPlaces
<1>6. PICK off \in [0..n -> Nat] : Placed(off, ss, flat)
  BY <1>4, <1>5
<1>7. /\ off[0] = 0 /\ off[n] = Len(flat)
      /\ \A k \in 1..n : off[k] = off[k - 1] + 1 /\ flat[off[k - 1] + 1] = s[k]
  <2>1. 1 \in 1..1
    OBVIOUS
  <2> QED
    BY <1>3, <1>4, <1>6, <2>1 DEF Placed
<1> HIDE DEF flat
<1> DEFINE P == {k \in 0..n : off[k] = k}
<1>8. \A k \in 0..n : k \in P
  <2>1. 0 \in P
    BY <1>1, <1>7
  <2>2. ASSUME NEW k \in 1..n, k - 1 \in P PROVE k \in P
    <3>1. k \in 0..n /\ off[k] = (k - 1) + 1
      BY <1>1, <1>7, <2>2
    <3> QED
      BY <3>1
  <2> HIDE DEF P
  <2> QED
    BY <1>1, <2>1, <2>2, IntervalInduction
<1>9. Len(flat) = n /\ \A k \in 1..n : flat[k] = s[k]
  <2>1. n \in 0..n /\ \A k \in 1..n : k - 1 \in 0..n /\ (k - 1) + 1 = k
    BY <1>1
  <2> QED
    BY <1>7, <1>8, <2>1
<1>11. flat = [k \in 1..n |-> flat[k]]
  <2>1. DOMAIN flat = 1..Len(flat)
    BY <1>5
  <2> QED
    BY <1>5, <1>9, <2>1
<1> QED
  BY <1>9, <1>10, <1>11 DEF flat, ss

(* Batches and chunks are not empty.                                       *)
LEMMA Sizes ==
  ASSUME NEW t, TableOK(t)
  PROVE  /\ BatchOf(t) \in Nat /\ BatchOf(t) > 0 /\ ChunkSizeOf(t) \in Nat /\ ChunkSizeOf(t) > 0
BY TableFields, Limits DEF TableOK, BatchOf, ChunkSizeOf

(* The tasks that take the place of placeholders, partition by partition.   *)
LEMMA HashedPartsArePlanned ==
  ASSUME NEW t, TableOK(t), Partitioned(t), NEW sh, NEW size \in Nat
  PROVE  Planned(t, HashedParts(t, size), sh) /\ Len(HashedParts(t, size)) >= Len(ResolvePartitions(t))
<1> DEFINE inc == ResolvePartitions(t)
           f == [k \in DOMAIN inc |-> ByHash(t, inc[k], t.parts[inc[k]].num, size)]
<1>1. \A k \in DOMAIN inc : inc[k] \in DOMAIN t.parts
  BY Included DEF TableOK
<1>2. \A p \in DOMAIN t.parts : p \in Nat /\ t.parts[p].num \in Nat
  BY TableFields DEF TableOK
<1>3. SplitParts(t, sh, f)
  <2>1. ASSUME NEW k \in DOMAIN inc PROVE Split(t, inc[k], f[k]) /\ IsFull(t, inc[k], f[k])
    BY <1>1, <1>2, ByHashSplits
  <2> HIDE DEF f
  <2> QED
    BY <2>1 DEF SplitParts
<1>4. HashedParts(t, size) = FlattenSeq([k \in DOMAIN inc |-> f[k]])
  <2>1. [k \in DOMAIN inc |-> f[k]] = f
    OBVIOUS
  <2> QED
    BY <2>1 DEF HashedParts
<1> HIDE DEF f
<1> QED
  BY <1>3, <1>4, PartsArePlanned

(* ... or each partition is read whole,                                    *)
LEMMA WholePartsArePlanned ==
  ASSUME NEW t, TableOK(t), Partitioned(t), NEW sh
  PROVE  /\ Planned(t, WholeParts(t), sh) /\ Len(WholeParts(t)) = Len(ResolvePartitions(t))
<1> DEFINE inc == ResolvePartitions(t)
           s == WholeParts(t)
           f == [k \in DOMAIN inc |-> <<Whole(t, inc[k])>>]
<1>1. inc \in Seq(Nat) /\ \A k \in DOMAIN inc : inc[k] \in Nat
  <2>1. inc \in Seq(Nat)
    BY Included DEF TableOK
  <2> HIDE DEF inc
  <2> QED
    BY <2>1
<1>2. SplitParts(t, sh, f)
  <2>1. ASSUME NEW k \in DOMAIN inc PROVE Split(t, inc[k], f[k]) /\ IsFull(t, inc[k], f[k])
    BY <1>1, WholeSplits
  <2> HIDE DEF f
  <2> QED
    BY <2>1 DEF SplitParts
<1>3. s \in Seq(Task) /\ DOMAIN s = DOMAIN inc /\ Len(s) = Len(inc)
  <2>1. s = [k \in DOMAIN inc |-> Whole(t, inc[k])]
    BY DEF WholeParts
  <2>2. \A k \in DOMAIN inc : Whole(t, inc[k]) \in Task
    BY <1>1, WholeType DEF TableOK
  <2>3. DOMAIN inc = 1..Len(inc) /\ Len(inc) \in Nat
    BY <1>1
  <2> HIDE DEF inc, s
  <2>4. s \in [1..Len(inc) -> Task] /\ DOMAIN s = DOMAIN inc
    BY <2>1, <2>2, <2>3
  <2> QED
    BY <2>3, <2>4
<1>4. \A k \in DOMAIN inc : f[k] = <<s[k]>>
  BY DEF WholeParts
<1>5. FlattenSeq([k \in DOMAIN inc |-> f[k]]) = s
  <2>1. [k \in DOMAIN inc |-> f[k]] = [k \in DOMAIN s |-> <<s[k]>>]
    BY <1>3, <1>4
  <2> HIDE DEF s, f
  <2> QED
    BY <1>3, <2>1, FlattenSingles
<1> HIDE DEF f
<1> QED
  BY <1>2, <1>3, <1>5, PartsArePlanned

(* ... or by the chunks that were read of its list.                        *)
LEMMA RowidPartsArePlanned ==
  ASSUME NEW t, TableOK(t), Partitioned(t), NEW cut \in [DOMAIN t.parts -> Cuts],
         NEW flat, flat = FlattenSeq(ListsOf(t, cut)),
         NEW n \in Nat, n <= Len(flat), NEW sh, n < Len(flat) => sh
  PROVE  /\ Planned(t, ByRowid(t, SubSeq(flat, 1, n)), sh)
         /\ Len(ByRowid(t, SubSeq(flat, 1, n))) >= Len(ResolvePartitions(t))
<1> DEFINE inc == ResolvePartitions(t)
           list == SubSeq(flat, 1, n)
           f == [k \in DOMAIN inc |-> RowidPart(t, list, inc[k])]
<1>1. \A k \in DOMAIN inc : inc[k] \in DOMAIN t.parts
  BY Included DEF TableOK
<1>2. sh \/ n = Len(flat)
  <2>1. Len(flat) \in Nat
    <3>1. flat \in Seq(ChunkType)
      BY ListsAreLists, FlattenPlaces
    <3> QED
      BY <3>1
  <2> QED
    BY <2>1
<1>3. SplitParts(t, sh, f)
  <2>1. ASSUME NEW k \in DOMAIN inc PROVE Split(t, inc[k], f[k]) /\ (sh \/ IsFull(t, inc[k], f[k]))
    BY <1>1, <1>2, RowidPartSplits
  <2> HIDE DEF f
  <2> QED
    BY <2>1 DEF SplitParts
<1>4. ByRowid(t, list) = FlattenSeq([k \in DOMAIN inc |-> f[k]])
  <2>1. [k \in DOMAIN inc |-> f[k]] = f
    OBVIOUS
  <2> QED
    BY <2>1, ByRowidIs
<1> HIDE DEF f
<1> QED
  BY <1>3, <1>4, PartsArePlanned

(* ... and those of a table without partitions.                             *)
Chunked(t, new, sh) == Planned(t, new, sh) /\ new # <<>> /\ \A x \in ToSet(new) : x.kind # "whole"

(* By buckets,                                                             *)
LEMMA HashTasksAreChunked ==
  ASSUME NEW t, TableOK(t), ~Partitioned(t), NEW n \in 1..MaxTableChunks, NEW sh
  PROVE  Chunked(t, HashTasks(t, 0, n), sh)
<1>1. n \in 1..Limit(0)
  BY Limits DEF Limit
<1>2. /\ Split(t, 0, HashTasks(t, 0, n)) /\ IsFull(t, 0, HashTasks(t, 0, n))
      /\ \A x \in ToSet(HashTasks(t, 0, n)) : x.kind # "whole"
  BY <1>1, HashSplits
<1>3. Planned(t, HashTasks(t, 0, n), sh)
  BY <1>2, SplitIsPlanned
<1> QED
  BY <1>2, <1>3 DEF Chunked, Split

(* or by the chunks that were read of its list.                            *)
LEMMA RowidTasksAreChunked ==
  ASSUME NEW t, TableOK(t), ~Partitioned(t), NEW cut \in Cuts, NEW n \in 1..MaxTableChunks,
         NEW m \in Nat, m # 0, m <= Len(ChunksAt(0, cut)), NEW sh, m < Len(ChunksAt(0, cut)) => sh
  PROVE  Chunked(t, RowidTasks(t, 0, MergeChunks(SubSeq(ChunksAt(0, cut), 1, m), n)), sh)
<1> DEFINE s == ChunksAt(0, cut)
           of == SubSeq(s, 1, m)
           c == MergeChunks(of, n)
           new == RowidTasks(t, 0, c)
<1>1. s \in Seq(ChunkType) /\ Len(s) \in Nat
  <2>1. s \in Seq(ChunkType)
    BY SegmentChunks
  <2> HIDE DEF s
  <2> QED
    BY <2>1
<1>2. n \in 1..Limit(0)
  BY Limits DEF Limit
<1> HIDE DEF s
<1>3. of \in Seq(ChunkType) /\ of # <<>> /\ Len(of) = m /\ Begins(of, s)
  <2>1. m <= Len(s)
    BY DEF s
  <2>2. \A i \in 1..m : i \in 1..Len(s)
    BY <1>1, <2>1
  <2>3. of = [i \in 1..m |-> s[i]]
    <3>1. of = [i \in 1..((m - 1) + 1) |-> s[(i + 1) - 1]]
      BY DEF of
    <3> QED
      BY <3>1
  <2>4. of \in [1..m -> ChunkType]
    <3>1. \A i \in 1..m : s[i] \in ChunkType
      BY <1>1, <2>2, SeqElements
    <3> HIDE DEF of
    <3> QED
      BY <2>3, <3>1
  <2> HIDE DEF of
  <2>5. of \in Seq(ChunkType) /\ Len(of) = m
    BY <2>4
  <2>6. of # <<>>
    BY <2>5
  <2> QED
    BY <2>1, <2>3, <2>5, <2>6 DEF Begins
<1> HIDE DEF of
<1>4. IsChunked(t, 0, c) /\ (Len(of) = Len(s) => FillsSegment(0, c))
  BY <1>2, <1>3, ReadListIsChunked DEF s
<1> HIDE DEF c
<1>5. /\ Split(t, 0, new) /\ (FillsSegment(0, c) => IsFull(t, 0, new))
      /\ \A x \in ToSet(new) : x.kind # "whole"
  BY <1>4, RowidSplits
<1>6. sh \/ IsFull(t, 0, new)
  <2>1. sh \/ m = Len(s)
    BY <1>1 DEF s
  <2> QED
    BY <1>3, <1>4, <1>5, <2>1
<1> HIDE DEF new
<1>7. Planned(t, new, sh)
  BY <1>5, <1>6, SplitIsPlanned
<1>8. Chunked(t, new, sh)
  BY <1>5, <1>7 DEF Chunked, Split
<1> QED
  BY <1>8 DEF new, c, of, s

(* What BuildPlan puts in the list for a table.                             *)
LEMMA FirstTasksArePlanned ==
  ASSUME NEW t, TableOK(t)
  PROVE  /\ Planned(t, FirstTasks(t), FALSE)
         /\ DeferredPartitions(t) => /\ Partitioned(t) /\ FirstTasks(t) # <<>>
                                     /\ Len(FirstTasks(t)) = Len(ResolvePartitions(t))
         /\ DeferredTable(t) => ~Partitioned(t) /\ FirstTasks(t) = <<Whole(t, 0)>>
<1>1. BatchOf(t) \in Nat /\ ChunkSizeOf(t) \in Nat /\ t.num \in Nat
  BY Sizes, TableFields DEF TableOK
<1>2. CASE Partitioned(t)
  <2> DEFINE inc == ResolvePartitions(t)
  <2>1. Planned(t, HashedParts(t, BatchOf(t)), FALSE) /\ Planned(t, WholeParts(t), FALSE) /\ Len(WholeParts(t)) = Len(inc)
    BY <1>1, <1>2, HashedPartsArePlanned, WholePartsArePlanned
  <2>2. Planned(t, FirstTasks(t), FALSE)
    BY <1>2, <2>1 DEF FirstTasks
  <2>3. ASSUME DeferredPartitions(t) PROVE FirstTasks(t) # <<>> /\ Len(FirstTasks(t)) = Len(inc)
    <3>1. FirstTasks(t) = WholeParts(t)
      BY <1>2, <2>3 DEF FirstTasks, DeferredPartitions
    <3>2. \E i \in ToSet(inc) : TRUE
      BY <1>2, <2>3 DEF DeferredPartitions, NeedsChunking
    <3>3. inc \in Seq(Nat)
      BY Included DEF TableOK
    <3> HIDE DEF inc
    <3>4. Len(inc) > 0
      <4>1. PICK k \in DOMAIN inc : TRUE
        BY <3>2 DEF ToSet
      <4>2. k \in 1..Len(inc) /\ Len(inc) \in Nat
        BY <3>3
      <4> QED
        BY <4>2
    <3>5. Len(WholeParts(t)) = Len(inc) /\ Len(<<>>) = 0
      BY <2>1
    <3>6. WholeParts(t) # <<>>
      <4> HIDE DEF inc
      <4> QED
        BY <3>4, <3>5
    <3> QED
      BY <3>1, <3>5, <3>6
  <2>4. ~DeferredTable(t)
    BY <1>2 DEF DeferredTable
  <2> QED
    BY <1>2, <2>2, <2>3, <2>4
<1>3. CASE ~Partitioned(t)
  <2>1. Split(t, 0, ByHash(t, 0, t.num, ChunkSizeOf(t))) /\ IsFull(t, 0, ByHash(t, 0, t.num, ChunkSizeOf(t)))
    BY <1>1, ByHashSplits
  <2>2. Split(t, 0, <<Whole(t, 0)>>) /\ IsFull(t, 0, <<Whole(t, 0)>>)
    BY WholeSplits
  <2>3. Planned(t, ByHash(t, 0, t.num, ChunkSizeOf(t)), FALSE) /\ Planned(t, <<Whole(t, 0)>>, FALSE)
    BY <1>3, <2>1, <2>2, SplitIsPlanned
  <2>4. Planned(t, FirstTasks(t), FALSE)
    BY <1>3, <2>3 DEF FirstTasks
  <2>5. DeferredTable(t) => FirstTasks(t) = <<Whole(t, 0)>>
    BY <1>3 DEF FirstTasks, DeferredTable
  <2>6. ~DeferredPartitions(t)
    BY <1>3 DEF DeferredPartitions
  <2> QED
    BY <1>3, <2>4, <2>5, <2>6
<1> QED
  BY <1>2, <1>3
-----------------------------------------------------------------------------
(* A part of a sequence.                                                   *)
LEMMA SubSeqFacts ==
  ASSUME NEW T, NEW s \in Seq(T), NEW u \in Nat, NEW v \in Nat, u >= 1, v <= Len(s), u <= v + 1
  PROVE  /\ SubSeq(s, u, v) \in Seq(T) /\ Len(SubSeq(s, u, v)) = v - u + 1
         /\ \A i \in 1..(v - u + 1) : SubSeq(s, u, v)[i] = s[u + i - 1]
<1> DEFINE w == v - u + 1
           r == SubSeq(s, u, v)
<1>1. w \in Nat /\ \A i \in 1..w : u + i - 1 \in 1..Len(s)
  <2>1. Len(s) \in Nat
    OBVIOUS
  <2> QED
    BY <2>1
<1>2. r = [i \in 1..w |-> s[u + i - 1]]
  <2>1. r = [i \in 1..w |-> s[(i + u) - 1]]
    BY DEF r
  <2>2. \A i \in 1..w : (i + u) - 1 = u + i - 1
    BY <1>1
  <2> QED
    BY <2>1, <2>2
<1>3. \A i \in 1..w : s[u + i - 1] \in T
  BY <1>1, SeqElements
<1> HIDE DEF w, r
<1>4. r \in [1..w -> T]
  BY <1>2, <1>3
<1>5. r \in Seq(T) /\ Len(r) = w
  BY <1>1, <1>4
<1> QED
  BY <1>2, <1>5 DEF r, w

Joined(T, c, a, b) ==
  /\ c \in Seq(T) /\ Len(c) = Len(a) + Len(b)
  /\ \A i \in 1..Len(a) : c[i] = a[i]
  /\ \A j \in 1..Len(b) : c[Len(a) + j] = b[j]

(* Two sequences, one behind the other.                                    *)
LEMMA CatJoins ==
  ASSUME NEW T, NEW a \in Seq(T), NEW b \in Seq(T)
  PROVE  Joined(T, a \o b, a, b)
BY CatFacts DEF Joined

(* Where the tasks are after a splice.                                      *)
Replaces(ts, q, new) ==
  /\ ts \in Seq(Task) /\ new \in Seq(Task)
  /\ q.at \in Nat /\ q.at >= 1 /\ q.count \in Nat /\ q.at + q.count <= Len(ts) + 1

Moved(s, ts, q, new) ==
  LET a == q.at - 1
      c == q.count
      m == Len(new)
  IN  /\ s \in Seq(Task) /\ Len(s) = Len(ts) - c + m
      /\ \A i \in 1..a : s[i] = ts[i]
      /\ \A j \in 1..m : s[a + j] = new[j]
      /\ \A k \in 1..(Len(ts) - a - c) : s[a + m + k] = ts[a + c + k]

(* A splice puts new in the place of the placeholders, and moves the rest. *)
LEMMA SpliceMoves ==
  ASSUME NEW ts, NEW q, NEW new, Replaces(ts, q, new)
  PROVE  Moved(Splice(ts, q, new), ts, q, new)
<1> DEFINE a == q.at - 1
           c == q.count
           m == Len(new)
           n == Len(ts)
           A == SubSeq(ts, 1, a)
           B == SubSeq(ts, a + c + 1, n)
           s == Splice(ts, q, new)
<1>1. ts \in Seq(Task) /\ new \in Seq(Task) /\ n \in Nat /\ m \in Nat
  BY DEF Replaces
<1>2. a \in Nat /\ c \in Nat /\ a + c <= n /\ q.at - 1 = a /\ q.at + q.count = a + c + 1
  BY <1>1 DEF Replaces
<1>3. s = (A \o new) \o B
  BY <1>2 DEF Splice
<1> HIDE DEF a, c, n, m, s
<1>4. A \in Seq(Task) /\ Len(A) = a /\ \A i \in 1..a : A[i] = ts[i]
  <2>1. a - 1 + 1 = a /\ (\A i \in 1..a : 1 + i - 1 = i) /\ a <= n /\ 1 <= a + 1
    BY <1>1, <1>2
  <2> QED
    BY <1>1, <1>2, <2>1, SubSeqFacts DEF n
<1>5. B \in Seq(Task) /\ Len(B) = n - a - c /\ \A k \in 1..(n - a - c) : B[k] = ts[a + c + k]
  <2> DEFINE u == a + c + 1
  <2>1. u \in Nat /\ u >= 1 /\ u <= n + 1 /\ n - u + 1 = n - a - c
    BY <1>1, <1>2
  <2>2. \A k \in 1..(n - a - c) : u + k - 1 = a + c + k
    BY <1>1, <1>2
  <2> HIDE DEF u
  <2>3. /\ SubSeq(ts, u, n) \in Seq(Task) /\ Len(SubSeq(ts, u, n)) = n - u + 1
        /\ \A k \in 1..(n - u + 1) : SubSeq(ts, u, n)[k] = ts[u + k - 1]
    BY <1>1, <2>1, SubSeqFacts DEF n
  <2> QED
    BY <2>1, <2>2, <2>3 DEF u
<1> HIDE DEF A, B
<1> DEFINE C == A \o new
<1>6. /\ C \in Seq(Task) /\ Len(C) = a + m
      /\ \A i \in 1..a : C[i] = A[i]
      /\ \A j \in 1..m : C[a + j] = new[j]
  <2>1. /\ C \in Seq(Task) /\ Len(C) = Len(A) + Len(new)
        /\ \A i \in 1..Len(A) : C[i] = A[i]
        /\ \A j \in 1..Len(new) : C[Len(A) + j] = new[j]
    <3>1. Joined(Task, C, A, new)
      BY <1>1, <1>4, CatJoins
    <3> HIDE DEF C
    <3> QED
      BY <3>1 DEF Joined
  <2>2. Len(A) = a /\ Len(new) = m
    BY <1>4 DEF m
  <2> HIDE DEF C
  <2> QED
    BY <2>1, <2>2
<1>7. s = C \o B
  BY <1>3
<1> HIDE DEF C
<1> DEFINE w == n - a - c
<1>8. w \in Nat /\ Len(B) = w
  BY <1>1, <1>2, <1>5
<1>9. /\ s \in Seq(Task) /\ Len(s) = a + m + w
      /\ \A i \in 1..(a + m) : s[i] = C[i]
      /\ \A k \in 1..w : s[a + m + k] = B[k]
  <2>1. /\ C \o B \in Seq(Task) /\ Len(C \o B) = Len(C) + Len(B)
        /\ \A i \in 1..Len(C) : (C \o B)[i] = C[i]
        /\ \A k \in 1..Len(B) : (C \o B)[Len(C) + k] = B[k]
    <3>1. Joined(Task, C \o B, C, B)
      BY <1>5, <1>6, CatJoins
    <3> QED
      BY <3>1 DEF Joined
  <2>2. Len(C) = a + m /\ Len(B) = w /\ s = C \o B
    BY <1>6, <1>7, <1>8
  <2>3. Len(s) = a + m + w
    BY <2>1, <2>2
  <2> HIDE DEF w
  <2> QED
    BY <2>1, <2>2, <2>3
<1>10. /\ \A i \in 1..a : i \in 1..(a + m)
       /\ \A j \in 1..m : a + j \in 1..(a + m)
       /\ a + m + w = n - c + m
  BY <1>1, <1>2
<1> HIDE DEF w
<1>11. \A i \in 1..a : s[i] = ts[i]
  BY <1>4, <1>6, <1>9, <1>10
<1>12. \A j \in 1..m : s[a + j] = new[j]
  BY <1>6, <1>9, <1>10
<1>13. \A k \in 1..w : s[a + m + k] = ts[a + c + k]
  BY <1>5, <1>9 DEF w
<1> QED
  BY <1>9, <1>10, <1>11, <1>12, <1>13 DEF Moved, s, a, c, m, n, w

(* The places of the old list that stay.                                    *)
Stays(ts, q) == {i \in 1..Len(ts) : i < q.at \/ q.at + q.count <= i}

(* Every task of the new list is one of new or one that stays, in order.    *)
LEMMA SpliceOrigin ==
  ASSUME NEW ts, NEW q, NEW new, Replaces(ts, q, new), NEW i \in 1..Len(Splice(ts, q, new))
  PROVE  LET s == Splice(ts, q, new)
         IN  \/ i < q.at /\ i \in Stays(ts, q) /\ s[i] = ts[i]
             \/ \E j \in 1..Len(new) : i = q.at - 1 + j /\ s[i] = new[j]
             \/ /\ i >= q.at + Len(new) /\ i - Len(new) + q.count \in Stays(ts, q)
                /\ i - Len(new) + q.count >= q.at + q.count /\ s[i] = ts[i - Len(new) + q.count]
<1> DEFINE a == q.at - 1
           c == q.count
           m == Len(new)
           n == Len(ts)
           s == Splice(ts, q, new)
<1>1. n \in Nat /\ m \in Nat /\ a \in Nat /\ c \in Nat /\ a + c <= n /\ q.at = a + 1
  <2>1. n \in Nat /\ m \in Nat
    BY DEF Replaces
  <2> QED
    BY <2>1 DEF Replaces
<1>2. /\ Len(s) = n - c + m
      /\ \A k \in 1..a : s[k] = ts[k]
      /\ \A j \in 1..m : s[a + j] = new[j]
      /\ \A k \in 1..(n - a - c) : s[a + m + k] = ts[a + c + k]
  BY SpliceMoves DEF Moved
<1>3. i \in 1..(n - c + m)
  BY <1>2
<1> HIDE DEF a, c, n, m, s
<1>4. CASE i <= a
  <2>1. i \in 1..a /\ i < q.at /\ i \in 1..n
    BY <1>1, <1>3, <1>4
  <2> QED
    BY <1>2, <2>1 DEF Stays, s, n
<1>5. CASE a < i /\ i <= a + m
  <2> DEFINE j == i - a
  <2>1. j \in 1..m /\ i = a + j
    BY <1>1, <1>3, <1>5
  <2> QED
    BY <1>2, <2>1 DEF s, m, a
<1>6. CASE a + m < i
  <2> DEFINE k == i - a - m
             o == i - m + c
  <2>1. /\ k \in 1..(n - a - c) /\ i = a + m + k /\ o = a + c + k
        /\ i >= q.at + m /\ o \in 1..n /\ o >= q.at + c
    BY <1>1, <1>3, <1>6
  <2> HIDE DEF k, o
  <2>2. s[i] = ts[o]
    BY <1>2, <2>1
  <2>3. o \in Stays(ts, q)
    BY <2>1 DEF Stays, n, c
  <2> QED
    BY <2>1, <2>2, <2>3 DEF s, m, c, o
<1> QED
  BY <1>1, <1>3, <1>4, <1>5, <1>6

(* ... as a set,                                                           *)
LEMMA SpliceElements ==
  ASSUME NEW ts, NEW q, NEW new, Replaces(ts, q, new)
  PROVE  ToSet(Splice(ts, q, new)) = {ts[i] : i \in Stays(ts, q)} \cup ToSet(new)
<1> DEFINE a == q.at - 1
           c == q.count
           m == Len(new)
           n == Len(ts)
           s == Splice(ts, q, new)
<1>1. n \in Nat /\ m \in Nat /\ a \in Nat /\ c \in Nat /\ a + c <= n /\ q.at = a + 1 /\ DOMAIN new = 1..m
  <2>1. n \in Nat /\ m \in Nat /\ DOMAIN new = 1..m
    BY DEF Replaces
  <2> QED
    BY <2>1 DEF Replaces
<1>2. /\ s \in Seq(Task) /\ Len(s) = n - c + m
      /\ \A k \in 1..a : s[k] = ts[k]
      /\ \A j \in 1..m : s[a + j] = new[j]
      /\ \A k \in 1..(n - a - c) : s[a + m + k] = ts[a + c + k]
  BY SpliceMoves DEF Moved
<1>3. DOMAIN s = 1..Len(s)
  BY <1>2
<1>4. ASSUME NEW x \in ToSet(s) PROVE x \in {ts[i] : i \in Stays(ts, q)} \cup ToSet(new)
  <2>1. PICK i \in 1..Len(s) : x = s[i]
    BY <1>3 DEF ToSet
  <2>2. (\E k \in Stays(ts, q) : s[i] = ts[k]) \/ \E j \in 1..Len(new) : s[i] = new[j]
    BY SpliceOrigin
  <2> QED
    BY <1>1, <2>1, <2>2 DEF ToSet
<1> HIDE DEF a, c, m, n, s
<1>5. ASSUME NEW j \in 1..m PROVE new[j] \in ToSet(s)
  <2>1. a + j \in DOMAIN s /\ s[a + j] = new[j]
    BY <1>1, <1>2, <1>3
  <2> QED
    BY <2>1 DEF ToSet
<1>6. ASSUME NEW i \in Stays(ts, q) PROVE ts[i] \in ToSet(s)
  <2>1. i \in 1..n /\ (i < q.at \/ q.at + c <= i)
    BY DEF Stays, n, c
  <2>2. CASE i < q.at
    <3>1. i \in 1..a /\ i \in DOMAIN s
      BY <1>1, <1>2, <1>3, <2>1, <2>2
    <3> QED
      BY <1>2, <3>1 DEF ToSet
  <2>3. CASE q.at + c <= i
    <3> DEFINE k == i - a - c
    <3>1. k \in 1..(n - a - c) /\ i = a + c + k /\ a + m + k \in DOMAIN s
      BY <1>1, <1>2, <1>3, <2>1, <2>3
    <3> HIDE DEF k
    <3> QED
      BY <1>2, <3>1 DEF ToSet
  <2> QED
    BY <2>1, <2>2, <2>3
<1>7. ASSUME NEW x \in ToSet(new) PROVE x \in ToSet(s)
  <2>1. PICK j \in 1..m : x = new[j]
    BY <1>1 DEF ToSet
  <2> QED
    BY <1>5, <2>1
<1> QED
  BY <1>4, <1>6, <1>7 DEF s

(* ... and without two of one key if none had any and they share none.     *)
LEMMA SpliceDistinct ==
  ASSUME NEW ts, NEW q, NEW new, Replaces(ts, q, new), NEW key, Distinct(ts, key), Distinct(new, key),
         \A i \in Stays(ts, q), x \in ToSet(new) : key[ts[i]] # key[x]
  PROVE  Distinct(Splice(ts, q, new), key)
<1> DEFINE m == Len(new)
           c == q.count
           s == Splice(ts, q, new)
<1>1. DOMAIN s = 1..Len(s) /\ Len(s) \in Nat /\ DOMAIN ts = 1..Len(ts) /\ DOMAIN new = 1..m /\ m \in Nat /\ c \in Nat
      /\ q.at \in Nat
  <2>1. s \in Seq(Task)
    BY SpliceMoves DEF Moved
  <2>2. ts \in Seq(Task) /\ new \in Seq(Task) /\ c \in Nat /\ q.at \in Nat
    BY DEF Replaces
  <2> HIDE DEF s
  <2> QED
    BY <2>1, <2>2
<1> SUFFICES ASSUME NEW i \in 1..Len(s), NEW j \in 1..Len(s), key[s[i]] = key[s[j]]
             PROVE  i = j
  BY <1>1 DEF Distinct
<1> DEFINE Left(k) == k < q.at /\ k \in Stays(ts, q) /\ s[k] = ts[k]
           Inner(k) == \E l \in 1..m : k = q.at - 1 + l /\ s[k] = new[l]
           Right(k) == /\ k >= q.at + m /\ k - m + c \in Stays(ts, q)
                      /\ k - m + c >= q.at + c /\ s[k] = ts[k - m + c]
<1>2. (Left(i) \/ Inner(i) \/ Right(i)) /\ (Left(j) \/ Inner(j) \/ Right(j))
  BY SpliceOrigin
<1> HIDE DEF s, m, c
<1>3. \A k \in Stays(ts, q) : k \in DOMAIN ts
  BY <1>1 DEF Stays
<1>4. \A k \in {i, j} : Left(k) \/ Right(k) => \E o \in Stays(ts, q) : s[k] = ts[o]
  OBVIOUS
<1>5. \A k \in {i, j} : Inner(k) => s[k] \in ToSet(new)
  BY <1>1 DEF ToSet
<1>6. CASE Inner(i) /\ Inner(j)
  <2>1. PICK k \in 1..m : i = q.at - 1 + k /\ s[i] = new[k]
    BY <1>6
  <2>2. PICK l \in 1..m : j = q.at - 1 + l /\ s[j] = new[l]
    BY <1>6
  <2>3. k = l
    BY <1>1, <2>1, <2>2 DEF Distinct
  <2> QED
    BY <2>1, <2>2, <2>3
<1>7. CASE Inner(i) /\ (Left(j) \/ Right(j))
  BY <1>4, <1>5, <1>7
<1>8. CASE Inner(j) /\ (Left(i) \/ Right(i))
  BY <1>4, <1>5, <1>8
<1>9. CASE Left(i) /\ Left(j)
  BY <1>3, <1>9 DEF Distinct
<1>10. CASE Right(i) /\ Right(j)
  <2>1. i - m + c = j - m + c
    BY <1>3, <1>10 DEF Distinct
  <2> QED
    BY <1>1, <2>1
<1>11. CASE Left(i) /\ Right(j)
  <2>1. i = j - m + c
    BY <1>3, <1>11 DEF Distinct
  <2> QED
    BY <1>1, <1>11, <2>1
<1>12. CASE Left(j) /\ Right(i)
  <2>1. j = i - m + c
    BY <1>3, <1>12 DEF Distinct
  <2> QED
    BY <1>1, <1>12, <2>1
<1> QED
  BY <1>2, <1>6, <1>7, <1>8, <1>9, <1>10, <1>11, <1>12
-----------------------------------------------------------------------------
(* The plan under way: W are the wanted tables that have tasks in the list  *)
(* ts, PS and TS the places of partitions and of tables that wait for their *)
(* chunks. sh: a list was short; d: a placeholder may be displaced.         *)
TasksOf(ts, t) == {x \in ToSet(ts) : x.table = t.name}
Known(W, x) == (\E t \in W : x.table = t.name) /\ (x.kind = "hash" => x.id < x.of)

Holds(ts, q) == \A i \in 1..Len(ts) : ts[i].table = q.table.name <=> q.at <= i /\ i < q.at + q.count

PlaceIn(W, ts, q) == q \in Place /\ q.table \in W /\ q.count >= 1 /\ q.at + q.count <= Len(ts) + 1

PartPlace(W, ts, q) ==
  /\ PlaceIn(W, ts, q) /\ Partitioned(q.table) /\ q.count = Len(ResolvePartitions(q.table))
  /\ Holds(ts, q)

TablePlace(W, ts, q, d) ==
  /\ PlaceIn(W, ts, q) /\ ~Partitioned(q.table) /\ q.count = 1
  /\ \A x \in TasksOf(ts, q.table) : x.kind = "whole"
  /\ ~d => Holds(ts, q)

Sound(ts, t, sh, d) == Bounded(TasksOf(ts, t)) /\ (~d => ReadsWell(TasksOf(ts, t), t, sh))

Listed(W, ts) == ts \in Seq(Task) /\ Distinct(ts, KeyOf) /\ \A x \in ToSet(ts) : Known(W, x)
Waiting(W, ts, PS, TS, d) ==
  /\ \A p, q \in PS \cup TS : p.table = q.table => p = q
  /\ \A q \in PS : PartPlace(W, ts, q)
  /\ \A q \in TS : TablePlace(W, ts, q, d)

PlanInv(W, ts, PS, TS, sh, d) ==
  /\ W \subseteq Wanted
  /\ Listed(W, ts)
  /\ \A t \in W : Sound(ts, t, sh, d)
  /\ Waiting(W, ts, PS, TS, d)

(* A wanted table is known by its name.                                    *)
LEMMA WantedByOneName ==
  ASSUME SchemaOK, NEW t \in Wanted, NEW u \in Wanted, t.name = u.name
  PROVE  t = u
BY WantedTables

(* A set with no more chunks is as bounded.                                *)
LEMMA BoundedPart ==
  ASSUME NEW S, NEW R, Bounded(R), \A x \in S : x.kind # "whole" => x \in R
  PROVE  Bounded(S)
<1> SUFFICES ASSUME NEW p \in Nat PROVE \E L \in Seq(Task) : Within(S, p, L)
  BY DEF Bounded
<1>1. PICK L \in Seq(Task) : Within(R, p, L)
  BY DEF Bounded
<1>2. Within(S, p, L)
  BY <1>1 DEF Within
<1> QED
  BY <1>2

(* What reads well does so when a list was short in addition.              *)
LEMMA ReadsWellStays ==
  ASSUME NEW S, NEW t, NEW sh, NEW now, ReadsWell(S, t, sh), sh => now
  PROVE  ReadsWell(S, t, now)
BY DEF ReadsWell

(* A place before the one that is spliced stays in place.                   *)
LEMMA HoldsBefore ==
  ASSUME NEW ts, NEW q, NEW new, Replaces(ts, q, new), Holds(ts, q), NEW p, Holds(ts, p),
         p.at \in Nat, p.count \in Nat, p.count >= 1, q.count >= 1, p.at < q.at,
         p.table.name # q.table.name, \A x \in ToSet(new) : x.table = q.table.name
  PROVE  Holds(Splice(ts, q, new), p)
<1> DEFINE s == Splice(ts, q, new)
           m == Len(new)
           n == Len(ts)
<1>1. n \in Nat /\ m \in Nat /\ q.at \in Nat /\ q.count \in Nat /\ q.at >= 1 /\ q.at + q.count <= n + 1 /\ DOMAIN new = 1..m
  <2>1. n \in Nat /\ m \in Nat /\ DOMAIN new = 1..m
    BY DEF Replaces
  <2> QED
    BY <2>1 DEF Replaces
<1>2. p.at + p.count <= q.at
  <2>1. q.at \in 1..n /\ q.at <= q.at /\ q.at < q.at + q.count
    BY <1>1
  <2>2. ts[q.at].table = q.table.name
    BY <2>1 DEF Holds
  <2>3. ~(p.at <= q.at /\ q.at < p.at + p.count)
    BY <2>1, <2>2 DEF Holds
  <2> QED
    BY <1>1, <2>3
<1> HIDE DEF s
<1> SUFFICES ASSUME NEW i \in 1..Len(s)
             PROVE  s[i].table = p.table.name <=> p.at <= i /\ i < p.at + p.count
  BY DEF Holds, s
<1>3. \/ i < q.at /\ i \in Stays(ts, q) /\ s[i] = ts[i]
      \/ \E j \in 1..m : i = q.at - 1 + j /\ s[i] = new[j]
      \/ /\ i >= q.at + m /\ i - m + q.count \in Stays(ts, q)
         /\ i - m + q.count >= q.at + q.count /\ s[i] = ts[i - m + q.count]
  BY SpliceOrigin DEF s
<1>4. CASE i < q.at /\ i \in Stays(ts, q) /\ s[i] = ts[i]
  <2>1. i \in 1..n
    BY <1>4 DEF Stays
  <2> QED
    BY <1>4, <2>1 DEF Holds
<1>5. CASE \E j \in 1..m : i = q.at - 1 + j /\ s[i] = new[j]
  <2>1. PICK j \in 1..m : i = q.at - 1 + j /\ s[i] = new[j]
    BY <1>5
  <2>2. new[j] \in ToSet(new)
    BY <1>1 DEF ToSet
  <2>3. s[i].table # p.table.name
    BY <2>1, <2>2
  <2>4. ~(i < p.at + p.count)
    BY <1>1, <1>2, <2>1
  <2> QED
    BY <2>3, <2>4
<1>6. CASE /\ i >= q.at + m /\ i - m + q.count \in Stays(ts, q)
           /\ i - m + q.count >= q.at + q.count /\ s[i] = ts[i - m + q.count]
  <2> DEFINE o == i - m + q.count
  <2>1. o \in 1..n /\ o >= q.at + q.count /\ s[i] = ts[o]
    BY <1>6 DEF Stays
  <2> HIDE DEF o
  <2>2. ~(o < p.at + p.count)
    BY <1>1, <1>2, <2>1
  <2>3. s[i].table # p.table.name
    BY <2>1, <2>2 DEF Holds
  <2>4. ~(i < p.at + p.count)
    BY <1>1, <1>2, <1>6
  <2> QED
    BY <2>3, <2>4
<1> QED
  BY <1>3, <1>4, <1>5, <1>6

(* When tasks may take the place of the placeholders of q.                  *)
MayPut(ts, PS, TS, q, new, d) ==
  /\ q \in PS \cup TS /\ Len(new) >= q.count
  /\ Holds(ts, q) \/ (PS = {} /\ \A x \in ToSet(new) : x.kind # "whole")
  /\ \A p \in (PS \cup TS) \ {q} : p \in PS \/ ~d => p.at < q.at

(* Putting tasks in the place of placeholders keeps the plan one.          *)
LEMMA PutTasks ==
  ASSUME SchemaOK, NEW W, NEW ts, NEW PS, NEW TS, NEW sh, NEW d, PlanInv(W, ts, PS, TS, sh, d),
         NEW q, NEW new, NEW now, Planned(q.table, new, now), sh => now, MayPut(ts, PS, TS, q, new, d)
  PROVE  PlanInv(W, Splice(ts, q, new), PS \ {q}, TS \ {q}, now, d)
<1> DEFINE s == Splice(ts, q, new)
           u == q.table
<1>1. /\ W \subseteq Wanted /\ Listed(W, ts) /\ Waiting(W, ts, PS, TS, d)
      /\ \A t \in W : Sound(ts, t, sh, d)
  BY DEF PlanInv
<1>2. PlaceIn(W, ts, q) /\ (q \in TS => ~Partitioned(u) /\ \A x \in TasksOf(ts, u) : x.kind = "whole")
      /\ (q \in PS \/ ~d => Holds(ts, q))
  BY <1>1 DEF Waiting, PartPlace, TablePlace, MayPut
<1>3. q.at \in Nat /\ q.at >= 1 /\ q.count \in Nat /\ q.count >= 1 /\ u \in W /\ q.at + q.count <= Len(ts) + 1
  BY <1>2 DEF PlaceIn, Place
<1>4. ts \in Seq(Task) /\ Distinct(ts, KeyOf) /\ \A x \in ToSet(ts) : Known(W, x)
  BY <1>1 DEF Listed
<1>5. new \in Seq(Task) /\ Distinct(new, KeyOf) /\ \A x \in ToSet(new) : IsOf(u, x)
  BY DEF Planned
<1>6. Replaces(ts, q, new)
  BY <1>3, <1>4, <1>5 DEF Replaces
<1>7. s \in Seq(Task) /\ Len(s) >= Len(ts) /\ Len(s) \in Nat /\ Len(ts) \in Nat
  <2>1. s \in Seq(Task) /\ Len(s) = Len(ts) - q.count + Len(new)
    BY <1>6, SpliceMoves DEF Moved
  <2>2. Len(ts) \in Nat /\ Len(new) \in Nat /\ Len(new) >= q.count
    BY <1>4, <1>5 DEF MayPut
  <2> QED
    BY <1>3, <2>1, <2>2
<1>8. ToSet(s) = {ts[i] : i \in Stays(ts, q)} \cup ToSet(new)
  BY <1>6, SpliceElements
<1> HIDE DEF s
<1>9. \A i \in Stays(ts, q) : /\ ts[i] \in Task /\ ts[i] \in ToSet(ts)
                              /\ Holds(ts, q) => ts[i].table # u.name
                              /\ ~Holds(ts, q) /\ ts[i].table = u.name => ts[i].kind = "whole"
  <2> SUFFICES ASSUME NEW i \in Stays(ts, q)
               PROVE  /\ ts[i] \in Task /\ ts[i] \in ToSet(ts)
                      /\ Holds(ts, q) => ts[i].table # u.name
                      /\ ~Holds(ts, q) /\ ts[i].table = u.name => ts[i].kind = "whole"
    OBVIOUS
  <2>1. i \in 1..Len(ts) /\ ~(q.at <= i /\ i < q.at + q.count)
    BY <1>3 DEF Stays
  <2>2. ts[i] \in Task /\ ts[i] \in ToSet(ts)
    <3>1. DOMAIN ts = 1..Len(ts)
      BY <1>4
    <3> QED
      BY <1>4, <2>1, <3>1, SeqElements DEF ToSet
  <2>3. Holds(ts, q) => ts[i].table # u.name
    BY <2>1 DEF Holds
  <2>4. ~Holds(ts, q) => q \in TS
    BY <1>2 DEF MayPut
  <2> QED
    BY <1>2, <2>2, <2>3, <2>4 DEF TasksOf
<1>10. \A x \in ToSet(new) : x \in Task /\ x.table = u.name
  <2>1. \A x \in ToSet(new) : x \in Task
    BY <1>5, SeqElements DEF ToSet
  <2> QED
    BY <1>5, <2>1 DEF IsOf
<1>11. Distinct(s, KeyOf)
  <2>1. ASSUME NEW i \in Stays(ts, q), NEW x \in ToSet(new) PROVE KeyOf[ts[i]] # KeyOf[x]
    <3>1. KeyOf[ts[i]] = JobKey(ts[i]) /\ KeyOf[x] = JobKey(x)
      BY <1>9, <1>10, KeyIs
    <3>2. JobKey(ts[i]) # JobKey(x)
      <4>1. CASE ts[i].table # u.name
        BY <1>10, <4>1 DEF JobKey
      <4>2. CASE ts[i].table = u.name
        <5>1. ts[i].kind = "whole" /\ x.kind # "whole"
          BY <1>9, <4>2 DEF MayPut
        <5>2. {} # {x.id}
          OBVIOUS
        <5> QED
          BY <5>1, <5>2 DEF JobKey
      <4> QED
        BY <4>1, <4>2
    <3> QED
      BY <3>1, <3>2
  <2> HIDE DEF KeyOf
  <2> QED
    BY <1>4, <1>5, <1>6, <2>1, SpliceDistinct DEF s
<1>12. \A x \in ToSet(s) : Known(W, x)
  <2> SUFFICES ASSUME NEW x \in ToSet(s) PROVE Known(W, x)
    OBVIOUS
  <2>1. x \in ToSet(ts) \/ x \in ToSet(new)
    BY <1>8, <1>9
  <2> QED
    BY <1>3, <1>4, <1>5, <2>1 DEF Known, IsOf
<1>13. \A t \in W : t # u => t.name # u.name
  BY <1>1, <1>3, WantedByOneName
<1>14. \A t \in W : t # u => TasksOf(s, t) \subseteq TasksOf(ts, t)
  BY <1>8, <1>9, <1>10, <1>13 DEF TasksOf
<1>15. ASSUME NEW t \in W, t # u, ~d PROVE TasksOf(s, t) = TasksOf(ts, t)
  <2> SUFFICES ASSUME NEW x \in TasksOf(ts, t) PROVE x \in TasksOf(s, t)
    BY <1>14, <1>15
  <2>1. PICK i \in 1..Len(ts) : x = ts[i] /\ ts[i].table = t.name
    <3>1. DOMAIN ts = 1..Len(ts)
      BY <1>4
    <3> QED
      BY <3>1 DEF TasksOf, ToSet
  <2>2. ~(q.at <= i /\ i < q.at + q.count)
    BY <1>2, <1>13, <1>15, <2>1 DEF Holds
  <2>3. i \in Stays(ts, q)
    BY <1>3, <2>2 DEF Stays
  <2> QED
    BY <1>8, <2>1, <2>3 DEF TasksOf
<1>16. \A t \in W : Sound(s, t, now, d)
  <2> SUFFICES ASSUME NEW t \in W PROVE Sound(s, t, now, d)
    OBVIOUS
  <2>1. CASE t = u
    <3>1. \A x \in TasksOf(s, t) : x.kind # "whole" => x \in ToSet(new)
      BY <1>8, <1>9, <2>1 DEF TasksOf
    <3>2. Bounded(TasksOf(s, t))
      BY <3>1, BoundedPart DEF Planned
    <3>3. ASSUME ~d PROVE TasksOf(s, t) = ToSet(new)
      BY <1>2, <1>8, <1>9, <1>10, <2>1, <3>3 DEF TasksOf
    <3> QED
      BY <2>1, <3>2, <3>3 DEF Planned, Sound
  <2>2. CASE t # u
    <3>1. Bounded(TasksOf(s, t))
      BY <1>1, <1>14, <2>2, BoundedPart DEF Sound
    <3>2. ASSUME ~d PROVE ReadsWell(TasksOf(s, t), t, now)
      BY <1>1, <1>15, <2>2, <3>2, ReadsWellStays DEF Sound
    <3> QED
      BY <3>1, <3>2 DEF Sound
  <2> QED
    BY <2>1, <2>2
<1>17. ASSUME NEW p \in (PS \cup TS) \ {q}
       PROVE  /\ PlaceIn(W, s, p) /\ p.table # u /\ p.table.name # u.name
              /\ p \in PS \/ ~d => Holds(s, p)
  <2>1. PlaceIn(W, ts, p) /\ (p \in PS \/ ~d => Holds(ts, p))
    BY <1>1 DEF Waiting, PartPlace, TablePlace
  <2>2. p.at \in Nat /\ p.count \in Nat /\ p.count >= 1 /\ p.table \in W
    BY <2>1 DEF PlaceIn, Place
  <2>3. PlaceIn(W, s, p)
    <3>1. p.at + p.count <= Len(ts) + 1
      BY <2>1 DEF PlaceIn
    <3>2. p.at + p.count <= Len(s) + 1
      BY <1>7, <2>2, <3>1
    <3> QED
      BY <2>1, <3>2 DEF PlaceIn
  <2>4. p.table # u
    BY <1>1 DEF Waiting, MayPut
  <2>5. p.table.name # u.name
    BY <1>13, <2>2, <2>4
  <2>6. ASSUME p \in PS \/ ~d PROVE Holds(s, p)
    <3>1. Holds(ts, q)
      BY <1>2, <2>6 DEF MayPut
    <3>2. p.at < q.at
      BY <2>6 DEF MayPut
    <3> QED
      BY <1>3, <1>6, <1>10, <2>1, <2>2, <2>5, <2>6, <3>1, <3>2, HoldsBefore DEF s
  <2> QED
    BY <2>3, <2>4, <2>5, <2>6
<1>18. Waiting(W, s, PS \ {q}, TS \ {q}, d)
  <2>1. \A p, r \in (PS \ {q}) \cup (TS \ {q}) : p.table = r.table => p = r
    BY <1>1 DEF Waiting
  <2>2. ASSUME NEW p \in PS \ {q} PROVE PartPlace(W, s, p)
    BY <1>1, <1>17 DEF Waiting, PartPlace
  <2>3. ASSUME NEW p \in TS \ {q} PROVE TablePlace(W, s, p, d)
    <3>1. TablePlace(W, ts, p, d) /\ p.table \in W
      BY <1>1 DEF Waiting, TablePlace, PlaceIn
    <3>2. TasksOf(s, p.table) \subseteq TasksOf(ts, p.table)
      BY <1>14, <1>17, <3>1
    <3> QED
      BY <1>17, <3>1, <3>2 DEF TablePlace
  <2> QED
    BY <2>1, <2>2, <2>3 DEF Waiting
<1>19. Listed(W, s)
  BY <1>7, <1>11, <1>12 DEF Listed
<1> QED
  BY <1>1, <1>16, <1>18, <1>19 DEF PlanInv, s
-----------------------------------------------------------------------------
(* A place whose placeholders stay waits no more; a list may have been      *)
(* short; a placeholder may turn out to be displaced.                       *)
LEMMA PlaceDone ==
  ASSUME NEW W, NEW ts, NEW PS, NEW TS, NEW sh, NEW d, PlanInv(W, ts, PS, TS, sh, d),
         NEW q, NEW now, sh => now
  PROVE  PlanInv(W, ts, PS \ {q}, TS \ {q}, now, d)
<1>1. \A t \in W : Sound(ts, t, now, d)
  BY ReadsWellStays DEF PlanInv, Sound
<1>2. Waiting(W, ts, PS \ {q}, TS \ {q}, d)
  BY DEF PlanInv, Waiting
<1> QED
  BY <1>1, <1>2 DEF PlanInv

(* What holds of a plan in place holds of any.                             *)
LEMMA MayBeDisplaced ==
  ASSUME NEW W, NEW ts, NEW PS, NEW TS, NEW sh, PlanInv(W, ts, PS, TS, sh, FALSE), NEW d
  PROVE  PlanInv(W, ts, PS, TS, sh, d)
<1>1. \A t \in W : Sound(ts, t, sh, d)
  BY DEF PlanInv, Sound
<1>2. Waiting(W, ts, PS, TS, d)
  BY DEF PlanInv, Waiting, TablePlace
<1> QED
  BY <1>1, <1>2 DEF PlanInv

(* The tasks of another table are put behind the list.                      *)
PlaceOf(t, ts, new) == [table |-> t, at |-> Len(ts) + 1, count |-> Len(new)]

(* The tasks behind the list are at their place,                           *)
LEMMA HoldsBehind ==
  ASSUME NEW ts, NEW t, NEW new, Joined(Task, ts \o new, ts, new), Len(ts) \in Nat, Len(new) \in Nat,
         \A i \in 1..Len(ts) : ts[i].table # t.name, \A j \in 1..Len(new) : new[j].table = t.name
  PROVE  Holds(ts \o new, PlaceOf(t, ts, new))
<1> DEFINE s == ts \o new
           n == Len(ts)
           m == Len(new)
<1>1. Len(s) = n + m /\ (\A i \in 1..n : s[i] = ts[i]) /\ \A j \in 1..m : s[n + j] = new[j]
  BY DEF Joined
<1> HIDE DEF s
<1> SUFFICES ASSUME NEW i \in 1..Len(s)
             PROVE  s[i].table = t.name <=> n + 1 <= i /\ i < n + 1 + m
  BY DEF Holds, PlaceOf, s
<1>2. CASE i <= n
  BY <1>1, <1>2
<1>3. CASE i > n
  <2>1. i - n \in 1..m /\ i = n + (i - n)
    BY <1>1, <1>3
  <2>2. s[i] = new[i - n]
    BY <1>1, <2>1
  <2> QED
    BY <1>3, <2>1, <2>2
<1> QED
  BY <1>2, <1>3

(* those of the list stay at theirs,                                       *)
LEMMA HoldsStill ==
  ASSUME NEW ts, NEW new, Joined(Task, ts \o new, ts, new), Len(ts) \in Nat, Len(new) \in Nat,
         NEW p, Holds(ts, p), p.at \in Nat, p.count \in Nat, p.at + p.count <= Len(ts) + 1,
         \A j \in 1..Len(new) : new[j].table # p.table.name
  PROVE  Holds(ts \o new, p)
<1> DEFINE s == ts \o new
           n == Len(ts)
           m == Len(new)
<1>1. Len(s) = n + m /\ (\A i \in 1..n : s[i] = ts[i]) /\ \A j \in 1..m : s[n + j] = new[j]
  BY DEF Joined
<1> HIDE DEF s
<1> SUFFICES ASSUME NEW i \in 1..Len(s)
             PROVE  s[i].table = p.table.name <=> p.at <= i /\ i < p.at + p.count
  BY DEF Holds, s
<1>2. CASE i <= n
  <2>1. i \in 1..n
    BY <1>2
  <2> QED
    BY <1>1, <2>1 DEF Holds
<1>3. CASE i > n
  <2>1. i - n \in 1..m /\ i = n + (i - n)
    BY <1>1, <1>3
  <2>2. s[i] = new[i - n]
    BY <1>1, <2>1
  <2> QED
    BY <1>3, <2>1, <2>2
<1> QED
  BY <1>2, <1>3

IsBehind(W, ts, PS, TS, sh, t, new) ==
  /\ PlanInv(W \cup {t}, ts \o new, PS, TS, sh, FALSE)
  /\ Holds(ts \o new, PlaceOf(t, ts, new))
  /\ TasksOf(ts \o new, t) = ToSet(new)

(* and the plan is one of one table more.                                  *)
LEMMA TasksBehind ==
  ASSUME SchemaOK, NEW W, NEW ts, NEW PS, NEW TS, NEW sh, PlanInv(W, ts, PS, TS, sh, FALSE),
         NEW t \in Wanted, t \notin W, NEW new, Planned(t, new, sh)
  PROVE  IsBehind(W, ts, PS, TS, sh, t, new)
<1> DEFINE s == ts \o new
<1>1. /\ W \subseteq Wanted /\ Listed(W, ts) /\ Waiting(W, ts, PS, TS, FALSE)
      /\ \A u \in W : Sound(ts, u, sh, FALSE)
  BY DEF PlanInv
<1>2. ts \in Seq(Task) /\ Distinct(ts, KeyOf) /\ \A x \in ToSet(ts) : Known(W, x)
  BY <1>1 DEF Listed
<1>3. new \in Seq(Task) /\ Distinct(new, KeyOf) /\ \A x \in ToSet(new) : IsOf(t, x)
  BY DEF Planned
<1>4. s \in Seq(Task) /\ Joined(Task, s, ts, new)
  BY <1>2, <1>3, CatJoins DEF Joined
<1>5. ToSet(s) = ToSet(ts) \cup ToSet(new)
  BY <1>2, <1>3, CatElements
<1>6. Len(ts) \in Nat /\ Len(new) \in Nat /\ Len(s) = Len(ts) + Len(new)
      /\ DOMAIN ts = 1..Len(ts) /\ DOMAIN new = 1..Len(new)
  <2>1. Len(s) = Len(ts) + Len(new)
    BY <1>4 DEF Joined
  <2> QED
    BY <1>2, <1>3, <2>1
<1>7. \A u \in W : u.name # t.name
  BY <1>1, WantedByOneName
<1>8. \A x \in ToSet(ts) : x.table # t.name /\ x \in Task
  <2>1. \A x \in ToSet(ts) : x \in Task
    BY <1>2, SeqElements DEF ToSet
  <2> QED
    BY <1>2, <1>7, <2>1 DEF Known
<1>9. \A x \in ToSet(new) : x.table = t.name /\ x \in Task
  <2>1. \A x \in ToSet(new) : x \in Task
    BY <1>3, SeqElements DEF ToSet
  <2> QED
    BY <1>3, <2>1 DEF IsOf
<1>10. (\A i \in 1..Len(ts) : ts[i] \in ToSet(ts)) /\ \A j \in 1..Len(new) : new[j] \in ToSet(new)
  BY <1>6 DEF ToSet
<1>11. Distinct(s, KeyOf)
  <2>1. ASSUME NEW x \in ToSet(ts), NEW y \in ToSet(new) PROVE KeyOf[x] # KeyOf[y]
    <3>1. KeyOf[x] = JobKey(x) /\ KeyOf[y] = JobKey(y)
      BY <1>8, <1>9, KeyIs
    <3> QED
      BY <1>8, <1>9, <3>1 DEF JobKey
  <2> HIDE DEF KeyOf
  <2> QED
    BY <1>2, <1>3, <2>1, CatDistinct
<1> HIDE DEF s
<1>12. Listed(W \cup {t}, s)
  <2>1. \A x \in ToSet(s) : Known(W \cup {t}, x)
    BY <1>2, <1>3, <1>5 DEF Known, IsOf
  <2> QED
    BY <1>4, <1>11, <2>1 DEF Listed
<1>13. TasksOf(s, t) = ToSet(new)
  BY <1>5, <1>8, <1>9 DEF TasksOf
<1>14. \A u \in W : TasksOf(s, u) = TasksOf(ts, u)
  BY <1>5, <1>7, <1>9 DEF TasksOf
<1>15. \A u \in W \cup {t} : Sound(s, u, sh, FALSE)
  BY <1>1, <1>13, <1>14 DEF Sound, Planned
<1>16. Holds(s, PlaceOf(t, ts, new))
  BY <1>4, <1>6, <1>8, <1>9, <1>10, HoldsBehind DEF s
<1>17. ASSUME NEW p, PlaceIn(W, ts, p), Holds(ts, p)
       PROVE  PlaceIn(W \cup {t}, s, p) /\ Holds(s, p)
  <2>1. p \in Place /\ p.table \in W /\ p.count >= 1 /\ p.at + p.count <= Len(ts) + 1
    BY <1>17 DEF PlaceIn
  <2>2. p.at \in Nat /\ p.count \in Nat
    BY <2>1 DEF Place
  <2>3. p.at + p.count <= Len(s) + 1
    BY <1>6, <2>1, <2>2
  <2>4. p.table.name # t.name
    BY <1>7, <2>1
  <2>5. Holds(s, p)
    BY <1>4, <1>6, <1>9, <1>10, <1>17, <2>1, <2>2, <2>4, HoldsStill DEF s
  <2> QED
    BY <2>1, <2>3, <2>5 DEF PlaceIn
<1>18. Waiting(W \cup {t}, s, PS, TS, FALSE)
  <2>1. ASSUME NEW p \in PS PROVE PartPlace(W \cup {t}, s, p)
    BY <1>1, <1>17 DEF Waiting, PartPlace
  <2>2. ASSUME NEW p \in TS PROVE TablePlace(W \cup {t}, s, p, FALSE)
    <3>1. TablePlace(W, ts, p, FALSE) /\ p.table \in W
      BY <1>1 DEF Waiting, TablePlace, PlaceIn
    <3> QED
      BY <1>14, <1>17, <3>1 DEF TablePlace
  <2> QED
    BY <1>1, <2>1, <2>2 DEF Waiting
<1>19. W \cup {t} \subseteq Wanted
  BY <1>1
<1> QED
  BY <1>12, <1>13, <1>15, <1>16, <1>18, <1>19 DEF PlanInv, IsBehind, s
-----------------------------------------------------------------------------
OKTables == {t \in TableType : TableOK(t)}
PlanRecords == [tasks : Seq(Task), partQ : Seq(Place), tableQ : Seq(Place)]

(* Planning a table keeps the plan typed.                                  *)
LEMMA PlanTableType ==
  ASSUME NEW plan \in PlanRecords, NEW t \in OKTables
  PROVE  PlanTable(plan, t) \in PlanRecords
<1> DEFINE new == FirstTasks(t)
           place == [table |-> t, at |-> Len(plan.tasks) + 1, count |-> Len(new)]
<1>1. plan.tasks \in Seq(Task) /\ plan.partQ \in Seq(Place) /\ plan.tableQ \in Seq(Place)
  BY DEF PlanRecords
<1>2. t \in TableType /\ TableOK(t)
  BY DEF OKTables
<1>3. new \in Seq(Task)
  BY <1>2, FirstTasksArePlanned DEF Planned
<1> HIDE DEF new
<1>4. place \in Place
  <2>1. Len(plan.tasks) \in Nat /\ Len(new) \in Nat
    BY <1>1, <1>3
  <2>2. Len(plan.tasks) + 1 \in Nat \ {0}
    BY <2>1
  <2> QED
    BY <1>2, <2>1, <2>2 DEF Place
<1> HIDE DEF place
<1>5. plan.tasks \o new \in Seq(Task)
  BY <1>1, <1>3
<1>6. Append(plan.partQ, place) \in Seq(Place) /\ Append(plan.tableQ, place) \in Seq(Place)
  BY <1>1, <1>4
<1>7. PlanTable(plan, t) =
        IF t.skip THEN plan
        ELSE [tasks |-> plan.tasks \o new,
              partQ |-> IF DeferredPartitions(t) THEN Append(plan.partQ, place) ELSE plan.partQ,
              tableQ |-> IF DeferredTable(t) THEN Append(plan.tableQ, place) ELSE plan.tableQ]
  BY DEF PlanTable, new, place
<1>8. (IF DeferredPartitions(t) THEN Append(plan.partQ, place) ELSE plan.partQ) \in Seq(Place)
  BY <1>1, <1>6
<1>9. (IF DeferredTable(t) THEN Append(plan.tableQ, place) ELSE plan.tableQ) \in Seq(Place)
  BY <1>1, <1>6
<1> HIDE DEF Place
<1> QED
  BY <1>5, <1>7, <1>8, <1>9 DEF PlanRecords

(* The plan after each table.                                               *)
PlannedAll(G, s) ==
  /\ G[0] = NoTasks
  /\ \A k \in 1..Len(s) : G[k] = PlanTable(G[k - 1], s[k])

(* The plan of all tables is the plan after the last one.                  *)
LEMMA PlanUnfold ==
  ASSUME NEW s \in Seq(OKTables)
  PROVE  \E G \in [0..Len(s) -> PlanRecords] : PlannedAll(G, s) /\ FoldLeft(PlanTable, NoTasks, s) = G[Len(s)]
<1> DEFINE n == Len(s)
           Step(a, x) == PlanTable(a, x)
           op == [p \in PlanRecords \X (1..n) |-> Step(p[1], s[p[2]])]
           Body(F) == [d \in SUBSET DOMAIN s |->
                         IF d = {} THEN NoTasks ELSE Step(F[d \ {Max(d)}], s[Max(d)])]
           H == CHOOSE F : F = Body(F)
           G == [k \in 0..n |-> H[1..k]]
<1>1. n \in Nat /\ DOMAIN s = 1..n /\ \A k \in 1..n : s[k] \in OKTables
  OBVIOUS
<1>2. FoldLeft(PlanTable, NoTasks, s) = H[DOMAIN s]
  BY DEF FoldLeft, MapThenFoldSet
<1>3. \A a \in PlanRecords, x \in OKTables : Step(a, x) \in PlanRecords
  BY PlanTableType
<1>4. NoTasks \in PlanRecords
  BY DEF NoTasks, PlanRecords
<1> HIDE DEF n, Step
<1>5. op \in [PlanRecords \X (1..n) -> PlanRecords]
  BY <1>1, <1>3
<1>6. \A a \in PlanRecords, k \in 1..n : op[<<a, k>>] = Step(a, s[k])
  OBVIOUS
<1> HIDE DEF op
<1>7. PICK F \in [SUBSET (1..n) -> PlanRecords] : LeftFolded(F, op, NoTasks, n)
  BY <1>1, <1>4, <1>5, LeftFoldExists
<1>8. F = Body(F)
  <2>1. ASSUME NEW d \in SUBSET (1..n), d # {}
        PROVE  F[d] = Step(F[d \ {Max(d)}], s[Max(d)])
    <3>1. F[d] = op[<<F[d \ {Max(d)}], Max(d)>>]
      BY <1>7, <2>1 DEF LeftFolded
    <3>2. Max(d) \in 1..n /\ F[d \ {Max(d)}] \in PlanRecords
      BY <1>1, <2>1, MaxIsIn
    <3> QED
      BY <1>6, <3>1, <3>2
  <2>2. F[{}] = NoTasks
    BY <1>7 DEF LeftFolded
  <2>3. \A d \in SUBSET DOMAIN s : F[d] = Body(F)[d]
    BY <1>1, <2>1, <2>2
  <2>4. F = [d \in SUBSET DOMAIN s |-> F[d]]
    BY <1>1, <1>7
  <2> QED
    BY <2>3, <2>4
<1>9. H = Body(H)
  BY <1>8
<1> HIDE DEF H
<1>10. \A d \in SUBSET (1..n) : H[d] = IF d = {} THEN NoTasks ELSE Step(H[d \ {Max(d)}], s[Max(d)])
  BY <1>1, <1>9
<1>11. \A k \in 0..n : G[k] = H[1..k]
  OBVIOUS
<1> HIDE DEF G
<1>12. G[0] = NoTasks
  <2>1. 1..0 = {} /\ 0 \in 0..n /\ {} \in SUBSET (1..n)
    BY <1>1
  <2> QED
    BY <1>10, <1>11, <2>1
<1>13. ASSUME NEW k \in 1..n PROVE G[k] = Step(G[k - 1], s[k])
  <2>1. k \in 0..n /\ k - 1 \in 0..n
    BY <1>1
  <2>2. H[1..k] = Step(H[1..(k - 1)], s[k])
    BY <1>1, <1>10, LeftFoldPrefix
  <2> QED
    BY <1>11, <2>1, <2>2
<1> DEFINE P == {k \in 0..n : G[k] \in PlanRecords}
<1>14. \A k \in 0..n : k \in P
  <2>1. 0 \in 0..n /\ \A k \in 1..n : k \in 0..n
    BY <1>1
  <2>2. 0 \in P
    BY <1>4, <1>12, <2>1
  <2>3. ASSUME NEW k \in 1..n, k - 1 \in P PROVE k \in P
    <3>1. G[k - 1] \in PlanRecords /\ s[k] \in OKTables
      BY <1>1, <2>3
    <3>2. G[k] \in PlanRecords
      BY <1>3, <1>13, <3>1
    <3> QED
      BY <2>1, <3>2
  <2> HIDE DEF P
  <2> QED
    BY <1>1, <2>2, <2>3, IntervalInduction
<1>15. G \in [0..n -> PlanRecords]
  BY <1>14 DEF G
<1>16. FoldLeft(PlanTable, NoTasks, s) = G[n]
  <2>1. n \in 0..n
    BY <1>1
  <2> QED
    BY <1>1, <1>2, <1>11, <2>1
<1> QED
  BY <1>12, <1>13, <1>15, <1>16 DEF PlannedAll, n, Step
-----------------------------------------------------------------------------
Ascend(qs) == \A i, j \in DOMAIN qs : i < j => qs[i].at < qs[j].at

(* Places in the order of the list, and one behind them.                   *)
LEMMA AscendAppend ==
  ASSUME NEW qs \in Seq(Place), Ascend(qs), NEW place \in Place, \A q \in ToSet(qs) : q.at < place.at
  PROVE  Ascend(Append(qs, place))
<1> DEFINE s == Append(qs, place)
<1>1. /\ Len(qs) \in Nat /\ DOMAIN s = 1..(Len(qs) + 1) /\ DOMAIN qs = 1..Len(qs)
      /\ s[Len(qs) + 1] = place /\ \A i \in 1..Len(qs) : s[i] = qs[i]
  BY AppendFacts
<1>2. \A i \in 1..Len(qs) : qs[i] \in ToSet(qs)
  BY <1>1 DEF ToSet
<1> HIDE DEF s
<1> SUFFICES ASSUME NEW i \in DOMAIN s, NEW j \in DOMAIN s, i < j
             PROVE  s[i].at < s[j].at
  BY DEF Ascend, s
<1>3. i \in 1..Len(qs)
  BY <1>1
<1>4. CASE j \in 1..Len(qs)
  BY <1>1, <1>3, <1>4 DEF Ascend
<1>5. CASE j = Len(qs) + 1
  BY <1>1, <1>2, <1>3, <1>5
<1> QED
  BY <1>1, <1>4, <1>5

(* The plan so far, of the tables W.                                        *)
PlanKept(plan, W) ==
  /\ PlanInv(W, plan.tasks, ToSet(plan.partQ), ToSet(plan.tableQ), FALSE, FALSE)
  /\ Ascend(plan.partQ) /\ Ascend(plan.tableQ)

(* Planning a wanted table keeps the plan one, of one table more.          *)
LEMMA TablePlanned ==
  ASSUME SchemaOK, NEW plan \in PlanRecords, NEW W, PlanKept(plan, W), NEW t \in Wanted, t \notin W
  PROVE  PlanKept(PlanTable(plan, t), W \cup {t})
<1> DEFINE new == FirstTasks(t)
           ts == plan.tasks
           place == PlaceOf(t, ts, new)
           PS == ToSet(plan.partQ)
           TS == ToSet(plan.tableQ)
           s == ts \o new
           V == W \cup {t}
<1>1. TableOK(t) /\ ~t.skip /\ t \in TableType /\ t \in OKTables
  BY WantedAreOK, WantedTables DEF OKTables
<1>2. Planned(t, new, FALSE) /\ new \in Seq(Task)
  BY <1>1, FirstTasksArePlanned DEF Planned
<1>3. /\ DeferredPartitions(t) => Partitioned(t) /\ new # <<>> /\ Len(new) = Len(ResolvePartitions(t))
      /\ DeferredTable(t) => ~Partitioned(t) /\ new = <<Whole(t, 0)>>
  BY <1>1, FirstTasksArePlanned
<1>4. ts \in Seq(Task) /\ plan.partQ \in Seq(Place) /\ plan.tableQ \in Seq(Place)
  BY DEF PlanRecords
<1>5. PlanTable(plan, t) =
        [tasks |-> s,
         partQ |-> IF DeferredPartitions(t) THEN Append(plan.partQ, place) ELSE plan.partQ,
         tableQ |-> IF DeferredTable(t) THEN Append(plan.tableQ, place) ELSE plan.tableQ]
  BY <1>1 DEF PlanTable, PlaceOf
<1> HIDE DEF new
<1>6. PlanInv(W, ts, PS, TS, FALSE, FALSE) /\ Ascend(plan.partQ) /\ Ascend(plan.tableQ)
  BY DEF PlanKept
<1>7. PlanInv(V, s, PS, TS, FALSE, FALSE) /\ Holds(s, place) /\ TasksOf(s, t) = ToSet(new)
  <2> HIDE DEF PS, TS, ts
  <2>1. IsBehind(W, ts, PS, TS, FALSE, t, new)
    BY <1>2, <1>6, TasksBehind
  <2> QED
    BY <2>1 DEF IsBehind
<1>8. Len(ts) \in Nat /\ Len(new) \in Nat /\ Len(s) = Len(ts) + Len(new)
  BY <1>2, <1>4
<1>9. place.table = t /\ place.at = Len(ts) + 1 /\ place.count = Len(new)
  BY DEF PlaceOf
<1>10. place \in Place
  <2>1. Len(ts) + 1 \in Nat \ {0}
    BY <1>8
  <2> QED
    BY <1>1, <1>8, <2>1 DEF Place, PlaceOf
<1>11. ASSUME NEW q \in PS \cup TS PROVE q.at < place.at /\ q.table \in W
  <2>1. PlaceIn(W, ts, q)
    BY <1>6 DEF PlanInv, Waiting, PartPlace, TablePlace
  <2>2. q.at \in Nat /\ q.count \in Nat /\ q.count >= 1 /\ q.at + q.count <= Len(ts) + 1 /\ q.table \in W
    BY <2>1 DEF PlaceIn, Place
  <2> QED
    BY <1>8, <1>9, <2>2
<1> HIDE DEF place
<1>12. Ascend(Append(plan.partQ, place)) /\ Ascend(Append(plan.tableQ, place))
  BY <1>4, <1>6, <1>10, <1>11, AscendAppend
<1>13. ToSet(Append(plan.partQ, place)) = PS \cup {place} /\ ToSet(Append(plan.tableQ, place)) = TS \cup {place}
  BY <1>4, <1>10, AppendElements
<1>14. ASSUME new # <<>> PROVE PlaceIn(V, s, place)
  <2>1. Len(new) >= 1
    <3>1. Len(new) # 0
      BY <1>2, <1>14
    <3> QED
      BY <1>8, <3>1
  <2>2. place.at + place.count <= Len(s) + 1
    BY <1>8, <1>9
  <2> QED
    BY <1>9, <1>10, <2>1, <2>2 DEF PlaceIn
<1>15. \A p, q \in PS \cup TS \cup {place} : p.table = q.table => p = q
  <2>1. \A p, q \in PS \cup TS : p.table = q.table => p = q
    BY <1>6 DEF PlanInv, Waiting
  <2>2. \A p \in PS \cup TS : p.table # place.table
    BY <1>9, <1>11
  <2> QED
    BY <2>1, <2>2
<1> HIDE DEF s, PS, TS
<1>16. CASE DeferredPartitions(t)
  <2>1. ~DeferredTable(t) /\ new # <<>>
    BY <1>3, <1>16
  <2>2. PartPlace(V, s, place)
    BY <1>3, <1>7, <1>9, <1>14, <1>16 DEF PartPlace
  <2>3. Waiting(V, s, PS \cup {place}, TS, FALSE)
    BY <1>7, <1>15, <2>2 DEF PlanInv, Waiting
  <2>4. PlanInv(V, s, PS \cup {place}, TS, FALSE, FALSE)
    BY <1>7, <2>3 DEF PlanInv
  <2>5. PlanTable(plan, t) = [tasks |-> s, partQ |-> Append(plan.partQ, place), tableQ |-> plan.tableQ]
    BY <1>5, <1>16, <2>1
  <2> DEFINE p == PlanTable(plan, t)
  <2>6. p.tasks = s /\ p.partQ = Append(plan.partQ, place) /\ p.tableQ = plan.tableQ
    BY <2>5
  <2> HIDE DEF p
  <2>7. ToSet(p.partQ) = PS \cup {place} /\ ToSet(p.tableQ) = TS
    BY <1>13, <2>6 DEF TS
  <2>8. PlanKept(p, V)
    BY <1>6, <1>12, <2>4, <2>6, <2>7 DEF PlanKept
  <2> QED
    BY <2>8 DEF p
<1>17. CASE DeferredTable(t)
  <2>1. ~DeferredPartitions(t) /\ new = <<Whole(t, 0)>>
    BY <1>3, <1>17
  <2>2. TablePlace(V, s, place, FALSE)
    <3>1. ToSet(new) = {Whole(t, 0)} /\ Len(new) = 1 /\ new # <<>>
      BY <2>1 DEF ToSet
    <3>2. Whole(t, 0).kind = "whole"
      BY <1>1, WholeType
    <3> QED
      BY <1>3, <1>7, <1>9, <1>14, <1>17, <3>1, <3>2 DEF TablePlace
  <2>3. Waiting(V, s, PS, TS \cup {place}, FALSE)
    BY <1>7, <1>15, <2>2 DEF PlanInv, Waiting
  <2>4. PlanInv(V, s, PS, TS \cup {place}, FALSE, FALSE)
    BY <1>7, <2>3 DEF PlanInv
  <2>5. PlanTable(plan, t) = [tasks |-> s, partQ |-> plan.partQ, tableQ |-> Append(plan.tableQ, place)]
    BY <1>5, <1>17, <2>1
  <2> DEFINE p == PlanTable(plan, t)
  <2>6. p.tasks = s /\ p.partQ = plan.partQ /\ p.tableQ = Append(plan.tableQ, place)
    BY <2>5
  <2> HIDE DEF p
  <2>7. ToSet(p.partQ) = PS /\ ToSet(p.tableQ) = TS \cup {place}
    BY <1>13, <2>6 DEF PS
  <2>8. PlanKept(p, V)
    BY <1>6, <1>12, <2>4, <2>6, <2>7 DEF PlanKept
  <2> QED
    BY <2>8 DEF p
<1>18. CASE ~DeferredPartitions(t) /\ ~DeferredTable(t)
  <2>1. PlanTable(plan, t) = [tasks |-> s, partQ |-> plan.partQ, tableQ |-> plan.tableQ]
    BY <1>5, <1>18
  <2> DEFINE p == PlanTable(plan, t)
  <2>2. p.tasks = s /\ p.partQ = plan.partQ /\ p.tableQ = plan.tableQ
    BY <2>1
  <2> HIDE DEF p
  <2>3. PlanKept(p, V)
    BY <1>6, <1>7, <2>2 DEF PlanKept, PS, TS
  <2> QED
    BY <2>3 DEF p
<1> QED
  BY <1>16, <1>17, <1>18

(* BuildPlan plans the wanted tables.                                       *)
Sorted == [i \in DOMAIN TopoSort(schema) |-> TableNamed(schema, TopoSort(schema)[i])]

(* The tables in topological order are those of the schema, each once.     *)
LEMMA SortedTables ==
  ASSUME SchemaOK
  PROVE  /\ Sorted \in Seq(OKTables) /\ Len(Sorted) \in Nat /\ DOMAIN Sorted = 1..Len(Sorted)
         /\ \A i \in 1..Len(Sorted) : Sorted[i].skip \/ Sorted[i] \in Wanted
         /\ \A i, j \in 1..Len(Sorted) : Sorted[i] = Sorted[j] => i = j
         /\ Wanted = {t \in ToSet(Sorted) : ~t.skip}
<1> DEFINE order == TopoSort(schema)
<1>1. order \in Seq(Names) /\ Unique(order) /\ ToSet(order) = Names
  BY TopoSortIsOrdered DEF Ordered
<1>2. /\ schema \in Seq(TableType)
      /\ \A n \in Names : TableNamed(schema, n) \in ToSet(schema) /\ TableNamed(schema, n).name = n
      /\ \A i \in DOMAIN schema : TableNamed(schema, schema[i].name) = schema[i]
  BY NamesAreFinite
<1>3. Len(order) \in Nat /\ DOMAIN order = 1..Len(order) /\ \A i \in 1..Len(order) : order[i] \in Names
  BY <1>1, SeqElements
<1>4. \A t \in ToSet(schema) : t \in OKTables /\ t.name \in Names /\ TableNamed(schema, t.name) = t
  <2> SUFFICES ASSUME NEW t \in ToSet(schema)
               PROVE  t \in OKTables /\ t.name \in Names /\ TableNamed(schema, t.name) = t
    OBVIOUS
  <2>1. PICK i \in DOMAIN schema : t = schema[i]
    BY DEF ToSet
  <2>2. Len(schema[i].parts) <= MaxParts
    BY <2>1, SchemaTypes DEF SchemaOK
  <2>3. schema[i] \in TableType
    BY <1>2, <2>1
  <2> QED
    BY <1>2, <2>1, <2>2, <2>3 DEF OKTables, TableOK, Names
<1> HIDE DEF order
<1>5. Sorted = [i \in 1..Len(order) |-> TableNamed(schema, order[i])]
  BY <1>3 DEF Sorted, order
<1>6. \A i \in 1..Len(order) : Sorted[i] = TableNamed(schema, order[i]) /\ Sorted[i] \in OKTables
                               /\ Sorted[i] \in ToSet(schema) /\ Sorted[i].name = order[i]
  BY <1>2, <1>3, <1>4, <1>5
<1>7. Sorted \in Seq(OKTables) /\ Len(Sorted) = Len(order) /\ DOMAIN Sorted = 1..Len(Sorted)
  <2>1. Sorted = [i \in 1..Len(order) |-> Sorted[i]]
    BY <1>5
  <2>2. Sorted \in [1..Len(order) -> OKTables]
    BY <1>6, <2>1
  <2>3. DOMAIN Sorted = 1..Len(order)
    BY <2>2
  <2> QED
    BY <1>3, <2>2, <2>3
<1>8. \A i \in 1..Len(Sorted) : Sorted[i].skip \/ Sorted[i] \in Wanted
  BY <1>6, <1>7 DEF Wanted
<1>9. \A i, j \in 1..Len(Sorted) : Sorted[i] = Sorted[j] => i = j
  BY <1>1, <1>3, <1>6, <1>7 DEF Unique
<1>10. Wanted = {t \in ToSet(Sorted) : ~t.skip}
  <2>1. ASSUME NEW t \in Wanted PROVE t \in ToSet(Sorted) /\ ~t.skip
    <3>1. t \in ToSet(schema) /\ ~t.skip
      BY DEF Wanted
    <3>2. t.name \in ToSet(order) /\ TableNamed(schema, t.name) = t
      BY <1>1, <1>4, <3>1
    <3>3. PICK i \in 1..Len(order) : order[i] = t.name
      BY <1>3, <3>2 DEF ToSet
    <3>4. Sorted[i] = t
      BY <1>6, <3>2, <3>3
    <3> QED
      BY <1>7, <3>1, <3>4 DEF ToSet
  <2>2. ASSUME NEW t \in ToSet(Sorted), ~t.skip PROVE t \in Wanted
    <3>1. PICK i \in 1..Len(Sorted) : Sorted[i] = t
      BY <1>7 DEF ToSet
    <3> QED
      BY <1>8, <2>2, <3>1
  <2> QED
    BY <2>1, <2>2
<1> QED
  BY <1>3, <1>7, <1>8, <1>9, <1>10
-----------------------------------------------------------------------------
(* The empty plan is one of no table.                                      *)
LEMMA NothingPlanned == PlanKept(NoTasks, {})
<1>1. NoTasks.tasks = <<>> /\ NoTasks.partQ = <<>> /\ NoTasks.tableQ = <<>>
  BY DEF NoTasks
<1>2. ToSet(<<>>) = {}
  BY DEF ToSet
<1>3. Listed({}, <<>>)
  BY <1>2 DEF Listed, Distinct
<1>4. Waiting({}, <<>>, {}, {}, FALSE)
  BY DEF Waiting
<1>5. PlanInv({}, <<>>, {}, {}, FALSE, FALSE)
  BY <1>3, <1>4 DEF PlanInv
<1>6. Ascend(<<>>)
  BY DEF Ascend
<1> QED
  BY <1>1, <1>2, <1>5, <1>6 DEF PlanKept

(* The wanted tables among the first k.                                     *)
PlannedUpTo(k) == {t \in Wanted : \E i \in 1..k : Sorted[i] = t}

(* By induction over the tables: the plan BuildPlan makes is one.          *)
LEMMA PlanIsBuilt ==
  ASSUME SchemaOK
  PROVE  BuildPlan.data \in PlanRecords /\ PlanKept(BuildPlan.data, Wanted)
<1> DEFINE n == Len(Sorted)
<1>1. /\ Sorted \in Seq(OKTables) /\ n \in Nat /\ DOMAIN Sorted = 1..n
      /\ \A i \in 1..n : Sorted[i].skip \/ Sorted[i] \in Wanted
      /\ \A i, j \in 1..n : Sorted[i] = Sorted[j] => i = j
      /\ Wanted = {t \in ToSet(Sorted) : ~t.skip}
  BY SortedTables
<1>2. BuildPlan.data = FoldLeft(PlanTable, NoTasks, Sorted)
  BY DEF BuildPlan, Sorted
<1> HIDE DEF n
<1>3. PICK G \in [0..n -> PlanRecords] : PlannedAll(G, Sorted) /\ FoldLeft(PlanTable, NoTasks, Sorted) = G[n]
  BY <1>1, PlanUnfold DEF n
<1>4. G[0] = NoTasks /\ \A k \in 1..n : G[k] = PlanTable(G[k - 1], Sorted[k])
  BY <1>3 DEF PlannedAll, n
<1> DEFINE P == {k \in 0..n : PlanKept(G[k], PlannedUpTo(k))}
<1>5. 0 \in P
  <2>1. PlannedUpTo(0) = {}
    BY DEF PlannedUpTo
  <2>2. 0 \in 0..n
    BY <1>1
  <2>3. PlanKept(G[0], PlannedUpTo(0))
    BY <1>4, <2>1, NothingPlanned
  <2> QED
    BY <2>2, <2>3
<1>6. ASSUME NEW k \in 1..n, k - 1 \in P PROVE k \in P
  <2>1. /\ k \in 0..n /\ k - 1 \in 0..n /\ k \in Nat /\ G[k - 1] \in PlanRecords
        /\ PlanKept(G[k - 1], PlannedUpTo(k - 1)) /\ G[k] = PlanTable(G[k - 1], Sorted[k])
    <3>1. n \in Nat /\ k \in 1..n
      BY <1>1
    <3>2. k \in 0..n /\ k - 1 \in 0..n /\ k \in Nat
      BY <3>1
    <3>3. G[k - 1] \in PlanRecords
      BY <1>3, <3>2
    <3>4. PlanKept(G[k - 1], PlannedUpTo(k - 1))
      BY <1>6
    <3>5. G[k] = PlanTable(G[k - 1], Sorted[k])
      BY <1>4
    <3> QED
      BY <3>2, <3>3, <3>4, <3>5
  <2>2. \A i \in 1..k : i = k \/ i \in 1..(k - 1)
    BY <2>1
  <2>3. \A i \in 1..(k - 1) : i \in 1..k /\ i \in 1..n /\ i # k
    <3>1. n \in Nat /\ k \in 1..n
      BY <1>1
    <3> QED
      BY <3>1
  <2>4. CASE Sorted[k].skip
    <3>1. PlanTable(G[k - 1], Sorted[k]) = G[k - 1]
      BY <2>4 DEF PlanTable
    <3>2. \A t \in Wanted : Sorted[k] # t
      BY <2>4 DEF Wanted
    <3>3. PlannedUpTo(k) = PlannedUpTo(k - 1)
      BY <2>2, <2>3, <3>2 DEF PlannedUpTo
    <3> QED
      BY <2>1, <3>1, <3>3
  <2>5. CASE Sorted[k] \in Wanted
    <3>1. Sorted[k] \notin PlannedUpTo(k - 1)
      BY <1>1, <2>3 DEF PlannedUpTo
    <3>2. k \in 1..k
      BY <2>1
    <3>3. PlannedUpTo(k) = PlannedUpTo(k - 1) \cup {Sorted[k]}
      BY <2>2, <2>3, <2>5, <3>2 DEF PlannedUpTo
    <3>4. PlanKept(PlanTable(G[k - 1], Sorted[k]), PlannedUpTo(k - 1) \cup {Sorted[k]})
      BY <2>1, <2>5, <3>1, TablePlanned
    <3> QED
      BY <2>1, <3>3, <3>4
  <2> QED
    BY <1>1, <2>4, <2>5
<1>7. n \in P
  <2> HIDE DEF P
  <2>1. \A k \in 0..n : k \in P
    BY <1>1, <1>5, <1>6, IntervalInduction
  <2> QED
    BY <1>1, <2>1
<1>8. PlannedUpTo(n) = Wanted
  <2> SUFFICES ASSUME NEW t \in Wanted PROVE \E i \in 1..n : Sorted[i] = t
    BY DEF PlannedUpTo
  <2> QED
    BY <1>1 DEF ToSet
<1> QED
  BY <1>1, <1>2, <1>3, <1>7, <1>8
-----------------------------------------------------------------------------
(* The inductive invariant of the list of tasks: as soon as there is a      *)
(* plan, it is one of the wanted tables, and the places in it that wait are *)
(* in the order of the list, those of tables first but for the displaced.   *)
UnderWay(ts, pq, tq, sh, d) ==
  /\ PlanInv(Wanted, ts, ToSet(pq), ToSet(tq), sh, d)
  /\ pq \in Seq(Place) /\ tq \in Seq(Place) /\ Ascend(pq) /\ Ascend(tq)
  /\ ~d => \A p \in ToSet(pq), q \in ToSet(tq) : q.at < p.at

PlanUnderWay == UnderWay(tasks, partQ, tableQ, short, Displaced)

PlanTypes ==
  /\ strategy \in Strategies /\ step \in {"build", "resolve", "ready"}
  /\ partQ \in Seq(Place) /\ tableQ \in Seq(Place) /\ short \in BOOLEAN
  /\ ddl \in Seq(Nat) /\ constraints \in Seq(Nat)

PlanIInv ==
  /\ SchemaOK /\ PlanTypes
  /\ step = "build" => tasks = <<>> /\ ~short
  /\ step # "build" => PlanUnderWay
  /\ step = "ready" => partQ = <<>> /\ tableQ = <<>>

(* It holds in the beginning.                                              *)
LEMMA InitPlan == ASSUME Init PROVE PlanIInv
<1>1. /\ SchemaOK /\ strategy \in Strategies /\ step = "build" /\ short = FALSE /\ ddl = <<>>
      /\ constraints = <<>> /\ tasks = <<>> /\ partQ = <<>> /\ tableQ = <<>>
  BY DEF Init, SchemaOK
<1>2. <<>> \in Seq(Place) /\ <<>> \in Seq(Nat)
  OBVIOUS
<1>3. partQ \in Seq(Place) /\ tableQ \in Seq(Place) /\ ddl \in Seq(Nat) /\ constraints \in Seq(Nat)
  BY <1>1, <1>2
<1>4. short \in BOOLEAN
  BY <1>1
<1>5. PlanTypes
  BY <1>1, <1>3, <1>4 DEF PlanTypes
<1> QED
  BY <1>1, <1>5 DEF PlanIInv

(* Which placeholders are displaced depends on the input of the run alone.  *)
DisplacedIn(plan) ==
  \E i \in DOMAIN plan.partQ, j \in DOMAIN plan.tableQ : plan.partQ[i].at < plan.tableQ[j].at

DisplacedBy(G) ==
  G \in [0..Len(Sorted) -> PlanRecords] /\ PlannedAll(G, Sorted) /\ DisplacedIn(G[Len(Sorted)])

(* A walk over the tables has one outcome,                                 *)
LEMMA PlansAgree ==
  ASSUME NEW s, Len(s) \in Nat, NEW G, NEW F, PlannedAll(G, s), PlannedAll(F, s)
  PROVE  G[Len(s)] = F[Len(s)]
<1> DEFINE n == Len(s)
           P == {k \in 0..n : G[k] = F[k]}
<1>1. /\ G[0] = NoTasks /\ F[0] = NoTasks
      /\ \A k \in 1..n : G[k] = PlanTable(G[k - 1], s[k]) /\ F[k] = PlanTable(F[k - 1], s[k])
  BY DEF PlannedAll
<1> HIDE DEF n
<1>2. 0 \in P /\ n \in 0..n /\ n \in Nat
  BY <1>1 DEF n
<1>3. ASSUME NEW k \in 1..n, k - 1 \in P PROVE k \in P
  <2>1. k \in 0..n
    BY <1>2
  <2> QED
    BY <1>1, <1>3, <2>1
<1> HIDE DEF P
<1>4. \A k \in 0..n : k \in P
  BY <1>2, <1>3, IntervalInduction
<1>5. n \in P
  BY <1>2, <1>4
<1> QED
  BY <1>5 DEF P, n

(* so a placeholder is displaced if some walk says so,                     *)
LEMMA DisplacedIs == SchemaOK => (Displaced <=> \E G : DisplacedBy(G))
<1> SUFFICES ASSUME SchemaOK PROVE Displaced <=> \E G : DisplacedBy(G)
  OBVIOUS
<1>1. Sorted \in Seq(OKTables) /\ Len(Sorted) \in Nat
  BY SortedTables
<1>2. BuildPlan.data = FoldLeft(PlanTable, NoTasks, Sorted)
  BY DEF BuildPlan, Sorted
<1>3. PICK F \in [0..Len(Sorted) -> PlanRecords] :
         PlannedAll(F, Sorted) /\ FoldLeft(PlanTable, NoTasks, Sorted) = F[Len(Sorted)]
  BY <1>1, PlanUnfold
<1>4. BuildPlan.data = F[Len(Sorted)]
  BY <1>2, <1>3
<1>5. Displaced <=> DisplacedIn(F[Len(Sorted)])
  BY <1>4 DEF Displaced, DisplacedIn
<1>6. \A G : DisplacedBy(G) => G[Len(Sorted)] = F[Len(Sorted)]
  BY <1>1, <1>3, PlansAgree DEF DisplacedBy
<1>7. DisplacedIn(F[Len(Sorted)]) => DisplacedBy(F)
  BY <1>3 DEF DisplacedBy
<1> QED
  BY <1>5, <1>6, <1>7 DEF DisplacedBy

(* after a step as before it,                                              *)
LEMMA DisplacedNext == SchemaOK' => (Displaced' <=> \E G : DisplacedBy(G)')
<1>1. (SchemaOK => (Displaced <=> \E G : DisplacedBy(G)))'
  BY DisplacedIs, PTL
<1> QED
  BY <1>1

(* and a step that keeps the schema and the strategy keeps them there.     *)
LEMMA StaysDisplaced ==
  ASSUME SchemaOK, schema' = schema, strategy' = strategy
  PROVE  SchemaOK' /\ Wanted' = Wanted /\ Displaced' = Displaced
<1>1. SchemaOK' /\ Wanted' = Wanted
  BY DEF SchemaOK, Wanted
<1>2. \A a, x : PlanTable(a, x)' = PlanTable(a, x)
  BY DEF PlanTable, FirstTasks, DeferredPartitions, DeferredTable, NeedsChunking, StrategyOf
<1>3. Sorted' = Sorted
  BY DEF Sorted
<1>4. \A G : PlannedAll(G, Sorted)' <=> PlannedAll(G, Sorted)
  BY <1>2, <1>3 DEF PlannedAll
<1>5. \A G : DisplacedBy(G)' <=> DisplacedBy(G)
  BY <1>3, <1>4 DEF DisplacedBy, DisplacedIn
<1>6. Displaced <=> \E G : DisplacedBy(G)
  BY DisplacedIs
<1>7. Displaced' <=> \E G : DisplacedBy(G)'
  BY <1>1, DisplacedNext
<1> QED
  BY <1>1, <1>5, <1>6, <1>7

(* A sequence over a set is one over a larger set.                         *)
LEMMA SeqOfLarger ==
  ASSUME NEW S, NEW T, S \subseteq T, NEW s \in Seq(S)
  PROVE  s \in Seq(T)
<1>1. Len(s) \in Nat /\ s \in [1..Len(s) -> S]
  OBVIOUS
<1>2. s \in [1..Len(s) -> T]
  BY <1>1
<1> QED
  BY <1>1, <1>2

(* What a step leaves is a plan under way.                                  *)
LEMMA StillUnderWay ==
  ASSUME SchemaOK, schema' = schema, strategy' = strategy, PlanTypes, short' \in BOOLEAN,
         step' \in {"resolve", "ready"}, ddl' \in Seq(Nat), constraints' \in Seq(Nat),
         UnderWay(tasks', partQ', tableQ', short', Displaced)
  PROVE  SchemaOK' /\ PlanTypes' /\ PlanUnderWay'
<1>1. SchemaOK' /\ Wanted' = Wanted /\ Displaced' = Displaced
  BY StaysDisplaced
<1> HIDE DEF Place
<1>2. PlanTypes'
  BY DEF PlanTypes, UnderWay
<1>3. PlanUnderWay'
  BY <1>1 DEF PlanUnderWay, UnderWay, PlanInv
<1> QED
  BY <1>1, <1>2, <1>3

(* The first step builds a plan that is under way.                         *)
LEMMA BuildPlans ==
  ASSUME PlanIInv, Build
  PROVE  PlanIInv'
<1> DEFINE plan == BuildPlan.data
<1>1. SchemaOK /\ PlanTypes /\ step = "build" /\ ~short
  BY DEF PlanIInv, Build
<1>2. plan \in PlanRecords /\ PlanKept(plan, Wanted)
  BY <1>1, PlanIsBuilt
<1>3. Displaced <=> DisplacedIn(plan)
  BY DEF Displaced, DisplacedIn
<1> HIDE DEF plan
<1>4. /\ tasks' = plan.tasks /\ partQ' = plan.partQ /\ tableQ' = plan.tableQ /\ step' = "resolve"
      /\ schema' = schema /\ strategy' = strategy /\ short' = short
  BY DEF Build, plan
<1>5. SchemaOK' /\ Wanted' = Wanted /\ Displaced' = Displaced
  BY <1>1, <1>4, StaysDisplaced
<1>6. ddl' \in Seq(Nat) /\ constraints' \in Seq(Nat)
  <2>1. BuildPlan.order = TopoSort(schema)
    BY DEF BuildPlan
  <2>2. TopoSort(schema) \in Seq(Names) /\ Names \subseteq Nat
    BY <1>1, TopoSortIsOrdered, NamesAreFinite
  <2>3. TopoSort(schema) \in Seq(Nat)
    BY <2>2, SeqOfLarger
  <2>4. Only(TopoSort(schema), {n \in ToSet(TopoSort(schema)) : ~TableNamed(schema, n).skip}) \in Seq(Nat)
    BY <2>3, OnlyPicks
  <2>5. Reverse(TopoSort(schema)) \in Seq(Nat)
    BY <2>3, ReverseFacts
  <2> QED
    BY <2>1, <2>4, <2>5 DEF Build
<1>7. plan.partQ \in Seq(Place) /\ plan.tableQ \in Seq(Place)
  BY <1>2 DEF PlanRecords
<1>8. PlanInv(Wanted, plan.tasks, ToSet(plan.partQ), ToSet(plan.tableQ), FALSE, Displaced)
      /\ Ascend(plan.partQ) /\ Ascend(plan.tableQ)
  BY <1>2, MayBeDisplaced DEF PlanKept
<1>9. ASSUME ~Displaced, NEW p \in ToSet(plan.partQ), NEW q \in ToSet(plan.tableQ)
      PROVE  q.at < p.at
  <2>1. PICK i \in DOMAIN plan.partQ : p = plan.partQ[i]
    BY DEF ToSet
  <2>2. PICK j \in DOMAIN plan.tableQ : q = plan.tableQ[j]
    BY DEF ToSet
  <2>3. ~(p.at < q.at)
    BY <1>3, <1>9, <2>1, <2>2 DEF DisplacedIn
  <2>4. PartPlace(Wanted, plan.tasks, p) /\ TablePlace(Wanted, plan.tasks, q, FALSE)
    BY <1>2 DEF PlanKept, PlanInv, Waiting
  <2>5. p.at \in Nat /\ q.at \in Nat /\ q.count \in Nat /\ q.count >= 1
    BY <2>4 DEF PartPlace, TablePlace, PlaceIn, Place
  <2>6. p.table # q.table /\ p.table \in Wanted /\ q.table \in Wanted
    BY <2>4 DEF PartPlace, TablePlace, PlaceIn
  <2>7. p.table.name # q.table.name
    BY <1>1, <2>6, WantedByOneName
  <2>8. p.at # q.at
    <3>1. SUFFICES ASSUME p.at = q.at PROVE FALSE
      OBVIOUS
    <3>2. p.count >= 1 /\ p.count \in Nat /\ p.at + p.count <= Len(plan.tasks) + 1 /\ p.at >= 1
      BY <2>4 DEF PartPlace, PlaceIn, Place
    <3>3. Holds(plan.tasks, p) /\ Holds(plan.tasks, q)
      BY <2>4 DEF PartPlace, TablePlace
    <3>4. Len(plan.tasks) \in Nat
      BY <1>2 DEF PlanRecords
    <3>5. p.at \in 1..Len(plan.tasks) /\ p.at < p.at + p.count /\ p.at < q.at + q.count
      BY <2>5, <3>1, <3>2, <3>4
    <3>6. plan.tasks[p.at].table = p.table.name /\ plan.tasks[p.at].table = q.table.name
      BY <2>5, <3>1, <3>3, <3>5 DEF Holds
    <3> QED
      BY <2>7, <3>6
  <2> QED
    BY <2>3, <2>5, <2>8
<1>10. SchemaOK' /\ PlanTypes' /\ PlanUnderWay'
  <2>1. short' = FALSE
    BY <1>1, <1>4 DEF PlanTypes
  <2> HIDE DEF Place
  <2>2. UnderWay(plan.tasks, plan.partQ, plan.tableQ, FALSE, Displaced)
    BY <1>7, <1>8, <1>9 DEF UnderWay
  <2>3. UnderWay(tasks', partQ', tableQ', short', Displaced)
    BY <1>4, <2>1, <2>2
  <2>4. short' \in BOOLEAN /\ step' \in {"resolve", "ready"}
    BY <1>4, <2>1
  <2> QED
    BY <1>1, <1>4, <1>6, <2>3, <2>4, StillUnderWay
<1> QED
  BY <1>4, <1>10 DEF PlanIInv
-----------------------------------------------------------------------------
(* The largest number of a set that has n and no larger one.               *)
LEMMA MaxIsLast ==
  ASSUME NEW n \in Nat, NEW d \in SUBSET (1..n), n \in d
  PROVE  Max(d) = n
<1>1. \A y \in d : n >= y
  OBVIOUS
<1>2. \A x \in d : (\A y \in d : x >= y) => x = n
  OBVIOUS
<1> QED
  BY <1>1, <1>2 DEF Max

(* The list after each of the places of partitions, and of tables, of s.      *)
PartsDone(G, ts, s) ==
  /\ G[0] = ts
  /\ \A k \in 1..Len(s) : G[k] = PartsByHash(G[k - 1], s[k])

(* The fold over the places of partitions is the last of these lists.      *)
LEMMA PartsUnfold ==
  ASSUME NEW ts, NEW T, NEW s \in Seq(T)
  PROVE  \E G : PartsDone(G, ts, s) /\ FoldLeft(PartsByHash, ts, s) = G[Len(s)]
<1> DEFINE n == Len(s)
           Step(a, x) == PartsByHash(a, x)
           Body(F, k) == [d \in SUBSET (1..k) |->
                            IF d = {} THEN ts ELSE Step(F[d \ {Max(d)}], s[Max(d)])]
           H == CHOOSE F : F = [d \in SUBSET DOMAIN s |->
                                 IF d = {} THEN ts ELSE Step(F[d \ {Max(d)}], s[Max(d)])]
           G == [k \in 0..n |-> H[1..k]]
           P == {k \in 0..n : \E F : F = Body(F, k)}
<1>1. n \in Nat /\ DOMAIN s = 1..n
  OBVIOUS
<1>2. FoldLeft(PartsByHash, ts, s) = H[DOMAIN s]
  BY DEF FoldLeft, MapThenFoldSet
<1> HIDE DEF n, Step
<1>3. 0 \in P
  <2> DEFINE E == [d \in SUBSET (1..0) |-> ts]
  <2>1. \A d \in SUBSET (1..0) : d = {}
    OBVIOUS
  <2>2. E = Body(E, 0)
    BY <2>1
  <2> HIDE DEF E
  <2>3. \E F : F = Body(F, 0)
    BY <2>2
  <2>4. 0 \in 0..n
    BY <1>1
  <2> QED
    BY <2>3, <2>4
<1>4. ASSUME NEW k \in 1..n, k - 1 \in P PROVE k \in P
  <2>1. k \in 0..n /\ k \in Nat /\ k - 1 \in Nat
    BY <1>1
  <2>2. PICK F : F = Body(F, k - 1)
    BY <1>4
  <2> DEFINE E == [d \in SUBSET (1..k) |-> IF k \in d THEN Step(F[d \ {k}], s[k]) ELSE F[d]]
  <2>3. \A d \in SUBSET (1..k) : E[d] = IF k \in d THEN Step(F[d \ {k}], s[k]) ELSE F[d]
    OBVIOUS
  <2>4. \A d \in SUBSET (1..(k - 1)) : F[d] = IF d = {} THEN ts ELSE Step(F[d \ {Max(d)}], s[Max(d)])
    BY <2>2
  <2>5. DOMAIN E = SUBSET (1..k) /\ E = [d \in SUBSET (1..k) |-> E[d]]
    OBVIOUS
  <2> HIDE DEF E
  <2>6. ASSUME NEW d \in SUBSET (1..k)
        PROVE  E[d] = IF d = {} THEN ts ELSE Step(E[d \ {Max(d)}], s[Max(d)])
    <3>1. CASE k \in d
      <4>3. Max(d) = k
        BY <2>1, <3>1, MaxIsLast
      <4>4. d \ {k} \in SUBSET (1..k) /\ k \notin d \ {k}
        OBVIOUS
      <4>5. E[d \ {k}] = F[d \ {k}]
        BY <2>3, <4>4
      <4> QED
        BY <2>3, <3>1, <4>3, <4>5
    <3>2. CASE k \notin d
      <4>1. d \in SUBSET (1..(k - 1))
        BY <2>1, <3>2
      <4>2. E[d] = F[d]
        BY <2>3, <3>2
      <4>3. E[d \ {Max(d)}] = F[d \ {Max(d)}]
        <5>1. d \ {Max(d)} \in SUBSET (1..k) /\ k \notin d \ {Max(d)}
          BY <3>2
        <5> QED
          BY <2>3, <5>1
      <4> QED
        BY <2>4, <4>1, <4>2, <4>3
    <3> QED
      BY <3>1, <3>2
  <2>7. E = Body(E, k)
    BY <2>5, <2>6
  <2> QED
    BY <2>1, <2>7
<1>5. \E F : F = Body(F, n)
  <2> HIDE DEF P
  <2>1. n \in P
    <3>1. \A k \in 0..n : k \in P
      BY <1>1, <1>3, <1>4, IntervalInduction
    <3> QED
      BY <1>1, <3>1
  <2> USE DEF P
  <2> QED
    BY <2>1
<1>6. H = Body(H, n)
  BY <1>1, <1>5
<1> HIDE DEF H
<1>7. \A d \in SUBSET (1..n) : H[d] = IF d = {} THEN ts ELSE Step(H[d \ {Max(d)}], s[Max(d)])
  BY <1>6
<1>8. \A k \in 0..n : G[k] = H[1..k]
  OBVIOUS
<1> HIDE DEF G
<1>9. G[0] = ts
  <2>1. 1..0 = {} /\ 0 \in 0..n /\ {} \in SUBSET (1..n)
    BY <1>1
  <2> QED
    BY <1>7, <1>8, <2>1
<1>10. ASSUME NEW k \in 1..n PROVE G[k] = Step(G[k - 1], s[k])
  <2>1. k \in 0..n /\ k - 1 \in 0..n
    BY <1>1
  <2>2. H[1..k] = Step(H[1..(k - 1)], s[k])
    BY <1>1, <1>7, LeftFoldPrefix
  <2> QED
    BY <1>8, <2>1, <2>2
<1>11. FoldLeft(PartsByHash, ts, s) = G[n]
  <2>1. n \in 0..n
    BY <1>1
  <2> QED
    BY <1>1, <1>2, <1>8, <2>1
<1> QED
  BY <1>9, <1>10, <1>11 DEF PartsDone, n, Step

TablesDone(G, ts, s) ==
  /\ G[0] = ts
  /\ \A k \in 1..Len(s) : G[k] = TableByHash(G[k - 1], s[k])

(* ... and so is the one over the places of tables.                        *)
LEMMA TablesUnfold ==
  ASSUME NEW ts, NEW T, NEW s \in Seq(T)
  PROVE  \E G : TablesDone(G, ts, s) /\ FoldLeft(TableByHash, ts, s) = G[Len(s)]
<1> DEFINE n == Len(s)
           Step(a, x) == TableByHash(a, x)
           Body(F, k) == [d \in SUBSET (1..k) |->
                            IF d = {} THEN ts ELSE Step(F[d \ {Max(d)}], s[Max(d)])]
           H == CHOOSE F : F = [d \in SUBSET DOMAIN s |->
                                 IF d = {} THEN ts ELSE Step(F[d \ {Max(d)}], s[Max(d)])]
           G == [k \in 0..n |-> H[1..k]]
           P == {k \in 0..n : \E F : F = Body(F, k)}
<1>1. n \in Nat /\ DOMAIN s = 1..n
  OBVIOUS
<1>2. FoldLeft(TableByHash, ts, s) = H[DOMAIN s]
  BY DEF FoldLeft, MapThenFoldSet
<1> HIDE DEF n, Step
<1>3. 0 \in P
  <2> DEFINE E == [d \in SUBSET (1..0) |-> ts]
  <2>1. \A d \in SUBSET (1..0) : d = {}
    OBVIOUS
  <2>2. E = Body(E, 0)
    BY <2>1
  <2> HIDE DEF E
  <2>3. \E F : F = Body(F, 0)
    BY <2>2
  <2>4. 0 \in 0..n
    BY <1>1
  <2> QED
    BY <2>3, <2>4
<1>4. ASSUME NEW k \in 1..n, k - 1 \in P PROVE k \in P
  <2>1. k \in 0..n /\ k \in Nat /\ k - 1 \in Nat
    BY <1>1
  <2>2. PICK F : F = Body(F, k - 1)
    BY <1>4
  <2> DEFINE E == [d \in SUBSET (1..k) |-> IF k \in d THEN Step(F[d \ {k}], s[k]) ELSE F[d]]
  <2>3. \A d \in SUBSET (1..k) : E[d] = IF k \in d THEN Step(F[d \ {k}], s[k]) ELSE F[d]
    OBVIOUS
  <2>4. \A d \in SUBSET (1..(k - 1)) : F[d] = IF d = {} THEN ts ELSE Step(F[d \ {Max(d)}], s[Max(d)])
    BY <2>2
  <2>5. DOMAIN E = SUBSET (1..k) /\ E = [d \in SUBSET (1..k) |-> E[d]]
    OBVIOUS
  <2> HIDE DEF E
  <2>6. ASSUME NEW d \in SUBSET (1..k)
        PROVE  E[d] = IF d = {} THEN ts ELSE Step(E[d \ {Max(d)}], s[Max(d)])
    <3>1. CASE k \in d
      <4>3. Max(d) = k
        BY <2>1, <3>1, MaxIsLast
      <4>4. d \ {k} \in SUBSET (1..k) /\ k \notin d \ {k}
        OBVIOUS
      <4>5. E[d \ {k}] = F[d \ {k}]
        BY <2>3, <4>4
      <4> QED
        BY <2>3, <3>1, <4>3, <4>5
    <3>2. CASE k \notin d
      <4>1. d \in SUBSET (1..(k - 1))
        BY <2>1, <3>2
      <4>2. E[d] = F[d]
        BY <2>3, <3>2
      <4>3. E[d \ {Max(d)}] = F[d \ {Max(d)}]
        <5>1. d \ {Max(d)} \in SUBSET (1..k) /\ k \notin d \ {Max(d)}
          BY <3>2
        <5> QED
          BY <2>3, <5>1
      <4> QED
        BY <2>4, <4>1, <4>2, <4>3
    <3> QED
      BY <3>1, <3>2
  <2>7. E = Body(E, k)
    BY <2>5, <2>6
  <2> QED
    BY <2>1, <2>7
<1>5. \E F : F = Body(F, n)
  <2> HIDE DEF P
  <2>1. n \in P
    <3>1. \A k \in 0..n : k \in P
      BY <1>1, <1>3, <1>4, IntervalInduction
    <3> QED
      BY <1>1, <3>1
  <2> USE DEF P
  <2> QED
    BY <2>1
<1>6. H = Body(H, n)
  BY <1>1, <1>5
<1> HIDE DEF H
<1>7. \A d \in SUBSET (1..n) : H[d] = IF d = {} THEN ts ELSE Step(H[d \ {Max(d)}], s[Max(d)])
  BY <1>6
<1>8. \A k \in 0..n : G[k] = H[1..k]
  OBVIOUS
<1> HIDE DEF G
<1>9. G[0] = ts
  <2>1. 1..0 = {} /\ 0 \in 0..n /\ {} \in SUBSET (1..n)
    BY <1>1
  <2> QED
    BY <1>7, <1>8, <2>1
<1>10. ASSUME NEW k \in 1..n PROVE G[k] = Step(G[k - 1], s[k])
  <2>1. k \in 0..n /\ k - 1 \in 0..n
    BY <1>1
  <2>2. H[1..k] = Step(H[1..(k - 1)], s[k])
    BY <1>1, <1>7, LeftFoldPrefix
  <2> QED
    BY <1>8, <2>1, <2>2
<1>11. FoldLeft(TableByHash, ts, s) = G[n]
  <2>1. n \in 0..n
    BY <1>1
  <2> QED
    BY <1>1, <1>2, <1>8, <2>1
<1> QED
  BY <1>9, <1>10, <1>11 DEF TablesDone, n, Step
-----------------------------------------------------------------------------
(* The last place of a list of places, and the others.                      *)
LEMMA LastPlace ==
  ASSUME NEW qs \in Seq(Place), qs # <<>>, Ascend(qs)
  PROVE  /\ Last(qs) \in ToSet(qs) /\ Front(qs) \in Seq(Place) /\ Ascend(Front(qs))
         /\ ToSet(Front(qs)) = ToSet(qs) \ {Last(qs)}
         /\ \A p \in ToSet(qs) \ {Last(qs)} : p.at < Last(qs).at
<1> DEFINE n == Len(qs)
           f == Front(qs)
           q == Last(qs)
<1>1. n \in Nat /\ n >= 1 /\ DOMAIN qs = 1..n /\ q = qs[n] /\ n \in 1..n
  <2>1. n \in Nat /\ DOMAIN qs = 1..n /\ n # 0
    OBVIOUS
  <2>2. n >= 1 /\ n \in 1..n
    BY <2>1
  <2> QED
    BY <2>1, <2>2 DEF Last
<1>2. \A i \in 1..n : qs[i] \in Place /\ qs[i].at \in Nat
  <2>1. \A i \in 1..n : qs[i] \in Place
    BY SeqElements
  <2>2. \A p \in Place : p.at \in Nat
    BY DEF Place
  <2> HIDE DEF n
  <2> QED
    BY <2>1, <2>2
<1>3. /\ f \in Seq(Place) /\ DOMAIN f = 1..(n - 1) /\ \A i \in 1..(n - 1) : f[i] = qs[i]
  <2>1. f = SubSeq(qs, 1, n - 1)
    BY DEF Front
  <2>2. n - 1 \in Nat /\ n - 1 <= Len(qs)
    BY <1>1
  <2> HIDE DEF n, f
  <2>3. SubSeq(qs, 1, n - 1) \in Seq(Place) /\ Len(SubSeq(qs, 1, n - 1)) = n - 1
        /\ \A i \in 1..(n - 1) : SubSeq(qs, 1, n - 1)[i] = qs[i]
    BY <2>2
  <2>4. DOMAIN f = 1..Len(f)
    BY <2>1, <2>3
  <2> QED
    BY <2>1, <2>3, <2>4
<1> HIDE DEF n, f, q
<1>4. \A i \in 1..(n - 1) : i \in 1..n /\ i < n
  BY <1>1
<1>5. \A i \in 1..n : i = n \/ i \in 1..(n - 1)
  BY <1>1
<1>6. \A i \in 1..(n - 1) : qs[i].at < q.at
  BY <1>1, <1>4 DEF Ascend
<1>7. ToSet(f) = ToSet(qs) \ {q}
  <2>1. \A i \in 1..(n - 1) : qs[i] # q
    BY <1>2, <1>4, <1>6
  <2>2. ASSUME NEW x \in ToSet(f) PROVE x \in ToSet(qs) \ {q}
    <3>1. PICK i \in 1..(n - 1) : x = f[i]
      BY <1>3 DEF ToSet
    <3> QED
      BY <1>1, <1>3, <1>4, <2>1, <3>1 DEF ToSet
  <2>3. ASSUME NEW x \in ToSet(qs) \ {q} PROVE x \in ToSet(f)
    <3>1. PICK i \in 1..n : x = qs[i]
      BY <1>1 DEF ToSet
    <3>2. i \in 1..(n - 1)
      BY <1>1, <1>5, <3>1
    <3> QED
      BY <1>3, <3>1, <3>2 DEF ToSet
  <2> QED
    BY <2>2, <2>3
<1>8. Ascend(f)
  BY <1>1, <1>3, <1>4 DEF Ascend
<1>9. \A p \in ToSet(qs) \ {q} : p.at < q.at
  <2> SUFFICES ASSUME NEW p \in ToSet(qs) \ {q} PROVE p.at < q.at
    OBVIOUS
  <2>1. PICK i \in 1..n : p = qs[i]
    BY <1>1 DEF ToSet
  <2> QED
    BY <1>1, <1>5, <1>6, <2>1
<1>10. q \in ToSet(qs)
  BY <1>1 DEF ToSet
<1> QED
  BY <1>3, <1>7, <1>8, <1>9, <1>10 DEF f, q

(* The last partitioned table that waits is given its tasks.                *)
LEMMA PartTaken ==
  ASSUME SchemaOK, NEW ts, NEW pq, NEW tq, NEW sh, NEW d, UnderWay(ts, pq, tq, sh, d), pq # <<>>,
         NEW new, NEW now, Planned(Last(pq).table, new, now), sh => now,
         Len(new) >= Len(ResolvePartitions(Last(pq).table))
  PROVE  UnderWay(Splice(ts, Last(pq), new), Front(pq), tq, now, d)
<1> DEFINE q == Last(pq)
           PS == ToSet(pq)
           TS == ToSet(tq)
<1>1. /\ PlanInv(Wanted, ts, PS, TS, sh, d) /\ pq \in Seq(Place) /\ tq \in Seq(Place)
      /\ Ascend(pq) /\ Ascend(tq) /\ (~d => \A p \in PS, r \in TS : r.at < p.at)
  BY DEF UnderWay
<1>2. /\ q \in PS /\ Front(pq) \in Seq(Place) /\ Ascend(Front(pq)) /\ ToSet(Front(pq)) = PS \ {q}
      /\ \A p \in PS \ {q} : p.at < q.at
  BY <1>1, LastPlace
<1> HIDE DEF q, PS, TS
<1>3. PartPlace(Wanted, ts, q) /\ (\A p \in TS : TablePlace(Wanted, ts, p, d))
  BY <1>1, <1>2 DEF PlanInv, Waiting
<1>4. q.count = Len(ResolvePartitions(q.table)) /\ Holds(ts, q) /\ q \notin TS
  BY <1>3 DEF PartPlace, TablePlace
<1>5. MayPut(ts, PS, TS, q, new, d)
  <2>1. Len(new) >= q.count
    BY <1>4 DEF q
  <2> QED
    BY <1>1, <1>2, <1>4, <2>1 DEF MayPut
<1>6. PlanInv(Wanted, Splice(ts, q, new), PS \ {q}, TS \ {q}, now, d)
  BY <1>1, <1>5, PutTasks DEF q
<1>7. TS \ {q} = TS
  BY <1>4
<1>8. PlanInv(Wanted, Splice(ts, q, new), PS \ {q}, TS, now, d)
  BY <1>6, <1>7
<1> QED
  BY <1>1, <1>2, <1>8 DEF UnderWay, q, PS, TS

(* ... and the last other table, or it keeps its placeholder.               *)
LEMMA TableTaken ==
  ASSUME SchemaOK, NEW ts, NEW tq, NEW sh, NEW d, UnderWay(ts, <<>>, tq, sh, d), tq # <<>>,
         NEW new, NEW now, Chunked(Last(tq).table, new, now), sh => now
  PROVE  UnderWay(Splice(ts, Last(tq), new), <<>>, Front(tq), now, d)
<1> DEFINE q == Last(tq)
           TS == ToSet(tq)
<1>1. ToSet(<<>>) = {}
  BY DEF ToSet
<1>2. PlanInv(Wanted, ts, {}, TS, sh, d) /\ tq \in Seq(Place) /\ Ascend(tq)
  BY <1>1 DEF UnderWay
<1>3. /\ q \in TS /\ Front(tq) \in Seq(Place) /\ Ascend(Front(tq)) /\ ToSet(Front(tq)) = TS \ {q}
      /\ \A p \in TS \ {q} : p.at < q.at
  BY <1>2, LastPlace
<1>4. Planned(q.table, new, now) /\ new # <<>> /\ (\A x \in ToSet(new) : x.kind # "whole")
  BY DEF Chunked
<1> HIDE DEF q, TS
<1>5. q.count = 1
  BY <1>2, <1>3 DEF PlanInv, Waiting, TablePlace
<1>6. Len(new) >= 1
  <2>1. new \in Seq(Task)
    BY <1>4 DEF Planned
  <2>2. Len(new) # 0 /\ Len(new) \in Nat
    BY <1>4, <2>1
  <2> QED
    BY <2>2
<1>7. MayPut(ts, {}, TS, q, new, d)
  BY <1>3, <1>4, <1>5, <1>6 DEF MayPut
<1>8. PlanInv(Wanted, Splice(ts, q, new), {} \ {q}, TS \ {q}, now, d)
  BY <1>2, <1>4, <1>7, PutTasks
<1>9. {} \ {q} = {}
  OBVIOUS
<1>10. PlanInv(Wanted, Splice(ts, q, new), {}, TS \ {q}, now, d)
  BY <1>8, <1>9
<1>11. <<>> \in Seq(Place) /\ Ascend(<<>>)
  BY DEF Ascend
<1> QED
  BY <1>1, <1>3, <1>10, <1>11 DEF UnderWay, q, TS

(* A table that keeps its placeholder waits no more.                       *)
LEMMA TableLeft ==
  ASSUME NEW ts, NEW tq, NEW sh, NEW d, UnderWay(ts, <<>>, tq, sh, d), tq # <<>>, NEW now, sh => now
  PROVE  UnderWay(ts, <<>>, Front(tq), now, d)
<1> DEFINE q == Last(tq)
           TS == ToSet(tq)
<1>1. ToSet(<<>>) = {}
  BY DEF ToSet
<1>2. PlanInv(Wanted, ts, {}, TS, sh, d) /\ tq \in Seq(Place) /\ Ascend(tq)
  BY <1>1 DEF UnderWay
<1>3. Front(tq) \in Seq(Place) /\ Ascend(Front(tq)) /\ ToSet(Front(tq)) = TS \ {q}
  BY <1>2, LastPlace
<1> HIDE DEF q, TS
<1>4. PlanInv(Wanted, ts, {} \ {q}, TS \ {q}, now, d)
  BY <1>2, PlaceDone
<1>5. {} \ {q} = {}
  OBVIOUS
<1>6. PlanInv(Wanted, ts, {}, TS \ {q}, now, d)
  BY <1>4, <1>5
<1>7. <<>> \in Seq(Place) /\ Ascend(<<>>)
  BY DEF Ascend
<1> QED
  BY <1>1, <1>3, <1>6, <1>7 DEF UnderWay, q, TS
-----------------------------------------------------------------------------
(* The tables that wait, and how many chunks an estimate makes of one.      *)
LEMMA WaitingPart ==
  ASSUME SchemaOK, NEW ts, NEW pq, NEW tq, NEW sh, NEW d, UnderWay(ts, pq, tq, sh, d), pq # <<>>
  PROVE  TableOK(Last(pq).table) /\ Partitioned(Last(pq).table)
<1>1. Last(pq) \in ToSet(pq)
  BY LastPlace DEF UnderWay
<1>2. PartPlace(Wanted, ts, Last(pq))
  BY <1>1 DEF UnderWay, PlanInv, Waiting
<1> QED
  BY <1>2, WantedAreOK DEF PartPlace, PlaceIn

(* ... and a table that waits is not partitioned.                          *)
LEMMA WaitingTable ==
  ASSUME SchemaOK, NEW ts, NEW pq, NEW tq, NEW sh, NEW d, UnderWay(ts, pq, tq, sh, d), tq # <<>>
  PROVE  TableOK(Last(tq).table) /\ ~Partitioned(Last(tq).table)
<1>1. Last(tq) \in ToSet(tq)
  BY LastPlace DEF UnderWay
<1>2. TablePlace(Wanted, ts, Last(tq), d)
  BY <1>1 DEF UnderWay, PlanInv, Waiting
<1> QED
  BY <1>2, WantedAreOK DEF TablePlace, PlaceIn

ChunkCount(t, rows) == SmallerOf(rows \div ChunkSizeOf(t), MaxTableChunks)

(* Either one task reads the table, or no more chunks than allowed.        *)
LEMMA ChunkCounts ==
  ASSUME NEW t, TableOK(t), NEW rows \in Nat
  PROVE  ChunkCount(t, rows) \in Nat /\ (~(ChunkCount(t, rows) < 2) => ChunkCount(t, rows) \in 1..MaxTableChunks)
<1> DEFINE x == rows \div ChunkSizeOf(t)
           n == ChunkCount(t, rows)
<1>1. x \in Nat
  BY Sizes, Divided
<1>2. MaxTableChunks \in Nat
  BY Limits
<1>3. n = IF x < MaxTableChunks THEN x ELSE MaxTableChunks
  BY DEF ChunkCount, SmallerOf
<1> HIDE DEF x, n
<1>4. n \in Nat /\ (~(n < 2) => n \in 1..MaxTableChunks)
  BY <1>1, <1>2, <1>3
<1> QED
  BY <1>4 DEF n

(* One place of partitions is resolved by hash,                            *)
LEMMA PartByHash ==
  ASSUME SchemaOK, NEW ts, NEW pq, NEW tq, NEW sh, NEW d, UnderWay(ts, pq, tq, sh, d), pq # <<>>
  PROVE  UnderWay(PartsByHash(ts, Last(pq)), Front(pq), tq, sh, d)
<1> DEFINE t == Last(pq).table
           new == HashedParts(t, BatchOf(t))
<1>1. TableOK(t) /\ Partitioned(t)
  BY WaitingPart
<1>2. Planned(t, new, sh) /\ Len(new) >= Len(ResolvePartitions(t))
  BY <1>1, Sizes, HashedPartsArePlanned
<1> HIDE DEF new
<1>3. UnderWay(Splice(ts, Last(pq), new), Front(pq), tq, sh, d)
  BY <1>2, PartTaken
<1> QED
  BY <1>3 DEF PartsByHash, new

(* or one of a table.                                                      *)
LEMMA TableByHashDone ==
  ASSUME SchemaOK, NEW ts, NEW tq, NEW sh, NEW d, UnderWay(ts, <<>>, tq, sh, d), tq # <<>>
  PROVE  UnderWay(TableByHash(ts, Last(tq)), <<>>, Front(tq), sh, d)
<1> DEFINE q == Last(tq)
           n == ChunkCount(q.table, q.table.num)
           new == HashTasks(q.table, 0, n)
<1>1. TableOK(q.table) /\ ~Partitioned(q.table)
  BY WaitingTable
<1>2. q.table.num \in Nat
  BY <1>1, TableFields DEF TableOK
<1>3. n \in Nat /\ (~(n < 2) => n \in 1..MaxTableChunks)
  BY <1>1, <1>2, ChunkCounts
<1>4. TableByHash(ts, q) = IF n < 2 THEN ts ELSE Splice(ts, q, new)
  BY DEF TableByHash, ChunkCount
<1>5. CASE n < 2
  <2>1. UnderWay(ts, <<>>, Front(tq), sh, d)
    BY TableLeft
  <2> QED
    BY <1>4, <1>5, <2>1
<1>6. CASE ~(n < 2)
  <2>1. Chunked(q.table, new, sh)
    <3> HIDE DEF n, q
    <3> QED
      BY <1>1, <1>3, <1>6, HashTasksAreChunked
  <2> HIDE DEF new
  <2>2. UnderWay(Splice(ts, q, new), <<>>, Front(tq), sh, d)
    BY <2>1, TableTaken
  <2> QED
    BY <1>4, <1>6, <2>2
<1> QED
  BY <1>5, <1>6

(* Taking the places from the end, one by one.                              *)
LEMMA FirstPlaces ==
  ASSUME NEW T, NEW qs \in Seq(T), NEW m \in 1..Len(qs)
  PROVE  /\ SubSeq(qs, 1, m) # <<>> /\ Last(SubSeq(qs, 1, m)) = qs[m]
         /\ Front(SubSeq(qs, 1, m)) = SubSeq(qs, 1, m - 1)
<1>1. Len(qs) \in Nat /\ m \in Nat /\ m >= 1 /\ m <= Len(qs)
  OBVIOUS
<1> DEFINE s == SubSeq(qs, 1, m)
           r == SubSeq(qs, 1, m - 1)
<1>2. s \in Seq(T) /\ Len(s) = m /\ \A i \in 1..m : s[i] = qs[i]
  BY <1>1
<1>3. r \in Seq(T) /\ Len(r) = m - 1 /\ \A i \in 1..(m - 1) : r[i] = qs[i]
  BY <1>1
<1> HIDE DEF s, r
<1>4. s # <<>>
  BY <1>1, <1>2
<1>5. Last(s) = qs[m]
  BY <1>1, <1>2 DEF Last
<1>6. Front(s) = r
  <2> DEFINE f == SubSeq(s, 1, m - 1)
  <2>1. Front(s) = f
    BY <1>2 DEF Front
  <2>2. f \in Seq(T) /\ Len(f) = m - 1 /\ \A i \in 1..(m - 1) : f[i] = s[i]
    BY <1>1, <1>2
  <2>3. \A i \in 1..(m - 1) : f[i] = r[i]
    BY <1>1, <1>2, <1>3, <2>2
  <2> HIDE DEF f
  <2>4. f = r
    BY <1>1, <1>3, <2>2, <2>3
  <2> QED
    BY <2>1, <2>4
<1> QED
  BY <1>4, <1>5, <1>6 DEF s, r

(* From all of them to none.                                               *)
LEMMA AllPlaces ==
  ASSUME NEW T, NEW qs \in Seq(T)
  PROVE  SubSeq(qs, 1, Len(qs)) = qs /\ SubSeq(qs, 1, 0) = <<>>
OBVIOUS

(* By induction over the places: all of the partitions,                    *)
LEMMA PartsByHashDone ==
  ASSUME SchemaOK, NEW ts, NEW pq, NEW tq, NEW sh, NEW d, UnderWay(ts, pq, tq, sh, d)
  PROVE  UnderWay(FoldLeft(PartsByHash, ts, Reverse(pq)), <<>>, tq, sh, d)
<1> DEFINE s == Reverse(pq)
           n == Len(s)
<1>1. pq \in Seq(Place)
  BY DEF UnderWay
<1>2. s \in Seq(Place) /\ n = Len(pq) /\ n \in Nat /\ \A i \in 1..n : s[i] = pq[n - i + 1]
  BY <1>1, ReverseFacts
<1> HIDE DEF s
<1>3. PICK G : PartsDone(G, ts, s) /\ FoldLeft(PartsByHash, ts, s) = G[n]
  BY <1>2, PartsUnfold
<1>4. G[0] = ts /\ \A k \in 1..n : G[k] = PartsByHash(G[k - 1], s[k])
  BY <1>3 DEF PartsDone
<1> HIDE DEF n
<1> DEFINE P == {k \in 0..n : UnderWay(G[k], SubSeq(pq, 1, n - k), tq, sh, d)}
<1>5. 0 \in P
  <2>1. n - 0 = n /\ 0 \in 0..n
    BY <1>2
  <2>2. SubSeq(pq, 1, n) = pq
    BY <1>1, <1>2, AllPlaces
  <2> QED
    BY <1>4, <2>1, <2>2
<1>6. ASSUME NEW k \in 1..n, k - 1 \in P PROVE k \in P
  <2> DEFINE m == n - k + 1
             r == SubSeq(pq, 1, m)
  <2>1. k \in 0..n /\ n - (k - 1) = m /\ m \in 1..n /\ m - 1 = n - k
    BY <1>2
  <2>2. UnderWay(G[k - 1], r, tq, sh, d)
    BY <1>6, <2>1
  <2>3. s[k] = pq[m]
    BY <1>2
  <2> HIDE DEF m
  <2>4. r # <<>> /\ Last(r) = pq[m] /\ Front(r) = SubSeq(pq, 1, m - 1)
    BY <1>1, <1>2, <2>1, FirstPlaces
  <2> HIDE DEF r
  <2>5. UnderWay(PartsByHash(G[k - 1], Last(r)), Front(r), tq, sh, d)
    BY <2>2, <2>4, PartByHash
  <2>6. UnderWay(G[k], SubSeq(pq, 1, n - k), tq, sh, d)
    BY <1>4, <2>1, <2>3, <2>4, <2>5
  <2> QED
    BY <2>1, <2>6
<1>7. UnderWay(G[n], SubSeq(pq, 1, n - n), tq, sh, d)
  <2> HIDE DEF P
  <2>1. \A k \in 0..n : k \in P
    BY <1>2, <1>5, <1>6, IntervalInduction
  <2>2. n \in P
    BY <1>2, <2>1
  <2> USE DEF P
  <2> QED
    BY <2>2
<1>8. SubSeq(pq, 1, n - n) = <<>>
  <2>1. n - n = 0
    BY <1>2
  <2> QED
    BY <1>1, <2>1, AllPlaces
<1> QED
  BY <1>3, <1>7, <1>8 DEF s

(* then all of the tables.                                                 *)
LEMMA TablesByHashDone ==
  ASSUME SchemaOK, NEW ts, NEW tq, NEW sh, NEW d, UnderWay(ts, <<>>, tq, sh, d)
  PROVE  UnderWay(FoldLeft(TableByHash, ts, Reverse(tq)), <<>>, <<>>, sh, d)
<1> DEFINE s == Reverse(tq)
           n == Len(s)
<1>1. tq \in Seq(Place)
  BY DEF UnderWay
<1>2. s \in Seq(Place) /\ n = Len(tq) /\ n \in Nat /\ \A i \in 1..n : s[i] = tq[n - i + 1]
  BY <1>1, ReverseFacts
<1> HIDE DEF s
<1>3. PICK G : TablesDone(G, ts, s) /\ FoldLeft(TableByHash, ts, s) = G[n]
  BY <1>2, TablesUnfold
<1>4. G[0] = ts /\ \A k \in 1..n : G[k] = TableByHash(G[k - 1], s[k])
  BY <1>3 DEF TablesDone
<1> HIDE DEF n
<1> DEFINE P == {k \in 0..n : UnderWay(G[k], <<>>, SubSeq(tq, 1, n - k), sh, d)}
<1>5. 0 \in P
  <2>1. n - 0 = n /\ 0 \in 0..n
    BY <1>2
  <2>2. SubSeq(tq, 1, n) = tq
    BY <1>1, <1>2, AllPlaces
  <2> QED
    BY <1>4, <2>1, <2>2
<1>6. ASSUME NEW k \in 1..n, k - 1 \in P PROVE k \in P
  <2> DEFINE m == n - k + 1
             r == SubSeq(tq, 1, m)
  <2>1. k \in 0..n /\ n - (k - 1) = m /\ m \in 1..n /\ m - 1 = n - k
    BY <1>2
  <2>2. UnderWay(G[k - 1], <<>>, r, sh, d)
    BY <1>6, <2>1
  <2>3. s[k] = tq[m]
    BY <1>2
  <2> HIDE DEF m
  <2>4. r # <<>> /\ Last(r) = tq[m] /\ Front(r) = SubSeq(tq, 1, m - 1)
    BY <1>1, <1>2, <2>1, FirstPlaces
  <2> HIDE DEF r
  <2>5. UnderWay(TableByHash(G[k - 1], Last(r)), <<>>, Front(r), sh, d)
    BY <2>2, <2>4, TableByHashDone
  <2>6. UnderWay(G[k], <<>>, SubSeq(tq, 1, n - k), sh, d)
    BY <1>4, <2>1, <2>3, <2>4, <2>5
  <2> QED
    BY <2>1, <2>6
<1>7. UnderWay(G[n], <<>>, SubSeq(tq, 1, n - n), sh, d)
  <2> HIDE DEF P
  <2>1. \A k \in 0..n : k \in P
    BY <1>2, <1>5, <1>6, IntervalInduction
  <2>2. n \in P
    BY <1>2, <2>1
  <2> USE DEF P
  <2> QED
    BY <2>2
<1>8. SubSeq(tq, 1, n - n) = <<>>
  <2>1. n - n = 0
    BY <1>2
  <2> QED
    BY <1>1, <2>1, AllPlaces
<1> QED
  BY <1>3, <1>7, <1>8 DEF s
-----------------------------------------------------------------------------
(* How much of a list may have been read.                                  *)
LEMMA ListLengthsAre ==
  ASSUME NEW T, NEW list \in Seq(T), NEW n \in ListLengths(list)
  PROVE  n \in Nat /\ n <= Len(list)
<1>1. Len(list) \in Nat
  OBVIOUS
<1>2. n \in 0..Len(list) \/ n = Len(list)
  BY DEF ListLengths
<1> QED
  BY <1>1, <1>2

(* The tasks of the last partitioned table, whatever its chunk list.        *)
LEMMA PartsResolved ==
  ASSUME PlanIInv, ResolvePartitionTable
  PROVE  UnderWay(tasks', partQ', tableQ', short', Displaced) /\ short' \in BOOLEAN
<1> DEFINE q == Last(partQ)
           t == q.table
<1>1. SchemaOK /\ step = "resolve" /\ partQ # <<>> /\ short \in BOOLEAN
  BY DEF PlanIInv, PlanTypes, ResolvePartitionTable, Resolving
<1>2. UnderWay(tasks, partQ, tableQ, short, Displaced)
  BY <1>1 DEF PlanIInv, PlanUnderWay
<1>3. TableOK(t) /\ Partitioned(t)
  BY <1>1, <1>2, WaitingPart
<1>4. partQ' = Front(partQ) /\ tableQ' = tableQ
  BY DEF ResolvePartitionTable
<1>5. ASSUME NEW new, NEW now, Planned(t, new, now), Len(new) >= Len(ResolvePartitions(t)), short => now
      PROVE  UnderWay(Splice(tasks, q, new), partQ', tableQ', now, Displaced)
  BY <1>1, <1>2, <1>4, <1>5, PartTaken
<1>6. ASSUME NEW now PROVE Planned(t, HashedParts(t, BatchOf(t)), now)
                           /\ Len(HashedParts(t, BatchOf(t))) >= Len(ResolvePartitions(t))
  BY <1>3, Sizes, HashedPartsArePlanned
<1>7. CASE \E cut \in [DOMAIN t.parts -> Cuts] :
             LET list == FlattenSeq([p \in DOMAIN t.parts |-> ChunksAt(p, cut[p])])
             IN  \E n \in ListLengths(list) :
                   /\ tasks' = Splice(tasks, q, IF n = 0 THEN HashedParts(t, BatchOf(t))
                                                ELSE ByRowid(t, ReadList(list, n)))
                   /\ short' = (short \/ n < Len(list))
  <2>1. PICK cut \in [DOMAIN t.parts -> Cuts] :
          LET list == FlattenSeq([p \in DOMAIN t.parts |-> ChunksAt(p, cut[p])])
          IN  \E n \in ListLengths(list) :
                /\ tasks' = Splice(tasks, q, IF n = 0 THEN HashedParts(t, BatchOf(t))
                                             ELSE ByRowid(t, ReadList(list, n)))
                /\ short' = (short \/ n < Len(list))
    BY <1>7
  <2> DEFINE list == FlattenSeq(ListsOf(t, cut))
  <2>2. PICK n \in ListLengths(list) :
          /\ tasks' = Splice(tasks, q, IF n = 0 THEN HashedParts(t, BatchOf(t))
                                       ELSE ByRowid(t, ReadList(list, n)))
          /\ short' = (short \/ n < Len(list))
    BY <2>1 DEF ListsOf
  <2>3. list \in Seq(ChunkType)
    BY <1>3, ListsAreLists, FlattenPlaces
  <2>4. list = FlattenSeq(ListsOf(t, cut))
    OBVIOUS
  <2> HIDE DEF list, q, t
  <2>5. n \in Nat /\ n <= Len(list)
    BY <2>3, ListLengthsAre
  <2> DEFINE new == IF n = 0 THEN HashedParts(t, BatchOf(t)) ELSE ByRowid(t, ReadList(list, n))
  <2>6. (short => short') /\ (n < Len(list) => short') /\ short' \in BOOLEAN
    BY <1>1, <2>2
  <2>7. Planned(t, new, short') /\ Len(new) >= Len(ResolvePartitions(t))
    <3>1. CASE n = 0
      BY <1>6, <3>1
    <3>2. CASE n # 0
      <4>1. Planned(t, ByRowid(t, SubSeq(list, 1, n)), short')
            /\ Len(ByRowid(t, SubSeq(list, 1, n))) >= Len(ResolvePartitions(t))
        BY <1>3, <2>4, <2>5, <2>6, RowidPartsArePlanned
      <4> QED
        BY <3>2, <4>1 DEF ReadList
    <3> QED
      BY <3>1, <3>2
  <2>8. tasks' = Splice(tasks, q, new)
    BY <2>2
  <2> HIDE DEF new
  <2>9. UnderWay(Splice(tasks, q, new), partQ', tableQ', short', Displaced)
    BY <1>5, <2>6, <2>7
  <2> QED
    BY <2>6, <2>8, <2>9
<1>8. CASE tasks' = Splice(tasks, q, HashedParts(t, BatchOf(t))) /\ short' = short
  <2>1. short => short'
    BY <1>8
  <2> HIDE DEF q, t
  <2>2. UnderWay(Splice(tasks, q, HashedParts(t, BatchOf(t))), partQ', tableQ', short', Displaced)
    BY <1>5, <1>6, <2>1
  <2> QED
    BY <1>1, <1>8, <2>2
<1> QED
  BY <1>7, <1>8 DEF ResolvePartitionTable

(* ... and of the last of the others, whatever the estimate.                *)
LEMMA TableResolved ==
  ASSUME PlanIInv, ResolveTable
  PROVE  UnderWay(tasks', partQ', tableQ', short', Displaced) /\ short' \in BOOLEAN
<1> DEFINE q == Last(tableQ)
           t == q.table
<1>1. SchemaOK /\ step = "resolve" /\ partQ = <<>> /\ tableQ # <<>> /\ short \in BOOLEAN
  BY DEF PlanIInv, PlanTypes, ResolveTable, Resolving
<1>2. UnderWay(tasks, <<>>, tableQ, short, Displaced)
  BY <1>1 DEF PlanIInv, PlanUnderWay
<1>3. TableOK(t) /\ ~Partitioned(t)
  BY <1>1, <1>2, WaitingTable
<1>4. tableQ' = Front(tableQ) /\ partQ' = <<>>
  BY <1>1 DEF ResolveTable
<1>5. ASSUME tasks' = tasks, short => short', short' \in BOOLEAN
      PROVE  UnderWay(tasks', partQ', tableQ', short', Displaced)
  BY <1>1, <1>2, <1>4, <1>5, TableLeft
<1>6. ASSUME NEW new, tasks' = Splice(tasks, q, new), Chunked(t, new, short'), short => short'
      PROVE  UnderWay(tasks', partQ', tableQ', short', Displaced)
  BY <1>1, <1>2, <1>4, <1>6, TableTaken
<1>7. CASE tasks' = tasks /\ short' = short
  BY <1>1, <1>5, <1>7
<1>8. ASSUME NEW est \in Estimates, ResolveEstimated(q, est)
      PROVE  UnderWay(tasks', partQ', tableQ', short', Displaced) /\ short' \in BOOLEAN
  <2> DEFINE n == ChunkCount(t, est)
  <2>1. est \in Nat
    BY PlanConstants
  <2>2. n \in Nat /\ (~(n < 2) => n \in 1..MaxTableChunks)
    BY <1>3, <2>1, ChunkCounts
  <2>3. IF n < 2 THEN UNCHANGED <<tasks, short>>
        ELSE \/ \E cut \in Cuts : LET list == ChunksAt(0, cut) IN
                  \E m \in ListLengths(list) :
                    /\ tasks' = IF m = 0 THEN tasks
                                ELSE Splice(tasks, q, RowidTasks(t, 0, MergeChunks(ReadList(list, m), n)))
                    /\ short' = (short \/ m < Len(list))
             \/ /\ "dbms_pe" \in Faults
                /\ tasks' = Splice(tasks, q, HashTasks(t, 0, n))
                /\ UNCHANGED short
    BY <1>8 DEF ResolveEstimated, ChunkCount
  <2> HIDE DEF n, q, t
  <2>4. CASE n < 2
    BY <1>7, <2>3, <2>4
  <2>5. ASSUME ~(n < 2), NEW cut \in Cuts, NEW m \in ListLengths(ChunksAt(0, cut)),
               tasks' = IF m = 0 THEN tasks
                        ELSE Splice(tasks, q, RowidTasks(t, 0, MergeChunks(ReadList(ChunksAt(0, cut), m), n))),
               short' = (short \/ m < Len(ChunksAt(0, cut)))
        PROVE  UnderWay(tasks', partQ', tableQ', short', Displaced) /\ short' \in BOOLEAN
    <3>1. ChunksAt(0, cut) \in Seq(ChunkType)
      BY SegmentChunks
    <3>2. m \in Nat /\ m <= Len(ChunksAt(0, cut))
      BY <3>1, ListLengthsAre
    <3>3. (short => short') /\ (m < Len(ChunksAt(0, cut)) => short') /\ short' \in BOOLEAN
      BY <1>1, <2>5
    <3>4. CASE m = 0
      BY <1>5, <2>5, <3>3, <3>4
    <3>5. CASE m # 0
      <4>1. Chunked(t, RowidTasks(t, 0, MergeChunks(SubSeq(ChunksAt(0, cut), 1, m), n)), short')
        BY <1>3, <2>2, <2>5, <3>2, <3>3, <3>5, RowidTasksAreChunked
      <4>2. tasks' = Splice(tasks, q, RowidTasks(t, 0, MergeChunks(SubSeq(ChunksAt(0, cut), 1, m), n)))
        BY <2>5, <3>5 DEF ReadList
      <4> QED
        BY <1>6, <3>3, <4>1, <4>2
    <3> QED
      BY <3>4, <3>5
  <2>6. ASSUME ~(n < 2), tasks' = Splice(tasks, q, HashTasks(t, 0, n)), short' = short
        PROVE  UnderWay(tasks', partQ', tableQ', short', Displaced) /\ short' \in BOOLEAN
    <3>1. Chunked(t, HashTasks(t, 0, n), short')
      BY <1>3, <2>2, <2>6, HashTasksAreChunked
    <3> QED
      BY <1>1, <1>6, <2>6, <3>1
  <2> QED
    BY <2>3, <2>4, <2>5, <2>6
<1> QED
  BY <1>7, <1>8 DEF ResolveTable

(* ... or all of them by hash, when there are no lists.                    *)
LEMMA AllResolvedByHash ==
  ASSUME PlanIInv, ResolveOraHash
  PROVE  UnderWay(tasks', partQ', tableQ', short', Displaced) /\ short' \in BOOLEAN
<1>1. SchemaOK /\ step = "resolve" /\ short \in BOOLEAN
  BY DEF PlanIInv, PlanTypes, ResolveOraHash
<1>2. UnderWay(tasks, partQ, tableQ, short, Displaced)
  BY <1>1 DEF PlanIInv, PlanUnderWay
<1> DEFINE mid == FoldLeft(PartsByHash, tasks, Reverse(partQ))
<1>3. UnderWay(mid, <<>>, tableQ, short, Displaced)
  BY <1>1, <1>2, PartsByHashDone
<1>4. tasks' = FoldLeft(TableByHash, mid, Reverse(tableQ)) /\ partQ' = <<>> /\ tableQ' = <<>> /\ short' = short
  BY DEF ResolveOraHash
<1> HIDE DEF mid
<1>5. UnderWay(FoldLeft(TableByHash, mid, Reverse(tableQ)), <<>>, <<>>, short, Displaced)
  BY <1>1, <1>3, TablesByHashDone
<1> QED
  BY <1>1, <1>4, <1>5
-----------------------------------------------------------------------------
(* A selection is not longer than the sequence it is from.                  *)
LEMMA OnlyIsShorter ==
  ASSUME NEW T, NEW s \in Seq(T), NEW K
  PROVE  Len(Only(s, K)) <= Len(s)
<1> DEFINE r == Only(s, K)
           m == Len(r)
           n == Len(s)
<1>1. r \in Seq(T) /\ \E pos : Picked(pos, r, s, K, n)
  BY OnlyPicks
<1>2. PICK pos : Picked(pos, r, s, K, n)
  BY <1>1
<1>3. m \in Nat /\ n \in Nat
  BY <1>1
<1> HIDE DEF r, m, n
<1>4. pos \in [1..m -> 1..n] /\ \A i, j \in 1..m : i < j => pos[i] < pos[j]
  BY <1>2 DEF Picked, m
<1> DEFINE P == {k \in 0..m : k = 0 \/ pos[k] >= k}
<1>5. 0 \in P
  BY <1>3
<1>6. ASSUME NEW k \in 1..m, k - 1 \in P PROVE k \in P
  <2>1. k \in 0..m /\ pos[k] \in 1..n
    BY <1>3, <1>4
  <2>2. CASE k - 1 = 0
    BY <1>3, <2>1, <2>2
  <2>3. CASE k - 1 # 0
    <3>1. k - 1 \in 1..m /\ k - 1 < k
      BY <1>3, <2>3
    <3>2. pos[k - 1] < pos[k] /\ pos[k - 1] \in 1..n
      BY <1>4, <3>1
    <3>3. pos[k - 1] >= k - 1
      BY <1>6, <2>3
    <3>4. pos[k] >= k
      BY <1>3, <2>1, <3>2, <3>3
    <3> QED
      BY <2>1, <3>4
  <2> QED
    BY <2>2, <2>3
<1> HIDE DEF P
<1>7. \A k \in 0..m : k \in P
  BY <1>3, <1>5, <1>6, IntervalInduction
<1>8. CASE m = 0
  BY <1>3, <1>8 DEF m, n, r
<1>9. CASE m # 0
  <2>1. m \in P /\ m \in 1..m
    BY <1>3, <1>7, <1>9
  <2>2. pos[m] >= m /\ pos[m] \in 1..n
    BY <1>4, <1>9, <2>1 DEF P
  <2>3. m <= n
    BY <1>3, <2>2
  <2> QED
    BY <2>3 DEF m, n, r
<1> QED
  BY <1>8, <1>9

(* The first task of each bucket.                                           *)
IsFirst(ts, i) == i \in 1..Len(ts) /\ \A j \in 1..(i - 1) : Bucket(ts[j]) # Bucket(ts[i])

(* FirstTasksOf has one place of each bucket.                              *)
LEMMA FirstTasksAre ==
  ASSUME NEW ts \in Seq(Task)
  PROVE  /\ FirstTasksOf(ts) \in Seq(Nat)
         /\ \A k \in 1..Len(FirstTasksOf(ts)) : FirstTasksOf(ts)[k] \in 1..Len(ts)
         /\ \A k, m \in 1..Len(FirstTasksOf(ts)) :
              Bucket(ts[FirstTasksOf(ts)[k]]) = Bucket(ts[FirstTasksOf(ts)[m]]) => k = m
         /\ \A i \in 1..Len(ts) : \E k \in 1..Len(FirstTasksOf(ts)) :
              Bucket(ts[FirstTasksOf(ts)[k]]) = Bucket(ts[i])
<1> DEFINE n == Len(ts)
           s == [i \in 1..n |-> i]
           K == {i \in 1..n : IsFirst(ts, i)}
           f == FirstTasksOf(ts)
           id == [i \in 1..n |-> i]
<1>1. n \in Nat /\ DOMAIN ts = 1..n
  OBVIOUS
<1>2. f = Only(s, K)
  BY <1>1 DEF FirstTasksOf, IsFirst
<1>3. s \in Seq(Nat) /\ Len(s) = n /\ DOMAIN s = 1..n /\ \A i \in 1..n : s[i] = i
  <2>1. s \in [1..n -> Nat]
    BY <1>1
  <2> QED
    BY <1>1, <2>1
<1>4. ToSet(s) = 1..n
  BY <1>3 DEF ToSet
<1>5. Distinct(s, id)
  BY <1>3 DEF Distinct
<1> HIDE DEF s, f
<1>6. f \in Seq(Nat) /\ ToSet(f) = (1..n) \cap K /\ Distinct(f, id)
  <2> HIDE DEF K, id
  <2>1. f \in Seq(Nat)
    BY <1>2, <1>3, OnlyPicks
  <2>2. ToSet(f) = ToSet(s) \cap K
    BY <1>2, <1>3, OnlyElements
  <2>3. Distinct(f, id)
    BY <1>2, <1>3, <1>5, OnlyDistinct
  <2> QED
    BY <1>4, <2>1, <2>2, <2>3
<1>7. DOMAIN f = 1..Len(f) /\ \A k \in 1..Len(f) : f[k] \in 1..n /\ IsFirst(ts, f[k])
  BY <1>6 DEF ToSet
<1>8. ASSUME NEW k \in 1..Len(f), NEW m \in 1..Len(f), Bucket(ts[f[k]]) = Bucket(ts[f[m]])
      PROVE  k = m
  <2>1. ~(f[k] < f[m])
    <3>1. SUFFICES ASSUME f[k] < f[m] PROVE FALSE
      OBVIOUS
    <3>2. f[k] \in 1..(f[m] - 1)
      BY <1>7, <3>1
    <3> QED
      BY <1>7, <1>8, <3>2 DEF IsFirst
  <2>2. ~(f[m] < f[k])
    <3>1. SUFFICES ASSUME f[m] < f[k] PROVE FALSE
      OBVIOUS
    <3>2. f[m] \in 1..(f[k] - 1)
      BY <1>7, <3>1
    <3> QED
      BY <1>7, <1>8, <3>2 DEF IsFirst
  <2>3. f[k] = f[m] /\ f[k] \in 1..n
    BY <1>1, <1>7, <2>1, <2>2
  <2> QED
    BY <1>6, <1>7, <2>3 DEF Distinct
<1>9. \A i \in 1..n : \E k \in 1..Len(f) : Bucket(ts[f[k]]) = Bucket(ts[i])
  <2> DEFINE P == {k \in 0..n : \A i \in 1..k : \E j \in 1..n : IsFirst(ts, j) /\ Bucket(ts[j]) = Bucket(ts[i])}
  <2>1. 0 \in P
    BY <1>1
  <2>2. ASSUME NEW k \in 1..n, k - 1 \in P PROVE k \in P
    <3>1. k \in 0..n
      BY <1>1
    <3>2. ASSUME NEW i \in 1..k PROVE \E j \in 1..n : IsFirst(ts, j) /\ Bucket(ts[j]) = Bucket(ts[i])
      <4>1. CASE i \in 1..(k - 1)
        BY <2>2, <4>1
      <4>2. CASE i = k /\ IsFirst(ts, k)
        BY <4>2
      <4>3. CASE i = k /\ ~IsFirst(ts, k)
        <5>1. PICK h \in 1..(k - 1) : Bucket(ts[h]) = Bucket(ts[k])
          BY <4>3 DEF IsFirst
        <5> QED
          BY <2>2, <4>3, <5>1
      <4>4. i \in 1..(k - 1) \/ i = k
        BY <1>1
      <4> QED
        BY <4>1, <4>2, <4>3, <4>4
    <3> QED
      BY <3>1, <3>2
  <2>3. \A k \in 0..n : k \in P
    <3> HIDE DEF P
    <3> QED
      BY <1>1, <2>1, <2>2, IntervalInduction
  <2>4. n \in 0..n
    BY <1>1
  <2>5. \A i \in 1..n : \E j \in 1..n : IsFirst(ts, j) /\ Bucket(ts[j]) = Bucket(ts[i])
    BY <2>3, <2>4
  <2> SUFFICES ASSUME NEW i \in 1..n PROVE \E k \in 1..Len(f) : Bucket(ts[f[k]]) = Bucket(ts[i])
    OBVIOUS
  <2>6. PICK j \in 1..n : IsFirst(ts, j) /\ Bucket(ts[j]) = Bucket(ts[i])
    BY <2>5
  <2>7. j \in ToSet(f)
    BY <1>6, <2>6
  <2>8. PICK k \in 1..Len(f) : f[k] = j
    BY <1>7, <2>7 DEF ToSet
  <2> QED
    BY <2>6, <2>8
<1> QED
  BY <1>6, <1>7, <1>8, <1>9 DEF f

(* The buckets, in the order of their first task.                           *)
Buckets(ts) == [k \in DOMAIN FirstTasksOf(ts) |-> BucketOf(ts, FirstTasksOf(ts)[k])]

IsBucketed(bs, ts) ==
  /\ bs \in Seq(Seq(Task))
  /\ \A k \in 1..Len(bs) : Len(bs[k]) <= Len(ts)
  /\ \A k, m \in 1..Len(bs) : \A x \in ToSet(bs[k]), y \in ToSet(bs[m]) : Bucket(x) = Bucket(y) <=> k = m
  /\ \A x : x \in ToSet(ts) <=> \E k \in 1..Len(bs) : x \in ToSet(bs[k])
  /\ \A key : Distinct(ts, key) => \A k \in 1..Len(bs) : Distinct(bs[k], key)

(* Each task is in one bucket, with the tasks of its table and partition.  *)
LEMMA TasksAreBucketed ==
  ASSUME NEW ts \in Seq(Task)
  PROVE  IsBucketed(Buckets(ts), ts)
<1> DEFINE f == FirstTasksOf(ts)
           bs == Buckets(ts)
           n == Len(f)
<1>1. /\ f \in Seq(Nat) /\ \A k \in 1..n : f[k] \in 1..Len(ts)
      /\ \A k, m \in 1..n : Bucket(ts[f[k]]) = Bucket(ts[f[m]]) => k = m
      /\ \A i \in 1..Len(ts) : \E k \in 1..n : Bucket(ts[f[k]]) = Bucket(ts[i])
  BY FirstTasksAre
<1>2. n \in Nat /\ DOMAIN f = 1..n
  BY <1>1
<1>3. bs = [k \in 1..n |-> BucketOf(ts, f[k])]
  BY <1>2 DEF Buckets
<1> HIDE DEF f, bs, n
<1>4. \A i : /\ BucketOf(ts, i) \in Seq(Task) /\ Len(BucketOf(ts, i)) <= Len(ts)
             /\ ToSet(BucketOf(ts, i)) = {x \in ToSet(ts) : Bucket(x) = Bucket(ts[i])}
             /\ \A key : Distinct(ts, key) => Distinct(BucketOf(ts, i), key)
  <2> SUFFICES ASSUME NEW i
               PROVE  /\ BucketOf(ts, i) \in Seq(Task) /\ Len(BucketOf(ts, i)) <= Len(ts)
                      /\ ToSet(BucketOf(ts, i)) = {x \in ToSet(ts) : Bucket(x) = Bucket(ts[i])}
                      /\ \A key : Distinct(ts, key) => Distinct(BucketOf(ts, i), key)
    OBVIOUS
  <2> DEFINE K == {x \in ToSet(ts) : Bucket(x) = Bucket(ts[i])}
  <2>1. BucketOf(ts, i) = Only(ts, K) /\ ToSet(ts) \cap K = K
    BY DEF BucketOf
  <2> HIDE DEF K
  <2>2. Only(ts, K) \in Seq(Task) /\ Len(Only(ts, K)) <= Len(ts)
    BY OnlyPicks, OnlyIsShorter
  <2>3. ToSet(Only(ts, K)) = K
    BY <2>1, OnlyElements
  <2>4. \A key : Distinct(ts, key) => Distinct(Only(ts, K), key)
    BY OnlyDistinct
  <2> QED
    BY <2>1, <2>2, <2>3, <2>4 DEF K
<1>5. \A k \in 1..n : bs[k] = BucketOf(ts, f[k]) /\ bs[k] \in Seq(Task)
  BY <1>3, <1>4
<1>6. bs \in Seq(Seq(Task)) /\ Len(bs) = n
  <2>1. bs \in [1..n -> Seq(Task)]
    BY <1>3, <1>5
  <2> QED
    BY <1>2, <2>1
<1>7. \A k, m \in 1..n : \A x \in ToSet(bs[k]), y \in ToSet(bs[m]) : Bucket(x) = Bucket(y) <=> k = m
  <2> SUFFICES ASSUME NEW k \in 1..n, NEW m \in 1..n, NEW x \in ToSet(bs[k]), NEW y \in ToSet(bs[m])
               PROVE  Bucket(x) = Bucket(y) <=> k = m
    OBVIOUS
  <2>1. Bucket(x) = Bucket(ts[f[k]]) /\ Bucket(y) = Bucket(ts[f[m]])
    BY <1>4, <1>5
  <2> QED
    BY <1>1, <2>1
<1>8. \A x : x \in ToSet(ts) <=> \E k \in 1..n : x \in ToSet(bs[k])
  <2> SUFFICES ASSUME NEW x PROVE x \in ToSet(ts) <=> \E k \in 1..n : x \in ToSet(bs[k])
    OBVIOUS
  <2>1. ASSUME x \in ToSet(ts) PROVE \E k \in 1..n : x \in ToSet(bs[k])
    <3>1. PICK i \in 1..Len(ts) : x = ts[i]
      <4>1. DOMAIN ts = 1..Len(ts)
        OBVIOUS
      <4> QED
        BY <2>1, <4>1 DEF ToSet
    <3>2. PICK k \in 1..n : Bucket(ts[f[k]]) = Bucket(ts[i])
      BY <1>1
    <3>3. x \in ToSet(bs[k])
      BY <1>4, <1>5, <2>1, <3>1, <3>2
    <3> QED
      BY <3>3
  <2>2. ASSUME NEW k \in 1..n, x \in ToSet(bs[k]) PROVE x \in ToSet(ts)
    BY <1>4, <1>5, <2>2
  <2> QED
    BY <2>1, <2>2
<1> QED
  BY <1>4, <1>5, <1>6, <1>7, <1>8 DEF IsBucketed, bs
-----------------------------------------------------------------------------
(* A turn takes the r-th task of every bucket that has so many.             *)
TurnParts(bs, r) == [k \in DOMAIN bs |-> IF r <= Len(bs[k]) THEN <<bs[k][r]>> ELSE <<>>]
TurnsOf(bs, n) == [r \in 1..n |-> FlattenSeq(TurnParts(bs, r))]
BucketKey == [x \in Task |-> Bucket(x)]

(* InterleaveByTable is one turn after the other.                          *)
LEMMA InterleaveIs ==
  ASSUME NEW ts \in Seq(Task)
  PROVE  InterleaveByTable(ts) = FlattenSeq(TurnsOf(Buckets(ts), Len(ts)))
<1>1. DOMAIN ts = 1..Len(ts)
  OBVIOUS
<1>2. DOMAIN Buckets(ts) = DOMAIN FirstTasksOf(ts)
  BY DEF Buckets
<1> QED
  BY <1>1, <1>2 DEF InterleaveByTable, Buckets, TurnsOf, TurnParts

InTurn(bs, r, x) == \E k \in 1..Len(bs) : r <= Len(bs[k]) /\ x = bs[k][r]

(* A turn has one task of each bucket that is so long.                     *)
LEMMA TurnsAre ==
  ASSUME NEW bs, NEW ts, IsBucketed(bs, ts), NEW r \in Nat, r >= 1
  PROVE  /\ FlattenSeq(TurnParts(bs, r)) \in Seq(Task)
         /\ \A x : x \in ToSet(FlattenSeq(TurnParts(bs, r))) <=> InTurn(bs, r, x)
         /\ Distinct(FlattenSeq(TurnParts(bs, r)), BucketKey)
<1> DEFINE p == TurnParts(bs, r)
           n == Len(bs)
<1>1. /\ bs \in Seq(Seq(Task))
      /\ \A k, m \in 1..n : \A x \in ToSet(bs[k]), y \in ToSet(bs[m]) : Bucket(x) = Bucket(y) <=> k = m
  BY DEF IsBucketed
<1>2. n \in Nat /\ DOMAIN bs = 1..n
  BY <1>1
<1>3. \A k \in 1..n : bs[k] \in Seq(Task)
  BY <1>1, SeqElements
<1>4. \A k \in 1..n : r <= Len(bs[k]) => bs[k][r] \in Task /\ bs[k][r] \in ToSet(bs[k])
  <2> SUFFICES ASSUME NEW k \in 1..n, r <= Len(bs[k])
               PROVE  bs[k][r] \in Task /\ bs[k][r] \in ToSet(bs[k])
    OBVIOUS
  <2>1. bs[k] \in Seq(Task)
    BY <1>3
  <2>2. r \in 1..Len(bs[k]) /\ DOMAIN bs[k] = 1..Len(bs[k])
    BY <2>1
  <2> QED
    BY <2>1, <2>2, SeqElements DEF ToSet
<1>5. p = [k \in 1..n |-> IF r <= Len(bs[k]) THEN <<bs[k][r]>> ELSE <<>>]
  BY <1>2 DEF TurnParts
<1> HIDE DEF p, n
<1>6. \A k \in 1..n : p[k] = IF r <= Len(bs[k]) THEN <<bs[k][r]>> ELSE <<>>
  BY <1>5
<1>7. \A k \in 1..n : p[k] \in Seq(Task)
  <2> SUFFICES ASSUME NEW k \in 1..n PROVE p[k] \in Seq(Task)
    OBVIOUS
  <2>1. <<>> \in Seq(Task) /\ \A x \in Task : <<x>> \in Seq(Task)
    OBVIOUS
  <2> QED
    BY <1>4, <1>6, <2>1
<1>8. p \in Seq(Seq(Task)) /\ Len(p) = n /\ DOMAIN p = 1..n
  <2>1. p \in [1..n -> Seq(Task)]
    BY <1>5, <1>7
  <2> QED
    BY <1>2, <2>1
<1>9. \A k \in 1..n : \A x : x \in ToSet(p[k]) <=> r <= Len(bs[k]) /\ x = bs[k][r]
  <2> SUFFICES ASSUME NEW k \in 1..n, NEW x
               PROVE  x \in ToSet(p[k]) <=> r <= Len(bs[k]) /\ x = bs[k][r]
    OBVIOUS
  <2>1. ToSet(<<>>) = {} /\ ToSet(<<bs[k][r]>>) = {bs[k][r]}
    BY DEF ToSet
  <2> QED
    BY <1>6, <2>1
<1>10. FlattenSeq(p) \in Seq(Task)
  BY <1>8, FlattenPlaces
<1>11. ToSet(FlattenSeq(p)) = UNION {ToSet(p[k]) : k \in 1..n}
  BY <1>8, FlattenElements
<1>12. \A x : x \in ToSet(FlattenSeq(p)) <=> InTurn(bs, r, x)
  <2> SUFFICES ASSUME NEW x PROVE x \in ToSet(FlattenSeq(p)) <=> \E k \in 1..n : x \in ToSet(p[k])
    BY <1>9 DEF InTurn, n
  <2> QED
    BY <1>11
<1>13. PartsDistinct(p, BucketKey)
  <2>1. \A k \in DOMAIN p : Distinct(p[k], BucketKey)
    <3> SUFFICES ASSUME NEW k \in 1..n PROVE Distinct(p[k], BucketKey)
      BY <1>8
    <3>1. \A i, j \in DOMAIN p[k] : i = j
      <4>1. CASE r <= Len(bs[k])
        <5>1. p[k] = <<bs[k][r]>>
          BY <1>6, <4>1
        <5>2. DOMAIN p[k] = {1}
          BY <5>1
        <5> QED
          BY <5>2
      <4>2. CASE ~(r <= Len(bs[k]))
        <5>1. p[k] = <<>>
          BY <1>6, <4>2
        <5> QED
          BY <5>1
      <4> QED
        BY <4>1, <4>2
    <3> QED
      BY <3>1 DEF Distinct
  <2>2. ASSUME NEW k \in DOMAIN p, NEW m \in DOMAIN p, NEW x \in ToSet(p[k]), NEW y \in ToSet(p[m]),
               BucketKey[x] = BucketKey[y]
        PROVE  k = m
    <3>1. k \in 1..n /\ m \in 1..n
      BY <1>8
    <3>2. x \in Task /\ x \in ToSet(bs[k]) /\ y \in Task /\ y \in ToSet(bs[m])
      BY <1>4, <1>9, <3>1
    <3>3. Bucket(x) = Bucket(y)
      BY <2>2, <3>2 DEF BucketKey
    <3> QED
      BY <1>1, <3>1, <3>2, <3>3
  <2> QED
    BY <2>1, <2>2 DEF PartsDistinct
<1>14. Distinct(FlattenSeq(p), BucketKey)
  BY <1>8, <1>13, FlattenDistinct
<1> QED
  BY <1>10, <1>12, <1>14 DEF p

(* All the turns have every task of the list once.                          *)
LEMMA TurnsHaveAll ==
  ASSUME NEW bs, NEW ts \in Seq(Task), IsBucketed(bs, ts)
  PROVE  /\ TurnsOf(bs, Len(ts)) \in Seq(Seq(Task)) /\ Len(TurnsOf(bs, Len(ts))) = Len(ts)
         /\ ToSet(FlattenSeq(TurnsOf(bs, Len(ts)))) = ToSet(ts)
         /\ Distinct(ts, KeyOf) => Distinct(FlattenSeq(TurnsOf(bs, Len(ts))), KeyOf)
<1> DEFINE n == Len(ts)
           u == TurnsOf(bs, n)
<1>1. n \in Nat
  OBVIOUS
<1>2. /\ bs \in Seq(Seq(Task)) /\ \A k \in 1..Len(bs) : Len(bs[k]) <= n
      /\ \A k, m \in 1..Len(bs) : \A x \in ToSet(bs[k]), y \in ToSet(bs[m]) : Bucket(x) = Bucket(y) <=> k = m
      /\ \A x : x \in ToSet(ts) <=> \E k \in 1..Len(bs) : x \in ToSet(bs[k])
      /\ Distinct(ts, KeyOf) => \A k \in 1..Len(bs) : Distinct(bs[k], KeyOf)
  <2> HIDE DEF KeyOf
  <2> QED
    BY DEF IsBucketed
<1>3. u = [r \in 1..n |-> FlattenSeq(TurnParts(bs, r))]
  BY DEF TurnsOf
<1> HIDE DEF n, u
<1>4. \A r \in 1..n : /\ u[r] \in Seq(Task) /\ Distinct(u[r], BucketKey)
                      /\ \A x : x \in ToSet(u[r]) <=> InTurn(bs, r, x)
  <2> SUFFICES ASSUME NEW r \in 1..n
               PROVE  /\ u[r] \in Seq(Task) /\ Distinct(u[r], BucketKey)
                      /\ \A x : x \in ToSet(u[r]) <=> InTurn(bs, r, x)
    OBVIOUS
  <2>1. r \in Nat /\ r >= 1
    BY <1>1
  <2> HIDE DEF BucketKey
  <2> QED
    BY <1>3, <2>1, TurnsAre
<1>5. u \in Seq(Seq(Task)) /\ Len(u) = n /\ DOMAIN u = 1..n
  <2>1. u \in [1..n -> Seq(Task)]
    BY <1>3, <1>4
  <2> QED
    BY <1>1, <2>1
<1>6. ToSet(FlattenSeq(u)) = UNION {ToSet(u[r]) : r \in 1..n}
  BY <1>5, FlattenElements
<1>7. \A k \in 1..Len(bs) : Len(bs[k]) \in Nat /\ DOMAIN bs[k] = 1..Len(bs[k])
  <2>1. \A k \in 1..Len(bs) : bs[k] \in Seq(Task)
    BY <1>2, SeqElements
  <2> QED
    BY <2>1, SeqElements
<1>8. \A x : x \in ToSet(FlattenSeq(u)) <=> x \in ToSet(ts)
  <2> SUFFICES ASSUME NEW x PROVE x \in ToSet(FlattenSeq(u)) <=> x \in ToSet(ts)
    OBVIOUS
  <2>1. ASSUME x \in ToSet(FlattenSeq(u)) PROVE x \in ToSet(ts)
    <3>1. PICK r \in 1..n : x \in ToSet(u[r])
      BY <1>6, <2>1
    <3>2. PICK k \in 1..Len(bs) : r <= Len(bs[k]) /\ x = bs[k][r]
      BY <1>4, <3>1 DEF InTurn
    <3>3. r \in DOMAIN bs[k]
      BY <1>1, <1>7, <3>2
    <3>4. x \in ToSet(bs[k])
      BY <3>2, <3>3 DEF ToSet
    <3> QED
      BY <1>2, <3>4
  <2>2. ASSUME x \in ToSet(ts) PROVE x \in ToSet(FlattenSeq(u))
    <3>1. PICK k \in 1..Len(bs) : x \in ToSet(bs[k])
      BY <1>2, <2>2
    <3>2. PICK r \in 1..Len(bs[k]) : x = bs[k][r]
      BY <1>7, <3>1 DEF ToSet
    <3>3. r \in 1..n /\ r <= Len(bs[k])
      BY <1>1, <1>2, <1>7
    <3>4. x \in ToSet(u[r])
      BY <1>4, <3>2, <3>3 DEF InTurn
    <3> QED
      BY <1>6, <3>3, <3>4
  <2> QED
    BY <2>1, <2>2
<1>9. ASSUME NEW x \in ToSet(ts) PROVE x \in Task
  BY SeqElements DEF ToSet
<1>10. ASSUME Distinct(ts, KeyOf) PROVE Distinct(FlattenSeq(u), KeyOf)
  <2>1. \A k \in 1..Len(bs) : Distinct(bs[k], KeyOf)
    BY <1>2, <1>10
  <2>2. ASSUME NEW r \in 1..n, NEW m \in 1..n, NEW x, NEW y, InTurn(bs, r, x), InTurn(bs, m, y),
               KeyOf[x] = KeyOf[y]
        PROVE  r = m /\ Bucket(x) = Bucket(y)
    <3>1. PICK k \in 1..Len(bs) : r <= Len(bs[k]) /\ x = bs[k][r]
      BY <2>2 DEF InTurn
    <3>2. PICK j \in 1..Len(bs) : m <= Len(bs[j]) /\ y = bs[j][m]
      BY <2>2 DEF InTurn
    <3>3. r \in DOMAIN bs[k] /\ m \in DOMAIN bs[j]
      BY <1>1, <1>7, <3>1, <3>2
    <3>4. x \in ToSet(bs[k]) /\ y \in ToSet(bs[j])
      BY <3>1, <3>2, <3>3 DEF ToSet
    <3>5. x \in Task /\ y \in Task
      BY <1>2, <1>9, <3>4
    <3>6. JobKey(x) = JobKey(y)
      BY <2>2, <3>5, KeyIs
    <3>7. Bucket(x) = Bucket(y)
      BY <3>6 DEF JobKey, Bucket
    <3>8. k = j
      BY <1>2, <3>4, <3>7
    <3> HIDE DEF KeyOf
    <3> QED
      BY <2>1, <2>2, <3>1, <3>2, <3>3, <3>7, <3>8 DEF Distinct
  <2>3. ASSUME NEW r \in 1..n PROVE Distinct(u[r], KeyOf)
    <3>1. u[r] \in Seq(Task)
      BY <1>4
    <3>2. \A i \in DOMAIN u[r] : u[r][i] \in Task /\ u[r][i] \in ToSet(u[r])
      BY <3>1, SeqElements DEF ToSet
    <3>3. ASSUME NEW i \in DOMAIN u[r], NEW j \in DOMAIN u[r], KeyOf[u[r][i]] = KeyOf[u[r][j]]
          PROVE  i = j
      <4>1. Bucket(u[r][i]) = Bucket(u[r][j])
        BY <1>4, <2>2, <3>2, <3>3
      <4>2. BucketKey[u[r][i]] = BucketKey[u[r][j]]
        BY <3>2, <4>1 DEF BucketKey
      <4>3. Distinct(u[r], BucketKey)
        BY <1>4
      <4> HIDE DEF BucketKey
      <4> QED
        BY <4>2, <4>3 DEF Distinct
    <3> QED
      BY <3>3 DEF Distinct
  <2>4. PartsDistinct(u, KeyOf)
    <3> HIDE DEF KeyOf
    <3>1. \A r, m \in 1..n : \A x \in ToSet(u[r]), y \in ToSet(u[m]) : KeyOf[x] = KeyOf[y] => r = m
      BY <1>4, <2>2
    <3> QED
      BY <1>5, <2>3, <3>1 DEF PartsDistinct
  <2> HIDE DEF KeyOf
  <2> QED
    BY <1>5, <2>4, FlattenDistinct
<1> QED
  BY <1>5, <1>8, <1>10 DEF u, n

(* Interleaving keeps the plan one.                                        *)
LEMMA TasksOrdered ==
  ASSUME PlanIInv, OrderTasks
  PROVE  UnderWay(tasks', partQ', tableQ', short', Displaced) /\ short' \in BOOLEAN
<1>1. SchemaOK /\ step = "resolve" /\ short \in BOOLEAN /\ partQ = <<>> /\ tableQ = <<>>
  BY DEF PlanIInv, PlanTypes, OrderTasks
<1>2. UnderWay(tasks, <<>>, <<>>, short, Displaced)
  BY <1>1 DEF PlanIInv, PlanUnderWay
<1> DEFINE s == InterleaveByTable(tasks)
<1>3. tasks' = s /\ partQ' = <<>> /\ tableQ' = <<>> /\ short' = short
  BY <1>1 DEF OrderTasks
<1>4. PlanInv(Wanted, tasks, {}, {}, short, Displaced)
  <2>1. ToSet(<<>>) = {}
    BY DEF ToSet
  <2> QED
    BY <1>2, <2>1 DEF UnderWay
<1>5. tasks \in Seq(Task) /\ Distinct(tasks, KeyOf) /\ \A x \in ToSet(tasks) : Known(Wanted, x)
  BY <1>4 DEF PlanInv, Listed
<1>6. s \in Seq(Task) /\ ToSet(s) = ToSet(tasks) /\ Distinct(s, KeyOf)
  <2>1. IsBucketed(Buckets(tasks), tasks)
    BY <1>5, TasksAreBucketed
  <2>2. s = FlattenSeq(TurnsOf(Buckets(tasks), Len(tasks)))
    BY <1>5, InterleaveIs
  <2> HIDE DEF s, KeyOf
  <2>3. TurnsOf(Buckets(tasks), Len(tasks)) \in Seq(Seq(Task))
    BY <1>5, <2>1, TurnsHaveAll
  <2>4. s \in Seq(Task)
    BY <2>2, <2>3, FlattenPlaces
  <2> QED
    BY <1>5, <2>1, <2>2, <2>4, TurnsHaveAll
<1> HIDE DEF s
<1>7. \A t : TasksOf(s, t) = TasksOf(tasks, t)
  BY <1>6 DEF TasksOf
<1>8. Waiting(Wanted, s, {}, {}, Displaced)
  BY DEF Waiting
<1>9. PlanInv(Wanted, s, {}, {}, short, Displaced)
  BY <1>4, <1>5, <1>6, <1>7, <1>8 DEF PlanInv, Listed, Sound
<1>10. <<>> \in Seq(Place) /\ Ascend(<<>>) /\ ToSet(<<>>) = {}
  BY DEF Ascend, ToSet
<1>11. UnderWay(s, <<>>, <<>>, short, Displaced)
  BY <1>9, <1>10 DEF UnderWay
<1> QED
  BY <1>1, <1>3, <1>11
-----------------------------------------------------------------------------
(* A set that is mapped to the numbers up to n, no two elements to the same *)
(* one, has at most n elements.                                             *)
LEMMA AtMost ==
  ASSUME NEW S, NEW n \in Nat, NEW f, \A x \in S : f[x] \in 1..n,
         \A x, y \in S : f[x] = f[y] => x = y
  PROVE  IsFiniteSet(S) /\ Cardinality(S) <= n
<1> DEFINE g == [x \in S |-> f[x]]
<1>1. g \in Injection(S, 1..n)
  <2>1. g \in [S -> 1..n] /\ \A x, y \in S : g[x] = g[y] => x = y
    OBVIOUS
  <2> QED
    BY <2>1 DEF Injection, IsInjective
<1>2. IsFiniteSet(1..n) /\ Cardinality(1..n) = n
  <2>1. IsFiniteSet(1..n) /\ Cardinality(1..n) = IF 1 > n THEN 0 ELSE n - 1 + 1
    BY FS_Interval
  <2> QED
    BY <2>1
<1>3. IsFiniteSet(S) /\ Cardinality(S) <= Cardinality(1..n)
  BY <1>1, <1>2, FS_Injection
<1> QED
  BY <1>2, <1>3

(* ... and at least n, if the numbers are mapped into it in that way.      *)
LEMMA AtLeast ==
  ASSUME NEW S, IsFiniteSet(S), NEW n \in Nat, NEW f, \A i \in 1..n : f[i] \in S,
         \A i, j \in 1..n : f[i] = f[j] => i = j
  PROVE  n <= Cardinality(S)
<1> DEFINE g == [i \in 1..n |-> f[i]]
<1>1. g \in Injection(1..n, S)
  <2>1. g \in [1..n -> S] /\ \A i, j \in 1..n : g[i] = g[j] => i = j
    OBVIOUS
  <2> QED
    BY <2>1 DEF Injection, IsInjective
<1>2. Cardinality(1..n) = n
  <2>1. Cardinality(1..n) = IF 1 > n THEN 0 ELSE n - 1 + 1
    BY FS_Interval
  <2> QED
    BY <2>1
<1>3. Cardinality(1..n) <= Cardinality(S)
  BY <1>1, FS_Injection
<1> QED
  BY <1>2, <1>3

(* A stuttering step keeps the invariant,                                  *)
LEMMA PlanStays ==
  ASSUME PlanIInv, UNCHANGED vars
  PROVE  PlanIInv'
<1>1. /\ SchemaOK /\ PlanTypes /\ (step = "build" => tasks = <<>> /\ ~short)
      /\ (step # "build" => PlanUnderWay) /\ (step = "ready" => partQ = <<>> /\ tableQ = <<>>)
  BY DEF PlanIInv
<1>2. /\ schema' = schema /\ strategy' = strategy /\ step' = step /\ ddl' = ddl /\ constraints' = constraints
      /\ tasks' = tasks /\ partQ' = partQ /\ tableQ' = tableQ /\ short' = short
  BY DEF vars
<1>3. SchemaOK' /\ PlanTypes'
  <2> HIDE DEF Place
  <2> QED
    BY <1>1, <1>2 DEF SchemaOK, PlanTypes
<1>4. CASE step = "build"
  BY <1>1, <1>2, <1>3, <1>4 DEF PlanIInv
<1>5. CASE step # "build"
  <2>1. step' \in {"resolve", "ready"} /\ short' \in BOOLEAN /\ ddl' \in Seq(Nat) /\ constraints' \in Seq(Nat)
    BY <1>1, <1>2, <1>5 DEF PlanTypes
  <2>2. UnderWay(tasks, partQ, tableQ, short, Displaced)
    BY <1>1, <1>5 DEF PlanUnderWay
  <2>3. UnderWay(tasks', partQ', tableQ', short', Displaced)
    BY <1>2, <2>2
  <2>4. PlanUnderWay'
    BY <1>1, <1>2, <2>1, <2>3, StillUnderWay
  <2> QED
    BY <1>1, <1>2, <1>3, <1>5, <2>4 DEF PlanIInv
<1> QED
  BY <1>4, <1>5

(* every action of Next keeps it,                                          *)
LEMMA PlanGoesOn ==
  ASSUME PlanIInv, Next
  PROVE  PlanIInv'
<1>1. CASE Build
  BY <1>1, BuildPlans
<1>2. ASSUME UnderWay(tasks', partQ', tableQ', short', Displaced), short' \in BOOLEAN,
             step' \in {"resolve", "ready"}, UNCHANGED <<schema, strategy, ddl, constraints>>,
             step' = "ready" => partQ' = <<>> /\ tableQ' = <<>>
      PROVE  PlanIInv'
  <2>1. SchemaOK /\ PlanTypes
    BY DEF PlanIInv
  <2>2. ddl' \in Seq(Nat) /\ constraints' \in Seq(Nat) /\ schema' = schema /\ strategy' = strategy
    BY <1>2, <2>1 DEF PlanTypes
  <2>3. SchemaOK' /\ PlanTypes' /\ PlanUnderWay'
    BY <1>2, <2>1, <2>2, StillUnderWay
  <2>4. step' # "build"
    BY <1>2
  <2> QED
    BY <1>2, <2>3, <2>4 DEF PlanIInv
<1>3. CASE ResolvePartitionTable
  <2>1. step' = "resolve" /\ UNCHANGED <<schema, strategy, ddl, constraints>>
    BY <1>3 DEF ResolvePartitionTable, Resolving
  <2> QED
    BY <1>2, <1>3, <2>1, PartsResolved
<1>4. CASE ResolveTable
  <2>1. step' = "resolve" /\ UNCHANGED <<schema, strategy, ddl, constraints>>
    BY <1>4 DEF ResolveTable, Resolving
  <2> QED
    BY <1>2, <1>4, <2>1, TableResolved
<1>5. CASE ResolveOraHash
  <2>1. step' = "resolve" /\ UNCHANGED <<schema, strategy, ddl, constraints>>
    BY <1>5 DEF ResolveOraHash
  <2> QED
    BY <1>2, <1>5, <2>1, AllResolvedByHash
<1>6. CASE OrderTasks
  <2>1. /\ step' = "ready" /\ UNCHANGED <<schema, strategy, ddl, constraints>>
        /\ partQ' = <<>> /\ tableQ' = <<>>
    BY <1>6 DEF OrderTasks
  <2> QED
    BY <1>2, <1>6, <2>1, TasksOrdered
<1> QED
  BY <1>1, <1>3, <1>4, <1>5, <1>6 DEF Next

(* so it holds of every plan.                                              *)
LEMMA PlanInvariant == Spec => []PlanIInv
<1>1. Init => PlanIInv
  BY InitPlan
<1>2. PlanIInv /\ [Next]_vars => PlanIInv'
  BY PlanGoesOn, PlanStays
<1> QED
  BY <1>1, <1>2, PTL DEF Spec

(* What the invariant says of the tasks of the list.                        *)
LEMMA TasksOfPlan ==
  ASSUME PlanIInv
  PROVE  /\ tasks \in Seq(Task) /\ Distinct(tasks, KeyOf) /\ DOMAIN tasks = 1..Len(tasks)
         /\ \A i \in DOMAIN tasks : tasks[i] \in Task /\ (tasks[i].kind = "hash" => tasks[i].id < tasks[i].of)
         /\ \A i \in DOMAIN tasks : \E t \in Wanted : Bounded(TasksOf(tasks, t)) /\ tasks[i] \in TasksOf(tasks, t)
         /\ step = "ready" /\ ~Displaced => \A t \in Wanted : ReadsWell(TasksOf(tasks, t), t, short)
<1>1. CASE step = "build"
  <2>1. tasks = <<>>
    BY <1>1 DEF PlanIInv
  <2>2. <<>> \in Seq(Task) /\ DOMAIN <<>> = {} /\ DOMAIN <<>> = 1..Len(<<>>)
    OBVIOUS
  <2>3. Distinct(<<>>, KeyOf)
    BY DEF Distinct
  <2> QED
    BY <1>1, <2>1, <2>2, <2>3
<1>2. CASE step # "build"
  <2>1. PlanInv(Wanted, tasks, ToSet(partQ), ToSet(tableQ), short, Displaced)
    BY <1>2 DEF PlanIInv, PlanUnderWay, UnderWay
  <2>2. tasks \in Seq(Task) /\ Distinct(tasks, KeyOf) /\ \A x \in ToSet(tasks) : Known(Wanted, x)
    BY <2>1 DEF PlanInv, Listed
  <2>3. DOMAIN tasks = 1..Len(tasks) /\ \A i \in DOMAIN tasks : tasks[i] \in Task /\ tasks[i] \in ToSet(tasks)
    BY <2>2, SeqElements DEF ToSet
  <2>4. \A t \in Wanted : Sound(tasks, t, short, Displaced)
    BY <2>1 DEF PlanInv
  <2>5. ASSUME NEW i \in DOMAIN tasks
        PROVE  \E t \in Wanted : Bounded(TasksOf(tasks, t)) /\ tasks[i] \in TasksOf(tasks, t)
    <3>1. PICK t \in Wanted : tasks[i].table = t.name
      BY <2>2, <2>3 DEF Known
    <3> QED
      BY <2>3, <2>4, <3>1 DEF Sound, TasksOf
  <2>6. \A i \in DOMAIN tasks : tasks[i].kind = "hash" => tasks[i].id < tasks[i].of
    BY <2>2, <2>3 DEF Known
  <2>7. ~Displaced => \A t \in Wanted : ReadsWell(TasksOf(tasks, t), t, short)
    BY <2>4 DEF Sound
  <2> HIDE DEF KeyOf
  <2> QED
    BY <2>2, <2>3, <2>5, <2>6, <2>7
<1> QED
  BY <1>1, <1>2

(* Every schema and chunker: the plan is typed, its hash tasks of one of    *)
(* their buckets.                                                           *)
THEOREM PlanIsTyped == Spec => []TypeOK
<1>1. PlanIInv => TypeOK
  <2> SUFFICES ASSUME PlanIInv PROVE TypeOK
    OBVIOUS
  <2> HIDE DEF Place
  <2>1. /\ schema \in Schemas /\ strategy \in Strategies /\ step \in {"build", "resolve", "ready"}
        /\ ddl \in Seq(Nat) /\ constraints \in Seq(Nat)
        /\ partQ \in Seq(Place) /\ tableQ \in Seq(Place) /\ short \in BOOLEAN
    BY DEF PlanIInv, PlanTypes, SchemaOK
  <2>2. tasks \in Seq(Task) /\ \A i \in DOMAIN tasks : tasks[i].kind = "hash" => tasks[i].id < tasks[i].of
    BY TasksOfPlan
  <2> QED
    BY <2>1, <2>2 DEF TypeOK
<1> QED
  BY <1>1, PlanInvariant, PTL

(* ... no two tasks have one job key, displaced placeholders or not.        *)
THEOREM EveryTaskHasItsJob == Spec => []JobsAreDistinct
<1>1. PlanIInv => JobsAreDistinct
  <2> SUFFICES ASSUME PlanIInv, NEW i \in DOMAIN tasks, NEW j \in DOMAIN tasks,
                      JobKey(tasks[i]) = JobKey(tasks[j])
               PROVE  i = j
    BY DEF JobsAreDistinct
  <2>1. Distinct(tasks, KeyOf) /\ tasks[i] \in Task /\ tasks[j] \in Task
    BY TasksOfPlan
  <2>2. KeyOf[tasks[i]] = KeyOf[tasks[j]]
    BY <2>1, KeyIs
  <2> QED
    BY <2>1, <2>2 DEF Distinct
<1> QED
  BY <1>1, PlanInvariant, PTL

(* ... and no bucket of tasks has more chunks than its limit.               *)
THEOREM BucketsAreBounded == Spec => []ChunksAreBounded
<1>1. PlanIInv => ChunksAreBounded
  <2> DEFINE J(i) == {j \in DOMAIN tasks : Bucket(tasks[j]) = Bucket(tasks[i]) /\ tasks[j].kind # "whole"}
  <2> SUFFICES ASSUME PlanIInv, NEW i \in DOMAIN tasks, tasks[i].kind # "whole"
               PROVE  Cardinality(J(i)) <= Limit(tasks[i].part)
    BY DEF ChunksAreBounded, Limit
  <2>1. /\ tasks \in Seq(Task) /\ Distinct(tasks, KeyOf)
        /\ \A j \in DOMAIN tasks : tasks[j] \in Task /\ tasks[j] \in ToSet(tasks)
    <3>1. tasks \in Seq(Task) /\ Distinct(tasks, KeyOf) /\ \A j \in DOMAIN tasks : tasks[j] \in Task
      BY TasksOfPlan
    <3> QED
      BY <3>1 DEF ToSet
  <2>2. PICK t \in Wanted : Bounded(TasksOf(tasks, t)) /\ tasks[i] \in TasksOf(tasks, t)
    BY TasksOfPlan
  <2> DEFINE p == tasks[i].part
  <2>3. p \in Nat /\ tasks[i].table = t.name
    BY <2>1, <2>2 DEF Task, TasksOf
  <2>4. PICK L \in Seq(Task) : Within(TasksOf(tasks, t), p, L)
    BY <2>2, <2>3 DEF Bounded
  <2>5. Len(L) \in Nat /\ DOMAIN L = 1..Len(L) /\ Len(L) <= Limit(p)
    BY <2>4 DEF Within
  <2> DEFINE f == [j \in J(i) |-> CHOOSE k \in 1..Len(L) : L[k] = tasks[j]]
  <2>6. ASSUME NEW j \in J(i) PROVE f[j] \in 1..Len(L) /\ L[f[j]] = tasks[j]
    <3>1. j \in DOMAIN tasks /\ tasks[j].table = t.name /\ tasks[j].part = p /\ tasks[j].kind # "whole"
      BY <2>3 DEF Bucket
    <3>2. tasks[j] \in ToSet(L)
      BY <2>1, <2>4, <3>1 DEF Within, TasksOf
    <3>3. \E k \in 1..Len(L) : L[k] = tasks[j]
      BY <2>5, <3>2 DEF ToSet
    <3> QED
      BY <3>3
  <2>7. \A j, k \in J(i) : f[j] = f[k] => j = k
    <3> SUFFICES ASSUME NEW j \in J(i), NEW k \in J(i), f[j] = f[k] PROVE j = k
      OBVIOUS
    <3>1. tasks[j] = tasks[k]
      BY <2>6
    <3>2. j \in DOMAIN tasks /\ k \in DOMAIN tasks
      OBVIOUS
    <3> HIDE DEF KeyOf
    <3> QED
      BY <2>1, <3>1, <3>2 DEF Distinct
  <2> HIDE DEF f, J
  <2>8. Cardinality(J(i)) <= Len(L)
    BY <2>5, <2>6, <2>7, AtMost
  <2>9. Limit(p) \in Nat
    BY Limits DEF Limit
  <2>10. Cardinality(J(i)) \in Nat
    BY <2>5, <2>6, <2>7, AtMost, FS_CardinalityType
  <2> QED
    BY <2>5, <2>8, <2>9, <2>10
<1> QED
  BY <1>1, PlanInvariant, PTL

(* ... and where no placeholder is displaced, every selected row has one    *)
(* reader, or none if a list of chunks was short; the others have none.     *)
THEOREM RowsHaveOneReader == Spec => []RowsReadOnceInPlace
<1>1. PlanIInv => RowsReadOnceInPlace
  <2> SUFFICES ASSUME PlanIInv, step = "ready", ~Displaced, NEW t \in Wanted, NEW r \in RowsOf(t)
               PROVE  LET n == Cardinality(Readers(t, r))
                      IN  IF Selected(t, r) THEN n <= 1 /\ (n = 0 => short) ELSE n = 0
    BY DEF RowsReadOnceInPlace
  <2> DEFINE S == TasksOf(tasks, t)
             R == Readers(t, r)
  <2>1. /\ Distinct(tasks, KeyOf) /\ DOMAIN tasks = 1..Len(tasks)
        /\ \A i \in DOMAIN tasks : tasks[i] \in ToSet(tasks)
    BY TasksOfPlan DEF ToSet
  <2>2. ReadsWell(S, t, short)
    BY TasksOfPlan
  <2>3. /\ ReadOnce(S, t, r) /\ (~Selected(t, r) => ~IsRead(S, t, r))
        /\ (Selected(t, r) /\ ~short => IsRead(S, t, r))
    BY <2>2 DEF ReadsWell
  <2>4. R = {i \in DOMAIN tasks : Reads(tasks[i], t, r)}
    BY DEF Readers
  <2>5. \A i \in R : i \in DOMAIN tasks /\ tasks[i] \in S /\ Reads(tasks[i], t, r)
    BY <2>1, <2>4 DEF TasksOf, Reads
  <2>6. \A i, j \in R : i = j
    <3> SUFFICES ASSUME NEW i \in R, NEW j \in R PROVE i = j
      OBVIOUS
    <3>1. tasks[i] = tasks[j]
      BY <2>3, <2>5 DEF ReadOnce
    <3> HIDE DEF KeyOf
    <3> QED
      BY <2>1, <2>5, <3>1 DEF Distinct
  <2>7. IsRead(S, t, r) => R # {}
    <3> SUFFICES ASSUME IsRead(S, t, r) PROVE R # {}
      OBVIOUS
    <3>1. PICK x \in S : Reads(x, t, r)
      BY DEF IsRead
    <3>2. PICK i \in DOMAIN tasks : x = tasks[i]
      BY <3>1 DEF TasksOf, ToSet
    <3> QED
      BY <2>4, <3>1, <3>2
  <2>8. R # {} => IsRead(S, t, r)
    BY <2>5 DEF IsRead
  <2> HIDE DEF R, S
  <2>9. CASE R = {}
    <3>1. Cardinality(R) = 0
      BY <2>9, FS_EmptySet
    <3> QED
      BY <2>3, <2>7, <2>9, <3>1 DEF R
  <2>10. CASE R # {}
    <3>1. PICK i : R = {i}
      BY <2>6, <2>10
    <3>2. Cardinality(R) = 1
      BY <3>1, FS_Singleton
    <3>3. Selected(t, r)
      BY <2>3, <2>8, <2>10
    <3> QED
      BY <3>2, <3>3 DEF R
  <2> QED
    BY <2>9, <2>10
<1> QED
  BY <1>1, PlanInvariant, PTL
-----------------------------------------------------------------------------
(* Which turn the task at a place of the list s is of, when the turns u     *)
(* make up the list.                                                        *)
TurnAt(T, u, s) ==
  /\ \A p \in 1..Len(s) : T[p] \in 1..Len(u) /\ s[p] \in ToSet(u[T[p]])
  /\ \A p, q \in 1..Len(s) : p <= q => T[p] <= T[q]
  /\ \A key : (\A k \in 1..Len(u) : Distinct(u[k], key)) =>
       \A p, q \in 1..Len(s) : T[p] = T[q] /\ key[s[p]] = key[s[q]] => p = q
  /\ \A k \in 1..Len(u) : \A x \in ToSet(u[k]) : \E p \in 1..Len(s) : T[p] = k /\ s[p] = x

(* Every place of the flattened turns is of one turn, in order.            *)
LEMMA PlacesAreTurns ==
  ASSUME NEW E, NEW u \in Seq(Seq(E))
  PROVE  \E T : TurnAt(T, u, FlattenSeq(u))
<1> DEFINE s == FlattenSeq(u)
           m == Len(u)
           n == Len(s)
<1>1. s \in Seq(E) /\ \E off \in [0..Len(u) -> Nat] : Placed(off, u, s)
  BY FlattenPlaces
<1>2. PICK off \in [0..Len(u) -> Nat] : Placed(off, u, s)
  BY <1>1
<1> HIDE DEF s
<1>3. (\A k, l \in 0..Len(u) : k <= l => off[k] <= off[l]) /\ Covers(off, u, s)
  BY <1>2, PlacesAscend, PlacesCover
<1>4. /\ m \in Nat /\ n \in Nat
      /\ \A k \in 1..m : u[k] \in Seq(E) /\ Len(u[k]) \in Nat /\ DOMAIN u[k] = 1..Len(u[k])
  <2>1. m \in Nat /\ n \in Nat
    BY <1>1
  <2>2. \A k \in 1..m : u[k] \in Seq(E)
    BY SeqElements
  <2>3. \A k \in 1..m : Len(u[k]) \in Nat /\ DOMAIN u[k] = 1..Len(u[k])
    BY <2>2, SeqElements
  <2> QED
    BY <2>1, <2>2, <2>3
<1>5. \A k \in 1..m : /\ off[k] = off[k - 1] + Len(u[k]) /\ off[k] \in Nat /\ off[k - 1] \in Nat
                      /\ \A j \in 1..Len(u[k]) : s[off[k - 1] + j] = u[k][j]
  <2> SUFFICES ASSUME NEW k \in 1..m
               PROVE  /\ off[k] = off[k - 1] + Len(u[k]) /\ off[k] \in Nat /\ off[k - 1] \in Nat
                      /\ \A j \in 1..Len(u[k]) : s[off[k - 1] + j] = u[k][j]
    OBVIOUS
  <2>1. k \in 0..m /\ k - 1 \in 0..m
    BY <1>4
  <2> QED
    BY <1>2, <2>1 DEF Placed
<1>6. /\ \A p \in 1..n : \E k \in 1..m : \E j \in 1..Len(u[k]) : p = off[k - 1] + j
      /\ \A k \in 1..m : \A j \in 1..Len(u[k]) : off[k - 1] + j \in 1..n
  BY <1>3 DEF Covers
<1> HIDE DEF m, n
<1> DEFINE Is(k, p) == \E j \in 1..Len(u[k]) : p = off[k - 1] + j
           T == [p \in 1..n |-> CHOOSE k \in 1..m : Is(k, p)]
<1>7. \A p \in 1..n : T[p] \in 1..m /\ Is(T[p], p)
  <2> SUFFICES ASSUME NEW p \in 1..n PROVE T[p] \in 1..m /\ Is(T[p], p)
    OBVIOUS
  <2>1. \E k \in 1..m : Is(k, p)
    BY <1>6
  <2> HIDE DEF Is
  <2>2. T[p] = CHOOSE k \in 1..m : Is(k, p)
    OBVIOUS
  <2> QED
    BY <2>1, <2>2
<1>8. ASSUME NEW k \in 1..m, NEW p \in 1..n, Is(k, p)
      PROVE  off[k - 1] < p /\ p <= off[k] /\ p - off[k - 1] \in 1..Len(u[k]) /\ s[p] = u[k][p - off[k - 1]]
  <2>1. PICK j \in 1..Len(u[k]) : p = off[k - 1] + j
    BY <1>8
  <2>2. off[k] = off[k - 1] + Len(u[k]) /\ off[k - 1] \in Nat /\ Len(u[k]) \in Nat /\ s[off[k - 1] + j] = u[k][j]
    BY <1>4, <1>5
  <2>3. p - off[k - 1] = j
    BY <2>1, <2>2
  <2>4. off[k - 1] < p /\ p <= off[k]
    BY <2>1, <2>2
  <2> QED
    BY <2>1, <2>2, <2>3, <2>4
<1>9. ASSUME NEW k \in 1..m, NEW l \in 1..m, NEW p \in 1..n, NEW q \in 1..n, Is(k, p), Is(l, q), p <= q
      PROVE  k <= l
  <2> SUFFICES ASSUME ~(k <= l) PROVE FALSE
    OBVIOUS
  <2>1. l <= k - 1 /\ l \in 0..m /\ k - 1 \in 0..m
    BY <1>4
  <2>2. off[l] <= off[k - 1]
    BY <1>3, <2>1 DEF m
  <2>3. off[k - 1] < p /\ q <= off[l]
    BY <1>8, <1>9
  <2>4. off[l] \in Nat /\ off[k - 1] \in Nat
    BY <1>5
  <2>5. p \in Int /\ q \in Int /\ p <= q
    BY <1>9
  <2> QED
    BY <2>2, <2>3, <2>4, <2>5
<1> HIDE DEF T, Is
<1>10. \A p \in 1..n : s[p] \in ToSet(u[T[p]])
  <2> SUFFICES ASSUME NEW p \in 1..n PROVE s[p] \in ToSet(u[T[p]])
    OBVIOUS
  <2>1. T[p] \in 1..m /\ Is(T[p], p)
    BY <1>7
  <2>2. p - off[T[p] - 1] \in DOMAIN u[T[p]] /\ s[p] = u[T[p]][p - off[T[p] - 1]]
    BY <1>4, <1>8, <2>1
  <2> QED
    BY <2>2 DEF ToSet
<1>11. \A p, q \in 1..n : p <= q => T[p] <= T[q]
  BY <1>7, <1>9
<1>12. ASSUME NEW key, \A k \in 1..m : Distinct(u[k], key),
              NEW p \in 1..n, NEW q \in 1..n, T[p] = T[q], key[s[p]] = key[s[q]]
       PROVE  p = q
  <2> DEFINE k == T[p]
  <2>1. k \in 1..m /\ Is(k, p) /\ Is(k, q)
    BY <1>7, <1>12
  <2> HIDE DEF k
  <2>2. /\ p - off[k - 1] \in DOMAIN u[k] /\ s[p] = u[k][p - off[k - 1]]
        /\ q - off[k - 1] \in DOMAIN u[k] /\ s[q] = u[k][q - off[k - 1]]
    BY <1>4, <1>8, <2>1
  <2>3. Distinct(u[k], key)
    BY <1>12, <2>1
  <2>4. p - off[k - 1] = q - off[k - 1]
    BY <1>12, <2>2, <2>3 DEF Distinct
  <2>5. off[k - 1] \in Nat
    BY <1>5, <2>1
  <2> QED
    BY <1>4, <2>4, <2>5
<1>13. ASSUME NEW k \in 1..m, NEW x \in ToSet(u[k]) PROVE \E p \in 1..n : T[p] = k /\ s[p] = x
  <2>1. PICK j \in 1..Len(u[k]) : x = u[k][j]
    BY <1>4 DEF ToSet
  <2> DEFINE p == off[k - 1] + j
  <2>2. p \in 1..n /\ s[p] = x
    BY <1>5, <1>6, <2>1
  <2>3. Is(k, p)
    BY DEF Is
  <2> HIDE DEF p
  <2>4. T[p] \in 1..m /\ Is(T[p], p) /\ p <= p
    BY <1>4, <1>7, <2>2
  <2>5. T[p] <= k /\ k <= T[p]
    BY <1>9, <2>2, <2>3, <2>4
  <2>6. T[p] = k
    BY <1>4, <2>4, <2>5
  <2> QED
    BY <2>2, <2>6
<1>14. TurnAt(T, u, s)
  <2>1. \A key : (\A k \in 1..m : Distinct(u[k], key)) =>
          \A p, q \in 1..n : T[p] = T[q] /\ key[s[p]] = key[s[q]] => p = q
    BY <1>12
  <2>2. \A k \in 1..m : \A x \in ToSet(u[k]) : \E p \in 1..n : T[p] = k /\ s[p] = x
    BY <1>13
  <2> QED
    BY <1>7, <1>10, <1>11, <2>1, <2>2 DEF TurnAt, m, n
<1> QED
  BY <1>14 DEF s

(* How many of the first n tasks are of bucket b; none is far ahead.        *)
TakenOf(s, b, n) == Cardinality({p \in 1..n : Bucket(s[p]) = b})
Spread(s) ==
  \A n \in DOMAIN s : \A i, j \in DOMAIN s :
    i > n => TakenOf(s, Bucket(s[j]), n) <= TakenOf(s, Bucket(s[i]), n) + 1

(* Buckets that take turns are never more than one task apart.             *)
LEMMA TurnsSpread ==
  ASSUME NEW ts \in Seq(Task), NEW bs, IsBucketed(bs, ts)
  PROVE  Spread(FlattenSeq(TurnsOf(bs, Len(ts))))
<1> DEFINE u == TurnsOf(bs, Len(ts))
           s == FlattenSeq(u)
           m == Len(u)
<1>1. /\ bs \in Seq(Seq(Task))
      /\ \A k, l \in 1..Len(bs) : \A x \in ToSet(bs[k]), y \in ToSet(bs[l]) : Bucket(x) = Bucket(y) <=> k = l
  BY DEF IsBucketed
<1>2. u \in Seq(Seq(Task)) /\ m = Len(ts) /\ m \in Nat
  BY TurnsHaveAll
<1>3. \A r \in 1..m : /\ u[r] = FlattenSeq(TurnParts(bs, r)) /\ Distinct(u[r], BucketKey)
                      /\ \A x : x \in ToSet(u[r]) <=> InTurn(bs, r, x)
  <2> SUFFICES ASSUME NEW r \in 1..m
               PROVE  /\ u[r] = FlattenSeq(TurnParts(bs, r)) /\ Distinct(u[r], BucketKey)
                      /\ \A x : x \in ToSet(u[r]) <=> InTurn(bs, r, x)
    OBVIOUS
  <2>1. r \in Nat /\ r >= 1
    BY <1>2
  <2>2. u[r] = FlattenSeq(TurnParts(bs, r))
    BY <1>2 DEF TurnsOf
  <2> HIDE DEF u, BucketKey
  <2> QED
    BY <2>1, <2>2, TurnsAre
<1> SUFFICES Spread(s)
  OBVIOUS
<1> HIDE DEF u
<1>4. s \in Seq(Task)
  BY <1>2, FlattenPlaces
<1>5. PICK T : TurnAt(T, u, s)
  BY <1>2, PlacesAreTurns
<1> HIDE DEF s, m
<1>6. Len(s) \in Nat /\ DOMAIN s = 1..Len(s) /\ \A p \in 1..Len(s) : s[p] \in Task
  BY <1>4, SeqElements
<1>7. /\ \A p \in 1..Len(s) : T[p] \in 1..m /\ InTurn(bs, T[p], s[p])
      /\ \A p, q \in 1..Len(s) : p <= q => T[p] <= T[q]
      /\ \A k \in 1..m : \A x : InTurn(bs, k, x) => \E p \in 1..Len(s) : T[p] = k /\ s[p] = x
  BY <1>3, <1>5 DEF TurnAt, m
<1>8. \A p, q \in 1..Len(s) : T[p] = T[q] /\ Bucket(s[p]) = Bucket(s[q]) => p = q
  <2>1. \A p, q \in 1..Len(s) : T[p] = T[q] /\ BucketKey[s[p]] = BucketKey[s[q]] => p = q
    <3> HIDE DEF BucketKey
    <3> QED
      BY <1>3, <1>5 DEF TurnAt, m
  <2>2. \A p \in 1..Len(s) : BucketKey[s[p]] = Bucket(s[p])
    BY <1>6 DEF BucketKey
  <2> HIDE DEF BucketKey
  <2> QED
    BY <2>1, <2>2
<1>9. \A k \in 1..Len(bs) : \A r \in 1..Len(bs[k]) : bs[k][r] \in ToSet(bs[k]) /\ Len(bs[k]) \in Nat
  <2> SUFFICES ASSUME NEW k \in 1..Len(bs), NEW r \in 1..Len(bs[k])
               PROVE  bs[k][r] \in ToSet(bs[k]) /\ Len(bs[k]) \in Nat
    OBVIOUS
  <2>1. bs[k] \in Seq(Task)
    BY <1>1, SeqElements
  <2>2. DOMAIN bs[k] = 1..Len(bs[k])
    BY <2>1
  <2> QED
    BY <2>1, <2>2 DEF ToSet
<1> SUFFICES ASSUME NEW n \in 1..Len(s), NEW i \in 1..Len(s), NEW j \in 1..Len(s), i > n
             PROVE  TakenOf(s, Bucket(s[j]), n) <= TakenOf(s, Bucket(s[i]), n) + 1
  BY <1>6 DEF Spread
<1> DEFINE A(b) == {p \in 1..n : Bucket(s[p]) = b}
           R == T[n]
<1>10. R \in 1..m /\ R \in Nat /\ R - 1 \in Nat
  BY <1>2, <1>7
<1>11. \A p \in 1..n : p \in 1..Len(s) /\ p <= n
  BY <1>6
<1> HIDE DEF R
<1>12. \A b : IsFiniteSet(A(b)) /\ Cardinality(A(b)) <= R /\ Cardinality(A(b)) \in Nat
  <2> SUFFICES ASSUME NEW b
               PROVE  IsFiniteSet(A(b)) /\ Cardinality(A(b)) <= R /\ Cardinality(A(b)) \in Nat
    OBVIOUS
  <2>1. \A p \in A(b) : T[p] \in 1..R
    <3> SUFFICES ASSUME NEW p \in A(b) PROVE T[p] \in 1..R
      OBVIOUS
    <3>1. T[p] \in 1..m /\ T[p] <= R
      BY <1>7, <1>11 DEF R
    <3> QED
      BY <1>2, <1>10, <3>1
  <2>2. \A p, q \in A(b) : T[p] = T[q] => p = q
    BY <1>8, <1>11
  <2> HIDE DEF A
  <2>3. IsFiniteSet(A(b)) /\ Cardinality(A(b)) <= R
    BY <1>10, <2>1, <2>2, AtMost
  <2> QED
    BY <2>3, FS_CardinalityType
<1>13. R - 1 <= Cardinality(A(Bucket(s[i])))
  <2> DEFINE b == Bucket(s[i])
             f == [r \in 1..(R - 1) |-> CHOOSE p \in A(b) : T[p] = r]
  <2>1. PICK k \in 1..Len(bs) : T[i] <= Len(bs[k]) /\ s[i] = bs[k][T[i]]
    BY <1>7 DEF InTurn
  <2>2. T[i] \in 1..m /\ R <= T[i]
    BY <1>6, <1>7 DEF R
  <2>3. s[i] \in ToSet(bs[k]) /\ Len(bs[k]) \in Nat
    <3>1. bs[k] \in Seq(Task)
      BY <1>1, SeqElements
    <3>2. T[i] \in 1..Len(bs[k])
      BY <1>2, <2>1, <2>2, <3>1
    <3> QED
      BY <1>9, <2>1, <3>2
  <2>4. ASSUME NEW r \in 1..(R - 1) PROVE \E p \in A(b) : T[p] = r
    <3>1. r \in 1..m /\ r <= Len(bs[k]) /\ r \in 1..Len(bs[k]) /\ r < R
      BY <1>2, <1>10, <2>1, <2>2, <2>3
    <3>2. InTurn(bs, r, bs[k][r])
      BY <3>1 DEF InTurn
    <3>3. PICK p \in 1..Len(s) : T[p] = r /\ s[p] = bs[k][r]
      BY <1>7, <3>1, <3>2
    <3>4. p < n
      <4>1. SUFFICES ASSUME n <= p PROVE FALSE
        BY <1>6
      <4>2. R <= T[p]
        BY <1>7, <4>1 DEF R
      <4> QED
        BY <1>10, <3>1, <3>3, <4>2
    <3>5. p \in 1..n
      BY <1>6, <3>4
    <3>6. bs[k][r] \in ToSet(bs[k])
      BY <1>9, <3>1
    <3>7. Bucket(s[p]) = Bucket(s[i])
      BY <1>1, <2>3, <3>3, <3>6
    <3> QED
      BY <3>3, <3>5, <3>7
  <2> HIDE DEF A
  <2>5. \A r \in 1..(R - 1) : f[r] \in A(b) /\ T[f[r]] = r
    <3> SUFFICES ASSUME NEW r \in 1..(R - 1) PROVE f[r] \in A(b) /\ T[f[r]] = r
      OBVIOUS
    <3>1. f[r] = CHOOSE p \in A(b) : T[p] = r
      OBVIOUS
    <3> QED
      BY <2>4, <3>1
  <2> HIDE DEF f, b
  <2>6. \A r, q \in 1..(R - 1) : f[r] = f[q] => r = q
    BY <2>5
  <2>7. R - 1 <= Cardinality(A(b))
    BY <1>10, <1>12, <2>5, <2>6, AtLeast
  <2> QED
    BY <2>7 DEF b
<1> DEFINE x == Cardinality(A(Bucket(s[j])))
           y == Cardinality(A(Bucket(s[i])))
<1>14. x <= R /\ x \in Nat /\ y \in Nat /\ R - 1 <= y
  BY <1>12, <1>13
<1> HIDE DEF x, y
<1>15. x <= y + 1
  BY <1>10, <1>14
<1> QED
  BY <1>15 DEF x, y, TakenOf

(* ... and no bucket of a plan gets more than a task ahead of another one   *)
(* that has tasks left.                                                     *)
THEOREM BucketsTakeTurns == Spec => []WorkersSpread
<1> DEFINE Inv == step = "ready" => Spread(tasks)
<1>1. Init => Inv
  BY DEF Init
<1>2. PlanIInv /\ Inv /\ [Next]_vars => Inv'
  <2> SUFFICES ASSUME PlanIInv, Inv, [Next]_vars PROVE Inv'
    OBVIOUS
  <2>1. CASE OrderTasks
    <3>1. tasks \in Seq(Task)
      BY TasksOfPlan
    <3>2. tasks' = FlattenSeq(TurnsOf(Buckets(tasks), Len(tasks)))
      BY <2>1, <3>1, InterleaveIs DEF OrderTasks
    <3>3. Spread(FlattenSeq(TurnsOf(Buckets(tasks), Len(tasks))))
      BY <3>1, TasksAreBucketed, TurnsSpread
    <3>4. Spread(tasks')
      BY <3>2, <3>3
    <3> QED
      BY <3>4
  <2>2. CASE Build \/ ResolvePartitionTable \/ ResolveTable \/ ResolveOraHash
    <3>1. step' = "resolve"
      BY <2>2 DEF Build, ResolvePartitionTable, ResolveTable, ResolveOraHash, Resolving
    <3> QED
      BY <3>1
  <2>3. CASE UNCHANGED vars
    <3>1. step' = step /\ tasks' = tasks
      BY <2>3 DEF vars
    <3> QED
      BY <3>1
  <2> QED
    BY <2>1, <2>2, <2>3 DEF Next
<1>3. Inv => WorkersSpread
  BY DEF WorkersSpread, Spread, Taken, TakenOf
<1> QED
  BY <1>1, <1>2, <1>3, PlanInvariant, PTL DEF Spec
=============================================================================
