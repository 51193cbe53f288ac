----------------------------- MODULE FoldLemmas -----------------------------
(***************************************************************************)
(* What the folds of the community modules compute on a finite set, where  *)
(* their operator is commutative. A fold picks the elements in an order of *)
(* its own: First is its choice. The lemmas about sums say that the order  *)
(* does not matter.                                                        *)
(***************************************************************************)
EXTENDS Integers, FiniteSets, SequencesExt, FiniteSetTheorems, WellFoundedInduction, TLAPS

(* Induction, with sets in the place of predicates.                         *)
LEMMA NumberInduction ==
  ASSUME NEW T \in SUBSET Nat, 0 \in T, \A n \in T : n + 1 \in T
  PROVE  T = Nat
<1> SUFFICES ASSUME Nat \ T # {} PROVE FALSE
  OBVIOUS
<1> DEFINE R == {p \in Nat \X Nat : p[1] < p[2]}
<1>1. IsWellFoundedOn(R, Nat)
  BY NatLessThanWellFounded DEF OpToRel
<1> HIDE DEF R
<1>2. PICK x \in Nat \ T : \A y \in Nat \ T : ~(<<y, x>> \in R)
  BY <1>1, WFMin
<1>3. \A y \in Nat \ T : ~(y < x)
  BY <1>2 DEF R
<1>4. x # 0 /\ x - 1 \in Nat /\ x - 1 < x
  OBVIOUS
<1>5. x - 1 \in T
  BY <1>3, <1>4
<1> QED
  BY <1>4, <1>5

LEMMA SubsetInduction ==
  ASSUME NEW S, IsFiniteSet(S), NEW P,
         \A s \in SUBSET S : (\A r \in SUBSET s : r # s => r \in P) => s \in P
  PROVE  \A s \in SUBSET S : s \in P
<1> DEFINE T == {n \in Nat : \A s \in SUBSET S : Cardinality(s) <= n => s \in P}
<1>1. \A s \in SUBSET S : IsFiniteSet(s) /\ Cardinality(s) \in Nat
  BY FS_Subset, FS_CardinalityType
<1>2. \A s \in SUBSET S : \A r \in SUBSET s : r # s => Cardinality(r) < Cardinality(s)
  <2> SUFFICES ASSUME NEW s \in SUBSET S, NEW r \in SUBSET s, r # s
               PROVE  Cardinality(r) < Cardinality(s)
    OBVIOUS
  <2>1. IsFiniteSet(s) /\ Cardinality(s) \in Nat /\ Cardinality(r) \in Nat
    BY <1>1
  <2>2. Cardinality(r) <= Cardinality(s) /\ Cardinality(r) # Cardinality(s)
    BY <2>1, FS_Subset
  <2> QED
    BY <2>1, <2>2
<1>3. 0 \in T
  <2> SUFFICES ASSUME NEW s \in SUBSET S, Cardinality(s) <= 0 PROVE s \in P
    OBVIOUS
  <2>1. s = {}
    BY <1>1, FS_EmptySet
  <2> QED
    BY <2>1
<1>4. ASSUME NEW n \in T PROVE n + 1 \in T
  <2> SUFFICES ASSUME NEW s \in SUBSET S, Cardinality(s) <= n + 1 PROVE s \in P
    OBVIOUS
  <2>1. ASSUME NEW r \in SUBSET s, r # s PROVE r \in P
    <3>1. Cardinality(r) < Cardinality(s) /\ r \in SUBSET S
      BY <1>2, <2>1
    <3>2. Cardinality(r) <= n
      BY <1>1, <3>1
    <3> QED
      BY <3>1, <3>2
  <2> QED
    BY <2>1
<1>5. T = Nat
  <2> HIDE DEF T
  <2>1. T \in SUBSET Nat
    BY DEF T
  <2> QED
    BY <1>3, <1>4, <2>1, NumberInduction
<1> TAKE s \in SUBSET S
<1>6. Cardinality(s) \in T
  BY <1>1, <1>5
<1> QED
  BY <1>1, <1>6
-----------------------------------------------------------------------------
(* The equation of a fold that takes the element pick[s] of a set s first,  *)
(* with the operator op given as a function.                                *)
Folded(F, op, base, f, pick, S) ==
  F = [s \in SUBSET S |-> IF s = {} THEN base ELSE op[<<f[pick[s]], F[s \ {pick[s]}]>>]]

Picks(pick, S) == \A s \in SUBSET S : s # {} => pick[s] \in s
Values(f, S, W) == \A x \in S : f[x] \in W

(* Such a function exists: it is built up from the smaller sets.            *)
LEMMA FoldExists ==
  ASSUME NEW S, IsFiniteSet(S), NEW V, NEW W, NEW base \in V, NEW op \in [W \X V -> V],
         NEW f, Values(f, S, W), NEW pick, Picks(pick, S)
  PROVE  \E F \in [SUBSET S -> V] : Folded(F, op, base, f, pick, S)
<1> DEFINE Small(n) == {s \in SUBSET S : Cardinality(s) <= n}
           Rest(s) == s \ {pick[s]}
           Equal(F, s) == F[s] = IF s = {} THEN base ELSE op[<<f[pick[s]], F[Rest(s)]>>]
           T == {n \in Nat : \E F \in [Small(n) -> V] : \A s \in Small(n) : Equal(F, s)}
<1>1. \A s \in SUBSET S : IsFiniteSet(s) /\ Cardinality(s) \in Nat
  BY FS_Subset, FS_CardinalityType
<1>2. \A s \in SUBSET S : s # {} =>
        /\ pick[s] \in S /\ Rest(s) \in SUBSET S
        /\ Cardinality(Rest(s)) = Cardinality(s) - 1
  BY <1>1, FS_RemoveElement DEF Picks
<1>3. 0 \in T
  <2>1. \A s \in Small(0) : s = {}
    BY <1>1, FS_EmptySet
  <2> DEFINE F == [s \in Small(0) |-> base]
  <2>2. F \in [Small(0) -> V] /\ \A s \in Small(0) : Equal(F, s)
    BY <2>1
  <2> QED
    BY <2>2
<1>4. ASSUME NEW n \in T PROVE n + 1 \in T
  <2>1. PICK G \in [Small(n) -> V] : \A s \in Small(n) : Equal(G, s)
    OBVIOUS
  <2> DEFINE F == [s \in Small(n + 1) |->
                     IF s \in Small(n) THEN G[s] ELSE op[<<f[pick[s]], G[Rest(s)]>>]]
  <2>2. \A s \in Small(n + 1) : s # {} => Rest(s) \in Small(n) /\ Rest(s) \in Small(n + 1)
    BY <1>1, <1>2
  <2>3. \A s \in Small(n + 1) : s = {} => s \in Small(n)
    BY <1>1, FS_EmptySet
  <2>4. \A s \in Small(n) : G[s] \in V /\ s \in Small(n + 1) /\ F[s] = G[s]
    BY <1>1
  <2>5. \A s \in Small(n + 1) : F[s] \in V
    BY <1>2, <2>2, <2>3, <2>4 DEF Values
  <2>6. \A s \in Small(n + 1) : Equal(F, s)
    <3> SUFFICES ASSUME NEW s \in Small(n + 1) PROVE Equal(F, s)
      OBVIOUS
    <3> HIDE DEF Small
    <3>1. CASE s \in Small(n)
      BY <2>1, <2>2, <2>4, <3>1
    <3>2. CASE s \notin Small(n)
      BY <2>2, <2>3, <2>4, <3>2
    <3> QED
      BY <3>1, <3>2
  <2>7. F \in [Small(n + 1) -> V]
    BY <2>5
  <2> HIDE DEF F, Small, Equal
  <2> QED
    BY <2>6, <2>7
<1>5. T = Nat
  <2> HIDE DEF T
  <2>1. T \in SUBSET Nat
    BY DEF T
  <2> QED
    BY <1>3, <1>4, <2>1, NumberInduction
<1>6. PICK F \in [Small(Cardinality(S)) -> V] : \A s \in Small(Cardinality(S)) : Equal(F, s)
  BY <1>1, <1>5
<1>7. Small(Cardinality(S)) = SUBSET S
  BY <1>1, FS_Subset
<1>8. F \in [SUBSET S -> V] /\ \A s \in SUBSET S : Equal(F, s)
  BY <1>6, <1>7
<1>9. F = [s \in SUBSET S |-> F[s]]
  BY <1>8
<1>10. [s \in SUBSET S |-> F[s]]
       = [s \in SUBSET S |-> IF s = {} THEN base ELSE op[<<f[pick[s]], F[s \ {pick[s]}]>>]]
  BY <1>8
<1> QED
  BY <1>8, <1>9, <1>10 DEF Folded
-----------------------------------------------------------------------------
(* The element that a fold over a set takes first.                          *)
First(s) == CHOOSE x \in s : TRUE

LEMMA FirstIsIn ==
  ASSUME NEW s, s # {}
  PROVE  First(s) \in s /\ s \ {First(s)} \in SUBSET s /\ s \ {First(s)} # s
BY DEF First

(* With that choice the equation can be written with First.                 *)
FirstFolded(F, op, base, f, S) ==
  \A s \in SUBSET S : F[s] = IF s = {} THEN base ELSE op[<<f[First(s)], F[s \ {First(s)}]>>]

LEMMA FirstFoldExists ==
  ASSUME NEW S, IsFiniteSet(S), NEW V, NEW base \in V, NEW op \in [V \X V -> V],
         NEW f, \A x \in S : f[x] \in V
  PROVE  \E F \in [SUBSET S -> V] : FirstFolded(F, op, base, f, S)
<1> DEFINE pick == [s \in SUBSET S |-> First(s)]
<1>1. \A s \in SUBSET S : pick[s] = First(s) /\ (s # {} => pick[s] \in s)
  BY FirstIsIn
<1> HIDE DEF pick
<1>2. PICK F \in [SUBSET S -> V] : Folded(F, op, base, f, pick, S)
  <2>1. Picks(pick, S) /\ Values(f, S, V)
    BY <1>1 DEF Picks, Values
  <2> QED
    BY <2>1, FoldExists
<1>3. \A s \in SUBSET S : F[s] = IF s = {} THEN base ELSE op[<<f[First(s)], F[s \ {First(s)}]>>]
  <2>1. \A s \in SUBSET S : F[s] = IF s = {} THEN base ELSE op[<<f[pick[s]], F[s \ {pick[s]}]>>]
    BY <1>2 DEF Folded
  <2> QED
    BY <1>1, <2>1
<1> QED
  BY <1>3 DEF FirstFolded
-----------------------------------------------------------------------------
(* Sums. *)
Sum(f, S) == MapThenSumSet(LAMBDA x : f[x], S)

Sums(f, S) ==
  CHOOSE F : F = [s \in SUBSET S |-> IF s = {} THEN 0 ELSE f[First(s)] + F[s \ {First(s)}]]

LEMMA SumIsLast ==
  ASSUME NEW f, NEW S
  PROVE  Sum(f, S) = Sums(f, S)[S]
BY DEF Sum, Sums, First, MapThenSumSet, MapThenFoldSet

LEMMA SumsUnfold ==
  ASSUME NEW S, IsFiniteSet(S), NEW f, \A x \in S : f[x] \in Nat
  PROVE  \A s \in SUBSET S :
           /\ Sums(f, S)[s] \in Nat
           /\ Sums(f, S)[s] = IF s = {} THEN 0 ELSE f[First(s)] + Sums(f, S)[s \ {First(s)}]
<1> DEFINE plus == [p \in Nat \X Nat |-> p[1] + p[2]]
           Body(F) == [s \in SUBSET S |-> IF s = {} THEN 0 ELSE f[First(s)] + F[s \ {First(s)}]]
           G == Sums(f, S)
<1>1. PICK F \in [SUBSET S -> Nat] : FirstFolded(F, plus, 0, f, S)
  <2>1. plus \in [Nat \X Nat -> Nat]
    OBVIOUS
  <2> HIDE DEF plus
  <2> QED
    BY <2>1, FirstFoldExists
<1>2. \A s \in SUBSET S : s # {} => /\ First(s) \in S /\ s \ {First(s)} \in SUBSET S
                                    /\ s \ {First(s)} \in SUBSET s /\ s \ {First(s)} # s
  BY FirstIsIn
<1>3. F = Body(F)
  <2>1. \A s \in SUBSET S : F[s] = Body(F)[s]
    <3> SUFFICES ASSUME NEW s \in SUBSET S PROVE F[s] = Body(F)[s]
      OBVIOUS
    <3>1. F[s] = IF s = {} THEN 0 ELSE plus[<<f[First(s)], F[s \ {First(s)}]>>]
      BY <1>1 DEF FirstFolded
    <3>2. CASE s = {}
      BY <3>1, <3>2
    <3>3. CASE s # {}
      <4>1. f[First(s)] \in Nat /\ F[s \ {First(s)}] \in Nat
        BY <1>2, <3>3
      <4>2. plus[<<f[First(s)], F[s \ {First(s)}]>>] = f[First(s)] + F[s \ {First(s)}]
        BY <4>1
      <4> QED
        BY <3>1, <3>3, <4>2
    <3> QED
      BY <3>2, <3>3
  <2> QED
    BY <2>1
<1>4. G = Body(G)
  BY <1>3 DEF Sums
<1>5. \A s \in SUBSET S : G[s] = IF s = {} THEN 0 ELSE f[First(s)] + G[s \ {First(s)}]
  <2> HIDE DEF G
  <2> QED
    BY <1>4
<1> DEFINE P == {s \in SUBSET S : G[s] \in Nat}
<1> HIDE DEF G
<1>6. \A s \in SUBSET S : (\A r \in SUBSET s : r # s => r \in P) => s \in P
  <2> SUFFICES ASSUME NEW s \in SUBSET S, \A r \in SUBSET s : r # s => r \in P PROVE s \in P
    OBVIOUS
  <2>1. CASE s = {}
    <3>1. G[s] = 0
      BY <1>5, <2>1
    <3> QED
      BY <3>1
  <2>2. CASE s # {}
    <3>1. G[s] = f[First(s)] + G[s \ {First(s)}]
      BY <1>5, <2>2
    <3>2. G[s \ {First(s)}] \in Nat /\ f[First(s)] \in Nat
      BY <1>2, <2>2
    <3> QED
      BY <3>1, <3>2
  <2> QED
    BY <2>1, <2>2
<1>7. \A s \in SUBSET S : s \in P
  <2> HIDE DEF P
  <2> QED
    BY <1>6, SubsetInduction
<1> QED
  BY <1>5, <1>7 DEF G

(* The partial sums of two functions that agree.                            *)
LEMMA SumsAgree ==
  ASSUME NEW S, IsFiniteSet(S), NEW f, \A x \in S : f[x] \in Nat, NEW T \in SUBSET S, NEW g,
         \A x \in T : g[x] = f[x]
  PROVE  Sums(f, S)[T] = Sum(g, T)
<1> DEFINE P == {s \in SUBSET T : Sums(f, S)[s] = Sums(g, T)[s]}
<1>1. IsFiniteSet(T) /\ \A x \in T : g[x] \in Nat
  BY FS_Subset
<1>2. \A s \in SUBSET T :
        /\ Sums(f, S)[s] = IF s = {} THEN 0 ELSE f[First(s)] + Sums(f, S)[s \ {First(s)}]
        /\ Sums(g, T)[s] = IF s = {} THEN 0 ELSE g[First(s)] + Sums(g, T)[s \ {First(s)}]
  <2>1. \A s \in SUBSET S :
          Sums(f, S)[s] = IF s = {} THEN 0 ELSE f[First(s)] + Sums(f, S)[s \ {First(s)}]
    BY SumsUnfold
  <2>2. \A s \in SUBSET T :
          Sums(g, T)[s] = IF s = {} THEN 0 ELSE g[First(s)] + Sums(g, T)[s \ {First(s)}]
    BY <1>1, SumsUnfold
  <2>3. SUBSET T \subseteq SUBSET S
    OBVIOUS
  <2> QED
    BY <2>1, <2>2, <2>3
<1>3. \A s \in SUBSET T : (\A r \in SUBSET s : r # s => r \in P) => s \in P
  <2> SUFFICES ASSUME NEW s \in SUBSET T, \A r \in SUBSET s : r # s => r \in P
               PROVE  Sums(f, S)[s] = Sums(g, T)[s]
    OBVIOUS
  <2>1. CASE s = {}
    BY <1>2, <2>1
  <2>2. CASE s # {}
    <3>1. First(s) \in T /\ Sums(f, S)[s \ {First(s)}] = Sums(g, T)[s \ {First(s)}]
      BY <2>2, FirstIsIn
    <3> QED
      BY <1>2, <2>2, <3>1
  <2> QED
    BY <2>1, <2>2
<1>4. \A s \in SUBSET T : s \in P
  <2> HIDE DEF P
  <2> QED
    BY <1>1, <1>3, SubsetInduction
<1> QED
  BY <1>4, SumIsLast

LEMMA SumCongruence ==
  ASSUME NEW S, IsFiniteSet(S), NEW f, \A x \in S : f[x] \in Nat, NEW g, \A x \in S : g[x] = f[x]
  PROVE  Sum(f, S) = Sum(g, S)
BY SumsAgree, SumIsLast

LEMMA SumType ==
  ASSUME NEW S, IsFiniteSet(S), NEW f, \A x \in S : f[x] \in Nat
  PROVE  Sum(f, S) \in Nat
BY SumsUnfold, SumIsLast

LEMMA SumOfNone == ASSUME NEW f PROVE Sum(f, {}) = 0
<1>1. IsFiniteSet({}) /\ {} \in SUBSET {}
  BY FS_EmptySet
<1> QED
  BY <1>1, SumsUnfold, SumIsLast

LEMMA SumOfFirst ==
  ASSUME NEW S, IsFiniteSet(S), NEW f, \A x \in S : f[x] \in Nat, S # {}
  PROVE  Sum(f, S) = f[First(S)] + Sum(f, S \ {First(S)})
<1>1. S \ {First(S)} \in SUBSET S
  OBVIOUS
<1>2. Sums(f, S)[S \ {First(S)}] = Sum(f, S \ {First(S)})
  BY <1>1, SumsAgree
<1> QED
  BY <1>2, SumsUnfold, SumIsLast

(* The order does not matter: any element can be taken out.                 *)
LEMMA SumRemove ==
  ASSUME NEW S, IsFiniteSet(S), NEW f, \A x \in S : f[x] \in Nat, NEW x \in S
  PROVE  Sum(f, S) = f[x] + Sum(f, S \ {x})
<1> DEFINE P == {s \in SUBSET S : \A y \in s : Sum(f, s) = f[y] + Sum(f, s \ {y})}
<1>1. \A s \in SUBSET S : IsFiniteSet(s) /\ Sum(f, s) \in Nat
  BY FS_Subset, SumType
<1>2. \A s \in SUBSET S : s # {} => Sum(f, s) = f[First(s)] + Sum(f, s \ {First(s)})
  BY <1>1, SumOfFirst
<1>3. \A s \in SUBSET S : (\A r \in SUBSET s : r # s => r \in P) => s \in P
  <2> SUFFICES ASSUME NEW s \in SUBSET S, \A r \in SUBSET s : r # s => r \in P, NEW y \in s
               PROVE  Sum(f, s) = f[y] + Sum(f, s \ {y})
    OBVIOUS
  <2> DEFINE c == First(s)
  <2>1. c \in s /\ Sum(f, s) = f[c] + Sum(f, s \ {c})
    BY <1>2, FirstIsIn
  <2> HIDE DEF c
  <2>2. CASE y = c
    BY <2>1, <2>2
  <2>3. CASE y # c
    <3>1. s \ {c} \in P /\ s \ {y} \in P
      BY <2>1
    <3> DEFINE r == s \ {c, y}
    <3>2. (s \ {c}) \ {y} = r /\ (s \ {y}) \ {c} = r
      OBVIOUS
    <3>3. Sum(f, s \ {c}) = f[y] + Sum(f, r)
      BY <2>3, <3>1, <3>2
    <3>4. Sum(f, s \ {y}) = f[c] + Sum(f, r)
      BY <2>1, <2>3, <3>1, <3>2
    <3>5. f[c] \in Nat /\ f[y] \in Nat /\ Sum(f, r) \in Nat
      BY <1>1, <2>1
    <3> HIDE DEF P, r
    <3>6. f[c] + (f[y] + Sum(f, r)) = f[y] + (f[c] + Sum(f, r))
      BY <3>5
    <3> QED
      BY <2>1, <3>3, <3>4, <3>6
  <2> QED
    BY <2>2, <2>3
<1>4. \A s \in SUBSET S : s \in P
  <2> HIDE DEF P
  <2> QED
    BY <1>3, SubsetInduction
<1> QED
  BY <1>4

(* A value that grows by n makes the sum grow by n.                         *)
LEMMA SumAdd ==
  ASSUME NEW S, IsFiniteSet(S), NEW f, \A x \in S : f[x] \in Nat, NEW g, NEW x \in S, NEW n \in Nat,
         \A y \in S \ {x} : g[y] = f[y], g[x] = f[x] + n
  PROVE  Sum(g, S) = Sum(f, S) + n
<1>1. IsFiniteSet(S \ {x}) /\ \A y \in S : g[y] \in Nat
  BY FS_Subset
<1>2. Sum(g, S) = g[x] + Sum(g, S \ {x}) /\ Sum(f, S) = f[x] + Sum(f, S \ {x})
  BY <1>1, SumRemove
<1>3. Sum(g, S \ {x}) = Sum(f, S \ {x}) /\ Sum(f, S \ {x}) \in Nat
  BY <1>1, SumCongruence, SumType
<1> QED
  BY <1>2, <1>3

LEMMA SumMonotone ==
  ASSUME NEW S, IsFiniteSet(S), NEW f, NEW g,
         \A x \in S : f[x] \in Nat /\ g[x] \in Nat /\ f[x] <= g[x]
  PROVE  Sum(f, S) <= Sum(g, S)
<1> DEFINE P == {s \in SUBSET S : Sum(f, s) <= Sum(g, s)}
<1>1. \A s \in SUBSET S : IsFiniteSet(s) /\ Sum(f, s) \in Nat /\ Sum(g, s) \in Nat
  BY FS_Subset, SumType
<1>2. \A s \in SUBSET S : (\A r \in SUBSET s : r # s => r \in P) => s \in P
  <2> SUFFICES ASSUME NEW s \in SUBSET S, \A r \in SUBSET s : r # s => r \in P
               PROVE  Sum(f, s) <= Sum(g, s)
    OBVIOUS
  <2>1. CASE s = {}
    BY <2>1, SumOfNone
  <2>2. CASE s # {}
    <3> DEFINE c == First(s)
    <3>1. c \in s /\ s \ {c} \in SUBSET s /\ s \ {c} # s
      BY <2>2, FirstIsIn
    <3>2. Sum(f, s) = f[c] + Sum(f, s \ {c}) /\ Sum(g, s) = g[c] + Sum(g, s \ {c})
      BY <1>1, <2>2, SumOfFirst
    <3>3. Sum(f, s \ {c}) <= Sum(g, s \ {c})
      BY <3>1
    <3>4. /\ f[c] \in Nat /\ g[c] \in Nat /\ f[c] <= g[c]
          /\ Sum(f, s \ {c}) \in Nat /\ Sum(g, s \ {c}) \in Nat
      BY <1>1, <3>1
    <3> HIDE DEF c, P
    <3> QED
      BY <3>2, <3>3, <3>4
  <2> QED
    BY <2>1, <2>2
<1>3. \A s \in SUBSET S : s \in P
  <2> HIDE DEF P
  <2> QED
    BY <1>2, SubsetInduction
<1> QED
  BY <1>3

LEMMA SumBound ==
  ASSUME NEW S, IsFiniteSet(S), NEW f, NEW b \in Nat, \A x \in S : f[x] \in 0..b
  PROVE  Sum(f, S) \in 0..(b * Cardinality(S))
<1> DEFINE P == {s \in SUBSET S : Sum(f, s) <= b * Cardinality(s)}
<1>1. \A s \in SUBSET S : /\ IsFiniteSet(s) /\ Sum(f, s) \in Nat /\ Cardinality(s) \in Nat
                          /\ \A x \in s : f[x] \in Nat
  <2>1. \A x \in S : f[x] \in Nat
    OBVIOUS
  <2> QED
    BY <2>1, FS_Subset, SumType, FS_CardinalityType
<1>2. \A s \in SUBSET S : (\A r \in SUBSET s : r # s => r \in P) => s \in P
  <2> SUFFICES ASSUME NEW s \in SUBSET S, \A r \in SUBSET s : r # s => r \in P
               PROVE  Sum(f, s) <= b * Cardinality(s)
    OBVIOUS
  <2>1. CASE s = {}
    BY <2>1, SumOfNone, FS_EmptySet
  <2>2. CASE s # {}
    <3> DEFINE c == First(s)
               m == Cardinality(s \ {c})
    <3>1. c \in s /\ s \ {c} \in SUBSET s /\ s \ {c} # s
      BY <2>2, FirstIsIn
    <3>2. Sum(f, s) = f[c] + Sum(f, s \ {c})
      BY <1>1, <2>2, SumOfFirst
    <3>3. Sum(f, s \ {c}) <= b * m /\ m \in Nat
      BY <1>1, <3>1
    <3>4. Cardinality(s) = m + 1
      BY <1>1, <3>1, FS_RemoveElement
    <3>5. f[c] \in Nat /\ f[c] <= b /\ Sum(f, s \ {c}) \in Nat
      BY <1>1, <3>1
    <3> HIDE DEF c, m, P
    <3>6. b * (m + 1) = b * m + b /\ b * m \in Nat
      BY <3>3
    <3> QED
      BY <3>2, <3>3, <3>4, <3>5, <3>6
  <2> QED
    BY <2>1, <2>2
<1>3. \A s \in SUBSET S : s \in P
  <2> HIDE DEF P
  <2> QED
    BY <1>2, SubsetInduction
<1>4. S \in P
  BY <1>3
<1> QED
  BY <1>1, <1>4

(* Elements of value 0 do not count.                                        *)
LEMMA SumOfSupport ==
  ASSUME NEW S, IsFiniteSet(S), NEW f, \A x \in S : f[x] \in Nat, NEW T \in SUBSET S,
         \A x \in S \ T : f[x] = 0
  PROVE  Sum(f, S) = Sum(f, T)
<1> DEFINE P == {s \in SUBSET S : Sum(f, s) = Sum(f, s \cap T)}
<1>1. \A s \in SUBSET S : IsFiniteSet(s) /\ Sum(f, s) \in Nat
  BY FS_Subset, SumType
<1>2. \A s \in SUBSET S : (\A r \in SUBSET s : r # s => r \in P) => s \in P
  <2> SUFFICES ASSUME NEW s \in SUBSET S, \A r \in SUBSET s : r # s => r \in P
               PROVE  Sum(f, s) = Sum(f, s \cap T)
    OBVIOUS
  <2>1. CASE s \subseteq T
    <3>1. s \cap T = s
      BY <2>1
    <3> QED
      BY <3>1
  <2>2. ASSUME NEW x \in s, x \notin T PROVE Sum(f, s) = Sum(f, s \cap T)
    <3>1. Sum(f, s) = f[x] + Sum(f, s \ {x})
      BY <1>1, SumRemove
    <3>2. s \ {x} \in P /\ (s \ {x}) \cap T = s \cap T /\ f[x] = 0
      BY <2>2
    <3>3. Sum(f, s \ {x}) = Sum(f, s \cap T) /\ Sum(f, s \ {x}) \in Nat
      BY <1>1, <3>2
    <3> HIDE DEF P
    <3> QED
      BY <3>1, <3>2, <3>3
  <2> QED
    BY <2>1, <2>2
<1>3. \A s \in SUBSET S : s \in P
  <2> HIDE DEF P
  <2> QED
    BY <1>2, SubsetInduction
<1>4. S \cap T = T
  OBVIOUS
<1> QED
  BY <1>3, <1>4

LEMMA SumAtLeast ==
  ASSUME NEW S, IsFiniteSet(S), NEW f, \A x \in S : f[x] \in Nat, NEW x \in S
  PROVE  f[x] <= Sum(f, S)
<1>1. Sum(f, S) = f[x] + Sum(f, S \ {x})
  BY SumRemove
<1>2. IsFiniteSet(S \ {x}) /\ \A y \in S \ {x} : f[y] \in Nat
  BY FS_Subset
<1>3. Sum(f, S \ {x}) \in Nat
  BY <1>2, SumType
<1> QED
  BY <1>1, <1>3
-----------------------------------------------------------------------------
(* Sequences. FoldLeft takes the elements of a sequence from the left, as   *)
(* the largest index of a prefix comes last.                                *)
LEMMA MaxOfInterval ==
  ASSUME NEW n \in Nat, n # 0
  PROVE  Max(1..n) = n /\ (1..n) \ {n} = 1..(n - 1)
<1>1. n \in 1..n /\ \A y \in 1..n : n >= y
  OBVIOUS
<1>2. \A x \in 1..n : (\A y \in 1..n : x >= y) => x = n
  OBVIOUS
<1>3. Max(1..n) = n
  BY <1>1, <1>2 DEF Max
<1>4. (1..n) \ {n} = 1..(n - 1)
  OBVIOUS
<1> QED
  BY <1>3, <1>4

LEMMA MaxIsIn ==
  ASSUME NEW n \in Nat, NEW S \in SUBSET (1..n), S # {}
  PROVE  Max(S) \in S
<1> DEFINE T == {m \in Nat : \A R \in SUBSET (1..m) : R # {} => \E x \in R : \A y \in R : x >= y}
<1>1. 0 \in T
  <2>1. 1..0 = {}
    OBVIOUS
  <2> QED
    BY <2>1
<1>2. ASSUME NEW m \in T PROVE m + 1 \in T
  <2> SUFFICES ASSUME NEW R \in SUBSET (1..(m + 1)), R # {}
               PROVE  \E x \in R : \A y \in R : x >= y
    OBVIOUS
  <2>1. CASE m + 1 \in R
    <3>1. \A y \in R : m + 1 >= y
      OBVIOUS
    <3> QED
      BY <2>1, <3>1
  <2>2. CASE m + 1 \notin R
    <3>1. R \in SUBSET (1..m)
      BY <2>2
    <3> QED
      BY <3>1
  <2> QED
    BY <2>1, <2>2
<1>3. T = Nat
  <2> HIDE DEF T
  <2>1. T \in SUBSET Nat
    BY DEF T
  <2> QED
    BY <1>1, <1>2, <2>1, NumberInduction
<1>4. \E x \in S : \A y \in S : x >= y
  BY <1>3
<1> QED
  BY <1>4 DEF Max

(* The equation of FoldLeft, with the operator given as a function.         *)
LeftFolded(F, op, base, n) ==
  F = [s \in SUBSET (1..n) |-> IF s = {} THEN base ELSE op[<<F[s \ {Max(s)}], Max(s)>>]]

LEMMA LeftFoldExists ==
  ASSUME NEW n \in Nat, NEW V, NEW base \in V, NEW op \in [V \X (1..n) -> V]
  PROVE  \E F \in [SUBSET (1..n) -> V] : LeftFolded(F, op, base, n)
<1> DEFINE S == 1..n
           pick == [s \in SUBSET S |-> Max(s)]
           self == [i \in S |-> i]
           swap == [p \in S \X V |-> op[<<p[2], p[1]>>]]
<1>1. \A s \in SUBSET S : pick[s] = Max(s) /\ (s # {} => pick[s] \in s)
  BY MaxIsIn
<1>2. \A i \in S : self[i] = i
  OBVIOUS
<1>3. swap \in [S \X V -> V] /\ \A i \in S, v \in V : swap[<<i, v>>] = op[<<v, i>>]
  OBVIOUS
<1>4. IsFiniteSet(S)
  BY FS_Interval
<1> HIDE DEF pick, self, swap
<1>5. Picks(pick, S) /\ Values(self, S, S)
  BY <1>1, <1>2 DEF Picks, Values
<1>6. PICK F \in [SUBSET S -> V] : Folded(F, swap, base, self, pick, S)
  <2> HIDE DEF S
  <2> QED
    BY <1>3, <1>4, <1>5, FoldExists
<1>7. \A s \in SUBSET S : F[s] = IF s = {} THEN base ELSE op[<<F[s \ {Max(s)}], Max(s)>>]
  <2>1. \A s \in SUBSET S : F[s] = IF s = {} THEN base ELSE swap[<<self[pick[s]], F[s \ {pick[s]}]>>]
    BY <1>6 DEF Folded
  <2> HIDE DEF S
  <2> SUFFICES ASSUME NEW s \in SUBSET S
               PROVE  F[s] = IF s = {} THEN base ELSE op[<<F[s \ {Max(s)}], Max(s)>>]
    OBVIOUS
  <2>2. CASE s = {}
    BY <2>1, <2>2
  <2>3. CASE s # {}
    <3>1. F[s] = swap[<<self[pick[s]], F[s \ {pick[s]}]>>]
      BY <2>1, <2>3
    <3>2. pick[s] = Max(s) /\ pick[s] \in S
      BY <1>1, <2>3
    <3>3. self[pick[s]] = Max(s) /\ Max(s) \in S
      BY <1>2, <3>2
    <3>4. F[s \ {Max(s)}] \in V
      BY <1>6
    <3>5. F[s] = swap[<<Max(s), F[s \ {Max(s)}]>>]
      BY <3>1, <3>2, <3>3
    <3> QED
      BY <1>3, <2>3, <3>3, <3>4, <3>5
  <2> QED
    BY <2>2, <2>3
<1>8. F = [s \in SUBSET S |-> F[s]]
  BY <1>6
<1>9. [s \in SUBSET S |-> F[s]]
      = [s \in SUBSET S |-> IF s = {} THEN base ELSE op[<<F[s \ {Max(s)}], Max(s)>>]]
  BY <1>7
<1> QED
  BY <1>8, <1>9 DEF LeftFolded

(* What that says of the prefixes 1..k.                                     *)
LEMMA LeftFoldPrefix ==
  ASSUME NEW n \in Nat, NEW k \in 1..n
  PROVE  /\ 1..k \in SUBSET (1..n) /\ 1..(k - 1) \in SUBSET (1..n)
         /\ 1..k # {} /\ Max(1..k) = k /\ (1..k) \ {k} = 1..(k - 1)
BY MaxOfInterval
-----------------------------------------------------------------------------
LEMMA CatFacts ==
  ASSUME NEW T, NEW a \in Seq(T), NEW b \in Seq(T)
  PROVE  /\ a \o b \in Seq(T)
         /\ Len(a \o b) = Len(a) + Len(b) /\ Len(a) \in Nat /\ Len(b) \in Nat
         /\ \A i \in 1..Len(a) : (a \o b)[i] = a[i]
         /\ \A j \in 1..Len(b) : (a \o b)[Len(a) + j] = b[j]
         /\ \A i \in 1..Len(a \o b) : i \in 1..Len(a) \/ \E j \in 1..Len(b) : i = Len(a) + j
<1>1. a \o b \in Seq(T) /\ Len(a \o b) = Len(a) + Len(b) /\ Len(a) \in Nat /\ Len(b) \in Nat
  OBVIOUS
<1>2. \A i \in 1..Len(a) : (a \o b)[i] = a[i]
  OBVIOUS
<1>3. \A j \in 1..Len(b) : (a \o b)[Len(a) + j] = b[j]
  OBVIOUS
<1>4. ASSUME NEW i \in 1..Len(a \o b), i \notin 1..Len(a)
      PROVE  \E j \in 1..Len(b) : i = Len(a) + j
  <2>1. i - Len(a) \in 1..Len(b) /\ i = Len(a) + (i - Len(a))
    BY <1>1, <1>4
  <2> QED
    BY <2>1
<1> QED
  BY <1>1, <1>2, <1>3, <1>4

Begins(p, c) == Len(p) <= Len(c) /\ \A i \in 1..Len(p) : c[i] = p[i]

LEMMA CatBegins ==
  ASSUME NEW T, NEW a \in Seq(T), NEW b \in Seq(T), NEW p \in Seq(T), Begins(p, a)
  PROVE  Begins(p, a \o b)
<1>1. Len(a \o b) = Len(a) + Len(b) /\ Len(a) \in Nat /\ Len(b) \in Nat /\ Len(p) \in Nat
  BY CatFacts
<1>2. Len(p) <= Len(a)
  BY DEF Begins
<1>3. Len(p) <= Len(a \o b) /\ \A i \in 1..Len(p) : i \in 1..Len(a)
  BY <1>1, <1>2
<1> QED
  BY <1>3, CatFacts DEF Begins

(* FlattenSeq: its prefixes, and where it puts the elements.                *)
Flattened(G, ss) ==
  G[0] = <<>> /\ \A k \in 1..Len(ss) : G[k] = G[k - 1] \o ss[k]

LEMMA FlattenUnfold ==
  ASSUME NEW T, NEW ss \in Seq(Seq(T))
  PROVE  \E G \in [0..Len(ss) -> Seq(T)] : Flattened(G, ss) /\ FlattenSeq(ss) = G[Len(ss)]
<1> DEFINE n == Len(ss)
           join == [p \in Seq(T) \X (1..n) |-> p[1] \o ss[p[2]]]
<1>1. n \in Nat /\ DOMAIN ss = 1..n /\ \A k \in 1..n : ss[k] \in Seq(T)
  OBVIOUS
<1>2. join \in [Seq(T) \X (1..n) -> Seq(T)]
  <2>1. \A s \in Seq(T), k \in 1..n : s \o ss[k] \in Seq(T)
    BY <1>1
  <2> QED
    BY <2>1
<1>3. \A s \in Seq(T), k \in 1..n : join[<<s, k>>] = s \o ss[k]
  OBVIOUS
<1>4. <<>> \in Seq(T)
  OBVIOUS
<1> HIDE DEF n, join
<1>5. PICK F \in [SUBSET (1..n) -> Seq(T)] : LeftFolded(F, join, <<>>, n)
  BY <1>1, <1>2, <1>4, LeftFoldExists
<1> DEFINE G == [k \in 0..n |-> F[1..k]]
<1>6. \A k \in 0..n : G[k] = F[1..k] /\ G[k] \in Seq(T)
  <2>1. \A k \in 0..n : 1..k \in SUBSET (1..n)
    BY <1>1
  <2> QED
    BY <1>5, <2>1
<1>7. G[0] = <<>>
  <2>1. 1..0 = {} /\ 0 \in 0..n /\ {} \in SUBSET (1..n)
    BY <1>1
  <2>2. F[{}] = <<>>
    BY <1>5, <2>1 DEF LeftFolded
  <2>3. G[0] = F[1..0]
    BY <1>6, <2>1
  <2> QED
    BY <2>1, <2>2, <2>3
<1>8. ASSUME NEW k \in 1..n PROVE G[k] = G[k - 1] \o ss[k]
  <2>1. F[1..k] = join[<<F[1..(k - 1)], k>>]
    <3>1. /\ 1..k \in SUBSET (1..n) /\ 1..k # {}
          /\ Max(1..k) = k /\ (1..k) \ {k} = 1..(k - 1)
      BY <1>1, LeftFoldPrefix
    <3>2. F[1..k] = join[<<F[(1..k) \ {Max(1..k)}], Max(1..k)>>]
      BY <1>5, <3>1 DEF LeftFolded
    <3> QED
      BY <3>1, <3>2
  <2>2. k \in 0..n /\ k - 1 \in 0..n
    BY <1>1
  <2> HIDE DEF G
  <2> QED
    BY <1>3, <1>6, <2>1, <2>2
<1>9. G \in [0..n -> Seq(T)]
  BY <1>6
<1> HIDE DEF G
<1>10. FlattenSeq(ss) = G[n]
  <2>1. CASE n = 0
    <3>1. ss = <<>>
      BY <2>1 DEF n
    <3>2. FlattenSeq(ss) = ss
      BY <2>1 DEF FlattenSeq, n
    <3> QED
      BY <1>7, <2>1, <3>1, <3>2
  <2>2. CASE n # 0
    <3> DEFINE Body(H) == [i \in 1..n |-> IF i = 1 THEN ss[i] ELSE H[i - 1] \o ss[i]]
               H1 == [i \in 1..n |-> G[i]]
               H2 == CHOOSE H : H = Body(H)
               P == {i \in Nat : i + 1 \in 1..n => H2[i + 1] = G[i + 1]}
    <3>1. H1 = Body(H1)
      <4>1. \A i \in 1..n : G[i] = IF i = 1 THEN ss[i] ELSE H1[i - 1] \o ss[i]
        <5> SUFFICES ASSUME NEW i \in 1..n PROVE G[i] = IF i = 1 THEN ss[i] ELSE H1[i - 1] \o ss[i]
          OBVIOUS
        <5>1. G[i] = G[i - 1] \o ss[i]
          BY <1>8
        <5>2. CASE i = 1
          <6>1. G[i] = <<>> \o ss[i] /\ ss[i] \in Seq(T)
            BY <1>1, <1>7, <5>1, <5>2
          <6> QED
            BY <5>2, <6>1
        <5>3. CASE i # 1
          <6>1. H1[i - 1] = G[i - 1]
            BY <1>1, <5>3
          <6> QED
            BY <5>1, <5>3, <6>1
        <5> QED
          BY <5>2, <5>3
      <4> QED
        BY <4>1
    <3>2. H2 = Body(H2)
      <4> HIDE DEF H1
      <4> QED
        BY <3>1
    <3>3. FlattenSeq(ss) = H2[n]
      BY <2>2, Zenon DEF FlattenSeq, n
    <3> HIDE DEF H1, H2
    <3>4. \A i \in 1..n : H2[i] = IF i = 1 THEN ss[i] ELSE H2[i - 1] \o ss[i]
      BY <3>2
    <3>5. 0 \in P
      <4>1. 1 \in 1..n => H2[1] = ss[1] /\ G[1] = G[0] \o ss[1] /\ ss[1] \in Seq(T)
        <5>1. 1 - 1 = 0
          OBVIOUS
        <5> QED
          BY <1>1, <1>8, <3>4, <5>1
      <4> QED
        BY <1>7, <4>1
    <3>6. ASSUME NEW i \in P PROVE i + 1 \in P
      <4> SUFFICES ASSUME i + 2 \in 1..n PROVE H2[i + 2] = G[i + 2]
        OBVIOUS
      <4>1. i + 1 \in 1..n /\ i + 2 # 1 /\ (i + 2) - 1 = i + 1
        BY <1>1
      <4>2. H2[i + 1] = G[i + 1]
        BY <4>1
      <4>3. G[i + 2] = G[i + 1] \o ss[i + 2]
        BY <1>8, <4>1
      <4>4. H2[i + 2] = H2[i + 1] \o ss[i + 2]
        BY <3>4, <4>1
      <4> QED
        BY <4>2, <4>3, <4>4
    <3>7. P = Nat
      <4> HIDE DEF P
      <4>1. P \in SUBSET Nat
        BY DEF P
      <4> QED
        BY <3>5, <3>6, <4>1, NumberInduction
    <3>8. n - 1 \in Nat /\ (n - 1) + 1 = n /\ n \in 1..n
      BY <1>1, <2>2
    <3>9. n - 1 \in P
      BY <3>7, <3>8
    <3> QED
      BY <3>3, <3>8, <3>9
  <2> QED
    BY <2>1, <2>2
<1> QED
  BY <1>7, <1>8, <1>9, <1>10 DEF Flattened, n

(* The elements of the k-th sequence follow the first off[k - 1] ones.      *)
Placed(off, ss, flat) ==
  /\ off[0] = 0 /\ off[Len(ss)] = Len(flat)
  /\ \A k \in 1..Len(ss) :
       /\ off[k] = off[k - 1] + Len(ss[k])
       /\ \A j \in 1..Len(ss[k]) : flat[off[k - 1] + j] = ss[k][j]

LEMMA FlattenPlaces ==
  ASSUME NEW T, NEW ss \in Seq(Seq(T))
  PROVE  /\ FlattenSeq(ss) \in Seq(T)
         /\ \E off \in [0..Len(ss) -> Nat] : Placed(off, ss, FlattenSeq(ss))
<1> DEFINE n == Len(ss)
<1>1. n \in Nat /\ \A k \in 1..n : ss[k] \in Seq(T)
  OBVIOUS
<1>2. PICK G \in [0..n -> Seq(T)] : Flattened(G, ss) /\ FlattenSeq(ss) = G[n]
  BY FlattenUnfold
<1>3. \A k \in 0..n : G[k] \in Seq(T) /\ Len(G[k]) \in Nat
  BY <1>2
<1> DEFINE off == [k \in 0..n |-> Len(G[k])]
           P == {m \in Nat : m <= n => \A k \in 0..m : Begins(G[k], G[m])}
<1> HIDE DEF n
<1>4. \A k \in 1..n : G[k] = G[k - 1] \o ss[k] /\ G[k - 1] \in Seq(T) /\ ss[k] \in Seq(T)
  <2>1. \A k \in 1..n : k - 1 \in 0..n
    BY <1>1
  <2> QED
    BY <1>1, <1>2, <1>3, <2>1 DEF Flattened, n
<1>5. 0 \in P
  <2>1. \A k \in 0..0 : k = 0
    OBVIOUS
  <2>2. 0 \in 0..n
    BY <1>1
  <2>3. Len(G[0]) \in Nat
    BY <1>3, <2>2
  <2>4. Begins(G[0], G[0])
    BY <2>3 DEF Begins
  <2> QED
    BY <2>1, <2>4
<1>6. ASSUME NEW m \in P PROVE m + 1 \in P
  <2> SUFFICES ASSUME m + 1 <= n, NEW k \in 0..(m + 1) PROVE Begins(G[k], G[m + 1])
    OBVIOUS
  <2>1. m + 1 \in 1..n /\ (m + 1) - 1 = m /\ m \in 0..n /\ m <= n /\ m + 1 \in 0..n
    BY <1>1
  <2>2. G[m + 1] = G[m] \o ss[m + 1] /\ G[m] \in Seq(T) /\ ss[m + 1] \in Seq(T)
    BY <1>4, <2>1
  <2>3. CASE k = m + 1
    <3>1. Len(G[m + 1]) \in Nat
      BY <1>3, <2>1
    <3> QED
      BY <2>3, <3>1 DEF Begins
  <2>4. CASE k # m + 1
    <3>1. k \in 0..m /\ k \in 0..n
      BY <1>1, <2>1, <2>4
    <3>2. Begins(G[k], G[m]) /\ G[k] \in Seq(T)
      BY <1>3, <2>1, <3>1
    <3> QED
      BY <2>2, <3>2, CatBegins
  <2> QED
    BY <2>3, <2>4
<1>7. P = Nat
  <2> HIDE DEF P
  <2>1. P \in SUBSET Nat
    BY DEF P
  <2> QED
    BY <1>5, <1>6, <2>1, NumberInduction
<1>8. \A k \in 0..n : Begins(G[k], G[n])
  <2>1. n \in P
    BY <1>1, <1>7
  <2> QED
    BY <1>1, <2>1
<1>9. ASSUME NEW k \in 1..n
      PROVE  /\ off[k] = off[k - 1] + Len(ss[k])
             /\ \A j \in 1..Len(ss[k]) : G[n][off[k - 1] + j] = ss[k][j]
  <2>1. k \in 0..n /\ k - 1 \in 0..n
    BY <1>1
  <2>2. off[k] = Len(G[k]) /\ off[k - 1] = Len(G[k - 1])
    BY <2>1
  <2> DEFINE a == G[k - 1]
             b == ss[k]
             c == G[k]
  <2>3. a \in Seq(T) /\ b \in Seq(T) /\ c = a \o b /\ Begins(c, G[n]) /\ off[k - 1] = Len(a) /\ off[k] = Len(c)
    BY <1>4, <1>8, <2>1, <2>2
  <2> HIDE DEF off, a, b, c
  <2>4. /\ Len(c) = Len(a) + Len(b) /\ Len(a) \in Nat /\ Len(b) \in Nat
        /\ \A j \in 1..Len(b) : c[Len(a) + j] = b[j]
    BY <2>3, CatFacts
  <2>5. \A j \in 1..Len(b) : Len(a) + j \in 1..Len(c)
    BY <2>4
  <2>6. \A j \in 1..Len(b) : G[n][Len(a) + j] = b[j]
    BY <2>3, <2>4, <2>5 DEF Begins
  <2> QED
    BY <2>3, <2>4, <2>6 DEF b
<1>10. off \in [0..n -> Nat] /\ off[0] = 0 /\ off[n] = Len(G[n])
  <2>1. 0 \in 0..n /\ n \in 0..n /\ G[0] = <<>>
    BY <1>1, <1>2 DEF Flattened
  <2> QED
    BY <1>3, <2>1
<1> HIDE DEF off
<1>11. Placed(off, ss, FlattenSeq(ss))
  BY <1>2, <1>9, <1>10 DEF Placed, n
<1> QED
  BY <1>1, <1>2, <1>3, <1>10, <1>11 DEF n

(* Every place of the result is a place of one of the sequences.            *)
LEMMA PlacesAscend ==
  ASSUME NEW T, NEW ss \in Seq(Seq(T)), NEW off \in [0..Len(ss) -> Nat], NEW flat, Placed(off, ss, flat)
  PROVE  \A k, m \in 0..Len(ss) : k <= m => off[k] <= off[m]
<1> DEFINE n == Len(ss)
           P == {m \in Nat : m <= n => \A k \in 0..m : off[k] <= off[m]}
<1>1. n \in Nat /\ \A k \in 1..n : off[k] = off[k - 1] + Len(ss[k]) /\ Len(ss[k]) \in Nat
  <2>1. n \in Nat /\ \A k \in 1..n : Len(ss[k]) \in Nat
    OBVIOUS
  <2> QED
    BY <2>1 DEF Placed
<1> HIDE DEF n
<1>2. \A k \in 0..n : off[k] \in Nat
  BY DEF n
<1>3. 0 \in P
  <2>1. 0 \in 0..n /\ \A k \in 0..0 : k = 0
    BY <1>1
  <2>2. off[0] \in Nat
    BY <1>2, <2>1
  <2>3. \A k \in 0..0 : off[k] <= off[0]
    BY <2>1, <2>2
  <2> QED
    BY <2>3
<1>4. ASSUME NEW m \in P PROVE m + 1 \in P
  <2> SUFFICES ASSUME m + 1 <= n, NEW k \in 0..(m + 1) PROVE off[k] <= off[m + 1]
    OBVIOUS
  <2>1. m + 1 \in 1..n /\ (m + 1) - 1 = m /\ m \in 0..n /\ m <= n /\ m + 1 \in 0..n /\ k \in 0..n
    BY <1>1
  <2>2. off[m + 1] = off[m] + Len(ss[m + 1]) /\ Len(ss[m + 1]) \in Nat
    BY <1>1, <2>1
  <2>3. off[m + 1] \in Nat /\ off[m] \in Nat /\ off[k] \in Nat
    BY <1>2, <2>1
  <2>4. CASE k = m + 1
    BY <2>3, <2>4
  <2>5. CASE k # m + 1
    <3>1. k \in 0..m
      BY <2>1, <2>5
    <3>2. off[k] <= off[m]
      BY <2>1, <3>1
    <3> HIDE DEF P
    <3> QED
      BY <2>2, <2>3, <3>2
  <2> QED
    BY <2>4, <2>5
<1>5. P = Nat
  <2> HIDE DEF P
  <2>1. P \in SUBSET Nat
    BY DEF P
  <2> QED
    BY <1>3, <1>4, <2>1, NumberInduction
<1>6. ASSUME NEW k \in 0..n, NEW m \in 0..n, k <= m PROVE off[k] <= off[m]
  <2>1. m \in Nat /\ m <= n /\ k \in 0..m
    BY <1>1, <1>6
  <2>2. m \in P
    BY <1>5, <2>1
  <2> QED
    BY <2>1, <2>2
<1> QED
  BY <1>6 DEF n

Covers(off, ss, flat) ==
  /\ \A i \in 1..Len(flat) : \E k \in 1..Len(ss) : \E j \in 1..Len(ss[k]) : i = off[k - 1] + j
  /\ \A k \in 1..Len(ss) : \A j \in 1..Len(ss[k]) : off[k - 1] + j \in 1..Len(flat)

LEMMA PlacesCover ==
  ASSUME NEW T, NEW ss \in Seq(Seq(T)), NEW off \in [0..Len(ss) -> Nat], NEW flat, Placed(off, ss, flat)
  PROVE  Covers(off, ss, flat)
<1> DEFINE n == Len(ss)
           P == {m \in Nat : m <= n =>
                   \A i \in 1..off[m] : \E k \in 1..n : \E j \in 1..Len(ss[k]) : i = off[k - 1] + j}
<1>1. /\ n \in Nat /\ off[0] = 0 /\ off[n] = Len(flat)
      /\ \A k \in 1..n : off[k] = off[k - 1] + Len(ss[k]) /\ Len(ss[k]) \in Nat
  <2>1. n \in Nat /\ \A k \in 1..n : Len(ss[k]) \in Nat
    OBVIOUS
  <2> QED
    BY <2>1 DEF Placed
<1>2. \A k, m \in 0..n : k <= m => off[k] <= off[m]
  BY PlacesAscend
<1>3. \A k \in 0..n : off[k] \in Nat
  OBVIOUS
<1> HIDE DEF n
<1>4. 0 \in P
  BY <1>1
<1>5. ASSUME NEW m \in P PROVE m + 1 \in P
  <2> SUFFICES ASSUME m + 1 <= n, NEW i \in 1..off[m + 1]
               PROVE  \E k \in 1..n : \E j \in 1..Len(ss[k]) : i = off[k - 1] + j
    OBVIOUS
  <2>1. m + 1 \in 1..n /\ (m + 1) - 1 = m /\ m \in 0..n /\ m <= n /\ m + 1 \in 0..n
    BY <1>1
  <2>2. /\ off[m + 1] = off[m] + Len(ss[m + 1]) /\ Len(ss[m + 1]) \in Nat
        /\ off[m] \in Nat /\ off[m + 1] \in Nat
    BY <1>1, <1>3, <2>1
  <2>3. CASE i \in 1..off[m]
    BY <2>1, <2>3
  <2>4. CASE i \notin 1..off[m]
    <3>1. i - off[m] \in 1..Len(ss[m + 1]) /\ i = off[m] + (i - off[m])
      BY <2>2, <2>4
    <3> HIDE DEF P
    <3> QED
      BY <2>1, <3>1
  <2> QED
    BY <2>3, <2>4
<1>6. P = Nat
  <2> HIDE DEF P
  <2>1. P \in SUBSET Nat
    BY DEF P
  <2> QED
    BY <1>4, <1>5, <2>1, NumberInduction
<1>7. \A i \in 1..Len(flat) : \E k \in 1..n : \E j \in 1..Len(ss[k]) : i = off[k - 1] + j
  <2>1. n \in P
    BY <1>1, <1>6
  <2> QED
    BY <1>1, <2>1
<1>8. ASSUME NEW k \in 1..n, NEW j \in 1..Len(ss[k]) PROVE off[k - 1] + j \in 1..Len(flat)
  <2>1. k - 1 \in 0..n /\ k \in 0..n /\ n \in 0..n /\ k <= n
    BY <1>1
  <2> DEFINE x == off[k - 1]
             y == off[k]
             z == off[n]
             w == Len(ss[k])
  <2>2. y <= z /\ x \in Nat /\ y \in Nat /\ z \in Nat
    BY <1>2, <1>3, <2>1
  <2>3. y = x + w /\ w \in Nat
    BY <1>1
  <2>4. z = Len(flat)
    BY <1>1
  <2>5. j \in 1..w
    OBVIOUS
  <2> HIDE DEF x, y, z, w
  <2>6. x + j \in 1..z
    BY <2>2, <2>3, <2>5
  <2> QED
    BY <2>4, <2>6 DEF x
<1> QED
  BY <1>7, <1>8 DEF n, Covers

(* A sequence whose elements all have different keys.                       *)
Distinct(s, key) == \A i, j \in DOMAIN s : key[s[i]] = key[s[j]] => i = j

LEMMA FlattenElements ==
  ASSUME NEW T, NEW ss \in Seq(Seq(T))
  PROVE  ToSet(FlattenSeq(ss)) = UNION {ToSet(ss[k]) : k \in DOMAIN ss}
<1> DEFINE flat == FlattenSeq(ss)
<1>1. flat \in Seq(T)
  BY FlattenPlaces
<1>2. PICK off \in [0..Len(ss) -> Nat] : Placed(off, ss, flat)
  BY FlattenPlaces
<1> HIDE DEF flat
<1>3. DOMAIN flat = 1..Len(flat) /\ DOMAIN ss = 1..Len(ss) /\ \A k \in DOMAIN ss : DOMAIN ss[k] = 1..Len(ss[k])
  BY <1>1
<1>4. \A k \in 1..Len(ss) : \A j \in 1..Len(ss[k]) : flat[off[k - 1] + j] = ss[k][j]
  BY <1>2 DEF Placed
<1>5. Covers(off, ss, flat)
  BY <1>2, PlacesCover
<1>6. ASSUME NEW x \in ToSet(flat) PROVE \E k \in DOMAIN ss : x \in ToSet(ss[k])
  <2>1. PICK i \in 1..Len(flat) : x = flat[i]
    BY <1>3 DEF ToSet
  <2>2. PICK k \in 1..Len(ss) : \E j \in 1..Len(ss[k]) : i = off[k - 1] + j
    BY <1>5 DEF Covers
  <2>3. PICK j \in 1..Len(ss[k]) : i = off[k - 1] + j
    BY <2>2
  <2>4. k \in DOMAIN ss /\ j \in DOMAIN ss[k] /\ x = ss[k][j]
    BY <1>3, <1>4, <2>1, <2>3
  <2> QED
    BY <2>4 DEF ToSet
<1>7. ASSUME NEW k \in DOMAIN ss, NEW x \in ToSet(ss[k]) PROVE x \in ToSet(flat)
  <2>1. PICK j \in 1..Len(ss[k]) : x = ss[k][j]
    BY <1>3 DEF ToSet
  <2>2. off[k - 1] + j \in DOMAIN flat /\ flat[off[k - 1] + j] = x
    BY <1>3, <1>4, <1>5, <2>1 DEF Covers
  <2> QED
    BY <2>2 DEF ToSet
<1> QED
  BY <1>6, <1>7 DEF flat

PartsDistinct(ss, key) ==
  /\ \A k \in DOMAIN ss : Distinct(ss[k], key)
  /\ \A k, m \in DOMAIN ss : \A x \in ToSet(ss[k]), y \in ToSet(ss[m]) : key[x] = key[y] => k = m

LEMMA FlattenDistinct ==
  ASSUME NEW T, NEW ss \in Seq(Seq(T)), NEW key, PartsDistinct(ss, key)
  PROVE  Distinct(FlattenSeq(ss), key)
<1> DEFINE flat == FlattenSeq(ss)
<1>1. flat \in Seq(T)
  BY FlattenPlaces
<1>2. PICK off \in [0..Len(ss) -> Nat] : Placed(off, ss, flat)
  BY FlattenPlaces
<1> HIDE DEF flat
<1>3. DOMAIN flat = 1..Len(flat) /\ DOMAIN ss = 1..Len(ss) /\ \A k \in DOMAIN ss : DOMAIN ss[k] = 1..Len(ss[k])
  BY <1>1
<1>4. \A i \in DOMAIN flat : \E k \in DOMAIN ss : \E j \in DOMAIN ss[k] :
        i = off[k - 1] + j /\ flat[i] = ss[k][j]
  <2>1. Covers(off, ss, flat)
    BY <1>2, PlacesCover
  <2> SUFFICES ASSUME NEW i \in DOMAIN flat
               PROVE  \E k \in DOMAIN ss : \E j \in DOMAIN ss[k] : i = off[k - 1] + j /\ flat[i] = ss[k][j]
    OBVIOUS
  <2>2. PICK k \in 1..Len(ss) : \E j \in 1..Len(ss[k]) : i = off[k - 1] + j
    BY <1>3, <2>1 DEF Covers
  <2>3. PICK j \in 1..Len(ss[k]) : i = off[k - 1] + j
    BY <2>2
  <2>4. flat[off[k - 1] + j] = ss[k][j]
    BY <1>2 DEF Placed
  <2>5. k \in DOMAIN ss /\ j \in DOMAIN ss[k] /\ i = off[k - 1] + j /\ flat[i] = ss[k][j]
    BY <1>3, <2>3, <2>4
  <2> QED
    BY <2>5
<1>5. SUFFICES ASSUME NEW p \in DOMAIN flat, NEW q \in DOMAIN flat, key[flat[p]] = key[flat[q]]
               PROVE  p = q
  BY DEF Distinct, flat
<1>6. PICK k \in DOMAIN ss : \E j \in DOMAIN ss[k] : p = off[k - 1] + j /\ flat[p] = ss[k][j]
  BY <1>4
<1>7. PICK j \in DOMAIN ss[k] : p = off[k - 1] + j /\ flat[p] = ss[k][j]
  BY <1>6
<1>8. PICK m \in DOMAIN ss : \E i \in DOMAIN ss[m] : q = off[m - 1] + i /\ flat[q] = ss[m][i]
  BY <1>4
<1>9. PICK i \in DOMAIN ss[m] : q = off[m - 1] + i /\ flat[q] = ss[m][i]
  BY <1>8
<1>10. flat[p] \in ToSet(ss[k]) /\ flat[q] \in ToSet(ss[m])
  BY <1>7, <1>9 DEF ToSet
<1>11. k = m
  BY <1>5, <1>10 DEF PartsDistinct
<1>12. j = i
  <2>1. Distinct(ss[k], key)
    BY DEF PartsDistinct
  <2> QED
    BY <1>5, <1>7, <1>9, <1>11, <2>1 DEF Distinct
<1> QED
  BY <1>7, <1>9, <1>11, <1>12

LEMMA CatElements ==
  ASSUME NEW T, NEW a \in Seq(T), NEW b \in Seq(T)
  PROVE  ToSet(a \o b) = ToSet(a) \cup ToSet(b)
<1> DEFINE c == a \o b
<1>1. /\ c \in Seq(T) /\ Len(c) = Len(a) + Len(b) /\ Len(a) \in Nat /\ Len(b) \in Nat
      /\ \A i \in 1..Len(a) : c[i] = a[i]
      /\ \A j \in 1..Len(b) : c[Len(a) + j] = b[j]
      /\ \A i \in 1..Len(c) : i \in 1..Len(a) \/ \E j \in 1..Len(b) : i = Len(a) + j
  BY CatFacts
<1> HIDE DEF c
<1>2. DOMAIN c = 1..Len(c) /\ DOMAIN a = 1..Len(a) /\ DOMAIN b = 1..Len(b)
  BY <1>1
<1>3. (\A i \in 1..Len(a) : i \in 1..Len(c)) /\ \A j \in 1..Len(b) : Len(a) + j \in 1..Len(c)
  BY <1>1
<1>4. ASSUME NEW x \in ToSet(c) PROVE x \in ToSet(a) \cup ToSet(b)
  <2>1. PICK i \in 1..Len(c) : x = c[i]
    BY <1>2 DEF ToSet
  <2>2. CASE i \in 1..Len(a)
    <3>1. i \in DOMAIN a /\ x = a[i]
      BY <1>1, <1>2, <2>1, <2>2
    <3> QED
      BY <3>1 DEF ToSet
  <2>3. CASE i \notin 1..Len(a)
    <3>1. PICK j \in 1..Len(b) : i = Len(a) + j
      BY <1>1, <2>3
    <3>2. j \in DOMAIN b /\ x = b[j]
      BY <1>1, <1>2, <2>1, <3>1
    <3> QED
      BY <3>2 DEF ToSet
  <2> QED
    BY <2>2, <2>3
<1>5. ASSUME NEW x \in ToSet(a) PROVE x \in ToSet(c)
  <2>1. PICK i \in 1..Len(a) : x = a[i]
    BY <1>2 DEF ToSet
  <2>2. i \in DOMAIN c /\ c[i] = x
    BY <1>1, <1>2, <1>3, <2>1
  <2> QED
    BY <2>2 DEF ToSet
<1>6. ASSUME NEW x \in ToSet(b) PROVE x \in ToSet(c)
  <2>1. PICK j \in 1..Len(b) : x = b[j]
    BY <1>2 DEF ToSet
  <2>2. Len(a) + j \in DOMAIN c /\ c[Len(a) + j] = x
    BY <1>1, <1>2, <1>3, <2>1
  <2> QED
    BY <2>2 DEF ToSet
<1> QED
  BY <1>4, <1>5, <1>6 DEF c

LEMMA CatDistinct ==
  ASSUME NEW T, NEW a \in Seq(T), NEW b \in Seq(T), NEW key, Distinct(a, key), Distinct(b, key),
         \A x \in ToSet(a), y \in ToSet(b) : key[x] # key[y]
  PROVE  Distinct(a \o b, key)
<1> DEFINE c == a \o b
<1>1. /\ c \in Seq(T) /\ Len(c) = Len(a) + Len(b) /\ Len(a) \in Nat /\ Len(b) \in Nat
      /\ \A i \in 1..Len(a) : c[i] = a[i]
      /\ \A j \in 1..Len(b) : c[Len(a) + j] = b[j]
      /\ \A i \in 1..Len(c) : i \in 1..Len(a) \/ \E j \in 1..Len(b) : i = Len(a) + j
  BY CatFacts
<1> HIDE DEF c
<1>2. DOMAIN c = 1..Len(c) /\ DOMAIN a = 1..Len(a) /\ DOMAIN b = 1..Len(b)
  BY <1>1
<1>3. SUFFICES ASSUME NEW p \in 1..Len(c), NEW q \in 1..Len(c), key[c[p]] = key[c[q]]
               PROVE  p = q
  BY <1>2 DEF Distinct, c
<1>4. CASE p \in 1..Len(a) /\ q \in 1..Len(a)
  <2>1. p \in DOMAIN a /\ q \in DOMAIN a /\ key[a[p]] = key[a[q]]
    BY <1>1, <1>2, <1>3, <1>4
  <2> QED
    BY <2>1 DEF Distinct
<1>5. CASE p \in 1..Len(a) /\ q \notin 1..Len(a)
  <2>1. PICK j \in 1..Len(b) : q = Len(a) + j
    BY <1>1, <1>5
  <2>2. c[p] \in ToSet(a) /\ c[q] \in ToSet(b)
    BY <1>1, <1>2, <1>5, <2>1 DEF ToSet
  <2> QED
    BY <1>3, <2>2
<1>6. CASE p \notin 1..Len(a) /\ q \in 1..Len(a)
  <2>1. PICK j \in 1..Len(b) : p = Len(a) + j
    BY <1>1, <1>6
  <2>2. c[q] \in ToSet(a) /\ c[p] \in ToSet(b)
    BY <1>1, <1>2, <1>6, <2>1 DEF ToSet
  <2> QED
    BY <1>3, <2>2
<1>7. CASE p \notin 1..Len(a) /\ q \notin 1..Len(a)
  <2>1. PICK j \in 1..Len(b) : p = Len(a) + j
    BY <1>1, <1>7
  <2>2. PICK i \in 1..Len(b) : q = Len(a) + i
    BY <1>1, <1>7
  <2>3. j \in DOMAIN b /\ i \in DOMAIN b /\ key[b[j]] = key[b[i]]
    BY <1>1, <1>2, <1>3, <2>1, <2>2
  <2>4. j = i
    BY <2>3 DEF Distinct
  <2> QED
    BY <2>1, <2>2, <2>4
<1> QED
  BY <1>4, <1>5, <1>6, <1>7
=============================================================================
