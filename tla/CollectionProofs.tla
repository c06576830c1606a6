-------------------------- MODULE CollectionProofs --------------------------
(***************************************************************************)
(* Proofs about one collection, for any machines, objects, answers and     *)
(* page size, and however often the Substrate changes meanwhile.           *)
(***************************************************************************)
EXTENDS Collection, FiniteSetTheorems, TLAPS

(***************************************************************************)
(* Induction, on a set of what has been shown, and what a fold computes.   *)
(***************************************************************************)
LEMMA OnNaturals ==
    ASSUME NEW T, 0 \in T, \A n \in Nat : n \in T => n + 1 \in T
    PROVE  \A n \in Nat : n \in T
<1> DEFINE bad == {n \in Nat : n \notin T}
<1> SUFFICES ASSUME bad # {} PROVE FALSE
  OBVIOUS
<1>1. PICK m \in bad : \A k \in bad : ~(<<k, m>> \in OpToRel(<, Nat))
  <2>1. bad \subseteq Nat
    OBVIOUS
  <2> QED BY <2>1, WFMin, NatLessThanWellFounded, Zenon
<1>2. m \in Nat /\ m # 0 /\ m \notin T
  OBVIOUS
<1>3. m - 1 \in Nat /\ m - 1 < m /\ m - 1 + 1 = m
  BY <1>2
<1>4. m - 1 \notin bad
  BY <1>1, <1>2, <1>3 DEF OpToRel
<1> QED BY <1>2, <1>3, <1>4

\* Every set of a finite set's elements, taking one element away at a time.
LEMMA OnSubsets ==
    ASSUME NEW S, IsFiniteSet(S), NEW T, {} \in T,
           \A s \in SUBSET S : s # {} => \E x \in s : s \ {x} \in T => s \in T
    PROVE  \A s \in SUBSET S : s \in T
<1> DEFINE N == {n \in Nat : \A s \in SUBSET S : Cardinality(s) = n => s \in T}
<1>1. 0 \in N
  BY FS_Subset, FS_EmptySet
<1>2. ASSUME NEW n \in Nat, n \in N PROVE n + 1 \in N
  <2> SUFFICES ASSUME NEW s \in SUBSET S, Cardinality(s) = n + 1 PROVE s \in T
    OBVIOUS
  <2>1. IsFiniteSet(s)
    BY FS_Subset
  <2>0. \A u \in SUBSET S : Cardinality(u) = n => u \in T
    BY <1>2
  <2> HIDE DEF N
  <2>2. s # {}
    <3>1. Cardinality({}) = 0 /\ Cardinality(s) # 0
      BY FS_EmptySet
    <3> QED BY <3>1
  <2>3. PICK x \in s : s \ {x} \in T => s \in T
    BY <2>2
  <2>4. Cardinality(s \ {x}) = n
    <3>1. Cardinality(s \ {x}) = Cardinality(s) - 1
      BY <2>1, FS_RemoveElement
    <3> QED BY <3>1
  <2> QED BY <2>0, <2>3, <2>4
<1>3. \A n \in Nat : n \in N
  <2> HIDE DEF N
  <2> QED BY <1>1, <1>2, OnNaturals
<1>4. ASSUME NEW s \in SUBSET S PROVE s \in T
  <2>1. IsFiniteSet(s)
    BY FS_Subset
  <2>2. Cardinality(s) \in N
    BY <1>3, <2>1, FS_CardinalityType
  <2> QED BY <2>2
<1> QED BY <1>4

Takes(c, S) == \A s \in SUBSET S : s # {} => c[s] \in s

\* The recursion of MapThenFoldSet: h adds the element that c takes to what the
\* fold of the others gave.
IsFold(g, S, base, h, c) ==
    /\ g[{}] = base
    /\ \A s \in SUBSET S : s # {} => g[s] = h[c[s]][g[s \ {c[s]}]]

LEMMA FoldDefined ==
    ASSUME NEW S, IsFiniteSet(S), NEW V, NEW base \in V, NEW h \in [S -> [V -> V]],
           NEW c, Takes(c, S)
    PROVE  \E g \in [SUBSET S -> V] : IsFold(g, S, base, h, c)
<1> DEFINE Upto(n) == {s \in SUBSET S : Cardinality(s) <= n}
           Solves(g, n) == \A s \in Upto(n) :
                             g[s] = IF s = {} THEN base ELSE h[c[s]][g[s \ {c[s]}]]
           N == {n \in Nat : \E g \in [Upto(n) -> V] : Solves(g, n)}
<1>0. ASSUME NEW s \in SUBSET S, s # {}, NEW n \in Nat
      PROVE  /\ c[s] \in S /\ Cardinality(s) \in Nat
             /\ s \in Upto(n + 1) => s \ {c[s]} \in Upto(n)
  <2>1. IsFiniteSet(s) /\ c[s] \in s
    BY <1>0, FS_Subset DEF Takes
  <2>2. Cardinality(s \ {c[s]}) = Cardinality(s) - 1 /\ Cardinality(s) \in Nat
    BY <2>1, FS_RemoveElement, FS_CardinalityType
  <2> QED BY <2>1, <2>2
<1>1. 0 \in N
  <2> DEFINE g == [s \in Upto(0) |-> base]
  <2>1. \A s \in Upto(0) : s = {}
    BY FS_Subset, FS_EmptySet, FS_CardinalityType
  <2>2. g \in [Upto(0) -> V] /\ Solves(g, 0)
    BY <2>1
  <2> QED BY <2>2
<1>2. ASSUME NEW n \in Nat, n \in N PROVE n + 1 \in N
  <2>1. PICK g \in [Upto(n) -> V] : Solves(g, n)
    BY <1>2
  <2> DEFINE f == [s \in Upto(n + 1) |-> IF s = {} THEN base ELSE h[c[s]][g[s \ {c[s]}]]]
  <2>2. f \in [Upto(n + 1) -> V]
    <3> SUFFICES ASSUME NEW s \in Upto(n + 1), s # {} PROVE h[c[s]][g[s \ {c[s]}]] \in V
      OBVIOUS
    <3>1. c[s] \in S /\ s \ {c[s]} \in Upto(n)
      BY <1>0
    <3>2. g[s \ {c[s]}] \in V /\ h[c[s]] \in [V -> V]
      BY <2>1, <3>1
    <3> QED BY <3>1, <3>2
  <2>3. \A s \in Upto(n) : s \in Upto(n + 1) /\ f[s] = g[s]
    <3> TAKE s \in Upto(n)
    <3>1. s \in Upto(n + 1)
      <4>1. IsFiniteSet(s)
        BY FS_Subset
      <4> QED BY <4>1, FS_CardinalityType
    <3> QED BY <2>1, <3>1
  <2>4. Solves(f, n + 1)
    <3> SUFFICES ASSUME NEW s \in Upto(n + 1), s # {} PROVE f[s] = h[c[s]][f[s \ {c[s]}]]
      OBVIOUS
    <3>1. s \ {c[s]} \in Upto(n)
      BY <1>0
    <3>2. f[s \ {c[s]}] = g[s \ {c[s]}]
      BY <2>3, <3>1
    <3>3. f[s] = h[c[s]][g[s \ {c[s]}]]
      OBVIOUS
    <3> QED BY <3>2, <3>3
  <2>5. n + 1 \in Nat
    OBVIOUS
  <2> HIDE DEF f, Solves, Upto
  <2> QED BY <2>2, <2>4, <2>5
<1>3. Cardinality(S) \in Nat
  BY FS_CardinalityType
<1>4. Cardinality(S) \in N
  <2> HIDE DEF N
  <2> QED BY <1>1, <1>2, <1>3, OnNaturals
<1>5. Upto(Cardinality(S)) = SUBSET S
  BY FS_Subset
<1>6. PICK g \in [SUBSET S -> V] : Solves(g, Cardinality(S))
  BY <1>4, <1>5
<1>7. g[{}] = base
  BY <1>5, <1>6
<1>8. \A s \in SUBSET S : s # {} => g[s] = h[c[s]][g[s \ {c[s]}]]
  BY <1>5, <1>6
<1> QED BY <1>7, <1>8 DEF IsFold

LEMMA MaxOfPrefix ==
    ASSUME NEW k \in Nat \ {0}
    PROVE  Max(1..k) = k /\ (1..k) \ {k} = 1..(k - 1)
BY DEF Max

\* A finite set of numbers has a largest.
LEMMA MaxExists ==
    ASSUME NEW S \in SUBSET Nat, IsFiniteSet(S), S # {}
    PROVE  Max(S) \in S /\ \A k \in S : k <= Max(S)
<1> DEFINE T == {t \in SUBSET S : t # {} => \E m \in t : \A k \in t : k <= m}
<1>1. {} \in T
  OBVIOUS
<1>2. ASSUME NEW t \in SUBSET S, t # {} PROVE \E x \in t : t \ {x} \in T => t \in T
  <2>1. PICK x \in t : TRUE
    BY <1>2
  <2>2. ASSUME t \ {x} \in T PROVE t \in T
    <3>1. CASE t \ {x} = {}
      <4>1. \A k \in t : k <= x
        BY <3>1
      <4> QED BY <4>1
    <3>2. CASE t \ {x} # {}
      <4>1. PICK m \in t \ {x} : \A k \in t \ {x} : k <= m
        BY <2>2, <3>2
      <4>2. m \in Nat /\ x \in Nat
        OBVIOUS
      <4>3. \/ \A k \in t : k <= m
            \/ \A k \in t : k <= x
        BY <4>1, <4>2
      <4> QED BY <4>3
    <3> QED BY <3>1, <3>2
  <2> QED BY <2>2
<1>3. S \in T
  <2> HIDE DEF T
  <2>1. \A t \in SUBSET S : t # {} => \E x \in t : t \ {x} \in T => t \in T
    BY <1>2
  <2>2. \A t \in SUBSET S : t \in T
    BY <1>1, <2>1, OnSubsets, Zenon
  <2> QED BY <2>2
<1>4. PICK m \in S : \A k \in S : m >= k
  BY <1>3
<1>5. Max(S) \in S /\ \A k \in S : Max(S) >= k
  BY <1>4 DEF Max
<1> QED BY <1>5

LEMMA MaxIsIn ==
    ASSUME NEW n \in Nat, NEW s \in SUBSET (1..n), s # {}
    PROVE  Max(s) \in s /\ \A k \in s : k <= Max(s)
<1>1. IsFiniteSet(1..n) /\ s \in SUBSET Nat
  BY FS_Interval
<1>2. IsFiniteSet(s)
  BY <1>1, FS_Subset
<1> QED BY <1>1, <1>2, MaxExists

\* FoldLeft's recursion, over the indices of n elements, as far as it stays in V.
FoldsLeft(g, n, V, base, h) ==
    \A s \in SUBSET (1..n) :
      /\ s = {} => g[s] = base
      /\ s # {} /\ g[s \ {Max(s)}] \in V => g[s] = h[Max(s)][g[s \ {Max(s)}]]

LEMMA FoldLeftDefined ==
    ASSUME NEW n \in Nat, NEW V, NEW base \in V, NEW h \in [1..n -> [V -> V]]
    PROVE  \E g \in [SUBSET (1..n) -> V] : FoldsLeft(g, n, V, base, h)
<1> DEFINE S == 1..n
           c == [s \in SUBSET S |-> Max(s)]
<1>1. IsFiniteSet(S)
  BY FS_Interval
<1>2. Takes(c, S)
  BY MaxIsIn DEF Takes
<1>3. h \in [S -> [V -> V]]
  OBVIOUS
<1>4. PICK g \in [SUBSET S -> V] : IsFold(g, S, base, h, c)
  <2> HIDE DEF S, c
  <2> QED BY <1>1, <1>2, <1>3, FoldDefined, Zenon
<1>5. FoldsLeft(g, n, V, base, h)
  BY <1>4 DEF IsFold, FoldsLeft
<1> QED BY <1>4, <1>5

\* The fold of n elements is acc[n], where acc adds one element after the other.
Accumulates(acc, n, base, h) ==
    acc[0] = base /\ \A k \in 1..n : acc[k] = h[k][acc[k - 1]]

LEMMA FoldOnPrefixes ==
    ASSUME NEW n \in Nat, NEW V, NEW base \in V, NEW h \in [1..n -> [V -> V]], NEW g,
           FoldsLeft(g, n, V, base, h)
    PROVE  \E acc \in [0..n -> V] : g[1..n] = acc[n] /\ Accumulates(acc, n, base, h)
<1> DEFINE T == {k \in Nat : k <= n => g[1..k] \in V}
           acc == [k \in 0..n |-> g[1..k]]
<1>1. g[1..0] = base
  <2>1. 1..0 = {} /\ {} \in SUBSET (1..n)
    OBVIOUS
  <2> QED BY <2>1 DEF FoldsLeft
<1>2. ASSUME NEW k \in 1..n, g[1..(k - 1)] \in V PROVE g[1..k] = h[k][g[1..(k - 1)]]
  <2>1. 1..k \in SUBSET (1..n) /\ 1..k # {}
    <3>1. 1 \in 1..k /\ \A i \in 1..k : i \in 1..n
      OBVIOUS
    <3> QED BY <3>1
  <2>2. Max(1..k) = k /\ (1..k) \ {k} = 1..(k - 1)
    BY MaxOfPrefix
  <2> QED BY <1>2, <2>1, <2>2 DEF FoldsLeft
<1>3. ASSUME NEW k \in Nat, k \in T PROVE k + 1 \in T
  <2> SUFFICES ASSUME k + 1 <= n PROVE g[1..(k + 1)] \in V
    OBVIOUS
  <2>1. k + 1 \in 1..n /\ k + 1 - 1 = k /\ g[1..k] \in V
    BY <1>3
  <2>2. g[1..(k + 1)] = h[k + 1][g[1..k]]
    BY <1>2, <2>1
  <2> QED BY <2>1, <2>2
<1>4. \A k \in Nat : k \in T
  <2>1. 0 \in T
    BY <1>1
  <2> HIDE DEF T
  <2> QED BY <1>3, <2>1, OnNaturals
<1>5. acc \in [0..n -> V]
  BY <1>4
<1>6. ASSUME NEW k \in 1..n PROVE acc[k] = h[k][acc[k - 1]]
  <2>1. k - 1 \in 0..n /\ k \in 0..n
    OBVIOUS
  <2>2. g[1..(k - 1)] \in V
    BY <1>4, <2>1
  <2> QED BY <1>2, <2>1, <2>2
<1>7. acc[0] = base /\ acc[n] = g[1..n]
  BY <1>1
<1> HIDE DEF acc
<1>8. Accumulates(acc, n, base, h)
  BY <1>6, <1>7 DEF Accumulates
<1> QED BY <1>5, <1>7, <1>8

-----------------------------------------------------------------------------
LEMMA OcpusAreCounted ==
    ASSUME NEW M, IsFiniteSet(M), \A i \in M : i.ocpus \in Nat
    PROVE  ampereOCPU(M) \in Nat
<1> DEFINE Val(i) == IF i.ampere THEN i.ocpus ELSE 0
           c == [s \in SUBSET M |-> CHOOSE x \in s : TRUE]
           h == [i \in M |-> [v \in Nat |-> Val(i) + v]]
           Sums(g) == g = [s \in SUBSET M |->
                             IF s = {} THEN 0
                             ELSE LET x == CHOOSE x \in s : TRUE IN Val(x) + g[s \ {x}]]
           sum == CHOOSE g : Sums(g)
           T == {s \in SUBSET M : sum[s] \in Nat}
<1>1. ampereOCPU(M) = sum[M]
  BY DEF ampereOCPU, MapThenSumSet, MapThenFoldSet
<1>2. \E g : Sums(g)
  <2>1. h \in [M -> [Nat -> Nat]] /\ Takes(c, M) /\ 0 \in Nat
    BY DEF Takes
  <2>2. PICK g \in [SUBSET M -> Nat] : IsFold(g, M, 0, h, c)
    <3> HIDE DEF h, c
    <3> QED BY <2>1, FoldDefined, Zenon
  <2>3. ASSUME NEW s \in SUBSET M, s # {}
        PROVE  g[s] = LET x == CHOOSE x \in s : TRUE IN Val(x) + g[s \ {x}]
    <3>1. c[s] \in M /\ g[s \ {c[s]}] \in Nat /\ c[s] = CHOOSE x \in s : TRUE
      BY <2>1, <2>3 DEF Takes
    <3>2. g[s] = Val(c[s]) + g[s \ {c[s]}]
      BY <2>2, <2>3, <3>1 DEF IsFold
    <3> QED BY <3>1, <3>2
  <2>4. Sums(g)
    BY <2>2, <2>3 DEF IsFold
  <2> QED BY <2>4
<1>3. Sums(sum)
  <2> HIDE DEF Sums
  <2> QED BY <1>2
<1>4. {} \in T
  <2>1. sum[{}] = 0
    <3> HIDE DEF sum
    <3> QED BY <1>3
  <2> QED BY <2>1
<1>5. ASSUME NEW s \in SUBSET M, s # {} PROVE \E x \in s : s \ {x} \in T => s \in T
  <2>1. PICK x \in s : x = CHOOSE y \in s : TRUE
    BY <1>5
  <2>2. sum[s] = Val(x) + sum[s \ {x}]
    <3> HIDE DEF sum
    <3> QED BY <1>3, <1>5, <2>1
  <2>3. Val(x) \in Nat /\ s \ {x} \in SUBSET M
    OBVIOUS
  <2>4. sum[s \ {x}] \in Nat => sum[s] \in Nat
    <3> HIDE DEF sum, Val
    <3> QED BY <2>2, <2>3
  <2> HIDE DEF sum
  <2> QED BY <2>3, <2>4
<1>6. \A s \in SUBSET M : s \in T
  <2> HIDE DEF T
  <2> QED BY <1>4, <1>5, OnSubsets
<1>7. M \in T
  <2> HIDE DEF T
  <2> QED BY <1>6
<1> QED BY <1>1, <1>7

-----------------------------------------------------------------------------
Points == [at : Nat \cup {Null}, value : Nat \cup {Null}]
Series == [key : STRING, at : Nat, value : Nat]

Complete(p) == p.value # Null /\ p.at # Null

\* newestDatapoint finds the newest of the complete points, if there is one.
LEMMA NewestFound ==
    ASSUME NEW points \in Seq(Points)
    PROVE  \/ /\ newestDatapoint(points) = <<>>
              /\ \A i \in DOMAIN points : ~Complete(points[i])
           \/ \E i \in DOMAIN points :
                /\ newestDatapoint(points) = <<points[i]>> /\ Complete(points[i])
                /\ \A j \in DOMAIN points : Complete(points[j]) => points[j].at <= points[i].at
<1> DEFINE n == Len(points)
           V == {<<>>} \cup {<<p>> : p \in Points}
           Op(best, p) == IF \/ p.value = Null \/ p.at = Null
                             \/ (best # <<>> /\ p.at <= best[1].at)
                          THEN best ELSE <<p>>
           h == [k \in 1..n |-> [v \in V |-> Op(v, points[k])]]
           Eq(g) == g = [s \in SUBSET DOMAIN points |->
                           IF s = {} THEN <<>>
                           ELSE LET x == Max(s) IN Op(g[s \ {x}], points[x])]
           fold == CHOOSE g : Eq(g)
<1>1. n \in Nat /\ DOMAIN points = 1..n /\ \A k \in 1..n : points[k] \in Points
  OBVIOUS
<1>2. newestDatapoint(points) = fold[DOMAIN points]
  BY DEF newestDatapoint, FoldLeft, MapThenFoldSet
<1>3. h \in [1..n -> [V -> V]] /\ <<>> \in V
  BY <1>1
<1>4. \E g : Eq(g)
  <2>1. PICK g \in [SUBSET (1..n) -> V] : FoldsLeft(g, n, V, <<>>, h)
    <3> HIDE DEF n, V, h
    <3> QED BY <1>1, <1>3, FoldLeftDefined, Zenon
  <2>2. ASSUME NEW s \in SUBSET (1..n), s # {} PROVE g[s] = Op(g[s \ {Max(s)}], points[Max(s)])
    <3>1. Max(s) \in 1..n
      BY <1>1, <2>2, MaxIsIn
    <3>2. g[s \ {Max(s)}] \in V
      <4> HIDE DEF V, n
      <4> QED OBVIOUS
    <3>3. g[s] = h[Max(s)][g[s \ {Max(s)}]]
      <4> HIDE DEF V, n, h
      <4> QED BY <2>1, <2>2, <3>2 DEF FoldsLeft
    <3> HIDE DEF V, n, Op
    <3> QED BY <3>1, <3>2, <3>3
  <2>3. g[{}] = <<>>
    BY <2>1 DEF FoldsLeft
  <2>4. Eq(g)
    <3> HIDE DEF V, n, Op, h
    <3> QED BY <1>1, <2>2, <2>3
  <2> HIDE DEF Eq
  <2> QED BY <2>4
<1>5. Eq(fold)
  <2> HIDE DEF Eq
  <2> QED BY <1>4
<1>6. FoldsLeft(fold, n, V, <<>>, h)
  <2> HIDE DEF fold
  <2> SUFFICES ASSUME NEW s \in SUBSET (1..n), s # {}, fold[s \ {Max(s)}] \in V
               PROVE  fold[s] = h[Max(s)][fold[s \ {Max(s)}]]
    <3>1. fold[{}] = <<>>
      BY <1>1, <1>5
    <3> HIDE DEF V, n, Op, h, Eq
    <3> QED BY <3>1 DEF FoldsLeft
  <2>1. Max(s) \in 1..n
    BY <1>1, MaxIsIn
  <2>2. fold[s] = Op(fold[s \ {Max(s)}], points[Max(s)])
    <3> HIDE DEF Op, V
    <3> QED BY <1>1, <1>5
  <2> HIDE DEF Op, V, n
  <2> QED BY <2>1, <2>2
<1>7. PICK acc \in [0..n -> V] : fold[1..n] = acc[n] /\ Accumulates(acc, n, <<>>, h)
  <2> HIDE DEF n, V, h, fold
  <2> QED BY <1>1, <1>3, <1>6, FoldOnPrefixes, Zenon
<1> DEFINE Good(k) ==
             \/ acc[k] = <<>> /\ \A i \in 1..k : ~Complete(points[i])
             \/ \E i \in 1..k :
                  /\ acc[k] = <<points[i]>> /\ Complete(points[i])
                  /\ \A j \in 1..k : Complete(points[j]) => points[j].at <= points[i].at
           T == {k \in Nat : k <= n => Good(k)}
<1>8. 0 \in T
  BY <1>7 DEF Accumulates
<1>9. ASSUME NEW k \in Nat, k \in T PROVE k + 1 \in T
  <2> SUFFICES ASSUME k + 1 <= n PROVE Good(k + 1)
    OBVIOUS
  <2>1. k + 1 \in 1..n /\ k + 1 - 1 = k /\ k \in 0..n /\ Good(k)
    BY <1>1, <1>9
  <2> DEFINE p == points[k + 1]
  <2>2. p \in Points /\ \A i \in 1..k : points[i] \in Points
    BY <1>1, <2>1
  <2>3. acc[k + 1] = Op(acc[k], p)
    <3>1. acc[k + 1] = h[k + 1][acc[k]]
      <4> HIDE DEF h, n, V
      <4> QED BY <1>7, <2>1 DEF Accumulates
    <3>2. acc[k] \in V
      <4> HIDE DEF V
      <4> QED BY <2>1
    <3> HIDE DEF Op, V
    <3> QED BY <2>1, <3>1, <3>2
  <2>4. \A i \in 1..(k + 1) : i \in 1..k \/ i = k + 1
    BY <2>1
  <2>5. CASE ~Complete(p)
    <3>1. acc[k + 1] = acc[k]
      BY <2>3, <2>5 DEF Complete
    <3> HIDE DEF n, V, Op, h
    <3> QED BY <2>1, <2>4, <2>5, <3>1
  <2>6. CASE Complete(p) /\ acc[k] = <<>>
    <3>1. acc[k + 1] = <<p>>
      BY <2>3, <2>6 DEF Complete
    <3>2. \A i \in 1..k : ~Complete(points[i])
      <4> HIDE DEF n, V, Op, h
      <4> QED BY <2>1, <2>6
    <3>3. p.at <= p.at
      BY <2>2, <2>6 DEF Points, Complete, Null
    <3> HIDE DEF n, V, Op, h
    <3> QED BY <2>1, <2>4, <2>6, <3>1, <3>2, <3>3
  <2>7. CASE Complete(p) /\ acc[k] # <<>>
    <3>1. PICK i \in 1..k :
            /\ acc[k] = <<points[i]>> /\ Complete(points[i])
            /\ \A j \in 1..k : Complete(points[j]) => points[j].at <= points[i].at
      <4> HIDE DEF n, V, Op, h
      <4> QED BY <2>1, <2>7
    <3>2. acc[k + 1] = IF p.at <= points[i].at THEN <<points[i]>> ELSE <<p>>
      <4>1. acc[k] # <<>> /\ acc[k][1] = points[i]
        BY <2>7, <3>1
      <4> HIDE DEF n, V, h
      <4> QED BY <2>3, <2>7, <3>1, <4>1 DEF Complete
    <3>3. p.at \in Nat /\ points[i].at \in Nat
      BY <2>2, <2>7, <3>1 DEF Points, Complete, Null
    <3>4. \A j \in 1..k : Complete(points[j]) => points[j].at \in Nat
      BY <2>2 DEF Points, Complete, Null
    <3>5. i \in 1..(k + 1) /\ k + 1 \in 1..(k + 1)
      OBVIOUS
    <3>6. CASE p.at <= points[i].at
      <4>1. \A j \in 1..(k + 1) : Complete(points[j]) => points[j].at <= points[i].at
        BY <2>4, <3>1, <3>6
      <4> HIDE DEF n, V, Op, h
      <4> QED BY <3>1, <3>2, <3>5, <3>6, <4>1
    <3>7. CASE ~(p.at <= points[i].at)
      <4>1. \A j \in 1..(k + 1) : Complete(points[j]) => points[j].at <= p.at
        BY <2>4, <3>1, <3>3, <3>4, <3>7
      <4> HIDE DEF n, V, Op, h
      <4> QED BY <2>7, <3>2, <3>5, <3>7, <4>1
    <3> QED BY <3>6, <3>7
  <2> QED BY <2>5, <2>6, <2>7
<1>10. Good(n)
  <2>1. \A k \in Nat : k \in T
    <3> HIDE DEF T
    <3> QED BY <1>8, <1>9, OnNaturals
  <2> HIDE DEF Good, n
  <2> QED BY <1>1, <2>1
<1> HIDE DEF n, V, Op, h, Eq, fold
<1> QED BY <1>1, <1>2, <1>7, <1>10

\* What latestByDimension has of a key: a series of that key that none is newer
\* than; and it has every key but "".
Tables == UNION {[D -> Series] : D \in SUBSET STRING}

LEMMA LatestFound ==
    ASSUME NEW series \in Seq(Series)
    PROVE  /\ latestByDimension(series) \in Tables
           /\ \A x \in DOMAIN latestByDimension(series) :
                \E i \in DOMAIN series :
                  /\ latestByDimension(series)[x] = series[i] /\ series[i].key = x /\ x # ""
                  /\ \A j \in DOMAIN series : series[j].key = x => series[j].at <= series[i].at
           /\ \A i \in DOMAIN series :
                series[i].key # "" => series[i].key \in DOMAIN latestByDimension(series)
<1> DEFINE n == Len(series)
           V == Tables
           Op(out, s) == IF s.key = "" \/ (s.key \in DOMAIN out /\ s.at <= out[s.key].at)
                        THEN out ELSE Stored(out, s)
           h == [k \in 1..n |-> [v \in V |-> Op(v, series[k])]]
           Eq(g) == g = [s \in SUBSET DOMAIN series |->
                           IF s = {} THEN <<>>
                           ELSE LET x == Max(s) IN Op(g[s \ {x}], series[x])]
           fold == CHOOSE g : Eq(g)
<1>1. n \in Nat /\ DOMAIN series = 1..n /\ \A k \in 1..n : series[k] \in Series
  OBVIOUS
<1>2. latestByDimension(series) = fold[DOMAIN series]
  BY DEF latestByDimension, FoldLeft, MapThenFoldSet
<1>3. h \in [1..n -> [V -> V]] /\ <<>> \in V
  <2>1. ASSUME NEW out \in Tables, NEW s \in Series PROVE Op(out, s) \in Tables
    <3>1. PICK D \in SUBSET STRING : out \in [D -> Series]
      BY DEF Tables
    <3>2. s.key \in STRING
      BY DEF Series
    <3>3. Stored(out, s) \in [D \cup {s.key} -> Series]
      BY <3>1 DEF Stored
    <3>4. D \cup {s.key} \in SUBSET STRING
      BY <3>2
    <3>5. Stored(out, s) \in Tables
      BY <3>3, <3>4 DEF Tables
    <3> QED BY <3>5
  <2>2. <<>> \in Tables
    <3>1. <<>> \in [{} -> Series]
      OBVIOUS
    <3> QED BY <3>1 DEF Tables
  <2>3. \A k \in 1..n : h[k] \in [V -> V]
    <3> HIDE DEF Op, n
    <3> QED BY <1>1, <2>1
  <2> HIDE DEF Op, n
  <2> QED BY <2>2, <2>3
<1>4. \E g : Eq(g)
  <2>1. PICK g \in [SUBSET (1..n) -> V] : FoldsLeft(g, n, V, <<>>, h)
    <3> HIDE DEF n, V, h
    <3> QED BY <1>1, <1>3, FoldLeftDefined, Zenon
  <2>2. ASSUME NEW s \in SUBSET (1..n), s # {} PROVE g[s] = Op(g[s \ {Max(s)}], series[Max(s)])
    <3>1. Max(s) \in 1..n
      BY <1>1, <2>2, MaxIsIn
    <3>2. g[s \ {Max(s)}] \in V
      <4> HIDE DEF V, n
      <4> QED OBVIOUS
    <3>3. g[s] = h[Max(s)][g[s \ {Max(s)}]]
      <4> HIDE DEF V, n, h
      <4> QED BY <2>1, <2>2, <3>2 DEF FoldsLeft
    <3> HIDE DEF V, n, Op
    <3> QED BY <3>1, <3>2, <3>3
  <2>3. g[{}] = <<>>
    BY <2>1 DEF FoldsLeft
  <2>4. Eq(g)
    <3> HIDE DEF V, n, Op, h
    <3> QED BY <1>1, <2>2, <2>3
  <2> HIDE DEF Eq
  <2> QED BY <2>4
<1>5. Eq(fold)
  <2> HIDE DEF Eq
  <2> QED BY <1>4
<1>6. FoldsLeft(fold, n, V, <<>>, h)
  <2> HIDE DEF fold
  <2> SUFFICES ASSUME NEW s \in SUBSET (1..n), s # {}, fold[s \ {Max(s)}] \in V
               PROVE  fold[s] = h[Max(s)][fold[s \ {Max(s)}]]
    <3>1. fold[{}] = <<>>
      BY <1>1, <1>5
    <3> HIDE DEF V, n, Op, h, Eq
    <3> QED BY <3>1 DEF FoldsLeft
  <2>1. Max(s) \in 1..n
    BY <1>1, MaxIsIn
  <2>2. fold[s] = Op(fold[s \ {Max(s)}], series[Max(s)])
    <3> HIDE DEF Op, V
    <3> QED BY <1>1, <1>5
  <2> HIDE DEF Op, V, n
  <2> QED BY <2>1, <2>2
<1>7. PICK acc \in [0..n -> V] : fold[1..n] = acc[n] /\ Accumulates(acc, n, <<>>, h)
  <2> HIDE DEF n, V, h, fold
  <2> QED BY <1>1, <1>3, <1>6, FoldOnPrefixes, Zenon
<1>0. \A k \in 1..n : \A v \in V : h[k][v] = Op(v, series[k])
  <2> HIDE DEF V, Op, n
  <2> QED OBVIOUS
<1> HIDE DEF n, V, Op, h, Eq, fold
<1> DEFINE Newest(k, x, i) ==
             /\ acc[k][x] = series[i] /\ series[i].key = x /\ x # ""
             /\ \A j \in 1..k : series[j].key = x => series[j].at <= series[i].at
           Good(k) ==
             /\ \A x \in DOMAIN acc[k] : \E i \in 1..k : Newest(k, x, i)
             /\ \A i \in 1..k : series[i].key # "" => series[i].key \in DOMAIN acc[k]
           T == {k \in Nat : k <= n => Good(k)}
<1>8. 0 \in T
  <2>1. acc[0] = <<>>
    BY <1>7 DEF Accumulates
  <2>2. DOMAIN acc[0] = {} /\ 1..0 = {}
    BY <2>1
  <2>3. Good(0)
    BY <2>2
  <2> HIDE DEF Good
  <2> QED BY <2>3
<1> HIDE DEF Good, Newest
<1>9. ASSUME NEW k \in Nat, k \in T PROVE k + 1 \in T
  <2> SUFFICES ASSUME k + 1 <= n PROVE Good(k + 1)
    OBVIOUS
  <2>0. Good(k)
    BY <1>1, <1>9
  <2>1. k + 1 \in 1..n /\ k + 1 - 1 = k /\ k \in 0..n /\ \A i \in 1..k : i \in 1..n
    BY <1>1
  <2> DEFINE p == series[k + 1]
  <2>2. p \in Series /\ \A i \in 1..k : series[i] \in Series
    BY <1>1, <2>1
  <2>3. acc[k + 1] = Op(acc[k], p) /\ acc[k] \in V
    <3>1. acc[k + 1] = h[k + 1][acc[k]]
      BY <1>7, <2>1 DEF Accumulates
    <3>2. acc[k] \in V
      BY <2>1
    <3> QED BY <1>0, <2>1, <3>1, <3>2
  <2>4. /\ \A i \in 1..(k + 1) : i \in 1..k \/ i = k + 1
        /\ \A i \in 1..k : i \in 1..(k + 1)
        /\ k + 1 \in 1..(k + 1)
    BY <2>1
  <2>5. p.at \in Nat /\ \A i \in 1..k : series[i].at \in Nat
    BY <2>2 DEF Series
  <2>6. CASE p.key = "" \/ (p.key \in DOMAIN acc[k] /\ p.at <= acc[k][p.key].at)
    <3>1. acc[k + 1] = acc[k]
      BY <2>3, <2>6 DEF Op
    <3>2. ASSUME NEW x \in DOMAIN acc[k + 1] PROVE \E i \in 1..(k + 1) : Newest(k + 1, x, i)
      <4>1. PICK i \in 1..k : Newest(k, x, i)
        BY <2>0, <3>1 DEF Good
      <4>2. \A j \in 1..(k + 1) : series[j].key = x => series[j].at <= series[i].at
        BY <2>4, <2>6, <4>1 DEF Newest
      <4>3. Newest(k + 1, x, i)
        BY <3>1, <4>1, <4>2 DEF Newest
      <4> QED BY <2>4, <4>3
    <3>3. \A i \in 1..(k + 1) : series[i].key # "" => series[i].key \in DOMAIN acc[k + 1]
      <4>1. \A i \in 1..k : series[i].key # "" => series[i].key \in DOMAIN acc[k]
        BY <2>0 DEF Good
      <4>2. p.key # "" => p.key \in DOMAIN acc[k]
        BY <2>6
      <4>3. ASSUME NEW i \in 1..(k + 1) PROVE series[i].key # "" => series[i].key \in DOMAIN acc[k]
        <5>1. i \in 1..k \/ i = k + 1
          BY <2>4
        <5>2. CASE i \in 1..k
          BY <4>1, <5>2
        <5>3. CASE i = k + 1
          BY <4>2, <5>3
        <5> QED BY <5>1, <5>2, <5>3
      <4> QED BY <3>1, <4>3
    <3> QED BY <3>2, <3>3 DEF Good
  <2>7. CASE ~(p.key = "" \/ (p.key \in DOMAIN acc[k] /\ p.at <= acc[k][p.key].at))
    <3>1. acc[k + 1] = Stored(acc[k], p)
      BY <2>3, <2>7 DEF Op
    <3>2. /\ DOMAIN acc[k + 1] = DOMAIN acc[k] \cup {p.key}
          /\ acc[k + 1][p.key] = p
          /\ \A x \in DOMAIN acc[k] : x # p.key => acc[k + 1][x] = acc[k][x]
      BY <3>1 DEF Stored
    <3>3. ASSUME NEW x \in DOMAIN acc[k], x # p.key PROVE \E i \in 1..(k + 1) : Newest(k + 1, x, i)
      <4>1. PICK i \in 1..k : Newest(k, x, i)
        BY <2>0 DEF Good
      <4>2. \A j \in 1..(k + 1) : series[j].key = x => series[j].at <= series[i].at
        BY <2>4, <3>3, <4>1 DEF Newest
      <4>3. Newest(k + 1, x, i)
        BY <3>2, <3>3, <4>1, <4>2 DEF Newest
      <4> QED BY <2>4, <4>3
    <3>4. Newest(k + 1, p.key, k + 1)
      <4>1. ASSUME NEW j \in 1..k, series[j].key = p.key PROVE series[j].at <= p.at
        <5>1. p.key \in DOMAIN acc[k]
          BY <2>0, <2>7, <4>1 DEF Good
        <5>2. PICK i \in 1..k : Newest(k, p.key, i)
          BY <2>0, <5>1 DEF Good
        <5>3. series[j].at <= series[i].at /\ acc[k][p.key] = series[i]
          BY <4>1, <5>2 DEF Newest
        <5>4. ~(p.at <= series[i].at)
          BY <2>7, <5>1, <5>3
        <5>5. p.at \in Nat /\ series[i].at \in Nat /\ series[j].at \in Nat
          BY <2>5
        <5> QED BY <5>3, <5>4, <5>5
      <4>2. \A j \in 1..(k + 1) : series[j].key = p.key => series[j].at <= p.at
        BY <2>4, <2>5, <4>1
      <4> QED BY <2>7, <3>2, <4>2 DEF Newest
    <3>5. \A i \in 1..(k + 1) : series[i].key # "" => series[i].key \in DOMAIN acc[k + 1]
      BY <2>0, <2>4, <3>2 DEF Good
    <3> QED BY <2>4, <3>2, <3>3, <3>4, <3>5 DEF Good
  <2> QED BY <2>6, <2>7
<1>10. Good(n) /\ acc[n] \in Tables
  <2>1. \A k \in Nat : k \in T
    <3> HIDE DEF T
    <3> QED BY <1>8, <1>9, OnNaturals
  <2> QED BY <1>1, <2>1 DEF V
<1>11. latestByDimension(series) = acc[n] /\ DOMAIN series = 1..n
  BY <1>1, <1>2, <1>7
<1>12. \A x \in DOMAIN acc[n] : \E i \in 1..n : Newest(n, x, i)
  BY <1>10 DEF Good
<1>13. \A i \in 1..n : series[i].key # "" => series[i].key \in DOMAIN acc[n]
  BY <1>10 DEF Good
<1> QED BY <1>10, <1>11, <1>12, <1>13 DEF Newest

\* OciSeries has one series for each item with a complete point, and no other.
Items == [key : STRING, points : Seq(Points)]

IsSeriesOf(s, item) ==
    LET latest == newestDatapoint(item.points)
    IN latest # <<>> /\ s = [key |-> item.key, at |-> latest[1].at, value |-> latest[1].value]

LEMMA SeriesTyped ==
    ASSUME NEW item \in Items, newestDatapoint(item.points) # <<>>
    PROVE  LET latest == newestDatapoint(item.points)
           IN [key |-> item.key, at |-> latest[1].at, value |-> latest[1].value] \in Series
<1>1. item.points \in Seq(Points) /\ item.key \in STRING
  BY DEF Items
<1>2. PICK i \in DOMAIN item.points :
        newestDatapoint(item.points) = <<item.points[i]>> /\ Complete(item.points[i])
  BY <1>1, NewestFound
<1>3. item.points[i] \in Points
  BY <1>1
<1>4. item.points[i].at \in Nat /\ item.points[i].value \in Nat
  BY <1>2, <1>3 DEF Points, Complete, Null
<1>5. newestDatapoint(item.points)[1] = item.points[i]
  BY <1>2
<1> QED BY <1>1, <1>4, <1>5 DEF Series

LEMMA AllSeriesFound ==
    ASSUME NEW items \in Seq(Items)
    PROVE  /\ OciSeries(items) \in Seq(Series)
           /\ \A k \in DOMAIN OciSeries(items) :
                \E i \in DOMAIN items : IsSeriesOf(OciSeries(items)[k], items[i])
           /\ \A i \in DOMAIN items :
                newestDatapoint(items[i].points) # <<>> =>
                  \E k \in DOMAIN OciSeries(items) : IsSeriesOf(OciSeries(items)[k], items[i])
<1> DEFINE n == Len(items)
           V == Seq(Series)
           Op(series, i) ==
             LET latest == newestDatapoint(i.points)
             IN IF latest = <<>> THEN series
                ELSE Append(series, [key |-> i.key, at |-> latest[1].at,
                                     value |-> latest[1].value])
           h == [k \in 1..n |-> [v \in V |-> Op(v, items[k])]]
           Eq(g) == g = [s \in SUBSET DOMAIN items |->
                           IF s = {} THEN <<>>
                           ELSE LET x == Max(s) IN Op(g[s \ {x}], items[x])]
           fold == CHOOSE g : Eq(g)
<1>1. n \in Nat /\ DOMAIN items = 1..n /\ \A k \in 1..n : items[k] \in Items
  OBVIOUS
<1>2. OciSeries(items) = fold[DOMAIN items]
  BY DEF OciSeries, FoldLeft, MapThenFoldSet
<1>3. h \in [1..n -> [V -> V]] /\ <<>> \in V
  <2>1. ASSUME NEW series \in Seq(Series), NEW i \in Items PROVE Op(series, i) \in Seq(Series)
    BY SeriesTyped
  <2>2. \A k \in 1..n : h[k] \in [V -> V]
    <3> HIDE DEF Op, n
    <3> QED BY <1>1, <2>1
  <2> HIDE DEF Op, n
  <2> QED BY <2>2
<1>4. \E g : Eq(g)
  <2>1. PICK g \in [SUBSET (1..n) -> V] : FoldsLeft(g, n, V, <<>>, h)
    <3> HIDE DEF n, V, h
    <3> QED BY <1>1, <1>3, FoldLeftDefined, Zenon
  <2>2. ASSUME NEW s \in SUBSET (1..n), s # {} PROVE g[s] = Op(g[s \ {Max(s)}], items[Max(s)])
    <3>1. Max(s) \in 1..n
      BY <1>1, <2>2, MaxIsIn
    <3>2. g[s \ {Max(s)}] \in V
      <4> HIDE DEF V, n
      <4> QED OBVIOUS
    <3>3. g[s] = h[Max(s)][g[s \ {Max(s)}]]
      <4> HIDE DEF V, n, h
      <4> QED BY <2>1, <2>2, <3>2 DEF FoldsLeft
    <3> HIDE DEF V, n, Op
    <3> QED BY <3>1, <3>2, <3>3
  <2>3. g[{}] = <<>>
    BY <2>1 DEF FoldsLeft
  <2>4. Eq(g)
    <3> HIDE DEF V, n, Op, h
    <3> QED BY <1>1, <2>2, <2>3
  <2> HIDE DEF Eq
  <2> QED BY <2>4
<1>5. Eq(fold)
  <2> HIDE DEF Eq
  <2> QED BY <1>4
<1>6. FoldsLeft(fold, n, V, <<>>, h)
  <2> HIDE DEF fold
  <2> SUFFICES ASSUME NEW s \in SUBSET (1..n), s # {}, fold[s \ {Max(s)}] \in V
               PROVE  fold[s] = h[Max(s)][fold[s \ {Max(s)}]]
    <3>1. fold[{}] = <<>>
      BY <1>1, <1>5
    <3> HIDE DEF V, n, Op, h, Eq
    <3> QED BY <3>1 DEF FoldsLeft
  <2>1. Max(s) \in 1..n
    BY <1>1, MaxIsIn
  <2>2. fold[s] = Op(fold[s \ {Max(s)}], items[Max(s)])
    <3> HIDE DEF Op, V
    <3> QED BY <1>1, <1>5
  <2> HIDE DEF Op, V, n
  <2> QED BY <2>1, <2>2
<1>7. PICK acc \in [0..n -> V] : fold[1..n] = acc[n] /\ Accumulates(acc, n, <<>>, h)
  <2> HIDE DEF n, V, h, fold
  <2> QED BY <1>1, <1>3, <1>6, FoldOnPrefixes, Zenon
<1>0. \A k \in 1..n : \A v \in V : h[k][v] = Op(v, items[k])
  <2> HIDE DEF V, Op, n
  <2> QED OBVIOUS
<1> HIDE DEF n, V, Op, h, Eq, fold
<1> DEFINE Good(k) ==
             /\ \A m \in DOMAIN acc[k] : \E i \in 1..k : IsSeriesOf(acc[k][m], items[i])
             /\ \A i \in 1..k : newestDatapoint(items[i].points) # <<>> =>
                  \E m \in DOMAIN acc[k] : IsSeriesOf(acc[k][m], items[i])
           T == {k \in Nat : k <= n => Good(k)}
<1>8. 0 \in T
  <2>1. acc[0] = <<>>
    BY <1>7 DEF Accumulates
  <2>2. DOMAIN acc[0] = {} /\ 1..0 = {}
    BY <2>1
  <2>3. Good(0)
    BY <2>2
  <2> HIDE DEF Good
  <2> QED BY <2>3
<1> HIDE DEF Good
<1>9. ASSUME NEW k \in Nat, k \in T PROVE k + 1 \in T
  <2> SUFFICES ASSUME k + 1 <= n PROVE Good(k + 1)
    OBVIOUS
  <2>0. Good(k)
    BY <1>1, <1>9
  <2>1. k + 1 \in 1..n /\ k + 1 - 1 = k /\ k \in 0..n
    BY <1>1
  <2> DEFINE item == items[k + 1]
             latest == newestDatapoint(item.points)
             new == [key |-> item.key, at |-> latest[1].at, value |-> latest[1].value]
  <2>2. item \in Items
    BY <1>1, <2>1
  <2>3. acc[k + 1] = Op(acc[k], item) /\ acc[k] \in Seq(Series)
    <3>1. acc[k + 1] = h[k + 1][acc[k]]
      BY <1>7, <2>1 DEF Accumulates
    <3>2. acc[k] \in V
      BY <2>1
    <3> QED BY <1>0, <2>1, <3>1, <3>2 DEF V
  <2>4. /\ \A i \in 1..(k + 1) : i \in 1..k \/ i = k + 1
        /\ \A i \in 1..k : i \in 1..(k + 1)
        /\ k + 1 \in 1..(k + 1)
    BY <2>1
  <2>5. CASE latest = <<>>
    <3>1. acc[k + 1] = acc[k]
      BY <2>3, <2>5 DEF Op
    <3> HIDE DEF latest, new
    <3> QED BY <2>0, <2>4, <2>5, <3>1 DEF Good, latest
  <2>6. CASE latest # <<>>
    <3>1. acc[k + 1] = Append(acc[k], new)
      BY <2>3, <2>6 DEF Op
    <3>2. new \in Series
      BY <2>2, <2>6, SeriesTyped
    <3> DEFINE L == Len(acc[k])
    <3>3. /\ L \in Nat /\ DOMAIN acc[k] = 1..L /\ DOMAIN acc[k + 1] = 1..(L + 1)
          /\ acc[k + 1][L + 1] = new
          /\ \A m \in 1..L : acc[k + 1][m] = acc[k][m]
      <4> HIDE DEF new
      <4> QED BY <2>3, <3>1, <3>2
    <3>4. IsSeriesOf(new, item)
      BY <2>6 DEF IsSeriesOf
    <3> HIDE DEF latest, new, item, L
    <3>5. ASSUME NEW m \in DOMAIN acc[k + 1]
          PROVE  \E i \in 1..(k + 1) : IsSeriesOf(acc[k + 1][m], items[i])
      <4>1. CASE m \in 1..L
        <5>1. PICK i \in 1..k : IsSeriesOf(acc[k][m], items[i])
          BY <2>0, <3>3, <4>1 DEF Good
        <5> QED BY <2>4, <3>3, <4>1, <5>1
      <4>2. CASE m = L + 1
        BY <2>4, <3>3, <3>4, <4>2 DEF item
      <4> QED BY <3>3, <4>1, <4>2
    <3>6. ASSUME NEW i \in 1..(k + 1), newestDatapoint(items[i].points) # <<>>
          PROVE  \E m \in DOMAIN acc[k + 1] : IsSeriesOf(acc[k + 1][m], items[i])
      <4>1. CASE i \in 1..k
        <5>1. PICK m \in 1..L : IsSeriesOf(acc[k][m], items[i])
          BY <2>0, <3>3, <3>6, <4>1 DEF Good
        <5>2. m \in 1..(L + 1)
          BY <3>3
        <5> QED BY <3>3, <5>1, <5>2
      <4>2. CASE i = k + 1
        <5>1. L + 1 \in 1..(L + 1)
          BY <3>3
        <5> QED BY <3>3, <3>4, <4>2, <5>1 DEF item
      <4> QED BY <2>4, <4>1, <4>2
    <3> QED BY <3>5, <3>6 DEF Good
  <2> QED BY <2>5, <2>6
<1>10. Good(n) /\ acc[n] \in Seq(Series)
  <2>1. \A k \in Nat : k \in T
    <3> HIDE DEF T
    <3> QED BY <1>8, <1>9, OnNaturals
  <2> QED BY <1>1, <2>1 DEF V
<1>11. OciSeries(items) = acc[n] /\ DOMAIN items = 1..n
  BY <1>1, <1>2, <1>7
<1> QED BY <1>10, <1>11 DEF Good

\* SetToSeq lists every element of a finite set once.
LEMMA Listed ==
    ASSUME NEW S, IsFiniteSet(S)
    PROVE  /\ SetToSeq(S) \in Seq(S)
           /\ Cardinality(S) \in Nat /\ DOMAIN SetToSeq(S) = 1..Cardinality(S)
           /\ \A i, j \in DOMAIN SetToSeq(S) : SetToSeq(S)[i] = SetToSeq(S)[j] => i = j
           /\ \A x \in S : \E i \in DOMAIN SetToSeq(S) : SetToSeq(S)[i] = x
<1> DEFINE n == Cardinality(S)
           D == 1..n
           Lists == {f \in [D -> S] : IsInjective(f)}
<1>1. n \in Nat /\ ExistsBijection(D, S)
  BY FS_CardinalityType
<1>2. PICK b \in [D -> S] : \A i, j \in D : b[i] = b[j] => i = j
  BY <1>1 DEF ExistsBijection, Bijection, Injection, IsInjective
<1>3. b \in Lists
  BY <1>2 DEF IsInjective
<1>4. PICK f \in [D -> S] : f = SetToSeq(S) /\ \A i, j \in D : f[i] = f[j] => i = j
  <2>1. SetToSeq(S) = CHOOSE f \in [D -> S] : IsInjective(f)
    BY DEF SetToSeq
  <2>2. SetToSeq(S) \in [D -> S] /\ IsInjective(SetToSeq(S))
    BY <1>3, <2>1
  <2> QED BY <2>2 DEF IsInjective
<1>5. f \in Injection(D, S)
  BY <1>4 DEF Injection, IsInjective
<1>6. Cardinality(D) = Cardinality(S)
  BY <1>1, FS_Interval
<1>7. f \in Surjection(D, S)
  <2> HIDE DEF D
  <2> QED BY <1>5, <1>6, FS_Injection
<1>8. \A x \in S : \E i \in D : f[i] = x
  BY <1>7 DEF Surjection
<1>9. f \in Seq(S)
  BY <1>1
<1> HIDE DEF n
<1> QED BY <1>1, <1>4, <1>8, <1>9 DEF n

(***************************************************************************)
(* The invariant: what each read has so far comes from worlds there have   *)
(* been since the collection began, or from what Oracle answered.          *)
(***************************************************************************)
Machines == [name : Nodes, state : {"RUNNING", "NOT_READY", "STOPPED"}, ip : {"", "ip"},
             ocpus : Nat, ampere : BOOLEAN]
Worlds == [nodes : [Nodes -> NodeStates], bucket : SUBSET Objects]

Shapes ==
    /\ config \in Configs /\ past \subseteq Worlds
    /\ DOMAIN call = Sources /\ DOMAIN res = AllSources /\ DOMAIN answered = Sources

\* A call that is done was answered or warned of.
Kept == \A s \in Sources : call[s].pc = "done" <=> s \in ok \cup warned

\* Some usage of machine n against some capacity it had.
Measured(n, value) ==
    \E v, w \in past :
      /\ n \in Nodes /\ v.nodes[n].here /\ w.nodes[n].here /\ w.nodes[n].cap > 0
      /\ value = Percent(v.nodes[n].used, w.nodes[n].cap)

MetricOK(s) ==
    /\ call[s].pc = "second" =>
         /\ config.kubernetes /\ DOMAIN call[s].got \subseteq Nodes
         /\ \E v \in past : \A n \in DOMAIN call[s].got :
              v.nodes[n].here /\ call[s].got[n] = v.nodes[n].used
    /\ s \in ok =>
         /\ res[s] \in Seq(Series)
         /\ config.kubernetes => \A i \in DOMAIN res[s] : Measured(res[s][i].key, res[s][i].value)
         /\ ~config.kubernetes => answered[s] \in Samples /\ res[s] = OciSeries(answered[s])

InstancesOK ==
    /\ res["instances"] \subseteq Machines /\ IsFiniteSet(res["instances"])
    /\ "instances" \in Sources /\ call["instances"].pc = "second" =>
         /\ ~config.kubernetes
         /\ call["instances"].got \subseteq Machines /\ IsFiniteSet(call["instances"].got)
    /\ "instances" \in ok /\ config.kubernetes =>
         \E w \in past : {i.name : i \in res["instances"]} = {n \in Nodes : w.nodes[n].here}

\* The objects listed so far: each once, each was in the bucket at some time, and
\* none is missing that was in it all along and whose key the walk has passed.
Walked(out) ==
    /\ out \in Seq(Objects)
    /\ \A i, j \in DOMAIN out : out[i] = out[j] => i = j
    /\ \A i \in DOMAIN out : \E w \in past : out[i] \in w.bucket

Covers(out, o) == (\A w \in past : o \in w.bucket) => \E i \in DOMAIN out : out[i] = o

BackupsOK ==
    /\ "backups" \in Sources /\ call["backups"].pc = "second" =>
         LET walk == call["backups"].got IN
         /\ walk.start \in Nat /\ Walked(walk.out)
         /\ \A i \in DOMAIN walk.out : walk.out[i].key < walk.start
         /\ \A o \in Objects : o.key < walk.start => Covers(walk.out, o)
    /\ "backups" \in ok =>
         Walked(res["backups"]) /\ \A o \in Objects : Covers(res["backups"], o)

SnapOK ==
    Done => /\ \A s \in Sources : call[s].pc = "done"
            /\ snap = assemble(res, ok, warned)

CollInv ==
    /\ TypeOK /\ Shapes /\ Kept /\ InstancesOK /\ BackupsOK /\ SnapOK
    /\ \A s \in Sources \cap MetricSources : MetricOK(s)

-----------------------------------------------------------------------------
\* One call goes on, is answered or fails, and the other calls stay as they are.
ReadStep(s) ==
    /\ s \in Sources /\ call[s].pc # "done"
    /\ UNCHANGED <<config, world, snap>>
    /\ DOMAIN answered' = DOMAIN answered
    /\ \A t \in Sources \ {s} : answered'[t] = answered[t]
    /\ \/ Fail(s) \/ \E value : Succeed(s, value)
       \/ (\E got : Proceed(s, "second", got)) /\ UNCHANGED <<res, ok, warned>>

Same(t) ==
    /\ t \in Sources => call'[t] = call[t] /\ answered'[t] = answered[t]
    /\ res'[t] = res[t] /\ (t \in ok' <=> t \in ok)

LEMMA ReadStepKeeps ==
    ASSUME CollInv, NEW s, ReadStep(s)
    PROVE  /\ TypeOK' /\ Shapes' /\ Kept' /\ SnapOK'
           /\ \A t \in AllSources \ {s} : Same(t)
<1> USE DEF CollInv
<1>0. s \in Sources /\ s \in AllSources /\ s \notin ok /\ s \notin warned
  BY CollectionConstants DEF ReadStep, Kept
<1>1. snap = Nothing /\ snap' = Nothing
  BY <1>0 DEF ReadStep, SnapOK, Done
<1>2. /\ DOMAIN call' = Sources /\ DOMAIN res' = AllSources
      /\ \A t \in Sources \ {s} : call'[t] = call[t]
      /\ \A t \in AllSources \ {s} : res'[t] = res[t]
      /\ ok \subseteq ok' /\ warned \subseteq warned'
      /\ \/ call'[s].pc = "second" /\ ok' = ok /\ warned' = warned
         \/ call'[s].pc = "done" /\ ok' = ok \cup {s} /\ warned' = warned
         \/ call'[s].pc = "done" /\ ok' = ok /\ warned' = warned \cup {s}
  <2>1. CASE Fail(s)
    BY <1>0, <2>1 DEF Fail, Proceed, Shapes
  <2>2. CASE \E value : Succeed(s, value)
    BY <1>0, <2>2 DEF Succeed, Proceed, Shapes
  <2>3. CASE (\E got : Proceed(s, "second", got)) /\ UNCHANGED <<res, ok, warned>>
    BY <1>0, <2>3 DEF Proceed, Shapes
  <2> QED BY <2>1, <2>2, <2>3 DEF ReadStep
<1>3. TypeOK'
  <2>1. \A t \in Sources : call'[t].pc \in {"start", "second", "done"}
    BY <1>2 DEF TypeOK
  <2>2. ok' \cup warned' \subseteq Sources /\ ok' \cap warned' = {}
    BY <1>0, <1>2 DEF TypeOK
  <2> QED BY <2>1, <2>2 DEF TypeOK, ReadStep, world
<1>4. Shapes'
  BY <1>2 DEF Shapes, ReadStep, world
<1>5. Kept'
  BY <1>0, <1>2 DEF Kept
<1>6. SnapOK'
  BY <1>1 DEF SnapOK, Done
<1>7. \A t \in AllSources \ {s} : Same(t)
  BY <1>2 DEF Same, ReadStep
<1> QED BY <1>3, <1>4, <1>5, <1>6, <1>7

\* What is known of a read stays true while the others go on and the world changes.
LEMMA MetricStays ==
    ASSUME NEW t, t \in Sources, config' = config, past \subseteq past', Same(t), MetricOK(t)
    PROVE  MetricOK(t)'
<1>1. call'[t] = call[t] /\ answered'[t] = answered[t] /\ res'[t] = res[t] /\ (t \in ok' <=> t \in ok)
  BY DEF Same
<1>2. \A n, value : Measured(n, value) => Measured(n, value)'
  BY DEF Measured
<1>3. (call[t].pc = "second" =>
         /\ config.kubernetes /\ DOMAIN call[t].got \subseteq Nodes
         /\ \E v \in past : \A n \in DOMAIN call[t].got :
              v.nodes[n].here /\ call[t].got[n] = v.nodes[n].used)'
  BY <1>1 DEF MetricOK
<1>4. \A i \in DOMAIN res[t] : t \in ok /\ config.kubernetes => Measured(res[t][i].key, res[t][i].value)'
  <2> SUFFICES ASSUME t \in ok, NEW i \in DOMAIN res[t], config.kubernetes
               PROVE  Measured(res[t][i].key, res[t][i].value)'
    OBVIOUS
  <2>1. PICK n, value : n = res[t][i].key /\ value = res[t][i].value
    OBVIOUS
  <2>2. Measured(n, value)
    BY <2>1 DEF MetricOK
  <2>3. n = res'[t][i].key /\ value = res'[t][i].value
    BY <1>1, <2>1
  <2> QED BY <1>2, <2>2, <2>3
<1> QED BY <1>1, <1>3, <1>4 DEF MetricOK

LEMMA InstancesStay ==
    ASSUME config' = config, past \subseteq past', Same("instances"), InstancesOK
    PROVE  InstancesOK'
BY DEF Same, InstancesOK

LEMMA WalkStays ==
    ASSUME NEW out, past \subseteq past'
    PROVE  /\ Walked(out) => Walked(out)'
           /\ \A o \in Objects : Covers(out, o) => Covers(out, o)'
BY DEF Walked, Covers

LEMMA BackupsStay ==
    ASSUME past \subseteq past', Same("backups"), BackupsOK
    PROVE  BackupsOK'
BY WalkStays DEF Same, BackupsOK

\* A step of the call s needs to be looked at only for what s reads.
LEMMA ReadKeeps ==
    ASSUME CollInv, NEW s, ReadStep(s),
           s \in MetricSources => MetricOK(s)',
           s = "instances" => InstancesOK', s = "backups" => BackupsOK'
    PROVE  CollInv'
<1>1. /\ TypeOK' /\ Shapes' /\ Kept' /\ SnapOK'
      /\ \A t \in AllSources \ {s} : Same(t)
  BY ReadStepKeeps
<1>2. config' = config /\ past \subseteq past'
  BY DEF ReadStep, world
<1>3. ASSUME NEW t \in Sources \cap MetricSources PROVE MetricOK(t)'
  <2>1. CASE t = s
    BY <2>1
  <2>2. CASE t # s
    BY <1>1, <1>2, <2>2, MetricStays DEF CollInv, AllSources
  <2> QED BY <2>1, <2>2
<1>4. InstancesOK'
  <2>1. CASE s # "instances"
    <3>1. Same("instances")
      BY <1>1, <2>1 DEF AllSources
    <3> QED BY <1>2, <3>1, InstancesStay DEF CollInv
  <2> QED BY <2>1
<1>5. BackupsOK'
  <2>1. CASE s # "backups"
    <3>1. Same("backups")
      BY <1>1, <2>1 DEF AllSources
    <3> QED BY <1>2, <3>1, BackupsStay DEF CollInv
  <2> QED BY <2>1
<1> QED BY <1>1, <1>3, <1>4, <1>5 DEF CollInv

LEMMA FailKeeps ==
    ASSUME CollInv, NEW s \in Sources, call[s].pc # "done", Fail(s),
           UNCHANGED <<config, world, answered, snap>>
    PROVE  CollInv'
<1>1. ReadStep(s)
  BY DEF ReadStep
<1>2. s \notin ok /\ s \notin ok' /\ call'[s].pc = "done" /\ res' = res /\ past' = past
  BY DEF CollInv, Kept, Fail, Proceed, Shapes, world
<1>3. MetricOK(s)'
  BY <1>2 DEF MetricOK
<1>4. s = "instances" => InstancesOK'
  BY <1>2 DEF InstancesOK, CollInv
<1>5. s = "backups" => BackupsOK'
  BY <1>2 DEF BackupsOK
<1> QED BY <1>1, <1>3, <1>4, <1>5, ReadKeeps

-----------------------------------------------------------------------------
LEMMA ByWhom ==
    ASSUME NEW s
    PROVE  /\ By(s) = "kubernetes" => config.kubernetes
           /\ By(s) = "oci" /\ s \in MetricSources \cup {"instances"} => ~config.kubernetes
BY DEF By, KubernetesServes

LEMMA NodeTyped ==
    ASSUME NEW f \in [Nodes -> NodeStates], NEW n \in Nodes
    PROVE  f[n].here \in BOOLEAN /\ f[n].ready \in BOOLEAN /\ f[n].cap \in Nat /\ f[n].used \in Nat
<1>1. NodeStates \subseteq [here : BOOLEAN, ready : BOOLEAN, cap : Nat, used : Nat]
  BY CollectionConstants, Zenon
<1>2. f[n] \in [here : BOOLEAN, ready : BOOLEAN, cap : Nat, used : Nat]
  BY <1>1
<1> QED BY <1>2

LEMMA IsInOrNot == ASSUME NEW x, NEW S PROVE \E b \in BOOLEAN : b = (x \in S)
<1>1. CASE x \in S
  <2>1. (x \in S) = TRUE
    BY <1>1
  <2> QED BY <2>1
<1>2. CASE x \notin S
  <2>1. (x \in S) = FALSE
    BY <1>2
  <2> QED BY <2>1
<1> QED BY <1>1, <1>2

\* The machines that are there, each described somehow.
LEMMA MachinesListed ==
    ASSUME TypeOK, NEW state \in [Nodes -> {"RUNNING", "NOT_READY", "STOPPED"}], NEW ip \in {"", "ip"}
    PROVE  LET M == {Machine(n, state[n], ip) : n \in Here}
           IN M \subseteq Machines /\ IsFiniteSet(M) /\ {m.name : m \in M} = Here
<1> DEFINE f == [n \in Here |-> Machine(n, state[n], ip)]
           M == {Machine(n, state[n], ip) : n \in Here}
<1>1. \A n \in Here : n \in Nodes /\ nodes[n].cap \in Nat
  BY NodeTyped DEF TypeOK, Here
<1>2. ASSUME NEW n \in Here
      PROVE  Machine(n, state[n], ip) \in Machines /\ Machine(n, state[n], ip).name = n
  <2>1. n \in Nodes /\ nodes[n].cap \in Nat /\ state[n] \in {"RUNNING", "NOT_READY", "STOPPED"}
    BY <1>1
  <2>2. PICK b \in BOOLEAN : b = (n \in Ampere)
    BY IsInOrNot
  <2>3. [name |-> n, state |-> state[n], ip |-> ip, ocpus |-> nodes[n].cap, ampere |-> b] \in Machines
    BY <2>1 DEF Machines
  <2> QED BY <2>2, <2>3 DEF Machine
<1>3. IsFiniteSet(Here)
  BY CollectionConstants, FS_Subset DEF Here
<1>4. f \in Surjection(Here, M)
  BY DEF Surjection
<1>5. IsFiniteSet(M)
  <2> HIDE DEF f, M
  <2> QED BY <1>3, <1>4, FS_Surjection
<1>6. M \subseteq Machines
  BY <1>2
<1>7. {m.name : m \in M} = Here
  <2>1. \A n \in Here : Machine(n, state[n], ip).name = n
    BY <1>2
  <2> QED BY <2>1
<1> QED BY <1>5, <1>6, <1>7

LEMMA InitInv == Init => CollInv
<1> SUFFICES ASSUME Init PROVE CollInv
  OBVIOUS
<1>0. \A s \in Sources : call[s] = [pc |-> "start", got |-> <<>>]
  BY DEF Init
<1>1. TypeOK
  <2>1. 0 \in 0..MaxChanges
    <3>1. MaxChanges \in Nat
      BY CollectionConstants, Zenon
    <3> QED BY <3>1
  <2> QED BY <1>0, <2>1 DEF Init, TypeOK
<1>2. Shapes /\ Kept /\ SnapOK
  BY <1>0 DEF Init, Shapes, Kept, SnapOK, Done, Worlds
<1>3. InstancesOK
  <2>1. res["instances"] = {}
    BY DEF Init, AllSources, Zero
  <2> QED BY <1>0, <2>1, FS_EmptySet DEF Init, InstancesOK
<1>4. BackupsOK /\ \A s \in Sources \cap MetricSources : MetricOK(s)
  BY <1>0 DEF Init, BackupsOK, MetricOK
<1> QED BY <1>1, <1>2, <1>3, <1>4 DEF CollInv

LEMMA KubernetesInstancesInv ==
    ASSUME CollInv, "instances" \in Sources, KubernetesInstances PROVE CollInv'
<1> DEFINE st == [n \in Nodes |-> IF nodes[n].ready THEN "RUNNING" ELSE "NOT_READY"]
           M == {Machine(n, st[n], "ip") : n \in Here}
<1>1. Succeed("instances", M) /\ config.kubernetes
  <2>1. M = {Machine(n, IF nodes[n].ready THEN "RUNNING" ELSE "NOT_READY", "ip") : n \in Here}
    BY DEF Here
  <2> QED BY <2>1, ByWhom DEF KubernetesInstances, Going
<1>2. ReadStep("instances")
  BY <1>1 DEF KubernetesInstances, Going, ReadStep
<1>3. M \subseteq Machines /\ IsFiniteSet(M) /\ {m.name : m \in M} = Here
  BY MachinesListed DEF CollInv
<1>4. InstancesOK'
  <2>1. res'["instances"] = M /\ call'["instances"].pc = "done" /\ config' = config /\ past' = past
    <3> HIDE DEF M
    <3> QED BY <1>1 DEF Succeed, Proceed, KubernetesInstances, world, CollInv, Shapes, AllSources
  <2>2. PICK w \in past : w.nodes = nodes
    BY DEF CollInv, TypeOK
  <2>3. {n \in Nodes : w.nodes[n].here} = Here
    BY <2>2 DEF Here
  <2> HIDE DEF M
  <2> QED BY <1>3, <2>1, <2>3 DEF InstancesOK
<1> QED BY <1>2, <1>4, ReadKeeps DEF MetricSources

\* A read that stores something in its own place.
LEMMA Answers ==
    ASSUME CollInv, NEW s \in Sources, call[s].pc # "done", NEW value, Succeed(s, value),
           UNCHANGED <<config, world, answered, snap>>
    PROVE  /\ ReadStep(s)
           /\ res'[s] = value /\ call'[s].pc = "done" /\ s \in ok'
           /\ config' = config /\ past' = past /\ answered' = answered
<1>1. s \in AllSources
  BY CollectionConstants
<1>2. ReadStep(s)
  BY DEF ReadStep
<1> QED BY <1>1, <1>2 DEF Succeed, Proceed, CollInv, Shapes, world

LEMMA GoesOn ==
    ASSUME CollInv, NEW s \in Sources, call[s].pc # "done", NEW got, Proceed(s, "second", got),
           UNCHANGED <<config, world, res, ok, warned, answered, snap>>
    PROVE  /\ ReadStep(s)
           /\ call'[s] = [pc |-> "second", got |-> got] /\ s \notin ok'
           /\ config' = config /\ past' = past
<1>1. ReadStep(s)
  BY DEF ReadStep
<1> QED BY <1>1 DEF Proceed, CollInv, Shapes, Kept, world

LEMMA NoSourceInv == ASSUME CollInv, NEW s \in Sources, NoSource(s) PROVE CollInv'
BY FailKeeps DEF NoSource, Going

LEMMA CallFailsInv == ASSUME CollInv, NEW s \in Sources, CallFails(s) PROVE CollInv'
BY FailKeeps DEF CallFails

LEMMA NotABackup == ASSUME NEW s \in MetricSources PROVE s # "instances" /\ s # "backups"
BY DEF MetricSources

LEMMA KubernetesUsageInv == ASSUME CollInv, NEW s \in Sources, KubernetesUsage(s) PROVE CollInv'
<1>1. s \in MetricSources /\ config.kubernetes /\ call[s].pc # "done"
  BY ByWhom DEF KubernetesUsage, Going
<1>2. CASE Succeed(s, <<>>)
  <2>1. /\ ReadStep(s) /\ res'[s] = <<>> /\ call'[s].pc = "done" /\ s \in ok'
        /\ config' = config /\ past' = past
    BY <1>1, <1>2, Answers DEF KubernetesUsage
  <2>2. MetricOK(s)'
    BY <1>1, <2>1 DEF MetricOK
  <2> QED BY <1>1, <2>1, <2>2, ReadKeeps, NotABackup
<1>3. CASE Proceed(s, "second", [n \in Here |-> nodes[n].used]) /\ UNCHANGED <<res, ok, warned>>
  <2> DEFINE got == [n \in Here |-> nodes[n].used]
  <2>1. /\ ReadStep(s) /\ call'[s] = [pc |-> "second", got |-> got] /\ s \notin ok'
        /\ config' = config /\ past' = past
    BY <1>1, <1>3, GoesOn DEF KubernetesUsage
  <2>2. PICK v \in past : v.nodes = nodes
    BY DEF CollInv, TypeOK
  <2>3. MetricOK(s)'
    BY <1>1, <2>1, <2>2 DEF MetricOK, Here
  <2> QED BY <1>1, <2>1, <2>3, ReadKeeps, NotABackup
<1> QED BY <1>2, <1>3 DEF KubernetesUsage

LEMMA PercentTyped == ASSUME NEW used \in Nat, NEW total \in Nat, total > 0 PROVE Percent(used, total) \in Nat
<1>1. PICK a \in Nat : a = used * 100
  OBVIOUS
<1>2. a \div total \in Nat
  OBVIOUS
<1> QED BY <1>1, <1>2 DEF Percent

\* What is left of the usage read, against the capacity the machines have now.
LEMMA UsageIsMeasured ==
    ASSUME CollInv, NEW usage, DOMAIN usage \subseteq Nodes, NEW v \in past,
           \A n \in DOMAIN usage : v.nodes[n].here /\ usage[n] = v.nodes[n].used
    PROVE  /\ UsageSeries(usage) \in Seq(Series)
           /\ \A i \in DOMAIN UsageSeries(usage) :
                Measured(UsageSeries(usage)[i].key, UsageSeries(usage)[i].value)
<1> DEFINE S == {n \in DOMAIN usage : nodes[n].here /\ nodes[n].cap > 0}
           known == SetToSeq(S)
           E(i) == [key |-> known[i], at |-> 0, value |-> Percent(usage[known[i]], nodes[known[i]].cap)]
<1>1. S \subseteq Nodes /\ IsFiniteSet(S)
  BY CollectionConstants, FS_Subset
<1>2. PICK n \in Nat : known \in [1..n -> S] /\ DOMAIN known = 1..n
  <2> HIDE DEF S
  <2>1. known \in Seq(S) /\ Cardinality(S) \in Nat /\ DOMAIN known = 1..Cardinality(S)
    BY <1>1, Listed
  <2>2. \A i \in DOMAIN known : known[i] \in S
    BY <2>1
  <2> QED BY <2>1, <2>2
<1>3. PICK w \in past : w.nodes = nodes
  BY DEF CollInv, TypeOK
<1>4. ASSUME NEW i \in 1..n PROVE E(i) \in Series /\ Measured(E(i).key, E(i).value)
  <2>1. known[i] \in S
    BY <1>2
  <2>2. PICK m \in S : m = known[i]
    BY <2>1
  <2>3. m \in Nodes /\ m \in STRING
    BY <1>1, CollectionConstants
  <2>4. v \in Worlds
    BY DEF CollInv, Shapes
  <2>5. v.nodes \in [Nodes -> NodeStates] /\ nodes \in [Nodes -> NodeStates]
    BY <2>4 DEF Worlds, CollInv, TypeOK
  <2>6. usage[m] = v.nodes[m].used /\ v.nodes[m].here /\ nodes[m].here /\ nodes[m].cap > 0
    OBVIOUS
  <2>7. usage[m] \in Nat /\ nodes[m].cap \in Nat
    BY <2>3, <2>5, <2>6, NodeTyped
  <2>8. Percent(usage[m], nodes[m].cap) \in Nat
    BY <2>6, <2>7, PercentTyped
  <2>9. E(i) = [key |-> m, at |-> 0, value |-> Percent(usage[m], nodes[m].cap)]
    BY <2>2
  <2>10. Measured(m, Percent(usage[m], nodes[m].cap))
    BY <1>3, <2>3, <2>6 DEF Measured
  <2> HIDE DEF E
  <2> QED BY <2>3, <2>8, <2>9, <2>10 DEF Series
<1>5. UsageSeries(usage) = [i \in 1..n |-> E(i)]
  BY <1>2 DEF UsageSeries
<1> HIDE DEF E
<1>6. [i \in 1..n |-> E(i)] \in Seq(Series)
  BY <1>4
<1> QED BY <1>4, <1>5, <1>6

LEMMA KubernetesCapacityInv == ASSUME CollInv, NEW s \in Sources, KubernetesCapacity(s) PROVE CollInv'
<1>1. s \in MetricSources /\ config.kubernetes /\ call[s].pc = "second"
  BY ByWhom DEF KubernetesCapacity, Going
<1>0. PICK usage : usage = call[s].got
  OBVIOUS
<1>2. DOMAIN usage \subseteq Nodes
  BY <1>0, <1>1 DEF CollInv, MetricOK
<1>7. PICK v \in past : \A n \in DOMAIN usage : v.nodes[n].here /\ usage[n] = v.nodes[n].used
  BY <1>0, <1>1 DEF CollInv, MetricOK
<1>3. PICK series : series = UsageSeries(usage)
  OBVIOUS
<1>4. series \in Seq(Series) /\ \A i \in DOMAIN series : Measured(series[i].key, series[i].value)
  BY <1>2, <1>3, <1>7, UsageIsMeasured
<1>5. /\ ReadStep(s) /\ res'[s] = series /\ call'[s].pc = "done" /\ s \in ok'
      /\ config' = config /\ past' = past
  <2>1. Succeed(s, series) /\ UNCHANGED <<config, world, answered, snap>>
    BY <1>0, <1>3 DEF KubernetesCapacity
  <2> QED BY <1>1, <2>1, Answers
<1>6. MetricOK(s)'
  <2>1. \A i \in DOMAIN series : Measured(series[i].key, series[i].value)'
    BY <1>4, <1>5 DEF Measured
  <2> QED BY <1>1, <1>4, <1>5, <2>1 DEF MetricOK
<1> QED BY <1>1, <1>5, <1>6, ReadKeeps, NotABackup

LEMMA KubernetesIngressInv ==
    ASSUME CollInv, "ingress" \in Sources, KubernetesIngress PROVE CollInv'
<1>1. PICK address : Succeed("ingress", address)
  BY DEF KubernetesIngress
<1>2. ReadStep("ingress")
  BY <1>1 DEF KubernetesIngress, Going, ReadStep
<1> QED BY <1>2, ReadKeeps DEF MetricSources

LEMMA OciIngressInv ==
    ASSUME CollInv, "ingress" \in Sources, OciIngress PROVE CollInv'
<1>1. ReadStep("ingress")
  BY DEF OciIngress, Going, ReadStep
<1> QED BY <1>1, ReadKeeps DEF MetricSources

LEMMA OciAlarmsInv ==
    ASSUME CollInv, "alarms" \in Sources, OciAlarms PROVE CollInv'
<1>1. PICK firing \in BOOLEAN : Succeed("alarms", IF firing THEN {"FIRING"} ELSE {"OK"})
  BY DEF OciAlarms
<1>2. ReadStep("alarms")
  BY <1>1 DEF OciAlarms, Going, ReadStep
<1> QED BY <1>2, ReadKeeps DEF MetricSources

LEMMA OciInstancesInv ==
    ASSUME CollInv, "instances" \in Sources, OciInstances PROVE CollInv'
<1> DEFINE st == [n \in Nodes |-> IF nodes[n].ready THEN "RUNNING" ELSE "STOPPED"]
           M == {Machine(n, st[n], "") : n \in Here}
<1>1. PICK got : got = M
  OBVIOUS
<1>2. Proceed("instances", "second", got) /\ ~config.kubernetes
  <2>1. M = {Machine(n, IF nodes[n].ready THEN "RUNNING" ELSE "STOPPED", "") : n \in Here}
    BY DEF Here
  <2> QED BY <1>1, <2>1, ByWhom DEF OciInstances, Going
<1>3. got \subseteq Machines /\ IsFiniteSet(got)
  BY <1>1, MachinesListed DEF CollInv
<1> HIDE DEF M, st
<1>4. /\ ReadStep("instances")
      /\ call'["instances"] = [pc |-> "second", got |-> got] /\ "instances" \notin ok'
      /\ config' = config /\ past' = past
  BY <1>2, GoesOn DEF OciInstances, Going
<1>5. InstancesOK'
  <2>1. res'["instances"] = res["instances"] /\ InstancesOK
    BY DEF CollInv, OciInstances
  <2> QED BY <1>2, <1>3, <1>4, <2>1 DEF InstancesOK
<1> QED BY <1>4, <1>5, ReadKeeps DEF MetricSources

LEMMA OciAddressesInv ==
    ASSUME CollInv, "instances" \in Sources, OciAddresses PROVE CollInv'
<1>1. PICK got : got = call["instances"].got
  OBVIOUS
<1>2. ~config.kubernetes /\ got \subseteq Machines /\ IsFiniteSet(got)
  BY <1>1, ByWhom DEF CollInv, InstancesOK, OciAddresses, Going
<1>3. PICK found \in SUBSET Nodes :
        Succeed("instances", {[i EXCEPT !.ip = IF i.name \in found THEN "ip" ELSE ""] : i \in got})
  BY <1>1 DEF OciAddresses
<1> DEFINE At(i) == [i EXCEPT !.ip = IF i.name \in found THEN "ip" ELSE ""]
           M == {At(i) : i \in got}
           f == [i \in got |-> At(i)]
<1>4. \A i \in got : At(i) \in Machines
  BY <1>2 DEF Machines
<1>5. f \in Surjection(got, M)
  BY DEF Surjection
<1>6. M \subseteq Machines /\ IsFiniteSet(M)
  <2>1. IsFiniteSet(M)
    <3> HIDE DEF f, M
    <3> QED BY <1>2, <1>5, FS_Surjection
  <2> QED BY <1>4, <2>1
<1>7. /\ ReadStep("instances") /\ res'["instances"] = M /\ call'["instances"].pc = "done"
      /\ config' = config
  <2> HIDE DEF M
  <2>1. Succeed("instances", M)
    BY <1>3 DEF M
  <2> QED BY <2>1, Answers DEF OciAddresses, Going
<1> HIDE DEF M
<1>8. InstancesOK'
  BY <1>2, <1>6, <1>7 DEF InstancesOK
<1> QED BY <1>7, <1>8, ReadKeeps DEF MetricSources

LEMMA OciMetricInv == ASSUME CollInv, NEW s \in Sources, OciMetric(s) PROVE CollInv'
<1>1. s \in MetricSources /\ ~config.kubernetes /\ call[s].pc = "start"
  BY ByWhom DEF OciMetric, Going
<1>2. PICK items \in Samples : answered' = [answered EXCEPT ![s] = items] /\ Succeed(s, OciSeries(items))
  BY DEF OciMetric
<1>3. PICK series : series = OciSeries(items) /\ series \in Seq(Series)
  <2>1. items \in Seq(Items)
    BY CollectionConstants DEF Items, Points
  <2> QED BY <2>1, AllSeriesFound
<1>4. ReadStep(s)
  BY <1>1, <1>2 DEF OciMetric, ReadStep
<1>5. /\ res'[s] = series /\ call'[s].pc = "done" /\ answered'[s] = items /\ config' = config
  <2>1. s \in AllSources
    BY <1>1 DEF AllSources
  <2> QED BY <1>2, <1>3, <2>1 DEF Succeed, Proceed, CollInv, Shapes, OciMetric
<1>6. MetricOK(s)'
  BY <1>1, <1>3, <1>5 DEF MetricOK
<1> QED BY <1>1, <1>4, <1>6, ReadKeeps, NotABackup

-----------------------------------------------------------------------------
LEMMA MinIsIn ==
    ASSUME NEW S \in SUBSET Nat, S # {}
    PROVE  Min(S) \in S /\ \A k \in S : Min(S) <= k
<1>1. PICK m \in S : \A k \in S : ~(<<k, m>> \in OpToRel(<, Nat))
  BY WFMin, NatLessThanWellFounded, Zenon
<1>2. \A k \in S : m <= k
  <2> TAKE k \in S
  <2>1. ~(k < m)
    BY <1>1 DEF OpToRel
  <2> QED BY <2>1
<1> QED BY <1>2 DEF Min

ObjectsTyped == \A o \in Objects : o.key \in Nat /\ o.key > 0 /\ o.modified \in Nat

LEMMA ObjectsAreTyped == ObjectsTyped
<1>1. Objects \subseteq [key : Nat \ {0}, stream : STRING, size : Nat, modified : Nat]
  BY CollectionConstants, Zenon
<1> QED BY <1>1 DEF ObjectsTyped

\* The keys of a page are below the key to go on from, and no object between is left out.
IsPage(page, start) ==
    /\ page.objects \in Seq(Objects)
    /\ \A i, j \in DOMAIN page.objects : page.objects[i] = page.objects[j] => i = j
    /\ \A i \in DOMAIN page.objects : page.objects[i] \in bucket /\ page.objects[i].key >= start
    /\ page.next # 0 =>
         /\ page.next \in Nat /\ page.next >= start
         /\ \A i \in DOMAIN page.objects : page.objects[i].key < page.next
    /\ \A o \in bucket : o.key >= start /\ (page.next = 0 \/ o.key < page.next) =>
                           \E i \in DOMAIN page.objects : page.objects[i] = o

LEMMA PageIsPage ==
    ASSUME bucket \subseteq Objects, NEW start \in Nat
    PROVE  IsPage(Page(start), start)
<1> DEFINE rest == {o \in bucket : o.key >= start}
           Before(o) == {p \in rest : p.key < o.key}
           first == {o \in rest : Cardinality(Before(o)) < Limit}
           keys == {o.key : o \in rest \ first}
           objects == SetToSeq(first)
           next == IF rest = first THEN 0 ELSE Min(keys)
<1>1. IsFiniteSet(bucket) /\ IsFiniteSet(rest) /\ IsFiniteSet(first)
  BY CollectionConstants, FS_Subset
<1>2. \A o \in rest : o \in Objects /\ o \in bucket /\ o.key \in Nat /\ o.key > 0 /\ o.key >= start
  BY ObjectsAreTyped DEF ObjectsTyped
<1>3. ASSUME NEW o \in first, NEW q \in rest \ first PROVE o.key < q.key
  <2> SUFFICES ASSUME q.key <= o.key PROVE FALSE
    BY <1>2
  <2>1. Before(q) \subseteq Before(o)
    BY <1>2
  <2>2. IsFiniteSet(Before(o)) /\ IsFiniteSet(Before(q))
    BY <1>1, FS_Subset
  <2>3. Cardinality(Before(q)) <= Cardinality(Before(o))
    <3> HIDE DEF Before
    <3> QED BY <2>1, <2>2, FS_Subset
  <2>4. Cardinality(Before(q)) \in Nat /\ Cardinality(Before(o)) \in Nat /\ Limit \in Nat
    <3>1. Limit \in Nat
      BY CollectionConstants, Zenon
    <3> HIDE DEF Before
    <3> QED BY <2>2, <3>1, FS_CardinalityType
  <2>5. Cardinality(Before(o)) < Limit /\ ~(Cardinality(Before(q)) < Limit)
    OBVIOUS
  <2> HIDE DEF Before, first, rest
  <2> QED BY <2>3, <2>4, <2>5
<1>4. rest # first => /\ next \in Nat /\ next # 0 /\ next >= start
                      /\ \A o \in first : o.key < next
                      /\ \A o \in rest : o.key < next => o \in first
  <2> SUFFICES ASSUME rest # first
               PROVE  /\ next \in Nat /\ next # 0 /\ next >= start
                      /\ \A o \in first : o.key < next
                      /\ \A o \in rest : o.key < next => o \in first
    OBVIOUS
  <2>1. first \subseteq rest
    OBVIOUS
  <2> HIDE DEF first, rest
  <2>2. keys \in SUBSET Nat /\ keys # {}
    BY <1>2, <2>1
  <2>3. Min(keys) \in keys /\ \A k \in keys : Min(keys) <= k
    <3> HIDE DEF keys
    <3> QED BY <2>2, MinIsIn
  <2>4. PICK q \in rest \ first : next = q.key
    BY <2>3
  <2>5. ASSUME NEW o \in rest, o.key < next PROVE o \in first
    <3>1. o \notin first => o.key \in keys
      OBVIOUS
    <3>2. next \in Nat /\ o.key \in Nat /\ next = Min(keys)
      BY <1>2, <2>4
    <3> HIDE DEF next, keys
    <3> QED BY <2>3, <2>5, <3>1, <3>2
  <2> HIDE DEF next
  <2> QED BY <1>2, <1>3, <2>4, <2>5
<1>5. /\ objects \in Seq(first)
      /\ \A i, j \in DOMAIN objects : objects[i] = objects[j] => i = j
      /\ \A x \in first : \E i \in DOMAIN objects : objects[i] = x
  <2> HIDE DEF first
  <2> QED BY <1>1, Listed
<1>6. Page(start) = [objects |-> objects, next |-> next]
  BY DEF Page
<1>7. \A o \in first : o \in rest
  OBVIOUS
<1>8. \A o \in bucket : o.key >= start => o \in rest
  OBVIOUS
<1> HIDE DEF first, rest
<1>9. rest = first => next = 0
  OBVIOUS
<1> HIDE DEF objects, next
<1>10. \A i \in DOMAIN objects : objects[i] \in first
  BY <1>5
<1>11. objects \in Seq(Objects)
  <2>1. first \subseteq Objects
    BY <1>2, <1>7
  <2> QED BY <1>5, <2>1
<1>12. \A o \in bucket : o.key >= start /\ (next = 0 \/ o.key < next) =>
                           \E i \in DOMAIN objects : objects[i] = o
  BY <1>4, <1>5, <1>8
<1>13. next # 0 => /\ next \in Nat /\ next >= start
                   /\ \A i \in DOMAIN objects : objects[i].key < next
  BY <1>4, <1>9, <1>10
<1>14. \A i \in DOMAIN objects : objects[i] \in bucket /\ objects[i].key >= start
  BY <1>2, <1>7, <1>10
<1> QED BY <1>5, <1>6, <1>11, <1>12, <1>13, <1>14 DEF IsPage

LEMMA Joined ==
    ASSUME NEW a \in Seq(Objects), NEW b \in Seq(Objects)
    PROVE  /\ a \o b \in Seq(Objects)
           /\ DOMAIN (a \o b) = 1..(Len(a) + Len(b)) /\ Len(a) \in Nat /\ Len(b) \in Nat
           /\ \A i \in 1..Len(a) : (a \o b)[i] = a[i]
           /\ \A i \in 1..Len(b) : (a \o b)[Len(a) + i] = b[i]
           /\ \A k \in DOMAIN (a \o b) :
                \/ k \in 1..Len(a)
                \/ \E i \in 1..Len(b) : k = Len(a) + i
           /\ DOMAIN a = 1..Len(a) /\ DOMAIN b = 1..Len(b)
<1> DEFINE c == a \o b
<1>1. /\ c \in Seq(Objects) /\ Len(a) \in Nat /\ Len(b) \in Nat
      /\ DOMAIN a = 1..Len(a) /\ DOMAIN b = 1..Len(b) /\ DOMAIN c = 1..(Len(a) + Len(b))
  OBVIOUS
<1>2. \A i \in 1..Len(a) : c[i] = a[i]
  OBVIOUS
<1>3. \A i \in 1..Len(b) : c[Len(a) + i] = b[i]
  OBVIOUS
<1> HIDE DEF c
<1>4. ASSUME NEW k \in DOMAIN c, k \notin 1..Len(a) PROVE \E i \in 1..Len(b) : k = Len(a) + i
  <2>1. k - Len(a) \in 1..Len(b) /\ k = Len(a) + (k - Len(a))
    BY <1>1, <1>4
  <2> QED BY <2>1
<1> QED BY <1>1, <1>2, <1>3, <1>4 DEF c

\* The objects below key start have been walked, and one more page is.
WalkedTo(out, start) ==
    /\ start \in Nat /\ Walked(out)
    /\ \A i \in DOMAIN out : out[i].key < start
    /\ \A o \in Objects : o.key < start => Covers(out, o)

LEMMA WalkGoesOn ==
    ASSUME CollInv, NEW start, NEW before, WalkedTo(before, start), NEW page, IsPage(page, start),
           NEW out, out = before \o page.objects
    PROVE  /\ page.next # 0 => WalkedTo(out, page.next)
           /\ page.next = 0 => Walked(out) /\ \A o \in Objects : Covers(out, o)
<1> DEFINE b == page.objects
           m == Len(before)
<1>1. before \in Seq(Objects) /\ b \in Seq(Objects)
  BY DEF WalkedTo, Walked, IsPage
<1>2. /\ out \in Seq(Objects)
      /\ DOMAIN out = 1..(m + Len(b)) /\ m \in Nat /\ Len(b) \in Nat
      /\ \A i \in 1..m : out[i] = before[i]
      /\ \A i \in 1..Len(b) : out[m + i] = b[i]
      /\ \A k \in DOMAIN out : k \in 1..m \/ \E i \in 1..Len(b) : k = m + i
      /\ DOMAIN before = 1..m /\ DOMAIN b = 1..Len(b)
  BY <1>1, Joined
<1>3. /\ \A i \in DOMAIN before : i \in DOMAIN out
      /\ \A i \in DOMAIN b : m + i \in DOMAIN out
  BY <1>2
<1>4. /\ \A i \in DOMAIN before : before[i] \in Objects /\ before[i].key < start
      /\ \A i \in DOMAIN b : b[i] \in Objects /\ b[i] \in bucket /\ b[i].key >= start
  BY <1>1 DEF WalkedTo, IsPage
<1>5. \A o \in Objects : o.key \in Nat
  BY ObjectsAreTyped DEF ObjectsTyped
<1>6. start \in Nat
  BY DEF WalkedTo
<1>7. ASSUME NEW i \in DOMAIN before, NEW j \in DOMAIN b PROVE before[i] # b[j]
  BY <1>4, <1>5, <1>6
<1>8. ASSUME NEW i \in DOMAIN out, NEW j \in DOMAIN out, out[i] = out[j] PROVE i = j
  <2>1. /\ \A k, l \in DOMAIN before : before[k] = before[l] => k = l
        /\ \A k, l \in DOMAIN b : b[k] = b[l] => k = l
    BY DEF WalkedTo, Walked, IsPage
  <2>2. /\ \/ i \in DOMAIN before /\ out[i] = before[i]
           \/ \E k \in DOMAIN b : i = m + k /\ out[i] = b[k]
        /\ \/ j \in DOMAIN before /\ out[j] = before[j]
           \/ \E k \in DOMAIN b : j = m + k /\ out[j] = b[k]
    BY <1>2
  <2> QED BY <1>7, <1>8, <2>1, <2>2
<1>9. PICK now \in past : now.bucket = bucket
  BY DEF CollInv, TypeOK
<1>10. ASSUME NEW i \in DOMAIN out PROVE \E w \in past : out[i] \in w.bucket
  <2>1. CASE i \in 1..m
    BY <1>2, <2>1 DEF WalkedTo, Walked
  <2>2. CASE \E k \in 1..Len(b) : i = m + k
    BY <1>2, <1>4, <1>9, <2>2
  <2> QED BY <1>2, <2>1, <2>2
<1>11. Walked(out)
  BY <1>2, <1>8, <1>10 DEF Walked
<1>12. ASSUME NEW o \in Objects, page.next = 0 \/ o.key < page.next PROVE Covers(out, o)
  <2> SUFFICES ASSUME \A w \in past : o \in w.bucket PROVE \E i \in DOMAIN out : out[i] = o
    BY DEF Covers
  <2>1. CASE o.key < start
    <3>1. PICK i \in DOMAIN before : before[i] = o
      BY <2>1 DEF WalkedTo, Covers
    <3> QED BY <1>2, <1>3, <3>1
  <2>2. CASE o.key >= start
    <3>1. o \in bucket
      BY <1>9
    <3>2. PICK i \in DOMAIN b : b[i] = o
      BY <1>12, <2>2, <3>1 DEF IsPage
    <3> QED BY <1>2, <1>3, <3>2
  <2> QED BY <1>5, <1>6, <2>1, <2>2
<1>13. ASSUME page.next # 0 PROVE WalkedTo(out, page.next)
  <2>1. page.next \in Nat /\ page.next >= start /\ \A i \in DOMAIN b : b[i].key < page.next
    BY <1>13 DEF IsPage
  <2>2. ASSUME NEW i \in DOMAIN out PROVE out[i].key < page.next
    <3>1. CASE i \in 1..m
      <4>1. before[i].key \in Nat /\ before[i].key < start
        BY <1>2, <1>4, <1>5, <3>1
      <4> QED BY <1>2, <1>6, <2>1, <3>1, <4>1
    <3>2. CASE \E k \in 1..Len(b) : i = m + k
      BY <1>2, <2>1, <3>2
    <3> QED BY <1>2, <3>1, <3>2
  <2> QED BY <1>11, <1>12, <2>1, <2>2 DEF WalkedTo
<1> QED BY <1>11, <1>12, <1>13

LEMMA ListObjectsInv ==
    ASSUME CollInv, "backups" \in Sources, ListObjects PROVE CollInv'
<1>1. PICK walk : walk = call["backups"]
  OBVIOUS
<1>2. PICK start : start = IF walk.pc = "start" THEN 1 ELSE walk.got.start
  OBVIOUS
<1>3. PICK page : page = Page(start)
  OBVIOUS
<1>4. PICK before : before = IF walk.pc = "start" THEN <<>> ELSE walk.got.out
  OBVIOUS
<1>5. WalkedTo(before, start)
  <2>1. CASE walk.pc = "start"
    <3>1. before = <<>> /\ start = 1
      BY <1>2, <1>4, <2>1
    <3>2. Walked(before)
      BY <3>1 DEF Walked
    <3>3. \A o \in Objects : ~(o.key < start)
      BY <3>1, ObjectsAreTyped DEF ObjectsTyped
    <3> QED BY <3>1, <3>2, <3>3 DEF WalkedTo
  <2>2. CASE walk.pc = "second"
    <3>1. before = walk.got.out /\ start = walk.got.start /\ call["backups"].pc = "second"
      BY <1>1, <1>2, <1>4, <2>2
    <3> QED BY <1>1, <3>1 DEF CollInv, BackupsOK, WalkedTo
  <2> QED BY <1>1, <2>1, <2>2 DEF ListObjects
<1>6. IsPage(page, start)
  BY <1>3, <1>5, PageIsPage DEF WalkedTo, CollInv, TypeOK
<1>7. PICK out : out = before \o page.objects
  OBVIOUS
<1>8. out = IF walk.pc = "start" THEN page.objects ELSE walk.got.out \o page.objects
  <2>1. page.objects \in Seq(Objects)
    BY <1>6 DEF IsPage
  <2>2. <<>> \o page.objects = page.objects
    BY <2>1
  <2> QED BY <1>4, <1>7, <2>2
<1>9. /\ page.next # 0 => WalkedTo(out, page.next)
      /\ page.next = 0 => Walked(out) /\ \A o \in Objects : Covers(out, o)
  BY <1>5, <1>6, <1>7, WalkGoesOn
<1>10. /\ IF page.next = 0 THEN Succeed("backups", out)
          ELSE /\ Proceed("backups", "second", [start |-> page.next, out |-> out])
               /\ UNCHANGED <<res, ok, warned>>
       /\ UNCHANGED <<config, world, answered, snap>>
       /\ call["backups"].pc # "done"
  BY <1>1, <1>2, <1>3, <1>8 DEF ListObjects
<1>11. CASE page.next = 0
  <2>1. /\ ReadStep("backups") /\ res'["backups"] = out /\ call'["backups"].pc = "done" /\ past' = past
    BY <1>10, <1>11, Answers
  <2>2. Walked(out)' /\ \A o \in Objects : Covers(out, o)'
    BY <1>9, <1>11, <2>1, WalkStays
  <2>3. BackupsOK'
    BY <2>1, <2>2 DEF BackupsOK
  <2> QED BY <2>1, <2>3, ReadKeeps DEF MetricSources
<1>12. CASE page.next # 0
  <2>1. PICK got : got = [start |-> page.next, out |-> out]
    OBVIOUS
  <2>2. /\ ReadStep("backups") /\ call'["backups"] = [pc |-> "second", got |-> got]
        /\ "backups" \notin ok' /\ past' = past
    BY <1>10, <1>12, <2>1, GoesOn
  <2>3. WalkedTo(got.out, got.start)
    BY <1>9, <1>12, <2>1
  <2>4. WalkedTo(got.out, got.start)'
    BY <2>2, <2>3, WalkStays DEF WalkedTo
  <2>5. BackupsOK'
    BY <2>2, <2>4 DEF BackupsOK, WalkedTo
  <2> QED BY <2>2, <2>5, ReadKeeps DEF MetricSources
<1> QED BY <1>11, <1>12

LEMMA AssembleInv == ASSUME CollInv, Assemble PROVE CollInv'
<1>1. UNCHANGED <<config, world, call, res, ok, warned, answered>>
  BY DEF Assemble
<1>2. SnapOK'
  BY DEF Assemble, SnapOK
<1>3. TypeOK' /\ Shapes' /\ Kept'
  BY <1>1 DEF CollInv, TypeOK, Shapes, Kept, world
<1>4. \A t : Same(t)
  BY <1>1 DEF Same
<1>5. config' = config /\ past \subseteq past'
  BY <1>1 DEF world
<1> QED BY <1>2, <1>3, <1>4, <1>5, MetricStays, InstancesStay, BackupsStay DEF CollInv

LEMMA WorldChangesInv == ASSUME CollInv, WorldChanges PROVE CollInv'
<1>1. UNCHANGED <<config, call, res, ok, warned, answered, snap>> /\ snap = Nothing
  BY DEF WorldChanges
<1>2. nodes' \in [Nodes -> NodeStates] /\ bucket' \subseteq Objects
  BY DEF WorldChanges, CollInv, TypeOK
<1>3. PICK now : now = [nodes |-> nodes', bucket |-> bucket']
  OBVIOUS
<1>4. now \in Worlds /\ past' = past \cup {now}
  BY <1>2, <1>3 DEF WorldChanges, Worlds
<1>5. changes' \in 0..MaxChanges
  <2>1. MaxChanges \in Nat
    BY CollectionConstants, Zenon
  <2> QED BY <2>1 DEF WorldChanges, CollInv, TypeOK
<1>6. TypeOK'
  BY <1>1, <1>2, <1>3, <1>4, <1>5 DEF CollInv, TypeOK
<1>7. Shapes' /\ Kept' /\ SnapOK'
  BY <1>1, <1>4 DEF CollInv, Shapes, Kept, SnapOK, Done
<1>8. (\A t : Same(t)) /\ config' = config /\ past \subseteq past'
  BY <1>1, <1>4 DEF Same
<1> QED BY <1>6, <1>7, <1>8, MetricStays, InstancesStay, BackupsStay DEF CollInv

LEMMA StutterInv == ASSUME CollInv, UNCHANGED vars PROVE CollInv'
<1>1. UNCHANGED <<config, nodes, bucket, past, call, res, ok, warned, answered, changes, snap>>
  BY DEF vars
<1>2. TypeOK' /\ Shapes' /\ Kept' /\ SnapOK'
  BY <1>1 DEF CollInv, TypeOK, Shapes, Kept, SnapOK, Done
<1>3. (\A t : Same(t)) /\ config' = config /\ past \subseteq past'
  BY <1>1 DEF Same
<1> QED BY <1>2, <1>3, MetricStays, InstancesStay, BackupsStay DEF CollInv

LEMMA NextInv == CollInv /\ [Next]_vars => CollInv'
<1> SUFFICES ASSUME CollInv, [Next]_vars PROVE CollInv'
  OBVIOUS
<1>1. CASE Reads
  <2>1. CASE "instances" \in Sources /\ (KubernetesInstances \/ OciInstances \/ OciAddresses)
    BY <2>1, KubernetesInstancesInv, OciInstancesInv, OciAddressesInv
  <2>2. CASE \E s \in Sources : KubernetesUsage(s) \/ KubernetesCapacity(s) \/ OciMetric(s)
    BY <2>2, KubernetesUsageInv, KubernetesCapacityInv, OciMetricInv
  <2>3. CASE "ingress" \in Sources /\ (KubernetesIngress \/ OciIngress)
    BY <2>3, KubernetesIngressInv, OciIngressInv
  <2>4. CASE "alarms" \in Sources /\ OciAlarms
    BY <2>4, OciAlarmsInv
  <2>5. CASE "backups" \in Sources /\ ListObjects
    BY <2>5, ListObjectsInv
  <2> QED BY <1>1, <2>1, <2>2, <2>3, <2>4, <2>5 DEF Reads
<1>2. CASE Assemble
  BY <1>2, AssembleInv
<1>3. CASE WorldChanges
  BY <1>3, WorldChangesInv
<1>4. CASE \E s \in Sources : NoSource(s) \/ CallFails(s)
  BY <1>4, NoSourceInv, CallFailsInv
<1>5. CASE UNCHANGED vars
  BY <1>5, StutterInv
<1> QED BY <1>1, <1>2, <1>3, <1>4, <1>5 DEF Next

\* Whatever the reads have so far was measured in a world there has been, or
\* answered by Oracle, and nothing is stored for a read that failed.
THEOREM CollectionInvariant == Spec => []CollInv
BY InitInv, NextInv, PTL DEF Spec

\* Every read of the collector is answered or warned of, never both.
THEOREM CollectionTypes == Spec => []TypeOK
<1>1. CollInv => TypeOK
  BY DEF CollInv
<1> QED BY <1>1, CollectionInvariant, PTL

-----------------------------------------------------------------------------
Summarises(summary, objects) ==
    LET In(p) == {i \in DOMAIN objects : objects[i].stream = p}
        Times(p) == {objects[i].modified : i \in In(p)} \ {0}
    IN /\ summary.count = Len(objects)
       /\ \A p \in BackupPrefixes :
            /\ summary.streams[p].count = Cardinality(In(p))
            /\ summary.streams[p].newest = IF Times(p) = {} THEN Null ELSE Max(Times(p))

LEMMA SummaryFields == ASSUME NEW objects PROVE Summarises(summariseBackups(objects), objects)
BY DEF Summarises, summariseBackups, FoldLeft, MapThenFoldSet

\* What each field of the snapshot is made of.
IsNode(node, i) ==
    /\ node.name = i.name
    /\ node.cpu = IF "cpu-metrics" \in ok
                  THEN ValueOf(latestByDimension(res["cpu-metrics"]), i.name) ELSE Null

LEMMA SnapFields ==
    ASSUME CollInv, Done
    PROVE  /\ snap.warnings = warned
           /\ snap.ocpuUsed = IF "instances" \in ok THEN ampereOCPU(res["instances"]) ELSE Null
           /\ snap.backups = IF "backups" \in ok THEN summariseBackups(res["backups"]) ELSE NoBackups
           /\ snap.storageUsed = snap.backups.size
           /\ snap.healthy = IF "healthy-backends" \in ok
                             THEN maxAcrossSeries(res["healthy-backends"]) ELSE Null
           /\ \A node \in snap.nodes : \E i \in res["instances"] : IsNode(node, i)
           /\ {node.name : node \in snap.nodes} = {i.name : i \in res["instances"]}
<1>1. snap = assemble(res, ok, warned)
  BY DEF CollInv, SnapOK
<1>2. /\ snap.warnings = warned
      /\ snap.ocpuUsed = IF "instances" \in ok THEN ampereOCPU(res["instances"]) ELSE Null
      /\ snap.backups = IF "backups" \in ok THEN summariseBackups(res["backups"]) ELSE NoBackups
      /\ snap.storageUsed = snap.backups.size
      /\ snap.healthy = IF "healthy-backends" \in ok
                        THEN maxAcrossSeries(res["healthy-backends"]) ELSE Null
  BY <1>1 DEF assemble
<1> DEFINE cpu(n) == IF "cpu-metrics" \in ok THEN ValueOf(latestByDimension(res["cpu-metrics"]), n) ELSE Null
           memory(n) == IF "memory-metrics" \in ok THEN ValueOf(latestByDimension(res["memory-metrics"]), n) ELSE Null
           N(i) == [name |-> i.name, state |-> i.state, ip |-> i.ip, cpu |-> cpu(i.name), memory |-> memory(i.name)]
<1>3. snap.nodes = {N(i) : i \in res["instances"]}
  BY <1>1 DEF assemble
<1>4. \A i : N(i).name = i.name /\ N(i).cpu = cpu(i.name)
  OBVIOUS
<1> HIDE DEF N
<1>5. \A node \in snap.nodes : \E i \in res["instances"] : node.name = i.name /\ node.cpu = cpu(i.name)
  BY <1>3, <1>4
<1>6. {node.name : node \in snap.nodes} = {i.name : i \in res["instances"]}
  BY <1>3, <1>4
<1> QED BY <1>2, <1>5, <1>6 DEF IsNode

\* All the calls have returned: answered or warned of.
LEMMA AllReturned == ASSUME CollInv, Done PROVE ok \cup warned = Sources /\ ok \cap warned = {}
BY DEF CollInv, TypeOK, Kept, SnapOK

\* A partial snapshot explains its own gaps: a null is a read that failed and is
\* named, or a metric the source had no value of, and never a confident zero.
THEOREM GapsAreExplained == Spec => []GapsAreNamed
<1>1. ASSUME CollInv PROVE GapsAreNamed
  <2> SUFFICES ASSUME Done
               PROVE  /\ snap.warnings = Sources \ ok
                      /\ "instances" \in Sources => (snap.ocpuUsed = Null <=> "instances" \in snap.warnings)
                      /\ "backups" \in Sources => (snap.backups.count = Null <=> "backups" \in snap.warnings)
                      /\ snap.storageUsed = snap.backups.size
                      /\ snap.healthy # Null =>
                           res["healthy-backends"] # <<>> /\ "healthy-backends" \notin snap.warnings
                      /\ \A node \in snap.nodes : node.cpu # Null => "cpu-metrics" \notin snap.warnings
    BY DEF GapsAreNamed
  <2>1. /\ snap.warnings = warned
        /\ snap.ocpuUsed = IF "instances" \in ok THEN ampereOCPU(res["instances"]) ELSE Null
        /\ snap.backups = IF "backups" \in ok THEN summariseBackups(res["backups"]) ELSE NoBackups
        /\ snap.storageUsed = snap.backups.size
        /\ snap.healthy = IF "healthy-backends" \in ok
                          THEN maxAcrossSeries(res["healthy-backends"]) ELSE Null
        /\ \A node \in snap.nodes : \E i \in res["instances"] : IsNode(node, i)
    BY <1>1, SnapFields
  <2>2. ok \cup warned = Sources /\ ok \cap warned = {}
    BY <1>1, AllReturned
  <2>3. ampereOCPU(res["instances"]) # Null
    <3>1. IsFiniteSet(res["instances"]) /\ \A i \in res["instances"] : i.ocpus \in Nat
      BY <1>1 DEF CollInv, InstancesOK, Machines
    <3>2. ampereOCPU(res["instances"]) \in Nat
      BY <3>1, OcpusAreCounted
    <3> QED BY <3>2 DEF Null
  <2>4. "backups" \in ok => snap.backups.count # Null
    <3> SUFFICES ASSUME "backups" \in ok PROVE snap.backups.count # Null
      OBVIOUS
    <3>1. res["backups"] \in Seq(Objects)
      BY <1>1 DEF CollInv, BackupsOK, Walked
    <3>2. Len(res["backups"]) \in Nat
      BY <3>1
    <3>3. snap.backups = summariseBackups(res["backups"])
      BY <2>1
    <3>4. snap.backups.count = Len(res["backups"])
      BY <3>3, SummaryFields DEF Summarises
    <3> QED BY <3>2, <3>4 DEF Null
  <2>5. "backups" \notin ok => snap.backups.count = Null
    BY <2>1 DEF NoBackups
  <2>6. snap.healthy # Null => res["healthy-backends"] # <<>> /\ "healthy-backends" \in ok
    BY <2>1 DEF maxAcrossSeries
  <2>7. ASSUME NEW node \in snap.nodes, node.cpu # Null PROVE "cpu-metrics" \in ok
    <3>1. PICK i \in res["instances"] : IsNode(node, i)
      BY <2>1
    <3> QED BY <2>7, <3>1 DEF IsNode
  <2>8. snap.warnings = Sources \ ok
    BY <2>1, <2>2
  <2>9. "instances" \in Sources => (snap.ocpuUsed = Null <=> "instances" \in snap.warnings)
    BY <2>1, <2>3, <2>8
  <2> QED BY <2>1, <2>4, <2>5, <2>6, <2>7, <2>8, <2>9
<1> QED BY <1>1, CollectionInvariant, PTL

\* A machine's utilisation is the newest series that names it, or null without one.
LEMMA CpuShown ==
    ASSUME CollInv, Done, "cpu-metrics" \in ok, NEW node \in snap.nodes, NEW series,
           series = res["cpu-metrics"]
    PROVE  /\ series \in Seq(Series)
           /\ \/ node.cpu = Null /\ \A j \in DOMAIN series : series[j].key # node.name
              \/ \E i \in DOMAIN series :
                   /\ series[i].key = node.name /\ series[i].value = node.cpu
                   /\ \A j \in DOMAIN series : series[j].key = node.name => series[j].at <= series[i].at
<1>1. series \in Seq(Series)
  <2>1. "cpu-metrics" \in Sources \cap MetricSources
    BY DEF CollInv, TypeOK, MetricSources
  <2>2. MetricOK("cpu-metrics")
    BY <2>1 DEF CollInv
  <2> QED BY <2>2 DEF MetricOK
<1>2. PICK m \in res["instances"] : IsNode(node, m)
  BY SnapFields
<1>3. m.name \in Nodes /\ m.name # ""
  <2>1. m.name \in Nodes
    BY DEF CollInv, InstancesOK, Machines
  <2> QED BY <2>1, CollectionConstants
<1>4. PICK out : out = latestByDimension(series)
  OBVIOUS
<1>5. node.name = m.name /\ node.cpu = IF m.name \in DOMAIN out THEN out[m.name].value ELSE Null
  BY <1>2, <1>4 DEF IsNode, ValueOf
<1>6. /\ \A x \in DOMAIN out :
           \E i \in DOMAIN series :
             /\ out[x] = series[i] /\ series[i].key = x /\ x # ""
             /\ \A j \in DOMAIN series : series[j].key = x => series[j].at <= series[i].at
      /\ \A i \in DOMAIN series : series[i].key # "" => series[i].key \in DOMAIN out
  <2>1. /\ \A x \in DOMAIN latestByDimension(series) :
             \E i \in DOMAIN series :
               /\ latestByDimension(series)[x] = series[i] /\ series[i].key = x /\ x # ""
               /\ \A j \in DOMAIN series : series[j].key = x => series[j].at <= series[i].at
        /\ \A i \in DOMAIN series :
             series[i].key # "" => series[i].key \in DOMAIN latestByDimension(series)
    BY <1>1, LatestFound, Zenon
  <2> QED BY <1>4, <2>1
<1>7. CASE m.name \in DOMAIN out
  <2>1. PICK i \in DOMAIN series :
          /\ out[m.name] = series[i] /\ series[i].key = m.name
          /\ \A j \in DOMAIN series : series[j].key = m.name => series[j].at <= series[i].at
    BY <1>6, <1>7
  <2> QED BY <1>1, <1>5, <1>7, <2>1
<1>8. CASE m.name \notin DOMAIN out
  <2>1. \A j \in DOMAIN series : series[j].key # m.name
    BY <1>3, <1>6, <1>8
  <2>2. node.cpu = Null /\ node.name = m.name
    BY <1>5, <1>8
  <2> QED BY <1>1, <2>1, <2>2
<1> QED BY <1>7, <1>8

\* With the Kubernetes Provider: the machines shown are those of one moment, and a
\* utilisation shown is some usage of that machine against some capacity it had.
THEOREM ShownIsMeasured == Spec => []ShownWasMeasured
<1>1. ASSUME CollInv PROVE ShownWasMeasured
  <2> SUFFICES ASSUME Done, config.kubernetes
               PROVE  /\ "instances" \in ok =>
                           \E w \in past : {n.name : n \in snap.nodes} = {n \in Nodes : w.nodes[n].here}
                      /\ \A node \in snap.nodes : node.cpu # Null => Measured(node.name, node.cpu)
    BY DEF ShownWasMeasured, Measured
  <2>1. "instances" \in ok =>
          \E w \in past : {n.name : n \in snap.nodes} = {n \in Nodes : w.nodes[n].here}
    <3>1. {n.name : n \in snap.nodes} = {i.name : i \in res["instances"]}
      BY <1>1, SnapFields
    <3> QED BY <1>1, <3>1 DEF CollInv, InstancesOK
  <2>2. ASSUME NEW node \in snap.nodes, node.cpu # Null PROVE Measured(node.name, node.cpu)
    <3>1. "cpu-metrics" \in ok
      <4>1. PICK i \in res["instances"] : IsNode(node, i)
        BY <1>1, SnapFields
      <4> QED BY <2>2, <4>1 DEF IsNode
    <3>2. PICK series : series = res["cpu-metrics"]
      OBVIOUS
    <3>3. PICK i \in DOMAIN series : series[i].key = node.name /\ series[i].value = node.cpu
      BY <1>1, <2>2, <3>1, <3>2, CpuShown
    <3>4. MetricOK("cpu-metrics")
      <4>1. "cpu-metrics" \in Sources \cap MetricSources
        BY <1>1, <3>1 DEF CollInv, TypeOK, MetricSources
      <4> QED BY <1>1, <4>1 DEF CollInv
    <3>5. Measured(series[i].key, series[i].value)
      BY <3>1, <3>2, <3>4 DEF MetricOK
    <3> QED BY <3>3, <3>5
  <2> QED BY <2>1, <2>2
<1> QED BY <1>1, CollectionInvariant, PTL

CompletePoints(items, name) ==
    LET points == UNION {{items[i].points[j] : j \in DOMAIN items[i].points} :
                           i \in {i \in DOMAIN items : items[i].key = name}}
    IN {p \in points : p.value # Null /\ p.at # Null}

\* With Oracle's sources: of all the complete datapoints answered for a machine,
\* one that none is newer than is shown.
THEOREM NewestDatapointIsShown == Spec => []NewestIsShown
<1>1. ASSUME CollInv PROVE NewestIsShown
  <2> SUFFICES ASSUME Done, ~config.kubernetes, NEW node \in snap.nodes
               PROVE  LET complete == CompletePoints(answered["cpu-metrics"], node.name)
                      IN IF "cpu-metrics" \in ok /\ complete # {}
                         THEN \E p \in complete : p.value = node.cpu /\ \A q \in complete : q.at <= p.at
                         ELSE node.cpu = Null
    BY Zenon DEF NewestIsShown, CompletePoints
  <2>3. PICK items : items = answered["cpu-metrics"]
    OBVIOUS
  <2>4. PICK complete : complete = CompletePoints(items, node.name)
    OBVIOUS
  <2> SUFFICES IF "cpu-metrics" \in ok /\ complete # {}
               THEN \E p \in complete : p.value = node.cpu /\ \A q \in complete : q.at <= p.at
               ELSE node.cpu = Null
    BY <2>3, <2>4
  <2>1. CASE "cpu-metrics" \notin ok
    <3>1. PICK i \in res["instances"] : IsNode(node, i)
      BY <1>1, SnapFields
    <3> QED BY <2>1, <3>1 DEF IsNode
  <2>2. CASE "cpu-metrics" \in ok
    <3>1. \A p : p \in complete <=>
                   \E i \in DOMAIN items : \E j \in DOMAIN items[i].points :
                     items[i].key = node.name /\ p = items[i].points[j] /\ Complete(p)
      BY <2>4 DEF Complete, CompletePoints
    <3>2. PICK series : series = res["cpu-metrics"]
      OBVIOUS
    <3>3. items \in Seq(Items) /\ series = OciSeries(items)
      <4>1. "cpu-metrics" \in Sources \cap MetricSources
        BY <1>1, <2>2 DEF CollInv, TypeOK, MetricSources
      <4>2. MetricOK("cpu-metrics")
        BY <1>1, <4>1 DEF CollInv
      <4>3. items \in Samples /\ series = OciSeries(items)
        BY <2>2, <2>3, <3>2, <4>2 DEF MetricOK
      <4> QED BY <4>3, CollectionConstants DEF Items, Points
    <3>4. /\ series \in Seq(Series)
          /\ \A k \in DOMAIN series : \E i \in DOMAIN items : IsSeriesOf(series[k], items[i])
          /\ \A i \in DOMAIN items : newestDatapoint(items[i].points) # <<>> =>
               \E k \in DOMAIN series : IsSeriesOf(series[k], items[i])
      BY <3>3, AllSeriesFound
    <3>5. \A i \in DOMAIN items : items[i].points \in Seq(Points)
      <4>1. \A i \in DOMAIN items : items[i] \in Items
        BY <3>3
      <4> QED BY <4>1 DEF Items
    <3>6. ASSUME NEW k \in DOMAIN series, NEW i \in DOMAIN items, IsSeriesOf(series[k], items[i])
          PROVE  /\ series[k].key = items[i].key
                 /\ \E j \in DOMAIN items[i].points :
                      /\ Complete(items[i].points[j])
                      /\ series[k].at = items[i].points[j].at /\ series[k].value = items[i].points[j].value
                 /\ \A j \in DOMAIN items[i].points :
                      Complete(items[i].points[j]) => items[i].points[j].at <= series[k].at
      <4>1. PICK points \in Seq(Points) : points = items[i].points
        BY <3>5
      <4>2. PICK latest : latest = newestDatapoint(points)
        OBVIOUS
      <4>3. latest # <<>> /\ series[k] = [key |-> items[i].key, at |-> latest[1].at, value |-> latest[1].value]
        BY <3>6, <4>1, <4>2 DEF IsSeriesOf
      <4>4. PICK j \in DOMAIN points :
              /\ latest = <<points[j]>> /\ Complete(points[j])
              /\ \A l \in DOMAIN points : Complete(points[l]) => points[l].at <= points[j].at
        BY <4>2, <4>3, NewestFound
      <4>5. series[k].key = items[i].key /\ series[k].at = points[j].at /\ series[k].value = points[j].value
        BY <4>3, <4>4
      <4> QED BY <4>1, <4>4, <4>5
    <3>7. ASSUME NEW q \in complete
          PROVE  \E k \in DOMAIN series : series[k].key = node.name /\ q.at <= series[k].at
      <4>1. PICK i \in DOMAIN items : \E j \in DOMAIN items[i].points :
              items[i].key = node.name /\ q = items[i].points[j] /\ Complete(q)
        BY <3>1
      <4>2. newestDatapoint(items[i].points) # <<>>
        <5>1. PICK points \in Seq(Points) : points = items[i].points
          BY <3>5
        <5>2. \E j \in DOMAIN points : Complete(points[j])
          BY <4>1, <5>1
        <5>3. newestDatapoint(points) # <<>>
          <6>1. \/ \A j \in DOMAIN points : ~Complete(points[j])
                \/ \E j \in DOMAIN points : newestDatapoint(points) = <<points[j]>>
            BY NewestFound
          <6>2. \A x : <<x>> # <<>>
            OBVIOUS
          <6> QED BY <5>2, <6>1, <6>2, Zenon
        <5> QED BY <5>1, <5>3
      <4>3. PICK k \in DOMAIN series : IsSeriesOf(series[k], items[i])
        BY <3>4, <4>2
      <4> QED BY <3>6, <4>1, <4>3
    <3>8. CASE \E k \in DOMAIN series :
                 /\ series[k].key = node.name /\ series[k].value = node.cpu
                 /\ \A j \in DOMAIN series : series[j].key = node.name => series[j].at <= series[k].at
      <4>1. PICK k \in DOMAIN series :
              /\ series[k].key = node.name /\ series[k].value = node.cpu
              /\ \A j \in DOMAIN series : series[j].key = node.name => series[j].at <= series[k].at
        BY <3>8
      <4>2. PICK i \in DOMAIN items : IsSeriesOf(series[k], items[i])
        BY <3>4
      <4>3. PICK j \in DOMAIN items[i].points :
              /\ Complete(items[i].points[j]) /\ series[k].key = items[i].key
              /\ series[k].at = items[i].points[j].at /\ series[k].value = items[i].points[j].value
        BY <3>6, <4>2
      <4>4. PICK p : p = items[i].points[j]
        OBVIOUS
      <4>5. p \in complete /\ p.value = node.cpu /\ p.at = series[k].at
        BY <3>1, <4>1, <4>3, <4>4
      <4>6. ASSUME NEW q \in complete PROVE q.at <= p.at
        <5>1. q.at \in Int
          <6>1. PICK a \in DOMAIN items : \E b \in DOMAIN items[a].points : q = items[a].points[b]
            BY <3>1
          <6>2. q \in Points
            BY <3>5, <6>1
          <6> QED BY <6>2 DEF Points, Null
        <5>2. PICK l \in DOMAIN series : series[l].key = node.name /\ q.at <= series[l].at
          BY <3>7
        <5>3. series[l].at \in Nat /\ series[k].at \in Nat
          <6>1. series[l] \in Series /\ series[k] \in Series
            BY <3>4
          <6> QED BY <6>1 DEF Series
        <5> QED BY <4>1, <4>5, <5>1, <5>2, <5>3
      <4> QED BY <2>2, <4>5, <4>6
    <3>9. CASE node.cpu = Null /\ \A j \in DOMAIN series : series[j].key # node.name
      BY <2>2, <3>7, <3>9
    <3> QED BY <1>1, <2>2, <3>2, <3>8, <3>9, CpuShown
  <2> QED BY <2>1, <2>2
<1> QED BY <1>1, CollectionInvariant, PTL

-----------------------------------------------------------------------------
\* A listing without repetitions, by how many entries it has.
LEMMA Counted ==
    ASSUME NEW out, NEW I, IsFiniteSet(I), \A i, j \in I : out[i] = out[j] => i = j,
           NEW A, NEW E, IsFiniteSet(E), \A i \in I : out[i] \in E,
           \A o \in A : \E i \in I : out[i] = o
    PROVE  Cardinality(I) \in Cardinality(A)..Cardinality(E)
<1> DEFINE J == {i \in I : out[i] \in A}
           f == [i \in I |-> out[i]]
           g == [i \in J |-> out[i]]
<1>1. IsFiniteSet(J) /\ Cardinality(J) <= Cardinality(I)
  BY FS_Subset
<1>2. f \in Injection(I, E)
  BY DEF Injection, IsInjective
<1>3. g \in Surjection(J, A)
  BY DEF Surjection
<1> HIDE DEF f, g, J
<1>4. Cardinality(I) <= Cardinality(E)
  BY <1>2, FS_Injection
<1>5. IsFiniteSet(A) /\ Cardinality(A) <= Cardinality(J)
  BY <1>1, <1>3, FS_Surjection
<1>6. Cardinality(A) \in Nat /\ Cardinality(J) \in Nat /\ Cardinality(I) \in Nat /\ Cardinality(E) \in Nat
  BY <1>1, <1>5, FS_CardinalityType
<1> QED BY <1>1, <1>4, <1>5, <1>6

\* The walk over the backup bucket, whose objects may change between two pages,
\* counts what was in it all along, and nothing that never was, or twice.
THEOREM TheWalkIsComplete == Spec => []WalkIsComplete
<1>1. ASSUME CollInv PROVE WalkIsComplete
  <2> DEFINE always == {o \in Objects : \A w \in past : o \in w.bucket}
             ever == {o \in Objects : \E w \in past : o \in w.bucket}
             In(S, p) == {o \in S : o.stream = p}
             backups == snap.backups
  <2> SUFFICES ASSUME Done, "backups" \in ok
               PROVE  /\ backups.count \in Cardinality(always)..Cardinality(ever)
                      /\ \A p \in BackupPrefixes :
                           /\ backups.streams[p].count \in Cardinality(In(always, p))..Cardinality(In(ever, p))
                           /\ \A o \in In(always, p) :
                                o.modified > 0 => backups.streams[p].newest >= o.modified
    BY DEF WalkIsComplete
  <2>1. PICK out : out = res["backups"]
    OBVIOUS
  <2>2. Walked(out) /\ \A o \in Objects : Covers(out, o)
    BY <1>1, <2>1 DEF CollInv, BackupsOK
  <2>3. /\ out \in Seq(Objects) /\ Len(out) \in Nat /\ DOMAIN out = 1..Len(out)
        /\ \A i, j \in DOMAIN out : out[i] = out[j] => i = j
        /\ \A i \in DOMAIN out : out[i] \in ever
    <3>1. out \in Seq(Objects)
      BY <2>2 DEF Walked
    <3>2. \A i \in DOMAIN out : out[i] \in Objects
      BY <3>1
    <3> QED BY <2>2, <3>1, <3>2 DEF Walked
  <2>4. \A o \in always : \E i \in DOMAIN out : out[i] = o
    BY <2>2 DEF Covers
  <2>5. IsFiniteSet(ever) /\ IsFiniteSet(DOMAIN out)
    <3>1. IsFiniteSet(Objects)
      BY CollectionConstants, Zenon
    <3>2. ever \in SUBSET Objects
      OBVIOUS
    <3>3. IsFiniteSet(ever)
      <4> HIDE DEF ever
      <4> QED BY <3>1, <3>2, FS_Subset
    <3>4. IsFiniteSet(1..Len(out))
      BY <2>3, FS_Interval
    <3> QED BY <2>3, <3>3, <3>4
  <2>6. \A o \in always : o \in Objects
    OBVIOUS
  <2>7. backups = summariseBackups(out)
    BY <1>1, <2>1, SnapFields
  <2> DEFINE I(p) == {i \in DOMAIN out : out[i].stream = p}
             Times(p) == {out[i].modified : i \in I(p)} \ {0}
  <2>8. /\ backups.count = Len(out)
        /\ \A p \in BackupPrefixes :
             /\ backups.streams[p].count = Cardinality(I(p))
             /\ backups.streams[p].newest = IF Times(p) = {} THEN Null ELSE Max(Times(p))
    <3>1. Summarises(backups, out)
      BY <2>7, SummaryFields
    <3> HIDE DEF backups
    <3> QED BY <3>1, Zenon DEF Summarises
  <2> HIDE DEF always, ever, backups
  <2>9. backups.count \in Cardinality(always)..Cardinality(ever)
    <3>1. Cardinality(DOMAIN out) = Len(out)
      <4>1. PICK n \in Nat : n = Len(out) /\ DOMAIN out = 1..n
        BY <2>3
      <4>2. Cardinality(1..n) = n
        BY FS_Interval
      <4> QED BY <4>1, <4>2
    <3>2. Cardinality(DOMAIN out) \in Cardinality(always)..Cardinality(ever)
      BY <2>3, <2>4, <2>5, Counted
    <3> QED BY <2>8, <3>1, <3>2
  <2>10. ASSUME NEW p \in BackupPrefixes
         PROVE  backups.streams[p].count \in Cardinality(In(always, p))..Cardinality(In(ever, p))
    <3>1. IsFiniteSet(I(p)) /\ IsFiniteSet(In(ever, p))
      BY <2>5, FS_Subset
    <3>2. /\ \A i, j \in I(p) : out[i] = out[j] => i = j
          /\ \A i \in I(p) : out[i] \in In(ever, p)
          /\ \A o \in In(always, p) : \E i \in I(p) : out[i] = o
      BY <2>3, <2>4
    <3>3. Cardinality(I(p)) \in Cardinality(In(always, p))..Cardinality(In(ever, p))
      <4> HIDE DEF I, In
      <4> QED BY <3>1, <3>2, Counted
    <3> QED BY <2>8, <3>3
  <2>11. ASSUME NEW p \in BackupPrefixes, NEW o \in In(always, p), o.modified > 0
         PROVE  backups.streams[p].newest >= o.modified
    <3>1. PICK i \in I(p) : out[i] = o
      BY <2>4
    <3>2. \A j \in DOMAIN out : out[j].modified \in Nat
      BY <2>3, ObjectsAreTyped DEF ObjectsTyped
    <3>3. Times(p) \in SUBSET Nat /\ o.modified \in Times(p)
      BY <2>11, <3>1, <3>2
    <3>4. IsFiniteSet(Times(p))
      <4> DEFINE M == {out[j].modified : j \in I(p)}
                 f == [j \in I(p) |-> out[j].modified]
      <4>1. f \in Surjection(I(p), M)
        BY DEF Surjection
      <4>2. IsFiniteSet(I(p))
        BY <2>5, FS_Subset
      <4>3. IsFiniteSet(M)
        <5> HIDE DEF f, M, I
        <5> QED BY <4>1, <4>2, FS_Surjection
      <4>4. Times(p) \subseteq M
        OBVIOUS
      <4> HIDE DEF Times, M
      <4> QED BY <4>3, <4>4, FS_Subset
    <3>5. backups.streams[p].newest = Max(Times(p))
      BY <2>8, <3>3
    <3>6. Max(Times(p)) \in Times(p) /\ o.modified <= Max(Times(p))
      <4> HIDE DEF Times
      <4> QED BY <3>3, <3>4, MaxExists
    <3>7. Max(Times(p)) \in Nat /\ o.modified \in Nat
      <4> HIDE DEF Times
      <4> QED BY <3>3, <3>6
    <3> HIDE DEF Times
    <3> QED BY <3>5, <3>6, <3>7
  <2> HIDE DEF In
  <2> QED BY <2>9, <2>10, <2>11
<1> QED BY <1>1, CollectionInvariant, PTL

=============================================================================
