---------------------------- MODULE SweepProofs ----------------------------
(***************************************************************************)
(* Proofs about the batch sweeps and what they report, for every grid,     *)
(* every number of threads and every sound client (SoundSpec).             *)
(***************************************************************************)
EXTENDS SweepReports, FiniteSetTheorems, SequenceTheorems, WellFoundedInduction, TLAPS

-----------------------------------------------------------------------------
(* Numbers.                                                                *)

(* Every set of numbers has a least one: what stands here for induction.   *)
LEMMA LeastNumber ==
    ASSUME NEW S, S \subseteq Nat, S # {}
    PROVE  \E n \in S : \A m \in S : n <= m
<1>1. PICK n \in S : \A m \in S : <<m, n>> \notin OpToRel(<, Nat)
  BY NatLessThanWellFounded, WFMin
<1>2. \A m \in S : ~(m < n)
  BY <1>1 DEF OpToRel
<1> QED BY <1>2

(* The sums of the first numbers of a list.                                *)
Sums(part, nb) == CHOOSE upto : upto = [n \in 0 .. nb |-> IF n = 0 THEN 0 ELSE upto[n - 1] + part[n - 1]]

LEMMA SumsAre ==
    ASSUME NEW nb \in Nat, NEW part, \A n \in 0 .. nb - 1 : part[n] \in Nat
    PROVE  /\ Sums(part, nb) \in [0 .. nb -> Nat] /\ Sums(part, nb)[0] = 0
           /\ \A n \in 1 .. nb : Sums(part, nb)[n] = Sums(part, nb)[n - 1] + part[n - 1]
<1> DEFINE Is(f, n) == /\ f \in [0 .. n -> Nat] /\ f[0] = 0
                       /\ \A k \in 1 .. n : f[k] = f[k - 1] + part[k - 1]
           Bad == {n \in Nat : n <= nb /\ \A f : ~Is(f, n)}
<1>1. Bad = {}
  <2>1. SUFFICES ASSUME Bad # {} PROVE FALSE
    OBVIOUS
  <2>2. PICK n \in Bad : \A m \in Bad : n <= m
    BY <2>1, LeastNumber
  <2>3. CASE n = 0
    <3>1. Is([k \in 0 .. 0 |-> 0], 0)
      OBVIOUS
    <3> QED BY <2>3, <3>1
  <2>4. CASE n # 0
    <3>1. n - 1 \in Nat /\ n - 1 <= nb /\ n \in Nat /\ n <= nb
      BY <2>2, <2>4
    <3>2. PICK f : Is(f, n - 1)
      <4> HIDE DEF Is
      <4> QED BY <2>2, <3>1
    <3> DEFINE g == [k \in 0 .. n |-> IF k = n THEN f[n - 1] + part[n - 1] ELSE f[k]]
    <3>3. f[n - 1] \in Nat /\ part[n - 1] \in Nat
      BY <2>2, <3>1, <3>2
    <3>4. g \in [0 .. n -> Nat] /\ g[0] = 0
      BY <2>4, <3>1, <3>2, <3>3
    <3>5. ASSUME NEW k \in 1 .. n PROVE g[k] = g[k - 1] + part[k - 1]
      <4>1. CASE k = n
        BY <2>4, <3>1, <4>1
      <4>2. CASE k # n
        <5>1. k \in 1 .. n - 1 /\ k - 1 # n /\ k \in 0 .. n /\ k - 1 \in 0 .. n
          BY <3>1, <4>2
        <5> QED BY <3>2, <4>2, <5>1
      <4> QED BY <4>1, <4>2
    <3>6. Is(g, n)
      BY <3>4, <3>5
    <3> QED BY <3>6
  <2> QED BY <2>3, <2>4
<1>2. PICK f : Is(f, nb)
  <2> HIDE DEF Is
  <2> QED BY <1>1
<1>3. f = [n \in 0 .. nb |-> IF n = 0 THEN 0 ELSE f[n - 1] + part[n - 1]]
  BY <1>2
<1> DEFINE s == Sums(part, nb)
<1>4. s = [n \in 0 .. nb |-> IF n = 0 THEN 0 ELSE s[n - 1] + part[n - 1]]
  BY <1>3 DEF Sums
<1> HIDE DEF s
<1>5. DOMAIN s = 0 .. nb /\ s[0] = 0 /\ \A n \in 1 .. nb : s[n] = s[n - 1] + part[n - 1]
  BY <1>4
<1>6. \A n \in 0 .. nb : s[n] \in Nat
  <2> DEFINE Odd == {n \in Nat : n <= nb /\ s[n] \notin Nat}
  <2>1. SUFFICES ASSUME Odd # {} PROVE FALSE
    OBVIOUS
  <2>2. PICK n \in Odd : \A m \in Odd : n <= m
    BY <2>1, LeastNumber
  <2>3. n # 0
    BY <1>5, <2>2
  <2>4. n - 1 \in Nat /\ n - 1 \notin Odd /\ s[n] = s[n - 1] + part[n - 1] /\ part[n - 1] \in Nat
    BY <1>5, <2>2, <2>3
  <2> QED BY <2>2, <2>4
<1>7. s \in [0 .. nb -> Nat]
  <2>1. s = [n \in 0 .. nb |-> s[n]]
    BY <1>4, <1>5
  <2> QED BY <1>6, <2>1
<1> QED BY <1>5, <1>7 DEF s

LEMMA TotalIs == \A part : Total(part) = Sums(part, NbWorkers)[NbWorkers]
BY DEF Total, Sums

(* The contingencies of a list, in their order, are contingencies.         *)
LEMMA ListedTyped == Listed \in Seq(SUBSET Branches) /\ Len(Listed) \in Nat
<1> DEFINE N == Len(ListOrder)
           C == SUBSET Branches
           Next1(f, k) == IF ListOrder[k] \in asked.listed THEN Append(f[k - 1], ListOrder[k])
                          ELSE f[k - 1]
           Is(f, n) == /\ f \in [0 .. n -> Seq(C)] /\ f[0] = <<>>
                       /\ \A k \in 1 .. n : f[k] = Next1(f, k)
           Bad == {n \in Nat : n <= N /\ \A f : ~Is(f, n)}
<1>0. N \in Nat /\ (\A k \in 1 .. N : ListOrder[k] \in C) /\ <<>> \in Seq(C)
  BY SweepAssumption, LenProperties, ElementOfSeq, EmptySeq
<1>1. ASSUME NEW q \in Seq(C), NEW k \in 1 .. N
      PROVE  (IF ListOrder[k] \in asked.listed THEN Append(q, ListOrder[k]) ELSE q) \in Seq(C)
  BY <1>0, <1>1, AppendProperties
<1> HIDE DEF C, N
<1>2. Bad = {}
  <2>1. SUFFICES ASSUME Bad # {} PROVE FALSE
    OBVIOUS
  <2>2. PICK n \in Bad : \A m \in Bad : n <= m
    BY <2>1, LeastNumber
  <2>3. CASE n = 0
    <3>1. Is([k \in 0 .. 0 |-> <<>>], 0)
      BY <1>0
    <3> QED BY <2>3, <3>1
  <2>4. CASE n # 0
    <3>1. n - 1 \in Nat /\ n - 1 <= N /\ n \in 1 .. N
      BY <1>0, <2>2, <2>4
    <3>2. PICK f : Is(f, n - 1)
      <4> HIDE DEF Is
      <4> QED BY <2>2, <3>1
    <3> DEFINE g == [k \in 0 .. n |-> IF k = n THEN Next1(f, n) ELSE f[k]]
    <3>3. Next1(f, n) \in Seq(C)
      <4>1. f[n - 1] \in Seq(C)
        BY <3>1, <3>2
      <4> QED BY <1>1, <3>1, <4>1
    <3>4. g \in [0 .. n -> Seq(C)] /\ g[0] = <<>> /\ g[n] = Next1(f, n)
          /\ \A k \in 0 .. n - 1 : g[k] = f[k]
      <4> HIDE DEF Next1
      <4> QED BY <2>4, <3>1, <3>2, <3>3
    <3> HIDE DEF g
    <3>5. ASSUME NEW k \in 1 .. n PROVE g[k] = Next1(g, k)
      <4>1. CASE k = n
        BY <3>1, <3>4, <4>1
      <4>2. CASE k # n
        <5>1. k \in 1 .. n - 1 /\ k - 1 \in 0 .. n - 1 /\ k \in 0 .. n - 1
          BY <3>1, <4>2
        <5> QED BY <3>2, <3>4, <5>1
      <4> QED BY <4>1, <4>2
    <3>6. Is(g, n)
      BY <3>4, <3>5
    <3> QED BY <3>6
  <2> QED BY <2>3, <2>4
<1>3. PICK f : Is(f, N)
  <2> HIDE DEF Is
  <2> QED BY <1>0, <1>2
<1>4. f = [n \in 0 .. N |-> IF n = 0 THEN <<>> ELSE Next1(f, n)]
  <2> HIDE DEF Next1
  <2>1. f = [n \in 0 .. N |-> f[n]]
    BY <1>3
  <2>2. \A n \in 0 .. N : f[n] = IF n = 0 THEN <<>> ELSE Next1(f, n)
    BY <1>0, <1>3
  <2> QED BY <2>1, <2>2
<1> DEFINE s == CHOOSE upto : upto = [n \in 0 .. N |-> IF n = 0 THEN <<>> ELSE Next1(upto, n)]
<1>5. s = [n \in 0 .. N |-> IF n = 0 THEN <<>> ELSE Next1(s, n)]
  BY <1>4
<1>6. Listed = s[N]
  BY DEF Listed, N
<1> HIDE DEF s
<1>7. s[0] = <<>> /\ \A n \in 1 .. N : s[n] = Next1(s, n)
  <2> HIDE DEF Next1
  <2>1. \A n \in 0 .. N : s[n] = IF n = 0 THEN <<>> ELSE Next1(s, n)
    BY <1>5
  <2> QED BY <1>0, <2>1
<1>8. \A n \in 0 .. N : s[n] \in Seq(C)
  <2> DEFINE Odd == {n \in Nat : n <= N /\ s[n] \notin Seq(C)}
  <2>1. SUFFICES ASSUME Odd # {} PROVE FALSE
    OBVIOUS
  <2>2. PICK n \in Odd : \A m \in Odd : n <= m
    BY <2>1, LeastNumber
  <2>3. n # 0
    BY <1>0, <1>7, <2>2
  <2>4. n - 1 \in Nat /\ n - 1 \notin Odd /\ n \in 1 .. N
    BY <1>0, <2>2, <2>3
  <2>5. s[n - 1] \in Seq(C)
    BY <1>0, <2>4
  <2> QED BY <1>1, <1>7, <2>2, <2>4, <2>5
<1>9. Listed \in Seq(C)
  BY <1>0, <1>6, <1>8
<1> QED BY <1>9, LenProperties DEF C

-----------------------------------------------------------------------------
(* The split of the rows.                                                  *)

LEMMA Products ==
    ASSUME NEW q \in Nat, NEW a \in Nat, NEW b \in Nat, a <= b
    PROVE  a * q \in Nat /\ b * q \in Nat /\ a * q <= b * q /\ (a + 1) * q = a * q + q
OBVIOUS

(* split_range: the ranges of the workers follow one another, the first    *)
(* begins at 0 and the last one ends at the number of rows.                *)
LEMMA SplitFollows ==
    ASSUME NEW n \in Nat, NEW nb \in Nat \ {0}
    PROVE  /\ SplitBegin(n, nb, 0) = 0 /\ SplitEnd(n, nb, nb - 1) = n
           /\ \A t \in Nat : /\ SplitBegin(n, nb, t) \in Nat /\ SplitEnd(n, nb, t) \in Nat
                             /\ SplitBegin(n, nb, t) <= SplitEnd(n, nb, t)
                             /\ SplitEnd(n, nb, t) = SplitBegin(n, nb, t + 1)
<1> DEFINE q == n \div nb
           r == n % nb
<1>1. q \in Nat /\ r \in 0 .. nb - 1 /\ n = nb * q + r
  OBVIOUS
<1>2. \A t \in Nat : t * q \in Nat /\ (t + 1) * q = t * q + q
  BY <1>1, Products
<1>3. 0 * q = 0 /\ (nb - 1) * q + q = nb * q
  <2>1. nb - 1 \in Nat /\ (nb - 1) + 1 = nb
    OBVIOUS
  <2>2. 0 * q = 0
    BY <1>1
  <2> QED BY <1>2, <2>1, <2>2
<1>4. /\ SplitBegin(n, nb, 0) = 0 * q + Least(0, r)
      /\ \A t \in Nat : /\ SplitBegin(n, nb, t) = t * q + Least(t, r)
                        /\ SplitEnd(n, nb, t) = t * q + Least(t, r) + q + (IF t < r THEN 1 ELSE 0)
  BY DEF SplitBegin, SplitEnd
<1> HIDE DEF q, r
<1>5. nb - 1 \in Nat /\ nb * q \in Nat
  BY <1>1, <1>2
<1>6. SplitBegin(n, nb, 0) = 0
  BY <1>1, <1>3, <1>4 DEF Least
<1>7. SplitEnd(n, nb, nb - 1) = n
  <2>1. SplitEnd(n, nb, nb - 1) = (nb - 1) * q + Least(nb - 1, r) + q + (IF nb - 1 < r THEN 1 ELSE 0)
    BY <1>4, <1>5
  <2>2. Least(nb - 1, r) = r /\ ~(nb - 1 < r)
    BY <1>1 DEF Least
  <2>3. (nb - 1) * q \in Nat
    BY <1>2, <1>5
  <2> QED BY <1>1, <1>3, <1>5, <2>1, <2>2, <2>3
<1>8. ASSUME NEW t \in Nat
      PROVE  /\ SplitBegin(n, nb, t) \in Nat /\ SplitEnd(n, nb, t) \in Nat
             /\ SplitBegin(n, nb, t) <= SplitEnd(n, nb, t)
             /\ SplitEnd(n, nb, t) = SplitBegin(n, nb, t + 1)
  <2>1. /\ SplitBegin(n, nb, t) = t * q + Least(t, r)
        /\ SplitEnd(n, nb, t) = t * q + Least(t, r) + q + (IF t < r THEN 1 ELSE 0)
        /\ SplitBegin(n, nb, t + 1) = (t + 1) * q + Least(t + 1, r)
    BY <1>4
  <2>2. t * q \in Nat /\ (t + 1) * q = t * q + q
    BY <1>2
  <2>3. Least(t, r) \in Nat /\ Least(t + 1, r) = Least(t, r) + (IF t < r THEN 1 ELSE 0)
    BY <1>1 DEF Least
  <2> QED BY <1>1, <2>1, <2>2, <2>3
<1> QED BY <1>6, <1>7, <1>8

(* Later workers have later rows.                                          *)
LEMMA SplitOrdered ==
    ASSUME NEW n \in Nat, NEW nb \in Nat \ {0}, NEW t \in Nat, NEW u \in Nat, t < u
    PROVE  SplitEnd(n, nb, t) <= SplitBegin(n, nb, u)
<1> DEFINE Bad == {v \in Nat : t < v /\ ~(SplitEnd(n, nb, t) <= SplitBegin(n, nb, v))}
<1>1. SUFFICES ASSUME Bad # {} PROVE FALSE
  OBVIOUS
<1>2. PICK v \in Bad : \A w \in Bad : v <= w
  BY <1>1, LeastNumber
<1>3. v - 1 \in Nat /\ v - 1 \notin Bad /\ t <= v - 1 /\ (v - 1) + 1 = v
  BY <1>2
<1>4. /\ SplitEnd(n, nb, t) \in Nat /\ SplitBegin(n, nb, v - 1) \in Nat
      /\ SplitEnd(n, nb, v - 1) = SplitBegin(n, nb, v) /\ SplitBegin(n, nb, v) \in Nat
      /\ SplitBegin(n, nb, v - 1) <= SplitEnd(n, nb, v - 1)
  BY <1>2, <1>3, SplitFollows
<1>5. CASE t = v - 1
  BY <1>2, <1>4, <1>5
<1>6. CASE t # v - 1
  BY <1>2, <1>3, <1>4, <1>6
<1> QED BY <1>5, <1>6

(* No worker goes past the last row.                                       *)
LEMMA SplitWithin ==
    ASSUME NEW n \in Nat, NEW nb \in Nat \ {0}, NEW t \in 0 .. nb - 1
    PROVE  /\ SplitBegin(n, nb, t) \in Nat /\ SplitEnd(n, nb, t) \in Nat
           /\ SplitBegin(n, nb, t) <= SplitEnd(n, nb, t) /\ SplitEnd(n, nb, t) <= n
<1>1. t \in Nat /\ nb - 1 \in Nat
  OBVIOUS
<1>2. /\ SplitBegin(n, nb, t) \in Nat /\ SplitEnd(n, nb, t) \in Nat
      /\ SplitBegin(n, nb, t) <= SplitEnd(n, nb, t)
      /\ SplitBegin(n, nb, nb - 1) \in Nat /\ SplitEnd(n, nb, nb - 1) = n
      /\ SplitBegin(n, nb, nb - 1) <= SplitEnd(n, nb, nb - 1)
  BY <1>1, SplitFollows
<1>3. CASE t = nb - 1
  BY <1>2, <1>3
<1>4. CASE t # nb - 1
  <2>1. t < nb - 1
    BY <1>4
  <2>2. SplitEnd(n, nb, t) <= SplitBegin(n, nb, nb - 1)
    BY <1>1, <2>1, SplitOrdered
  <2> QED BY <1>2, <2>2
<1> QED BY <1>3, <1>4

(* Every row has its worker.                                               *)
LEMMA SplitCovers ==
    ASSUME NEW n \in Nat, NEW nb \in Nat \ {0}, NEW i \in 1 .. n
    PROVE  \E t \in 0 .. nb - 1 : SplitBegin(n, nb, t) < i /\ i <= SplitEnd(n, nb, t)
<1> DEFINE T == {t \in Nat : i <= SplitEnd(n, nb, t)}
<1>1. nb - 1 \in T
  BY SplitFollows
<1>2. PICK t \in T : \A u \in T : t <= u
  BY <1>1, LeastNumber
<1>3. t \in 0 .. nb - 1
  BY <1>1, <1>2
<1>4. CASE t = 0
  BY <1>2, <1>3, <1>4, SplitFollows
<1>5. CASE t # 0
  <2>1. t - 1 \in Nat /\ t - 1 \notin T /\ (t - 1) + 1 = t
    BY <1>2, <1>5
  <2>2. SplitEnd(n, nb, t - 1) = SplitBegin(n, nb, t) /\ SplitEnd(n, nb, t - 1) \in Nat
    BY <2>1, SplitFollows
  <2> QED BY <1>2, <1>3, <2>1, <2>2
<1> QED BY <1>4, <1>5

-----------------------------------------------------------------------------
(* Islands.                                                                *)

(* What a bus reaches holds it, and is closed; two buses of which one      *)
(* reaches the other reach the same.                                       *)
LEMMA ReachedClosed ==
    ASSUME NEW m, NEW i \in BusIds
    PROVE  i \in Reached(m, i) /\ Reached(m, i) \subseteq BusIds /\ Closed(m, Reached(m, i))
<1>1. i \in Reached(m, i) /\ Reached(m, i) \subseteq BusIds
  BY DEF Reached
<1>2. ASSUME NEW b \in Branches, m[b] # 0, Ends[b] \cap Reached(m, i) # {}
      PROVE  Ends[b] \subseteq Reached(m, i)
  <2>1. Ends[b] \subseteq BusIds
    BY IslandsAssumption
  <2>2. ASSUME NEW S \in SUBSET BusIds, i \in S, Closed(m, S)
        PROVE  Ends[b] \subseteq S
    <3>1. Reached(m, i) \subseteq S
      BY <2>2 DEF Reached
    <3> QED BY <1>2, <2>2, <3>1 DEF Closed
  <2> QED BY <2>1, <2>2 DEF Reached
<1> QED BY <1>1, <1>2 DEF Closed

LEMMA ReachedSame ==
    ASSUME NEW m, NEW i \in BusIds, NEW j \in Reached(m, i)
    PROVE  Reached(m, j) = Reached(m, i)
<1>1. j \in BusIds
  BY ReachedClosed
<1>2. Reached(m, j) \subseteq Reached(m, i)
  BY ReachedClosed DEF Reached
<1>3. i \in Reached(m, j)
  <2> DEFINE T == BusIds \ Reached(m, j)
  <2>1. Closed(m, T)
    <3>1. SUFFICES ASSUME NEW b \in Branches, m[b] # 0, Ends[b] \cap T # {}
                   PROVE  Ends[b] \subseteq T
      BY DEF Closed
    <3>2. Ends[b] \subseteq BusIds
      BY IslandsAssumption
    <3>3. Closed(m, Reached(m, j))
      BY <1>1, ReachedClosed
    <3>4. Ends[b] \cap Reached(m, j) = {}
      BY <3>1, <3>3 DEF Closed
    <3> QED BY <3>2, <3>4
  <2>2. j \notin T
    BY <1>1, ReachedClosed
  <2>3. i \notin T
    BY <2>1, <2>2 DEF Reached
  <2> QED BY <2>3
<1>4. Reached(m, i) \subseteq Reached(m, j)
  BY <1>1, <1>3, ReachedClosed DEF Reached
<1> QED BY <1>2, <1>4

(* There is a largest component.                                           *)
LEMMA MainIsComponent == \A m : MainComponent(m) \in Components(m)
<1>1. SUFFICES ASSUME NEW m
               PROVE  \E C \in Components(m) :
                        \A D \in Components(m) \ {C} :
                            \/ Cardinality(D) < Cardinality(C)
                            \/ /\ Cardinality(D) = Cardinality(C)
                               /\ \E i \in C : \A j \in D : i < j
  BY DEF MainComponent
<1> DEFINE c(i) == Cardinality(Reached(m, i))
<1>2. IsFiniteSet(BusIds) /\ 0 \in BusIds /\ BusIds \subseteq Nat /\ Cardinality(BusIds) \in Nat
  <2>1. NbBuses \in Nat \ {0} /\ NbBuses - 1 \in Int
    BY IslandsAssumption
  <2>2. IsFiniteSet(0 .. NbBuses - 1)
    BY <2>1, FS_Interval
  <2> QED BY <2>1, <2>2, FS_CardinalityType DEF BusIds
<1>3. \A i \in BusIds : c(i) \in Nat /\ c(i) <= Cardinality(BusIds)
  BY <1>2, ReachedClosed, FS_Subset, FS_CardinalityType
<1> HIDE DEF c
<1> DEFINE K == {Cardinality(BusIds) - c(i) : i \in BusIds}
<1>4. K \subseteq Nat /\ K # {}
  BY <1>2, <1>3
<1>5. PICK k \in K : \A h \in K : k <= h
  BY <1>4, LeastNumber
<1>6. PICK a \in BusIds : k = Cardinality(BusIds) - c(a)
  BY <1>5
<1>7. \A j \in BusIds : c(j) <= c(a)
  BY <1>2, <1>3, <1>5, <1>6
<1> DEFINE A == {i \in BusIds : c(i) = c(a)}
<1>8. PICK i \in A : \A j \in A : i <= j
  <2>1. A \subseteq Nat /\ a \in A
    BY <1>2
  <2> QED BY <2>1, LeastNumber
<1>9. ASSUME NEW D \in Components(m) \ {Reached(m, i)}
      PROVE  \/ Cardinality(D) < Cardinality(Reached(m, i))
             \/ /\ Cardinality(D) = Cardinality(Reached(m, i))
                /\ \A j \in D : i < j
  <2>1. PICK d \in BusIds : D = Reached(m, d)
    BY DEF Components
  <2>2. c(d) <= c(i) /\ c(d) \in Nat /\ c(i) \in Nat
    BY <1>3, <1>7, <1>8
  <2>3. ASSUME c(d) = c(i), NEW j \in D PROVE i < j
    <3>1. Reached(m, j) = D /\ j \in BusIds
      BY <2>1, ReachedSame, ReachedClosed
    <3>2. j \in A
      BY <1>8, <2>1, <2>3, <3>1 DEF c
    <3>3. j # i
      BY <3>1
    <3> QED BY <1>2, <1>8, <3>2, <3>3
  <2> QED BY <2>1, <2>2, <2>3 DEF c
<1>10. Reached(m, i) \in Components(m) /\ i \in Reached(m, i)
  BY <1>8, ReachedClosed DEF Components
<1> QED BY <1>9, <1>10

(* A grid is connected when its main component leaves no bus out.          *)
LEMMA ConnectedIs == \A m : Connected(m) <=> Disconnected(m) = {}
<1> SUFFICES ASSUME NEW m PROVE Connected(m) <=> Disconnected(m) = {}
  OBVIOUS
<1>1. 0 \in BusIds
  BY IslandsAssumption DEF BusIds
<1>2. PICK i \in BusIds : MainComponent(m) = Reached(m, i)
  BY MainIsComponent DEF Components
<1>3. Disconnected(m) = {} <=> Reached(m, i) = BusIds
  BY <1>2, ReachedClosed DEF Disconnected
<1>4. ASSUME Connected(m) PROVE Reached(m, i) = BusIds
  BY <1>1, <1>4, ReachedSame DEF Connected
<1>5. ASSUME Reached(m, i) = BusIds PROVE Connected(m)
  BY <1>1, <1>5, ReachedSame DEF Connected
<1> QED BY <1>3, <1>4, <1>5

LEMMA MaskedIs ==
    /\ \A S \in SUBSET Branches : Masked[S] = Disconnected(Without(S))
    /\ Masked \in [SUBSET Branches -> SUBSET BusIds]
<1>1. ASSUME NEW S \in SUBSET Branches
      PROVE  (CHOOSE cut \in CutOff : cut.out = S).buses = Disconnected(Without(S))
  <2> DEFINE row == [out |-> S, buses |-> Disconnected(Without(S))]
  <2>1. row \in CutOff /\ row.out = S
    BY DEF CutOff
  <2>2. \A cut \in CutOff : cut.out = S => cut.buses = Disconnected(Without(S))
    BY DEF CutOff
  <2> QED BY <2>1, <2>2
<1>2. \A S \in SUBSET Branches : Disconnected(Without(S)) \in SUBSET BusIds
  BY DEF Disconnected
<1> QED BY <1>1, <1>2 DEF Masked

(* Coefficients that leave a matrix and come back.                         *)
LEMMA EditsUndone ==
    /\ Base \in Matrices /\ NoMatrix \in Matrices
    /\ \A m \in Matrices : \A c :
          /\ Remove(m, c) \in Matrices /\ Readd(m, c) \in Matrices
          /\ Readd(Remove(m, c), c) = m
          /\ c = {} => Remove(m, c) = m /\ Readd(m, c) = m
    /\ \A S : Without(Coeffs(S)) = Without(S) /\ Without(S) \in Matrices
<1>1. Base \in Matrices /\ NoMatrix \in Matrices
  BY DEF Base, NoMatrix, Matrices
<1>2. \A m \in Matrices : \A c : Remove(m, c) \in Matrices /\ Readd(m, c) \in Matrices
  BY DEF Matrices, Remove, Readd
<1>3. \A m \in Matrices : \A c : Readd(Remove(m, c), c) = m
  BY DEF Matrices, Remove, Readd
<1>4. \A m \in Matrices : Remove(m, {}) = m /\ Readd(m, {}) = m
  BY DEF Matrices, Remove, Readd
<1>5. \A S : Coeffs(Coeffs(S)) = Coeffs(S)
  BY DEF Coeffs
<1> QED BY <1>1, <1>2, <1>3, <1>4, <1>5 DEF Without

-----------------------------------------------------------------------------
(* The direct-current algorithm.                                           *)

FactorsOf == [matrix : Matrices, mask : SUBSET BusIds]

LEMMA AlgoTyped ==
    /\ FreshAlgo \in Algos /\ FreshAlgo.factors \in FactorsOf
    /\ \A a \in Algos, add \in BOOLEAN : \A c : Edit(a, c, add) \in Algos
    /\ \A a \in Algos, M \in SUBSET BusIds : [a EXCEPT !.mask = M] \in Algos
    /\ \A a \in Algos, inj \in Injections : \A flags : Prepared(a, inj, flags) \in Algos
    /\ \A a \in Algos : Factored(a) \in Algos /\ Unfactored(a) \in Algos
                        /\ [a EXCEPT !.refactor = FALSE] \in Algos
<1>1. FreshAlgo \in Algos /\ FreshAlgo.factors \in FactorsOf
  BY EditsUndone DEF FreshAlgo, Algos, FactorsOf
<1>2. ASSUME NEW a \in Algos, NEW c, NEW add \in BOOLEAN
      PROVE  Edit(a, c, add) \in Algos
  <2>1. a.matrix \in Matrices
    BY DEF Algos
  <2>2. (IF add THEN Readd(a.matrix, c) ELSE Remove(a.matrix, c)) \in Matrices
    BY <2>1, EditsUndone
  <2> QED BY <2>2 DEF Edit, Algos
<1>3. ASSUME NEW a \in Algos, NEW M \in SUBSET BusIds
      PROVE  [a EXCEPT !.mask = M] \in Algos
  BY DEF Algos
<1>4. ASSUME NEW a \in Algos, NEW inj \in Injections, NEW flags
      PROVE  Prepared(a, inj, flags) \in Algos
  <2>1. \A b \in Algos : /\ [b EXCEPT !.built = TRUE, !.matrix = Base, !.factorize = TRUE] \in Algos
                         /\ [b EXCEPT !.inj = inj] \in Algos
    BY EditsUndone DEF Algos
  <2> QED BY <1>1, <2>1 DEF Prepared
<1>5. ASSUME NEW a \in Algos
      PROVE  Factored(a) \in Algos /\ Unfactored(a) \in Algos /\ [a EXCEPT !.refactor = FALSE] \in Algos
  BY <1>1 DEF Factored, Unfactored, System, Algos, FactorsOf
<1> QED BY <1>1, <1>2, <1>3, <1>4, <1>5

(* The ways a solve ends.                                                  *)
EndsOf(p, f, answer, o) ==
    /\ o.conv \in BOOLEAN /\ o.solved = answer
    /\ o.algo \in {[f EXCEPT !.refactor = FALSE], f, Unfactored(p)}
    /\ o.conv => o.algo = [f EXCEPT !.refactor = FALSE] /\ Solvable(f.factors)
    /\ o.algo = Unfactored(p) => Refactors(p)
AnswerOf(f, inj) == [matrix |-> f.factors.matrix, mask |-> f.factors.mask,
                     inj |-> IF f.mask = {} THEN f.inj ELSE inj]

LEMMA DcEnds ==
    ASSUME NEW a, NEW inj, NEW flags, NEW o \in DcOutcomes(a, inj, flags)
    PROVE  LET p == Prepared(a, inj, flags) IN EndsOf(p, Factored(p), AnswerOf(Factored(p), inj), o)
<1> DEFINE p == Prepared(a, inj, flags)
           f == Factored(p)
           r == [f EXCEPT !.refactor = FALSE]
           u == Unfactored(p)
           answer == AnswerOf(f, inj)
<1>1. /\ o \in {Outcome(TRUE, r, answer), Outcome(FALSE, f, answer), Outcome(FALSE, u, answer)}
      /\ o.conv => Solvable(f.factors)
      /\ o.algo = u => Refactors(p)
  BY DEF DcOutcomes, AnswerOf
<1>2. SUFFICES EndsOf(p, f, answer, o)
  OBVIOUS
<1> HIDE DEF r, u, answer
<1>3. SUFFICES /\ o.conv \in BOOLEAN /\ o.solved = answer /\ o.algo \in {r, f, u}
               /\ o.conv => o.algo = r /\ Solvable(f.factors)
               /\ o.algo = u => Refactors(p)
  BY DEF r, u, EndsOf
<1> HIDE DEF p, f
<1>4. CASE o = Outcome(TRUE, r, answer)
  <2>1. o.conv = TRUE /\ o.algo = r /\ o.solved = answer
    BY <1>4 DEF Outcome
  <2> QED BY <1>1, <2>1
<1>5. CASE o = Outcome(FALSE, f, answer)
  <2>1. o.conv = FALSE /\ o.algo = f /\ o.solved = answer
    BY <1>5 DEF Outcome
  <2> QED BY <1>1, <2>1
<1>6. CASE o = Outcome(FALSE, u, answer)
  <2>1. o.conv = FALSE /\ o.algo = u /\ o.solved = answer
    BY <1>6 DEF Outcome
  <2> QED BY <1>1, <2>1
<1> QED BY <1>1, <1>4, <1>5, <1>6

(* A contingency, edited out of a matrix that is the base one: whatever it *)
(* answers was solved without the branches of the contingency, and what is *)
(* left needs their coefficients back and no more.                         *)
Edited(a, c, M) == [Edit(a, c, FALSE) EXCEPT !.mask = M]

LEMMA DcContingency ==
    ASSUME NEW a \in Algos, a.built, ~a.factorize, a.matrix = Base, a.mask = {},
           NEW c \in SUBSET Branches, c # {}, NEW M \in SUBSET BusIds,
           NEW inj \in Injections, NEW flags, flags \in {{}, {"sbus"}},
           M # {} \/ flags = {"sbus"} \/ a.inj = inj,
           NEW o \in DcOutcomes(Edited(a, c, M), inj, flags)
    PROVE  /\ o.algo \in Algos /\ o.conv \in BOOLEAN
           /\ o.algo.built /\ ~o.algo.factorize /\ o.algo.matrix = Remove(Base, c)
           /\ o.algo.inj = a.inj \/ flags = {"sbus"}
           /\ o.conv => /\ o.solved = [matrix |-> Remove(Base, c), mask |-> M, inj |-> inj]
                        /\ M # {} \/ Connected(Remove(Base, c))
<1> DEFINE e == Edited(a, c, M)
           p == Prepared(e, inj, flags)
           f == Factored(p)
<1>1. /\ e \in Algos /\ e.built = TRUE /\ e.factorize = FALSE /\ e.matrix = Remove(Base, c)
      /\ e.mask = M /\ e.refactor = TRUE /\ e.inj = a.inj
  <2> DEFINE d == Edit(a, c, FALSE)
  <2>1. a.built = TRUE /\ a.factorize = FALSE
    BY DEF Algos
  <2>2. d = [a EXCEPT !.matrix = Remove(Base, c), !.refactor = TRUE]
    BY DEF Edit, Algos
  <2>3. d \in Algos
    <3>1. FALSE \in BOOLEAN
      OBVIOUS
    <3> QED BY <3>1, AlgoTyped
  <2> HIDE DEF d
  <2>4. d.built = TRUE /\ d.factorize = FALSE /\ d.matrix = Remove(Base, c) /\ d.refactor = TRUE
        /\ d.inj = a.inj
    BY <2>1, <2>2 DEF Algos
  <2>5. e = [d EXCEPT !.mask = M]
    BY DEF d, Edited
  <2>6. e \in Algos
    BY <2>3, <2>5, AlgoTyped
  <2> QED BY <2>3, <2>4, <2>5, <2>6 DEF Algos
<1> HIDE DEF e
<1>2. p = IF M = {} /\ flags = {"sbus"} THEN [e EXCEPT !.inj = inj] ELSE e
  BY <1>1 DEF Prepared, AnyOf, ResetFlags
<1>3. /\ p \in Algos /\ p.built = TRUE /\ p.factorize = FALSE /\ p.matrix = Remove(Base, c)
      /\ p.mask = M /\ p.refactor = TRUE /\ (p.inj = a.inj \/ flags = {"sbus"})
      /\ M = {} => p.inj = inj
  BY <1>1, <1>2 DEF Algos
<1> HIDE DEF p
<1>4. /\ f \in Algos /\ f.built = TRUE /\ f.factorize = FALSE /\ f.matrix = Remove(Base, c)
      /\ f.mask = M /\ f.inj = p.inj
      /\ f.factors.matrix = Remove(Base, c) /\ f.factors.mask = M
  BY <1>3 DEF Factored, Refactors, System, Algos
<1> HIDE DEF f
<1>5. LET u == Unfactored(p)
      IN  /\ u \in Algos /\ u.built = TRUE /\ u.factorize = FALSE
          /\ u.matrix = Remove(Base, c) /\ u.inj = p.inj
  BY <1>3, AlgoTyped DEF Unfactored, Algos
<1>6. LET r == [f EXCEPT !.refactor = FALSE]
      IN  /\ r \in Algos /\ r.built = TRUE /\ r.factorize = FALSE
          /\ r.matrix = Remove(Base, c) /\ r.inj = p.inj
  BY <1>4, AlgoTyped DEF Algos
<1>7. AnswerOf(f, inj) = [matrix |-> Remove(Base, c), mask |-> M, inj |-> inj]
  BY <1>3, <1>4 DEF AnswerOf
<1>8. EndsOf(p, f, AnswerOf(f, inj), o)
  BY DcEnds DEF e, p, f
<1>9. /\ o.conv \in BOOLEAN /\ o.solved = AnswerOf(f, inj)
      /\ o.algo \in {[f EXCEPT !.refactor = FALSE], f, Unfactored(p)}
      /\ o.conv => Solvable(f.factors)
  BY <1>8 DEF EndsOf
<1>10. o.conv => M # {} \/ Connected(Remove(Base, c))
  BY <1>4, <1>9 DEF Solvable
<1> QED BY <1>3, <1>4, <1>5, <1>6, <1>7, <1>9, <1>10

(* A row without contingency: the matrix is the base one, or everything is *)
(* redone; the factors are those of the matrix, or are asked for.          *)
Plain(a) == a.mask = {} /\ (a.factorize \/ (/\ a.matrix = Base
                                            /\ a.refactor \/ a.factors = [matrix |-> Base, mask |-> {}]))

LEMMA DcPlain ==
    ASSUME NEW a \in Algos, Plain(a), NEW inj \in Injections, NEW flags, "sbus" \in flags,
           NEW o \in DcOutcomes(a, inj, flags)
    PROVE  /\ o.algo \in Algos /\ Plain(o.algo) /\ o.conv \in BOOLEAN
           /\ o.conv => /\ o.solved = [matrix |-> Base, mask |-> {}, inj |-> inj] /\ Connected(Base)
                        /\ o.algo.built \/ ~(a.factorize \/ AnyOf(flags, ResetFlags \cup {"ybus"}))
                        /\ ~o.algo.factorize /\ o.algo.matrix = Base /\ o.algo.inj = inj
<1> DEFINE p == Prepared(a, inj, flags)
           f == Factored(p)
           new == a.factorize \/ AnyOf(flags, ResetFlags) \/ AnyOf(flags, {"ybus"})
<1>1. CASE new
  <2>1. p \in Algos
    BY AlgoTyped
  <2>2. /\ p.mask = {} /\ p.factorize = TRUE /\ p.matrix = Base /\ p.inj = inj /\ p.built = TRUE
    <3> DEFINE b == IF a.factorize \/ AnyOf(flags, ResetFlags) THEN FreshAlgo ELSE a
               c == [b EXCEPT !.built = TRUE, !.matrix = Base, !.factorize = TRUE]
    <3>1. b \in Algos /\ b.mask = {}
      BY AlgoTyped DEF FreshAlgo, Plain
    <3> HIDE DEF b
    <3>2. c \in Algos /\ c.mask = {} /\ c.factorize = TRUE /\ c.matrix = Base /\ c.built = TRUE
      BY <3>1, EditsUndone DEF Algos
    <3> HIDE DEF c
    <3>3. p = [c EXCEPT !.inj = inj]
      <4>1. p = IF c.mask = {} /\ (c.factorize \/ AnyOf(flags, {"sbus", "slack_weight"}))
                THEN [c EXCEPT !.inj = inj] ELSE c
        BY <1>1 DEF Prepared, AnyOf, b, c
      <4> QED BY <3>2, <4>1
    <3> QED BY <3>2, <3>3 DEF Algos
  <2> HIDE DEF p
  <2>3. /\ f \in Algos /\ f.mask = {} /\ f.matrix = Base /\ f.built = TRUE /\ f.factorize = FALSE
        /\ f.inj = inj /\ f.factors = [matrix |-> Base, mask |-> {}]
    BY <2>1, <2>2 DEF Factored, Refactors, System, Algos
  <2> HIDE DEF f
  <2>4. LET u == Unfactored(p) IN u \in Algos /\ Plain(u)
    BY <2>1, <2>2, AlgoTyped DEF Unfactored, Algos, Plain
  <2>5. LET r == [f EXCEPT !.refactor = FALSE]
        IN  r \in Algos /\ Plain(r) /\ r.built = TRUE /\ r.factorize = FALSE /\ r.matrix = Base /\ r.inj = inj
    BY <2>3, AlgoTyped DEF Algos, Plain
  <2>6. Plain(f)
    BY <2>3 DEF Plain
  <2>7. AnswerOf(f, inj) = [matrix |-> Base, mask |-> {}, inj |-> inj]
    BY <2>3 DEF AnswerOf
  <2>8. EndsOf(p, f, AnswerOf(f, inj), o)
    BY DcEnds DEF p, f
  <2>9. /\ o.conv \in BOOLEAN /\ o.solved = AnswerOf(f, inj)
        /\ o.algo \in {[f EXCEPT !.refactor = FALSE], f, Unfactored(p)}
        /\ o.conv => o.algo = [f EXCEPT !.refactor = FALSE] /\ Solvable(f.factors)
    BY <2>8 DEF EndsOf
  <2>10. o.conv => Connected(Base)
    BY <2>3, <2>9 DEF Solvable
  <2> QED BY <2>3, <2>4, <2>5, <2>6, <2>7, <2>9, <2>10
<1>2. CASE ~new
  <2>1. /\ a.factorize = FALSE /\ a.matrix = Base /\ a.mask = {}
        /\ a.refactor = TRUE \/ a.factors = [matrix |-> Base, mask |-> {}]
    BY <1>2 DEF Plain, Algos
  <2>2. p = [a EXCEPT !.inj = inj]
    BY <1>2, <2>1 DEF Prepared, AnyOf
  <2>3. /\ p \in Algos /\ p.mask = {} /\ p.factorize = FALSE /\ p.matrix = Base /\ p.inj = inj
        /\ p.refactor = TRUE \/ p.factors = [matrix |-> Base, mask |-> {}]
    BY <2>1, <2>2 DEF Algos
  <2> HIDE DEF p
  <2>4. /\ f \in Algos /\ f.mask = {} /\ f.matrix = Base /\ f.factorize = FALSE
        /\ f.inj = inj /\ f.factors = [matrix |-> Base, mask |-> {}]
    BY <2>3 DEF Factored, Refactors, System, Algos
  <2> HIDE DEF f
  <2>5. LET u == Unfactored(p) IN Refactors(p) => u \in Algos /\ Plain(u)
    BY <2>3, AlgoTyped DEF Unfactored, Refactors, Algos, Plain
  <2>6. LET r == [f EXCEPT !.refactor = FALSE]
        IN  r \in Algos /\ Plain(r) /\ r.factorize = FALSE /\ r.matrix = Base /\ r.inj = inj
    BY <2>4, AlgoTyped DEF Algos, Plain
  <2>7. Plain(f)
    BY <2>4 DEF Plain
  <2>8. AnswerOf(f, inj) = [matrix |-> Base, mask |-> {}, inj |-> inj]
    BY <2>4 DEF AnswerOf
  <2>9. EndsOf(p, f, AnswerOf(f, inj), o)
    BY DcEnds DEF p, f
  <2>10. /\ o.conv \in BOOLEAN /\ o.solved = AnswerOf(f, inj)
         /\ o.algo \in {[f EXCEPT !.refactor = FALSE], f, Unfactored(p)}
         /\ o.conv => o.algo = [f EXCEPT !.refactor = FALSE] /\ Solvable(f.factors)
         /\ o.algo = Unfactored(p) => Refactors(p)
    BY <2>9 DEF EndsOf
  <2>11. o.conv => Connected(Base)
    BY <2>4, <2>10 DEF Solvable
  <2>12. ~(a.factorize \/ AnyOf(flags, ResetFlags \cup {"ybus"}))
    BY <1>2 DEF AnyOf
  <2> QED BY <2>4, <2>5, <2>6, <2>7, <2>8, <2>9, <2>10, <2>11, <2>12
<1> QED BY <1>1, <1>2

-----------------------------------------------------------------------------
(* What a step may leave alone.                                            *)

ListedOf(listed) == LET upto[n \in 0 .. Len(ListOrder)] ==
                           IF n = 0 THEN <<>> ELSE IF ListOrder[n] \in listed
                           THEN Append(upto[n - 1], ListOrder[n]) ELSE upto[n - 1]
                    IN upto[Len(ListOrder)]

LEMMA ListedIs == Listed = ListedOf(asked.listed) /\ Listed' = ListedOf(asked'.listed)
BY DEF Listed, ListedOf

SkippedOf(rows, i) ==
    LET strands(b) == Cardinality({k \in DOMAIN rows : b \in Masked[rows[k]]})
        better(a, b) == \/ strands(a) < strands(b)
                        \/ strands(a) = strands(b) /\ SlackWeight[a] > SlackWeight[b]
                        \/ strands(a) = strands(b) /\ SlackWeight[a] = SlackWeight[b] /\ a < b
        ref == CHOOSE a \in Candidates : \A b \in Candidates \ {a} : better(a, b)
    IN ref \in Masked[rows[i]]

LEMMA SkippedIs == \A i : Skipped(i) = SkippedOf(coeffs, i) /\ Skipped(i)' = SkippedOf(coeffs', i)
BY DEF Skipped, SkippedOf, RefSlack, Better, Strands

(* What the rows are asked depends on the inputs only.                     *)
LEMMA InputsSame ==
    ASSUME UNCHANGED <<kind, family, asked>>
    PROVE  /\ Listed' = Listed /\ NbRows' = NbRows /\ FreshCoeffs' = FreshCoeffs
           /\ Varies' = Varies /\ Contingent' = Contingent /\ Chained' = Chained /\ Side' = Side
           /\ \A i : /\ Out(i)' = Out(i) /\ RowInjection(i)' = RowInjection(i)
                     /\ RowTarget(i)' = RowTarget(i) /\ Problem(i)' = Problem(i)
<1>1. Listed' = Listed
  BY ListedIs
<1>2. Varies' = Varies /\ Contingent' = Contingent /\ Chained' = Chained /\ Side' = Side
  BY DEF Varies, Contingent, Chained, Side
<1>3. NbRows' = NbRows
  BY <1>1 DEF NbRows, Varies
<1>4. \A i : Out(i)' = Out(i)
  BY <1>1 DEF Out, Varies, Contingent
<1>5. \A i : RowInjection(i)' = RowInjection(i) /\ RowTarget(i)' = RowTarget(i)
  BY DEF RowInjection, RowTarget, Varies
<1>6. \A i : Problem(i)' = Problem(i)
  BY <1>2, <1>4, <1>5 DEF Problem, Chained
<1>7. FreshCoeffs' = FreshCoeffs
  BY <1>3, <1>4 DEF FreshCoeffs, Contingent
<1> QED BY <1>1, <1>2, <1>3, <1>4, <1>5, <1>6, <1>7

-----------------------------------------------------------------------------
(* The invariant.                                                          *)

(* Every axis that is set has as many rows as the others; what a kind does *)
(* not offer is never asked of it.                                         *)
AxisFits(rows) == rows = <<>> \/ Len(rows) = asked.rows
Fits == /\ AxisFits(asked.inj) /\ AxisFits(asked.targets) /\ AxisFits(asked.masks)
        /\ ~Contingent => ~setup.mask /\ ~setup.limits
        /\ Chained => setup.threads = 1
        /\ ~Varies => ~stale

(* The voltages of a row answer its problem, while rows are solved and     *)
(* until a setter marks them stale.                                        *)
AnswersRight ==
    phase = "running" \/ ~stale =>
        /\ DOMAIN volts \subseteq 1 .. NbRows
        /\ \A i \in DOMAIN volts : volts[i] # NoAnswer => volts[i] = Problem(i)

(* What a worker carries from one row to the next has no trace of a row:   *)
(* its matrix, its algorithm and its flags.                                *)
Clean(matrix, algo, ctl) ==
    IF Side = "AC" THEN matrix = Base /\ algo.mask = {}
    ELSE IF ~Contingent THEN Plain(algo) /\ "sbus" \in ctl
    ELSE /\ algo.built /\ ~algo.factorize /\ algo.matrix = Base /\ algo.mask = {}
         /\ ctl = RowFlags /\ (setup.mask => algo.inj = GridInjection)

Begin(t) == SplitBegin(NbRows, NbWorkers, t)
Forbidden(i) == IF setup.mask THEN Skipped(i) ELSE Contingent /\ Side = "AC" /\ Masked[coeffs[i]] # {}

(* A worker is within its rows: those to come have no answer, those behind *)
(* have been told.                                                         *)
InRange(t) == /\ Begin(t) < th[t].next /\ th[t].next <= th[t].last + 1
              /\ th[t].last = SplitEnd(NbRows, NbWorkers, t)
              /\ \A i \in th[t].next .. th[t].last : volts[i] = NoAnswer
Seeded(t) == th[t].next <= th[t].last =>
                 th[t].seed = IF Chained /\ Side = "AC" THEN th[t].next - 1 ELSE 0
ToldBehind(t) ==
    setup.limits => \A i \in Begin(t) + 1 .. th[t].next - 1 :
        reports.rows[i].told # "nothing" /\ (reports.rows[i].told = "not simulated" <=> Forbidden(i))

WorkerFits(t) ==
    /\ InRange(t)
    /\ ~th[t].error => Clean(th[t].matrix, th[t].algo, th[t].ctl) /\ Seeded(t) /\ ToldBehind(t)

Running ==
    /\ NbRows \in Nat /\ DOMAIN th = 0 .. NbWorkers - 1
    /\ DOMAIN volts = 1 .. NbRows /\ DOMAIN conv = 1 .. NbRows
    /\ coeffs = FreshCoeffs
    /\ setup.limits => reports.n.told = "checked" /\ DOMAIN reports.rows = 1 .. NbRows
    /\ \A t \in DOMAIN th : WorkerFits(t)

(* Without limits nothing is reported; a report is of a row that is.       *)
ReportsFit == /\ ~setup.limits => reports.rows = <<>>
              /\ \A i \in DOMAIN reports.rows :
                    reports.rows[i].told \in {"checked", "diverged", "not simulated"} => i \in DOMAIN volts

SweepInv == /\ ReportsTypeOK /\ Fits /\ AnswersRight /\ FlowsMatchInputs
            /\ ReportsTellRows /\ ReportsFit /\ EveryRowIsTold
            /\ phase = "running" => Running /\ Sound
            /\ NeverCrashes

-----------------------------------------------------------------------------
(* Types.                                                                  *)

LEMMA SeqIs ==
    ASSUME NEW S
    PROVE  /\ \A s \in Seq(S) : /\ Len(s) \in Nat /\ DOMAIN s = 1 .. Len(s)
                                /\ \A i \in DOMAIN s : s[i] \in S
           /\ \A n \in Nat : \A s \in [1 .. n -> S] : s \in Seq(S) /\ Len(s) = n
           /\ \A s \in Seq(S), x \in S : \A i \in DOMAIN s : [s EXCEPT ![i] = x] \in Seq(S)
           /\ <<>> \in Seq(S)
<1>1. \A s \in Seq(S) : /\ Len(s) \in Nat /\ DOMAIN s = 1 .. Len(s)
                        /\ \A i \in DOMAIN s : s[i] \in S
  BY LenProperties, ElementOfSeq
<1>2. \A n \in Nat : \A s \in [1 .. n -> S] : s \in Seq(S)
  BY SeqDef
<1>3. \A n \in Nat : \A s \in [1 .. n -> S] : Len(s) = n
  BY <1>2, LenProperties
<1>4. ASSUME NEW s \in Seq(S), NEW x \in S, NEW i \in DOMAIN s PROVE [s EXCEPT ![i] = x] \in Seq(S)
  BY <1>1, ExceptSeq
<1> QED BY <1>1, <1>2, <1>3, <1>4, EmptySeq

(* A row that exists is asked something.                                   *)
LEMMA RowTyped ==
    ASSUME TypeOK, Fits
    PROVE  /\ NbRows \in Nat \cup {-1} /\ (~Varies => NbRows = Len(Listed))
           /\ NbRows \in Nat => FreshCoeffs \in Seq(SUBSET Branches) /\ DOMAIN FreshCoeffs = 1 .. NbRows
           /\ \A i \in 1 .. NbRows :
                 /\ Out(i) \in SUBSET Branches /\ RowInjection(i) \in Injections
                 /\ RowTarget(i) \in Targets /\ Problem(i) \in Answers /\ Problem(i) # NoAnswer
                 /\ Problem(i).matrix = Without(Out(i)) /\ Problem(i).mask = Masked[Out(i)]
           /\ ~Contingent => \A i : Out(i) = {}
<1>1. /\ asked.inj \in Seq(Injections) /\ asked.targets \in Seq(Targets)
      /\ asked.masks \in Seq(SUBSET Branches) /\ asked.rows \in Nat \cup {-1}
  BY DEF TypeOK
<1>2. NbRows \in Nat \cup {-1} /\ (~Varies => NbRows = Len(Listed))
  BY <1>1, ListedTyped DEF NbRows
<1>3. ASSUME NEW i \in 1 .. NbRows PROVE Out(i) \in SUBSET Branches
  <2>1. CASE ~Varies
    BY <1>2, <1>3, <2>1, ListedTyped, ElementOfSeq DEF Out
  <2>2. CASE Varies /\ Contingent /\ asked.masks # <<>>
    <3>1. Len(asked.masks) = NbRows
      BY <2>2 DEF Fits, AxisFits, NbRows
    <3> QED BY <1>1, <1>3, <2>2, <3>1, ElementOfSeq DEF Out
  <2>3. CASE Varies /\ ~(Contingent /\ asked.masks # <<>>)
    BY <2>3 DEF Out
  <2> QED BY <2>1, <2>2, <2>3
<1>4. ASSUME NEW i \in 1 .. NbRows PROVE RowInjection(i) \in Injections /\ RowTarget(i) \in Targets
  <2>1. RowInjection(i) \in Injections
    <3>1. CASE Varies /\ asked.inj # <<>>
      <4>1. Len(asked.inj) = NbRows
        BY <3>1 DEF Fits, AxisFits, NbRows
      <4> QED BY <1>1, <1>4, <3>1, <4>1, ElementOfSeq DEF RowInjection
    <3>2. CASE ~(Varies /\ asked.inj # <<>>)
      BY <3>2, SweepAssumption DEF RowInjection
    <3> QED BY <3>1, <3>2
  <2>2. RowTarget(i) \in Targets
    <3>1. CASE Varies /\ asked.targets # <<>>
      <4>1. Len(asked.targets) = NbRows
        BY <3>1 DEF Fits, AxisFits, NbRows
      <4> QED BY <1>1, <1>4, <3>1, <4>1, ElementOfSeq DEF RowTarget
    <3>2. CASE ~(Varies /\ asked.targets # <<>>)
      BY <3>2, SweepAssumption DEF RowTarget
    <3> QED BY <3>1, <3>2
  <2> QED BY <2>1, <2>2
<1>5. ASSUME NEW i \in 1 .. NbRows
      PROVE  /\ Problem(i) \in Answers /\ Problem(i) # NoAnswer
             /\ Problem(i).matrix = Without(Out(i)) /\ Problem(i).mask = Masked[Out(i)]
  <2>1. Without(Out(i)) \in Matrices /\ Masked[Out(i)] \in SUBSET BusIds
    BY <1>3, MaskedIs, EditsUndone
  <2>2. (IF Chained /\ Side = "AC" THEN i - 1 ELSE 0) \in Nat
    BY <1>2
  <2>3. Problem(i) \in [matrix : Matrices, mask : SUBSET BusIds, inj : Injections \cup {NoInjection},
                        target : Targets, seed : Nat]
    BY <1>4, <2>1, <2>2 DEF Problem
  <2>4. "mask" \in DOMAIN Problem(i) /\ "mask" \notin DOMAIN NoAnswer
    BY DEF Problem, NoAnswer
  <2>5. Problem(i) # NoAnswer
    BY <2>4
  <2> QED BY <2>3, <2>5 DEF Answers, Problem
<1>6. ASSUME NbRows \in Nat
      PROVE  FreshCoeffs \in Seq(SUBSET Branches) /\ DOMAIN FreshCoeffs = 1 .. NbRows
  <2>1. FreshCoeffs \in [1 .. NbRows -> SUBSET Branches]
    BY <1>3 DEF FreshCoeffs, Coeffs
  <2> QED BY <1>6, <2>1, SeqIs
<1>7. ~Contingent => \A i : Out(i) = {}
  BY DEF Out, Contingent, Varies
<1> QED BY <1>2, <1>3, <1>4, <1>5, <1>6, <1>7

LEMMA ReportTyped ==
    ASSUME NEW r \in RowReports
    PROVE  /\ r.told \in {"nothing", "diverged", "not simulated", "checked"}
           /\ r.told = "checked" => r.at \in Thresholds /\ r.at \in Nat
<1>1. CASE r \in {Untold, Sentinel("diverged"), Sentinel("not simulated")}
  <2>1. /\ Untold.told = "nothing" /\ Sentinel("diverged").told = "diverged"
        /\ Sentinel("not simulated").told = "not simulated"
    BY DEF Untold, Sentinel
  <2> QED BY <1>1, <2>1
<1>2. CASE r \in [told : {"checked"}, of : Answers, skipped : SUBSET Branches,
                  unchecked : SUBSET BusIds, at : Thresholds]
  BY <1>2, ReportsAssumption
<1> QED BY <1>1, <1>2 DEF RowReports

LEMMA NbWorkersIs ==
    ASSUME TypeOK, NbRows \in Nat
    PROVE  /\ NbWorkers \in 1 .. MaxThreads
           /\ setup.threads = 1 \/ NbRows <= 1 => NbWorkers = 1
<1>1. setup.threads \in 1 .. MaxThreads /\ MaxThreads \in Nat \ {0}
  BY SweepAssumption DEF TypeOK
<1> QED BY <1>1 DEF NbWorkers, Least

(* A contingency and its coefficients cut off the same buses, and a grid   *)
(* that it leaves connected loses none.                                    *)
LEMMA MaskedByCoeffs ==
    ASSUME NEW S \in SUBSET Branches
    PROVE  /\ Coeffs(S) \in SUBSET Branches /\ Masked[Coeffs(S)] = Masked[S]
           /\ Remove(Base, Coeffs(S)) = Without(S)
           /\ Connected(Without(S)) <=> Masked[S] = {}
<1>1. Coeffs(S) \in SUBSET Branches
  BY DEF Coeffs
<1>2. Masked[Coeffs(S)] = Disconnected(Without(S)) /\ Masked[S] = Disconnected(Without(S))
  BY <1>1, MaskedIs, EditsUndone
<1> QED BY <1>1, <1>2, ConnectedIs DEF Without

LEMMA AtRowTyped ==
    ASSUME SweepInv, NEW t, AtRow(t)
    PROVE  /\ t \in 0 .. NbWorkers - 1 /\ t \in DOMAIN th /\ th[t] \in Workers
           /\ th[t].next \in 1 .. NbRows /\ volts[th[t].next] = NoAnswer
           /\ th[t].next <= th[t].last /\ ~th[t].error /\ WorkerFits(t)
           /\ Begin(t) \in Nat /\ NbRows \in Nat /\ NbWorkers \in Nat \ {0}
           /\ th[t].last = SplitEnd(NbRows, NbWorkers, t) /\ Begin(t) < th[t].next
<1>1. phase = "running" /\ t \in DOMAIN th /\ ~th[t].error /\ th[t].next <= th[t].last
  BY DEF AtRow
<1>2. Running /\ TypeOK
  BY <1>1 DEF SweepInv, ReportsTypeOK
<1>3. t \in 0 .. NbWorkers - 1 /\ th[t] \in Workers /\ WorkerFits(t) /\ NbRows \in Nat
  BY <1>1, <1>2 DEF Running, TypeOK
<1>4. NbWorkers \in Nat \ {0}
  BY <1>2, <1>3, NbWorkersIs, SweepAssumption
<1>5. /\ Begin(t) \in Nat /\ th[t].last = SplitEnd(NbRows, NbWorkers, t) /\ Begin(t) < th[t].next
      /\ volts[th[t].next] = NoAnswer
  <2>1. t \in Nat /\ th[t].next \in Nat /\ th[t].last \in Nat
    BY <1>3, <1>4 DEF Workers
  <2>2. Begin(t) \in Nat
    BY <1>3, <1>4, <2>1, SplitFollows DEF Begin
  <2> QED BY <1>1, <1>3, <2>1, <2>2 DEF WorkerFits, InRange
<1>6. th[t].last <= NbRows
  BY <1>3, <1>4, <1>5, SplitWithin
<1>7. th[t].next \in 1 .. NbRows
  <2>1. th[t].next \in Nat /\ th[t].last \in Nat
    BY <1>3 DEF Workers
  <2> QED BY <1>1, <1>3, <1>5, <1>6, <2>1
<1> QED BY <1>1, <1>3, <1>4, <1>5, <1>7

(* The coefficients of a row are those of what it is asked to go without.  *)
LEMMA CoeffsOfRow ==
    ASSUME TypeOK, Fits, coeffs = FreshCoeffs, NEW i \in 1 .. NbRows
    PROVE  /\ coeffs[i] \in SUBSET Branches /\ coeffs[i] = Coeffs(Out(i))
           /\ ~Contingent => coeffs[i] = {} /\ Out(i) = {}
           /\ Remove(Base, coeffs[i]) = Problem(i).matrix
           /\ Masked[coeffs[i]] = Problem(i).mask
           /\ Connected(Remove(Base, coeffs[i])) <=> Masked[coeffs[i]] = {}
<1>1. Out(i) \in SUBSET Branches /\ (~Contingent => Out(i) = {})
      /\ Problem(i).matrix = Without(Out(i)) /\ Problem(i).mask = Masked[Out(i)]
  BY RowTyped
<1>2. coeffs[i] = Coeffs(Out(i))
  BY <1>1 DEF FreshCoeffs, Coeffs
<1>3. ~Contingent => coeffs[i] = {}
  BY <1>1, <1>2 DEF Coeffs
<1> QED BY <1>1, <1>2, <1>3, MaskedByCoeffs

-----------------------------------------------------------------------------
(* One row.                                                                *)

(* A row is left out when its contingency forbids it, whatever the worker  *)
(* has solved before; no worker reads what was never built.                *)
LEMMA RowForbidden ==
    ASSUME SweepInv, NEW t, AtRow(t)
    PROVE  /\ NotSimulated(th[t], th[t].next) <=> Forbidden(th[t].next)
           /\ ~ReadsUnbuilt(th[t], th[t].next)
           /\ RowMask(th[t].next) \in SUBSET BusIds
<1> DEFINE i == th[t].next
<1>1. /\ i \in 1 .. NbRows /\ Clean(th[t].matrix, th[t].algo, th[t].ctl)
      /\ TypeOK /\ Fits /\ coeffs = FreshCoeffs
  BY AtRowTyped DEF WorkerFits, SweepInv, ReportsTypeOK, Running, AtRow
<1> HIDE DEF i
<1>2. /\ coeffs[i] \in SUBSET Branches /\ (~Contingent => coeffs[i] = {})
      /\ Connected(Remove(Base, coeffs[i])) <=> Masked[coeffs[i]] = {}
  BY <1>1, CoeffsOfRow
<1>3. Side = "AC" => th[t].matrix = Base
  BY <1>1 DEF Clean
<1>4. NotSimulated(th[t], i) <=> Forbidden(i)
  BY <1>2, <1>3 DEF NotSimulated, Forbidden
<1>5. ~ReadsUnbuilt(th[t], i)
  BY <1>1, <1>2 DEF ReadsUnbuilt, Clean
<1>6. RowMask(i) \in SUBSET BusIds
  BY <1>2, MaskedIs DEF RowMask
<1> QED BY <1>4, <1>5, <1>6 DEF i

(* What remains of a worker after a row.                                   *)
Kept(w, v) == /\ v.next = w.next /\ v.last = w.last /\ v.seed = w.seed /\ v.solved = w.solved
              /\ v.converged = w.converged /\ v.diverged = w.diverged /\ v.error = w.error

LEMMA TakenTyped ==
    ASSUME NEW w \in Workers, NEW c
    PROVE  /\ Taken(w, c) \in Workers /\ Kept(w, Taken(w, c)) /\ Taken(w, c).ctl = w.ctl
           /\ Side = "AC" => Taken(w, c).matrix = Remove(w.matrix, c) /\ Taken(w, c).algo = w.algo
           /\ Side # "AC" => Taken(w, c).algo = Edit(w.algo, c, FALSE) /\ Taken(w, c).matrix = w.matrix
           /\ Restored(w, c) \in Workers /\ Kept(w, Restored(w, c)) /\ Restored(w, c).ctl = w.ctl
           /\ Side = "AC" => Restored(w, c).matrix = Readd(w.matrix, c) /\ Restored(w, c).algo = w.algo
           /\ Side # "AC" => Restored(w, c).algo = Edit(w.algo, c, TRUE) /\ Restored(w, c).matrix = w.matrix
<1>1. w.algo \in Algos /\ w.matrix \in Matrices /\ TRUE \in BOOLEAN /\ FALSE \in BOOLEAN
  BY DEF Workers
<1>2. /\ Edit(w.algo, c, FALSE) \in Algos /\ Edit(w.algo, c, TRUE) \in Algos
      /\ Remove(w.matrix, c) \in Matrices /\ Readd(w.matrix, c) \in Matrices
  BY <1>1, AlgoTyped, EditsUndone
<1> DEFINE a == Edit(w.algo, c, FALSE)
           b == Edit(w.algo, c, TRUE)
           m == Remove(w.matrix, c)
           n == Readd(w.matrix, c)
<1>3. CASE Side = "AC"
  <2>1. Taken(w, c) = [w EXCEPT !.matrix = m] /\ Restored(w, c) = [w EXCEPT !.matrix = n]
    BY <1>3 DEF Taken, Restored, Side, Workers
  <2> HIDE DEF m, n
  <2> QED BY <1>2, <1>3, <2>1 DEF Workers, Kept, m, n
<1>4. CASE Side # "AC"
  <2>1. Taken(w, c) = [w EXCEPT !.algo = a] /\ Restored(w, c) = [w EXCEPT !.algo = b]
    BY <1>4 DEF Taken, Restored, Side, Workers
  <2> HIDE DEF a, b
  <2> QED BY <1>2, <1>4, <2>1 DEF Workers, Kept, a, b
<1> QED BY <1>3, <1>4

(* Whatever a row was asked before, its answer is that of its problem, and *)
(* it leaves the matrix and the algorithm as it found them.                *)
LEMMA RowSolved ==
    ASSUME SweepInv, NEW t, AtRow(t), ~NotSimulated(th[t], th[t].next),
           NEW r, r = Taken(th[t], coeffs[th[t].next]),
           NEW o \in Outcomes([r.algo EXCEPT !.mask = RowMask(th[t].next)], r.matrix,
                              RowInjection(th[t].next), th[t].ctl),
           NEW s, s = [r EXCEPT !.algo = [o.algo EXCEPT !.mask = {}]],
           NEW back, back = Restored(s, coeffs[th[t].next])
    PROVE  /\ back \in Workers /\ Kept(th[t], back) /\ o.conv \in BOOLEAN
           /\ Clean(back.matrix, back.algo, RowFlags)
           /\ o.conv => /\ Answer(o.solved, th[t].next, th[t].seed) = Problem(th[t].next)
                        /\ RowMask(th[t].next) = Problem(th[t].next).mask
<1> DEFINE w == th[t]
           i == th[t].next
           c == coeffs[i]
           M == RowMask(i)
<1>1. /\ i \in 1 .. NbRows /\ Clean(w.matrix, w.algo, w.ctl) /\ w \in Workers /\ Seeded(t)
      /\ TypeOK /\ Fits /\ coeffs = FreshCoeffs /\ M \in SUBSET BusIds /\ i <= w.last
      /\ ~Forbidden(i) /\ NbRows \in Nat /\ Sound /\ phase = "running"
  BY AtRowTyped, RowForbidden DEF WorkerFits, SweepInv, ReportsTypeOK, Running, AtRow
<1>2. /\ c \in SUBSET Branches /\ c = Coeffs(Out(i)) /\ (~Contingent => c = {} /\ Out(i) = {})
      /\ Remove(Base, c) = Problem(i).matrix /\ Masked[c] = Problem(i).mask
      /\ Connected(Remove(Base, c)) <=> Masked[c] = {}
      /\ RowInjection(i) \in Injections
  BY <1>1, CoeffsOfRow, RowTyped
<1>3. w.seed = IF Chained /\ Side = "AC" THEN i - 1 ELSE 0
  BY <1>1 DEF Seeded
<1>4. M = IF setup.mask THEN Masked[c] ELSE {}
  BY DEF RowMask
<1>5. ~Contingent => ~setup.mask
  BY <1>1 DEF Fits
<1>6. r = Taken(w, c) /\ o \in Outcomes([r.algo EXCEPT !.mask = M], r.matrix, RowInjection(i), w.ctl)
      /\ back = Restored(s, c)
  OBVIOUS
<1> HIDE DEF w, i, c, M
<1>7. /\ r \in Workers /\ Kept(w, r) /\ r.ctl = w.ctl
      /\ Side = "AC" => r.matrix = Remove(w.matrix, c) /\ r.algo = w.algo
      /\ Side # "AC" => r.algo = Edit(w.algo, c, FALSE) /\ r.matrix = w.matrix
  <2>1. /\ Taken(w, c) \in Workers /\ Kept(w, Taken(w, c)) /\ Taken(w, c).ctl = w.ctl
        /\ Side = "AC" => Taken(w, c).matrix = Remove(w.matrix, c) /\ Taken(w, c).algo = w.algo
        /\ Side # "AC" => Taken(w, c).algo = Edit(w.algo, c, FALSE) /\ Taken(w, c).matrix = w.matrix
    BY <1>1, TakenTyped
  <2> QED BY <1>6, <2>1
<1>8. ASSUME o.algo \in Algos
      PROVE  /\ s \in Workers /\ Kept(w, s) /\ s.matrix = r.matrix
             /\ s.algo \in Algos /\ s.algo = [o.algo EXCEPT !.mask = {}]
             /\ back \in Workers /\ Kept(w, back)
             /\ Side = "AC" => back.matrix = Readd(r.matrix, c) /\ back.algo = s.algo
             /\ Side # "AC" => back.algo = Edit(s.algo, c, TRUE) /\ back.matrix = s.matrix
  <2> DEFINE a == [o.algo EXCEPT !.mask = {}]
  <2>1. a \in Algos
    <3>1. {} \in SUBSET BusIds
      OBVIOUS
    <3> QED BY <1>8, <3>1, AlgoTyped
  <2>2. s = [r EXCEPT !.algo = a]
    OBVIOUS
  <2> HIDE DEF a
  <2>3. s \in Workers /\ Kept(w, s) /\ s.matrix = r.matrix /\ s.algo = a
    BY <1>7, <2>1, <2>2 DEF Workers, Kept
  <2>4. /\ Restored(s, c) \in Workers /\ Kept(s, Restored(s, c))
        /\ Side = "AC" => Restored(s, c).matrix = Readd(s.matrix, c) /\ Restored(s, c).algo = s.algo
        /\ Side # "AC" => Restored(s, c).algo = Edit(s.algo, c, TRUE) /\ Restored(s, c).matrix = s.matrix
    BY <2>3, TakenTyped
  <2>5. /\ back \in Workers /\ Kept(s, back)
        /\ Side = "AC" => back.matrix = Readd(s.matrix, c) /\ back.algo = s.algo
        /\ Side # "AC" => back.algo = Edit(s.algo, c, TRUE) /\ back.matrix = s.matrix
    BY <1>6, <2>4
  <2>6. Kept(w, back)
    BY <2>3, <2>5 DEF Kept
  <2>7. s.algo \in Algos /\ s.algo = [o.algo EXCEPT !.mask = {}]
    BY <2>1, <2>3 DEF a
  <2> QED BY <2>3, <2>5, <2>6, <2>7
<1> DEFINE e == [r.algo EXCEPT !.mask = M]
<1>9. r.algo \in Algos /\ e \in Algos /\ e.mask = M
  BY <1>1, <1>7, AlgoTyped DEF Workers, Algos
<1>10. SUFFICES /\ o.algo \in Algos /\ o.conv \in BOOLEAN
                /\ Clean(back.matrix, back.algo, RowFlags)
                /\ o.conv => /\ o.solved.matrix = Remove(Base, c) /\ o.solved.mask = M
                             /\ o.solved.inj = RowInjection(i)
                             /\ M = Masked[c]
  <2>1. ASSUME o.conv PROVE Answer(o.solved, i, w.seed) = Problem(i) /\ M = Problem(i).mask
    BY <1>2, <1>3, <1>10, <2>1 DEF Answer, Problem
  <2> QED BY <1>8, <1>10, <2>1 DEF w, i, M
<1>11. CASE Side = "AC"
  <2>1. w.matrix = Base /\ w.algo.mask = {}
    BY <1>1, <1>11 DEF Clean
  <2>2. o \in AcOutcomes(e, Remove(Base, c), RowInjection(i))
    BY <1>6, <1>7, <1>11, <2>1 DEF Outcomes
  <2> DEFINE answer == [matrix |-> Remove(Base, c), mask |-> e.mask, inj |-> RowInjection(i)]
  <2>3. /\ o.algo = e /\ o.conv \in BOOLEAN /\ o.solved = answer
        /\ o.conv => Solvable(answer)
    BY <2>2 DEF AcOutcomes, Outcome
  <2>4. back.matrix = Base /\ back.algo.mask = {}
    <3>1. back.matrix = Readd(Remove(Base, c), c) /\ back.algo = [o.algo EXCEPT !.mask = {}]
      BY <1>7, <1>8, <1>9, <1>11, <2>1, <2>3
    <3>2. o.algo \in Algos
      BY <1>9, <2>3
    <3> QED BY <3>1, <3>2, EditsUndone DEF Algos
  <2>5. o.conv => M = Masked[c]
    BY <1>2, <1>4, <1>9, <2>3 DEF Solvable
  <2> QED BY <1>9, <1>11, <2>3, <2>4, <2>5 DEF Clean
<1>12. CASE Side # "AC" /\ ~Contingent
  <2>1. Plain(w.algo) /\ "sbus" \in w.ctl /\ w.algo \in Algos
    BY <1>1, <1>12 DEF Clean, Workers
  <2>2. c = {} /\ M = {}
    BY <1>2, <1>4, <1>5, <1>12
  <2>3. ASSUME NEW a \in Algos, NEW add \in BOOLEAN PROVE Edit(a, {}, add) = a
    <3>1. a.matrix \in Matrices /\ a.refactor \in BOOLEAN
      BY DEF Algos
    <3>2. (IF add THEN Readd(a.matrix, {}) ELSE Remove(a.matrix, {})) = a.matrix
      BY <3>1, EditsUndone
    <3>3. (a.refactor \/ (~add /\ {} # {})) = a.refactor
      BY <3>1
    <3>4. Edit(a, {}, add) = [a EXCEPT !.matrix = a.matrix, !.refactor = a.refactor]
      BY <3>2, <3>3 DEF Edit
    <3> QED BY <3>4 DEF Algos
  <2>4. r.algo = w.algo
    <3>1. FALSE \in BOOLEAN
      OBVIOUS
    <3> QED BY <1>7, <1>12, <2>1, <2>2, <2>3, <3>1
  <2>5. e = w.algo
    BY <2>1, <2>2, <2>4 DEF Plain, Algos
  <2>6. o \in DcOutcomes(w.algo, RowInjection(i), w.ctl)
    BY <1>6, <1>7, <1>12, <2>5 DEF Outcomes, Side
  <2>7. /\ o.algo \in Algos /\ Plain(o.algo) /\ o.conv \in BOOLEAN
        /\ o.conv => /\ o.solved = [matrix |-> Base, mask |-> {}, inj |-> RowInjection(i)]
                     /\ Connected(Base)
    BY <1>2, <2>1, <2>6, DcPlain
  <2>8. s.algo = o.algo
    <3>1. o.algo \in Algos /\ o.algo.mask = {}
      BY <2>7 DEF Plain
    <3>2. [o.algo EXCEPT !.mask = {}] = o.algo
      BY <3>1 DEF Algos
    <3> QED BY <1>8, <3>1, <3>2
  <2>9. back.algo = o.algo
    <3>1. TRUE \in BOOLEAN
      OBVIOUS
    <3> QED BY <1>8, <1>12, <2>2, <2>3, <2>7, <2>8, <3>1
  <2>10. Remove(Base, c) = Base
    BY <2>2, EditsUndone
  <2>11. "sbus" \in RowFlags
    BY <1>5, <1>12 DEF RowFlags, Side
  <2> QED BY <1>2, <1>12, <2>2, <2>7, <2>9, <2>10, <2>11 DEF Clean
<1>13. CASE Side # "AC" /\ Contingent
  <2>1. /\ w.algo \in Algos /\ w.algo.built /\ ~w.algo.factorize /\ w.algo.matrix = Base
        /\ w.algo.mask = {} /\ w.ctl = RowFlags /\ (setup.mask => w.algo.inj = GridInjection)
    BY <1>1, <1>13 DEF Clean, Workers
  <2>2. c # {} /\ (setup.mask => RowInjection(i) = GridInjection)
    <3>1. Side = "DC"
      BY <1>13 DEF Side
    <3> QED BY <1>1, <1>2, <1>13, <3>1 DEF Sound, RowInjection
  <2>3. w.ctl \in {{}, {"sbus"}} /\ (w.ctl = {"sbus"} <=> ~setup.mask)
    <3>1. Side = "DC"
      BY <1>13 DEF Side
    <3> QED BY <2>1, <3>1 DEF RowFlags
  <2>4. e = [Edit(w.algo, c, FALSE) EXCEPT !.mask = M]
    BY <1>7, <1>13
  <2>5. o \in DcOutcomes(e, RowInjection(i), w.ctl)
    BY <1>6, <1>7, <1>13 DEF Outcomes, Side
  <2> HIDE DEF e
  <2>6. M # {} \/ w.ctl = {"sbus"} \/ w.algo.inj = RowInjection(i)
    BY <2>1, <2>2, <2>3
  <2>7. /\ o.algo \in Algos /\ o.conv \in BOOLEAN
        /\ o.algo.built /\ ~o.algo.factorize /\ o.algo.matrix = Remove(Base, c)
        /\ o.algo.inj = w.algo.inj \/ w.ctl = {"sbus"}
        /\ o.conv => /\ o.solved = [matrix |-> Remove(Base, c), mask |-> M, inj |-> RowInjection(i)]
                     /\ M # {} \/ Connected(Remove(Base, c))
    <3> DEFINE a == w.algo
               inj == RowInjection(i)
               flags == w.ctl
    <3>1. /\ a \in Algos /\ a.built /\ ~a.factorize /\ a.matrix = Base /\ a.mask = {}
          /\ c \in SUBSET Branches /\ c # {} /\ M \in SUBSET BusIds
          /\ inj \in Injections /\ flags \in {{}, {"sbus"}}
          /\ M # {} \/ flags = {"sbus"} \/ a.inj = inj
          /\ o \in DcOutcomes(Edited(a, c, M), inj, flags)
      BY <1>1, <1>2, <2>1, <2>2, <2>3, <2>4, <2>5, <2>6 DEF Edited
    <3> HIDE DEF a, inj, flags
    <3>2. /\ o.algo \in Algos /\ o.conv \in BOOLEAN
          /\ o.algo.built /\ ~o.algo.factorize /\ o.algo.matrix = Remove(Base, c)
          /\ o.algo.inj = a.inj \/ flags = {"sbus"}
          /\ o.conv => /\ o.solved = [matrix |-> Remove(Base, c), mask |-> M, inj |-> inj]
                       /\ M # {} \/ Connected(Remove(Base, c))
      BY <3>1, DcContingency
    <3> QED BY <3>2 DEF a, inj, flags
  <2>8. /\ s.algo \in Algos /\ s.algo.built /\ ~s.algo.factorize /\ s.algo.mask = {}
        /\ s.algo.matrix = Remove(Base, c) /\ s.algo.inj = o.algo.inj
    BY <1>8, <2>7 DEF Algos
  <2>9. /\ back.algo.built /\ ~back.algo.factorize /\ back.algo.mask = {}
        /\ back.algo.matrix = Base /\ back.algo.inj = o.algo.inj
    <3>1. back.algo = Edit(s.algo, c, TRUE)
      BY <1>8, <1>13, <2>7
    <3>2. Readd(Remove(Base, c), c) = Base
      BY EditsUndone
    <3> DEFINE a == s.algo
    <3>3. Edit(a, c, TRUE) = [a EXCEPT !.matrix = Base, !.refactor = a.refactor \/ (~TRUE /\ c # {})]
      BY <2>8, <3>2 DEF Edit
    <3>4. /\ a \in Algos /\ a.built /\ ~a.factorize /\ a.mask = {} /\ a.inj = o.algo.inj
          /\ back.algo = Edit(a, c, TRUE)
      BY <2>8, <3>1
    <3> HIDE DEF a
    <3> QED BY <3>3, <3>4 DEF Algos
  <2>10. setup.mask => back.algo.inj = GridInjection
    BY <2>1, <2>3, <2>7, <2>9
  <2>11. o.conv => M = Masked[c]
    BY <1>2, <1>4, <2>7
  <2>12. Clean(back.matrix, back.algo, RowFlags)
    BY <1>13, <2>9, <2>10 DEF Clean
  <2>13. o.conv => /\ o.solved.matrix = Remove(Base, c) /\ o.solved.mask = M
                   /\ o.solved.inj = RowInjection(i)
    BY <2>7
  <2> QED BY <2>7, <2>11, <2>12, <2>13
<1> QED BY <1>11, <1>12, <1>13

-----------------------------------------------------------------------------
(* The calls that leave compute() idle.                                    *)

(* What is stored stays, and is stale or is about the same inputs.         *)
LEMMA QuietStep ==
    ASSUME SweepInv, Free, phase' = "idle", ReportsTypeOK', Fits',
           UNCHANGED <<kind, volts, flows>>, setup'.limits = setup.limits,
           \/ reports' = reports
           \/ setup.limits /\ \A i \in DOMAIN reports'.rows : reports'.rows[i].told = "nothing",
           threshold <= threshold', stale' \/ UNCHANGED <<family, asked, stale>>
    PROVE  SweepInv'
<1>1. AnswersRight'
  <2>1. CASE stale'
    BY <2>1 DEF AnswersRight
  <2>2. CASE ~stale'
    <3>1. UNCHANGED <<kind, family, asked>> /\ ~stale
      BY <2>2
    <3>2. NbRows' = NbRows /\ \A i : Problem(i)' = Problem(i)
      BY <3>1, InputsSame
    <3> QED BY <3>1, <3>2 DEF SweepInv, AnswersRight
  <2> QED BY <2>1, <2>2
<1>2. FlowsMatchInputs'
  BY DEF SweepInv, FlowsMatchInputs, Contingent
<1>3. CASE setup.limits /\ \A i \in DOMAIN reports'.rows : reports'.rows[i].told = "nothing"
  <2>1. ReportsTellRows' /\ ReportsFit'
    BY <1>3 DEF ReportsTellRows, ReportsFit
  <2>2. EveryRowIsTold' /\ NeverCrashes' /\ (phase' = "running" => Running' /\ Sound')
    BY DEF EveryRowIsTold, NeverCrashes
  <2> QED BY <1>1, <1>2, <2>1, <2>2 DEF SweepInv
<1>4. CASE reports' = reports
  <2>1. \A i \in DOMAIN reports.rows :
           reports.rows[i].told = "checked" => reports.rows[i].at \in Nat
    <3>1. reports.rows \in Seq(RowReports)
      BY DEF SweepInv, ReportsTypeOK
    <3> QED BY <3>1, SeqIs, ReportTyped
  <2>2. threshold \in Nat /\ threshold' \in Nat
    BY ReportsAssumption DEF SweepInv, ReportsTypeOK
  <2>3. ReportsTellRows'
    <3>1. SUFFICES ASSUME NEW i \in DOMAIN reports.rows
                   PROVE  /\ reports.rows[i].told = "checked" =>
                                /\ i \in DOMAIN volts /\ reports.rows[i].of = volts[i]
                                /\ Without(reports.rows[i].skipped) = volts[i].matrix
                                /\ reports.rows[i].unchecked = volts[i].mask
                                /\ reports.rows[i].at <= threshold'
                          /\ reports.rows[i].told \in {"diverged", "not simulated"} => volts[i] = NoAnswer
      BY <1>4 DEF ReportsTellRows
    <3>2. /\ reports.rows[i].told = "checked" =>
                /\ i \in DOMAIN volts /\ reports.rows[i].of = volts[i]
                /\ Without(reports.rows[i].skipped) = volts[i].matrix
                /\ reports.rows[i].unchecked = volts[i].mask
                /\ reports.rows[i].at <= threshold
          /\ reports.rows[i].told \in {"diverged", "not simulated"} => volts[i] = NoAnswer
      BY DEF SweepInv, ReportsTellRows
    <3>3. reports.rows[i].told = "checked" => reports.rows[i].at <= threshold'
      BY <2>1, <2>2, <3>2
    <3> QED BY <3>2, <3>3
  <2>4. EveryRowIsTold' /\ NeverCrashes' /\ (phase' = "running" => Running' /\ Sound')
    BY DEF EveryRowIsTold, NeverCrashes
  <2> QED BY <1>1, <1>2, <1>4, <2>3, <2>4 DEF SweepInv, ReportsFit
<1> QED BY <1>3, <1>4

(* No row has an answer any more.                                          *)
LEMMA EmptyStep ==
    ASSUME phase' = "idle", ReportsTypeOK', Fits', flows' = <<>>,
           \A i \in DOMAIN volts' : volts'[i] = NoAnswer /\ i \in 1 .. NbRows',
           \A i \in DOMAIN reports'.rows :
              \/ reports'.rows[i].told = "nothing"
              \/ reports'.rows[i].told = "diverged" /\ i \in DOMAIN volts',
           ~setup'.limits => reports'.rows = <<>>
    PROVE  SweepInv'
<1>1. AnswersRight'
  BY DEF AnswersRight
<1>2. FlowsMatchInputs'
  BY DEF FlowsMatchInputs
<1>3. ReportsTellRows' /\ ReportsFit'
  BY DEF ReportsTellRows, ReportsFit
<1>4. EveryRowIsTold' /\ NeverCrashes' /\ (phase' = "running" => Running' /\ Sound')
  BY DEF EveryRowIsTold, NeverCrashes
<1> QED BY <1>1, <1>2, <1>3, <1>4 DEF SweepInv

(* The rows of an axis, locked at their first number.                      *)
LEMMA AxisSet ==
    ASSUME SweepInv, Varies, Free, phase' = "idle", said' = <<>>, th' = <<>>,
           UNCHANGED <<reports, threshold>>,
           \/ \E rows \in InjectionRows : SetAxis("inj", rows)
           \/ \E rows \in TargetRows : SetAxis("targets", rows)
           \/ \E rows \in MaskRows : SetAxis("masks", rows)
    PROVE  SweepInv'
<1>1. /\ asked.inj \in Seq(Injections) /\ asked.targets \in Seq(Targets)
      /\ asked.masks \in Seq(SUBSET Branches) /\ asked.rows \in Nat \cup {-1}
      /\ asked \in [inj : Seq(Injections), targets : Seq(Targets), masks : Seq(SUBSET Branches),
                    rows : Nat \cup {-1}, listed : SUBSET Range(ListOrder)]
      /\ AxisFits(asked.inj) /\ AxisFits(asked.targets) /\ AxisFits(asked.masks)
  BY DEF SweepInv, ReportsTypeOK, TypeOK, Fits
<1>2. /\ \A s \in Seq(Injections) : Len(s) \in Nat /\ (Len(s) = 0 => s = <<>>)
      /\ \A s \in Seq(Targets) : Len(s) \in Nat /\ (Len(s) = 0 => s = <<>>)
      /\ \A s \in Seq(SUBSET Branches) : Len(s) \in Nat /\ (Len(s) = 0 => s = <<>>)
  BY SeqIs, EmptySeq
<1>3. /\ UNCHANGED <<kind, family, setup, coeffs, ybus, results, flows>> /\ stale' = TRUE
      /\ asked' \in [inj : Seq(Injections), targets : Seq(Targets), masks : Seq(SUBSET Branches),
                     rows : Nat \cup {-1}, listed : SUBSET Range(ListOrder)]
      /\ AxisFits(asked.inj)' /\ AxisFits(asked.targets)' /\ AxisFits(asked.masks)'
  <2>1. CASE \E rows \in InjectionRows : SetAxis("inj", rows)
    <3>1. PICK rows \in InjectionRows : SetAxis("inj", rows)
      BY <2>1
    <3>2. rows \in Seq(Injections)
      BY SweepAssumption
    <3>3. asked' = asked \/ (asked.rows \in {-1, Len(rows)}
                             /\ asked' = [asked EXCEPT !.inj = rows, !.rows = Len(rows)])
      BY <3>1 DEF SetAxis
    <3>4. UNCHANGED <<kind, family, setup, coeffs, ybus, results, flows>> /\ stale' = TRUE
      BY <3>1 DEF SetAxis, LockRows
    <3>5. CASE asked' = asked
      BY <1>1, <3>4, <3>5 DEF AxisFits
    <3>6. CASE asked.rows \in {-1, Len(rows)} /\ asked' = [asked EXCEPT !.inj = rows, !.rows = Len(rows)]
      <4>1. /\ asked'.inj = rows /\ asked'.targets = asked.targets /\ asked'.masks = asked.masks
            /\ asked'.rows = Len(rows) /\ asked'.listed = asked.listed
            /\ asked' \in [inj : Seq(Injections), targets : Seq(Targets), masks : Seq(SUBSET Branches),
                           rows : Nat \cup {-1}, listed : SUBSET Range(ListOrder)]
        BY <1>1, <1>2, <3>2, <3>6
      <4>2. Len(rows) \in Nat /\ \A n \in Nat : n # -1
        BY <1>2, <3>2
      <4>3. AxisFits(asked.targets)' /\ AxisFits(asked.masks)'
        <5>1. CASE asked.rows = Len(rows)
          BY <1>1, <4>1, <5>1 DEF AxisFits
        <5>2. CASE asked.rows = -1
          <6>1. asked.targets = <<>> /\ asked.masks = <<>>
            BY <1>1, <1>2, <4>2, <5>2 DEF AxisFits
          <6> QED BY <4>1, <6>1 DEF AxisFits
        <5> QED BY <3>6, <5>1, <5>2
      <4> QED BY <3>4, <4>1, <4>3 DEF AxisFits
    <3> QED BY <3>3, <3>5, <3>6
  <2>2. CASE \E rows \in TargetRows : SetAxis("targets", rows)
    <3>1. PICK rows \in TargetRows : SetAxis("targets", rows)
      BY <2>2
    <3>2. rows \in Seq(Targets)
      BY SweepAssumption
    <3>3. asked' = asked \/ (asked.rows \in {-1, Len(rows)}
                             /\ asked' = [asked EXCEPT !.targets = rows, !.rows = Len(rows)])
      BY <3>1 DEF SetAxis
    <3>4. UNCHANGED <<kind, family, setup, coeffs, ybus, results, flows>> /\ stale' = TRUE
      BY <3>1 DEF SetAxis, LockRows
    <3>5. CASE asked' = asked
      BY <1>1, <3>4, <3>5 DEF AxisFits
    <3>6. CASE asked.rows \in {-1, Len(rows)} /\ asked' = [asked EXCEPT !.targets = rows, !.rows = Len(rows)]
      <4>1. /\ asked'.targets = rows /\ asked'.inj = asked.inj /\ asked'.masks = asked.masks
            /\ asked'.rows = Len(rows) /\ asked'.listed = asked.listed
            /\ asked' \in [inj : Seq(Injections), targets : Seq(Targets), masks : Seq(SUBSET Branches),
                           rows : Nat \cup {-1}, listed : SUBSET Range(ListOrder)]
        BY <1>1, <1>2, <3>2, <3>6
      <4>2. Len(rows) \in Nat /\ \A n \in Nat : n # -1
        BY <1>2, <3>2
      <4>3. AxisFits(asked.inj)' /\ AxisFits(asked.masks)'
        <5>1. CASE asked.rows = Len(rows)
          BY <1>1, <4>1, <5>1 DEF AxisFits
        <5>2. CASE asked.rows = -1
          <6>1. asked.inj = <<>> /\ asked.masks = <<>>
            BY <1>1, <1>2, <4>2, <5>2 DEF AxisFits
          <6> QED BY <4>1, <6>1 DEF AxisFits
        <5> QED BY <3>6, <5>1, <5>2
      <4> QED BY <3>4, <4>1, <4>3 DEF AxisFits
    <3> QED BY <3>3, <3>5, <3>6
  <2>3. CASE \E rows \in MaskRows : SetAxis("masks", rows)
    <3>1. PICK rows \in MaskRows : SetAxis("masks", rows)
      BY <2>3
    <3>2. rows \in Seq(SUBSET Branches)
      BY SweepAssumption
    <3>3. asked' = asked \/ (asked.rows \in {-1, Len(rows)}
                             /\ asked' = [asked EXCEPT !.masks = rows, !.rows = Len(rows)])
      BY <3>1 DEF SetAxis
    <3>4. UNCHANGED <<kind, family, setup, coeffs, ybus, results, flows>> /\ stale' = TRUE
      BY <3>1 DEF SetAxis, LockRows
    <3>5. CASE asked' = asked
      BY <1>1, <3>4, <3>5 DEF AxisFits
    <3>6. CASE asked.rows \in {-1, Len(rows)} /\ asked' = [asked EXCEPT !.masks = rows, !.rows = Len(rows)]
      <4>1. /\ asked'.masks = rows /\ asked'.inj = asked.inj /\ asked'.targets = asked.targets
            /\ asked'.rows = Len(rows) /\ asked'.listed = asked.listed
            /\ asked' \in [inj : Seq(Injections), targets : Seq(Targets), masks : Seq(SUBSET Branches),
                           rows : Nat \cup {-1}, listed : SUBSET Range(ListOrder)]
        BY <1>1, <1>2, <3>2, <3>6
      <4>2. Len(rows) \in Nat /\ \A n \in Nat : n # -1
        BY <1>2, <3>2
      <4>3. AxisFits(asked.inj)' /\ AxisFits(asked.targets)'
        <5>1. CASE asked.rows = Len(rows)
          BY <1>1, <4>1, <5>1 DEF AxisFits
        <5>2. CASE asked.rows = -1
          <6>1. asked.inj = <<>> /\ asked.targets = <<>>
            BY <1>1, <1>2, <4>2, <5>2 DEF AxisFits
          <6> QED BY <4>1, <6>1 DEF AxisFits
        <5> QED BY <3>6, <5>1, <5>2
      <4> QED BY <3>4, <4>1, <4>3 DEF AxisFits
    <3> QED BY <3>3, <3>5, <3>6
  <2> QED BY <2>1, <2>2, <2>3
<1>4. ReportsTypeOK'
  BY <1>3, EmptySeq DEF SweepInv, ReportsTypeOK, TypeOK, results
<1>5. Fits'
  BY <1>3 DEF SweepInv, Fits, Contingent, Varies, Chained
<1>6. threshold <= threshold
  BY ReportsAssumption DEF SweepInv, ReportsTypeOK
<1> QED BY <1>3, <1>4, <1>5, <1>6, QuietStep DEF results

LEMMA SettingUp ==
    ASSUME SweepInv, SetNbThread \/ SetHandleDisconnectedGrid, UNCHANGED <<reports, threshold>>
    PROVE  SweepInv'
<1>1. /\ Free /\ phase' = "idle" /\ said' = <<>> /\ th' = <<>>
      /\ UNCHANGED <<kind, family, asked, stale, coeffs, ybus, results, flows>>
  BY DEF SetNbThread, SetHandleDisconnectedGrid, SetUp, Calling
<1>2. /\ setup' \in [threads : 1 .. MaxThreads, mask : BOOLEAN, limits : BOOLEAN]
      /\ setup'.limits = setup.limits
      /\ Contingent \/ setup'.mask = setup.mask
      /\ ~Chained \/ setup'.threads = 1 \/ setup'.threads = setup.threads
  <2>1. setup \in [threads : 1 .. MaxThreads, mask : BOOLEAN, limits : BOOLEAN]
    BY DEF SweepInv, ReportsTypeOK, TypeOK
  <2>2. CASE SetNbThread
    <3>1. PICK n \in 1 .. MaxThreads : (n = 1 \/ ~Chained) /\ setup' = [setup EXCEPT !.threads = n]
      BY <2>2 DEF SetNbThread, SetUp
    <3> QED BY <2>1, <3>1
  <2>3. CASE SetHandleDisconnectedGrid
    <3>1. Contingent /\ setup' = [setup EXCEPT !.mask = ~@]
      BY <2>3 DEF SetHandleDisconnectedGrid, SetUp
    <3> QED BY <2>1, <3>1
  <2> QED BY <2>2, <2>3
<1>3. ReportsTypeOK'
  BY <1>1, <1>2, EmptySeq DEF SweepInv, ReportsTypeOK, TypeOK, results
<1>4. Fits'
  BY <1>1, <1>2 DEF SweepInv, Fits, AxisFits, Contingent, Varies, Chained
<1>5. threshold <= threshold
  BY ReportsAssumption DEF SweepInv, ReportsTypeOK
<1> QED BY <1>1, <1>2, <1>3, <1>4, <1>5, QuietStep DEF results

LEMMA Inspecting ==
    ASSUME SweepInv, IsGridConnected \/ PickReferenceSlack \/ InspectionThrows,
           UNCHANGED <<reports, threshold>>
    PROVE  SweepInv'
<1>1. TypeOK /\ Fits
  BY DEF SweepInv, ReportsTypeOK
<1>2. Free /\ phase' = "idle" /\ UNCHANGED <<inputs, stale, results, flows, th>>
  BY DEF IsGridConnected, PickReferenceSlack, InspectContingencies, InspectionThrows
<1>3. /\ coeffs' \in Seq(SUBSET Branches) /\ said' \in Seq(BOOLEAN)
      /\ ybus' \in [side : {"none", "AC", "DC"}, matrix : Matrices]
  <2>1. CASE InspectionThrows
    BY <1>1, <2>1, EmptySeq, EditsUndone DEF InspectionThrows, TypeOK
  <2>2. CASE IsGridConnected \/ PickReferenceSlack
    <3>1. ~Varies
      BY <2>2 DEF IsGridConnected, PickReferenceSlack, InspectContingencies
    <3>2. FreshCoeffs \in Seq(SUBSET Branches)
      BY <1>1, <3>1, RowTyped, ListedTyped
    <3>3. coeffs' \in Seq(SUBSET Branches)
      BY <1>1, <2>2, <3>2 DEF IsGridConnected, PickReferenceSlack, InspectContingencies, TypeOK
    <3>4. ybus' \in [side : {"none", "AC", "DC"}, matrix : Matrices]
      BY <1>1, <2>2, EditsUndone
      DEF IsGridConnected, PickReferenceSlack, InspectContingencies, TypeOK, Side
    <3>5. said' = <<>> \/ said' = [i \in DOMAIN coeffs' |-> Connected(Remove(ybus'.matrix, coeffs'[i]))]
      BY <2>2 DEF IsGridConnected, PickReferenceSlack, InspectContingencies
    <3>6. DOMAIN coeffs' = 1 .. Len(coeffs') /\ Len(coeffs') \in Nat
      BY <3>3, SeqIs
    <3>7. \A m : Connected(m) \in BOOLEAN
      BY DEF Connected
    <3>8. said' = <<>> \/ said' \in [1 .. Len(coeffs') -> BOOLEAN]
      BY <3>5, <3>6, <3>7
    <3> QED BY <3>3, <3>4, <3>6, <3>8, SeqIs
  <2> QED BY <2>1, <2>2
<1>4. ReportsTypeOK'
  BY <1>2, <1>3 DEF SweepInv, ReportsTypeOK, TypeOK, results, inputs
<1>5. Fits'
  BY <1>2 DEF SweepInv, Fits, AxisFits, Contingent, Varies, Chained, inputs
<1>6. threshold <= threshold
  BY ReportsAssumption DEF SweepInv, ReportsTypeOK
<1> QED BY <1>2, <1>4, <1>5, <1>6, QuietStep DEF results, inputs

LEMMA ComputingFlows ==
    ASSUME SweepInv, ComputeFlows, UNCHANGED <<reports, threshold>>
    PROVE  SweepInv'
<1>1. TypeOK /\ Fits /\ AnswersRight
  BY DEF SweepInv, ReportsTypeOK
<1>2. /\ Free /\ phase' = "idle" /\ said' = <<>> /\ th' = <<>>
      /\ UNCHANGED <<inputs, stale, coeffs, ybus, results>>
      /\ flows' = [i \in DOMAIN volts |-> [of |-> volts[i], zeroed |-> IF Contingent THEN Out(i) ELSE {}]]
      /\ Contingent => ~stale
  BY <1>1 DEF ComputeFlows, Calling, ResultsMatchDefaults, Fits
<1>3. volts \in Seq(Answers) /\ DOMAIN volts = 1 .. Len(volts) /\ Len(volts) \in Nat
      /\ \A i \in DOMAIN volts : volts[i] \in Answers
  BY <1>1, SeqIs DEF TypeOK
<1>4. ASSUME Contingent, NEW i \in DOMAIN volts
      PROVE  /\ Out(i) \in SUBSET Branches
             /\ volts[i] # NoAnswer => volts[i].matrix = Without(Out(i))
  <2>1. i \in 1 .. NbRows /\ (volts[i] # NoAnswer => volts[i] = Problem(i))
    BY <1>1, <1>2, <1>4 DEF AnswersRight
  <2> QED BY <1>1, <2>1, RowTyped
<1>5. flows' \in Seq([of : Answers, zeroed : SUBSET Branches])
  <2>1. \A i \in DOMAIN volts : (IF Contingent THEN Out(i) ELSE {}) \in SUBSET Branches
    BY <1>4
  <2>2. flows' \in [1 .. Len(volts) -> [of : Answers, zeroed : SUBSET Branches]]
    BY <1>2, <1>3, <2>1
  <2> QED BY <1>3, <2>2, SeqIs
<1>6. ReportsTypeOK'
  BY <1>2, <1>5, EmptySeq DEF SweepInv, ReportsTypeOK, TypeOK, results, inputs
<1>7. Fits'
  BY <1>2 DEF SweepInv, Fits, AxisFits, Contingent, Varies, Chained, inputs
<1>8. FlowsMatchInputs'
  <2>1. SUFFICES ASSUME NEW i \in DOMAIN flows', Contingent, flows'[i].of # NoAnswer
                 PROVE  flows'[i].of.matrix = Without(flows'[i].zeroed)
    BY <1>2 DEF FlowsMatchInputs, inputs, Contingent
  <2> QED BY <1>2, <1>4, <2>1
<1>9. AnswersRight'
  <2>1. UNCHANGED <<kind, family, asked, stale, volts>>
    BY <1>2 DEF inputs, results
  <2>2. NbRows' = NbRows /\ \A i : Problem(i)' = Problem(i)
    BY <2>1, InputsSame
  <2> QED BY <1>1, <1>2, <2>1, <2>2 DEF AnswersRight
<1>10. ReportsTellRows' /\ ReportsFit'
  BY <1>2 DEF SweepInv, ReportsTellRows, ReportsFit, inputs, results
<1>11. EveryRowIsTold' /\ NeverCrashes' /\ (phase' = "running" => Running' /\ Sound')
  BY <1>2 DEF EveryRowIsTold, NeverCrashes
<1> QED BY <1>6, <1>7, <1>8, <1>9, <1>10, <1>11 DEF SweepInv

LEMMA NoRowsTyped ==
    ASSUME NbRows \in Nat, NEW S, NEW x \in S
    PROVE  /\ NoRows(x) \in Seq(S) /\ DOMAIN NoRows(x) = 1 .. NbRows
           /\ \A i \in 1 .. NbRows : NoRows(x)[i] = x
<1>1. NoRows(x) \in [1 .. NbRows -> S]
  BY DEF NoRows
<1> QED BY <1>1, SeqIs DEF NoRows

(* A compute() that ends before the first row.                             *)
LEMMA ComputingNothing ==
    ASSUME SweepInv, ComputeNothingSet, UNCHANGED <<reports, threshold>>
    PROVE  SweepInv'
<1>1. /\ Free /\ phase' = "idle" /\ said' = <<>> /\ status' = 0 /\ counts' = NoCounts
      /\ UNCHANGED <<inputs, stale, coeffs, ybus, volts, conv, flows, th>>
  BY DEF ComputeNothingSet, Begins
<1>2. ReportsTypeOK'
  BY <1>1, EmptySeq DEF SweepInv, ReportsTypeOK, TypeOK, inputs, NoCounts
<1>3. Fits'
  BY <1>1 DEF SweepInv, Fits, AxisFits, Contingent, Varies, Chained, inputs
<1>4. threshold <= threshold
  BY ReportsAssumption DEF SweepInv, ReportsTypeOK
<1> QED BY <1>1, <1>2, <1>3, <1>4, QuietStep DEF inputs

LEMMA ResetTyped ==
    ASSUME NbRows \in Nat
    PROVE  /\ Reset.rows \in Seq(RowReports) /\ Reset.n.told = "nothing" /\ DOMAIN Reset.rows = 1 .. NbRows
           /\ \A i \in DOMAIN Reset.rows : Reset.rows[i].told = "nothing"
<1>1. Untold \in RowReports /\ Untold.told = "nothing"
  BY DEF RowReports, Untold
<1>2. Reset.rows = NoRows(Untold) /\ Reset.n = Untold
  BY DEF Reset
<1> QED BY <1>1, <1>2, NoRowsTyped

LEMMA ComputingUnprepared ==
    ASSUME SweepInv, ComputeUnprepared \/ ComputeUnmaskable,
           reports' = IF setup.limits THEN Reset ELSE reports, UNCHANGED threshold
    PROVE  SweepInv'
<1>1. /\ Free /\ phase' = "idle" /\ said' = <<>> /\ status' = 0 /\ counts' = NoCounts
      /\ UNCHANGED <<inputs, stale, volts, flows, th>> /\ NbRows >= 0 /\ conv' = NoRows(FALSE)
      /\ coeffs' \in {coeffs, FreshCoeffs}
      /\ ybus' \in {[side |-> "none", matrix |-> NoMatrix], [side |-> Side, matrix |-> Base]}
  BY DEF ComputeUnprepared, ComputeUnmaskable, Begins, Prepares
<1>2. TypeOK /\ Fits /\ NbRows \in Nat
  BY <1>1, RowTyped DEF SweepInv, ReportsTypeOK
<1>3. conv' \in Seq(BOOLEAN) /\ coeffs' \in Seq(SUBSET Branches)
      /\ ybus' \in [side : {"none", "AC", "DC"}, matrix : Matrices]
  <2>1. FALSE \in BOOLEAN
    OBVIOUS
  <2>2. conv' \in Seq(BOOLEAN)
    BY <1>1, <1>2, <2>1, NoRowsTyped
  <2>3. coeffs' \in Seq(SUBSET Branches)
    BY <1>1, <1>2, RowTyped DEF TypeOK
  <2>4. ybus' \in [side : {"none", "AC", "DC"}, matrix : Matrices]
    BY <1>1, EditsUndone DEF Side
  <2> QED BY <2>2, <2>3, <2>4
<1>4. ReportsTypeOK'
  <2>1. reports'.rows \in Seq(RowReports) /\ reports'.n.told \in {"nothing", "diverged", "checked"}
    BY <1>2, ResetTyped DEF SweepInv, ReportsTypeOK
  <2> QED BY <1>1, <1>3, <2>1, EmptySeq DEF SweepInv, ReportsTypeOK, TypeOK, inputs, NoCounts
<1>5. Fits'
  BY <1>1 DEF SweepInv, Fits, AxisFits, Contingent, Varies, Chained, inputs
<1>6. threshold <= threshold
  BY ReportsAssumption DEF SweepInv, ReportsTypeOK
<1>7. \/ reports' = reports
      \/ setup.limits /\ \A i \in DOMAIN reports'.rows : reports'.rows[i].told = "nothing"
  BY <1>2, ResetTyped
<1> QED BY <1>1, <1>4, <1>5, <1>6, <1>7, QuietStep DEF inputs

(* A compute() that forgets every answer before it ends.                   *)
LEMMA ComputingEmpty ==
    ASSUME SweepInv,
           \/ ComputeChecksThrow /\ reports' = IF setup.limits THEN Reset ELSE reports
           \/ TellBaseDiverged,
           UNCHANGED threshold
    PROVE  SweepInv'
<1>1. /\ Free /\ phase' = "idle" /\ said' = <<>> /\ status' = 0 /\ counts' = NoCounts
      /\ UNCHANGED <<inputs, th>> /\ NbRows >= 0 /\ conv' = NoRows(FALSE) /\ flows' = <<>>
      /\ volts' = NoRows(NoAnswer) /\ coeffs' = FreshCoeffs
      /\ stale' = stale \/ stale' = (stale /\ ~Varies)
      /\ ybus' = [side |-> Side, matrix |-> Base]
  BY DEF ComputeChecksThrow, TellBaseDiverged, ComputeBaseDiverges, Begins, Prepares
<1>2. TypeOK /\ Fits /\ NbRows \in Nat
  BY <1>1, RowTyped DEF SweepInv, ReportsTypeOK
<1>3. FALSE \in BOOLEAN /\ NoAnswer \in Answers
  BY DEF Answers
<1>4. /\ conv' \in Seq(BOOLEAN)
      /\ volts' \in Seq(Answers) /\ DOMAIN volts' = 1 .. NbRows
      /\ \A i \in 1 .. NbRows : volts'[i] = NoAnswer
  BY <1>1, <1>2, <1>3, NoRowsTyped
<1>5. coeffs' \in Seq(SUBSET Branches) /\ ybus' \in [side : {"none", "AC", "DC"}, matrix : Matrices]
  <2>1. coeffs' \in Seq(SUBSET Branches)
    BY <1>1, <1>2, RowTyped
  <2> QED BY <1>1, <2>1, EditsUndone DEF Side
<1>6. /\ reports'.rows \in Seq(RowReports) /\ reports'.n.told \in {"nothing", "diverged", "checked"}
      /\ setup.limits => DOMAIN reports'.rows = 1 .. NbRows
      /\ \A i \in DOMAIN reports'.rows : reports'.rows[i].told \in {"nothing", "diverged"}
      /\ ~setup.limits => reports'.rows = <<>>
  <2> DEFINE diverged == [n |-> Sentinel("diverged"), rows |-> NoRows(Sentinel("diverged"))]
  <2>1. \/ reports' = reports /\ ~setup.limits
        \/ setup.limits /\ reports' = Reset
        \/ setup.limits /\ reports' = diverged
    BY DEF TellBaseDiverged
  <2>2. CASE reports' = reports /\ ~setup.limits
    <3>1. reports.rows = <<>>
      BY <2>2 DEF SweepInv, ReportsFit
    <3>2. \A i \in DOMAIN <<>> : FALSE
      OBVIOUS
    <3> QED BY <2>2, <3>1, <3>2 DEF SweepInv, ReportsTypeOK
  <2>3. CASE setup.limits /\ reports' = Reset
    BY <1>2, <2>3, ResetTyped
  <2>4. CASE setup.limits /\ reports' = diverged
    <3>1. Sentinel("diverged") \in RowReports /\ Sentinel("diverged").told = "diverged"
      BY DEF RowReports, Sentinel
    <3>2. diverged.rows = NoRows(Sentinel("diverged")) /\ diverged.n = Sentinel("diverged")
      OBVIOUS
    <3> HIDE DEF diverged
    <3>3. /\ reports'.rows = NoRows(Sentinel("diverged")) /\ reports'.n.told = "diverged"
          /\ setup.limits
      BY <2>4, <3>1, <3>2
    <3>4. /\ NoRows(Sentinel("diverged")) \in Seq(RowReports)
          /\ DOMAIN NoRows(Sentinel("diverged")) = 1 .. NbRows
          /\ \A i \in 1 .. NbRows : NoRows(Sentinel("diverged"))[i] = Sentinel("diverged")
      BY <1>2, <3>1, NoRowsTyped
    <3> QED BY <3>1, <3>3, <3>4
  <2> QED BY <2>1, <2>2, <2>3, <2>4
<1>7. ReportsTypeOK'
  BY <1>1, <1>4, <1>5, <1>6, EmptySeq DEF SweepInv, ReportsTypeOK, TypeOK, inputs, NoCounts
<1>8. Fits'
  <2>1. ~Varies => ~stale'
    BY <1>1, <1>2 DEF Fits
  <2>2. /\ AxisFits(asked.inj)' /\ AxisFits(asked.targets)' /\ AxisFits(asked.masks)'
        /\ setup' = setup /\ kind' = kind
    BY <1>1, <1>2 DEF Fits, AxisFits, inputs
  <2> QED BY <1>2, <2>1, <2>2 DEF Fits, Contingent, Varies, Chained
<1>9. NbRows' = NbRows /\ setup' = setup
  BY <1>1, InputsSame DEF inputs
<1>10. \A i \in DOMAIN reports'.rows :
          \/ reports'.rows[i].told = "nothing"
          \/ reports'.rows[i].told = "diverged" /\ i \in DOMAIN volts'
  <2>1. DOMAIN <<>> = {}
    OBVIOUS
  <2> QED BY <1>4, <1>6, <2>1
<1> QED BY <1>1, <1>4, <1>6, <1>7, <1>8, <1>9, <1>10, EmptyStep

(* The calls that drop the results.                                        *)
LEMMA Dropping ==
    ASSUME SweepInv, \/ Drops /\ reports' = NoReports /\ UNCHANGED threshold
                     \/ SetViolationThreshold /\ threshold' < threshold
    PROVE  SweepInv'
<1>1. /\ Free /\ phase' = "idle" /\ said' = <<>> /\ th' = <<>> /\ UNCHANGED <<kind, stale, ybus>>
      /\ volts' = <<>> /\ conv' = <<>> /\ flows' = <<>> /\ counts' = NoCounts /\ reports' = NoReports
      /\ threshold' \in Thresholds /\ status' \in {1, status} /\ coeffs' \in {<<>>, coeffs}
      /\ family' \in Families \cup {family}
  BY DEF Drops, AddContingency, RemoveContingency, ChangeList, Clear, ChangeAlgorithm,
         SetComputeLimitViolations, Clears, DropResults, SetViolationThreshold, Calling, inputs,
         SweepInv, ReportsTypeOK
<1>2. setup' \in [threads : 1 .. MaxThreads, mask : BOOLEAN, limits : BOOLEAN]
      /\ \/ setup' = setup
         \/ /\ setup'.mask = FALSE /\ setup'.threads = setup.threads
            /\ setup'.limits = setup.limits \/ Contingent
  <2>1. setup \in [threads : 1 .. MaxThreads, mask : BOOLEAN, limits : BOOLEAN]
    BY DEF SweepInv, ReportsTypeOK, TypeOK
  <2>2. \/ setup' = setup \/ setup' = [setup EXCEPT !.mask = FALSE]
        \/ Contingent /\ setup' = [setup EXCEPT !.mask = FALSE, !.limits = ~@]
    BY DEF Drops, AddContingency, RemoveContingency, ChangeList, Clear, ChangeAlgorithm,
           SetComputeLimitViolations, SetViolationThreshold, inputs
  <2> QED BY <2>1, <2>2
<1>3. asked' = NothingAsked \/ asked' = asked
      \/ \E L \in SUBSET Range(ListOrder) : asked' = [asked EXCEPT !.listed = L]
  <2>1. CASE AddContingency
    <3>1. PICK c \in Range(ListOrder) : asked' = [asked EXCEPT !.listed = asked.listed \cup {c}]
      BY <2>1 DEF AddContingency, ChangeList
    <3>2. asked.listed \cup {c} \in SUBSET Range(ListOrder)
      BY DEF SweepInv, ReportsTypeOK, TypeOK
    <3> QED BY <3>1, <3>2
  <2>2. CASE RemoveContingency
    <3>1. PICK c \in Range(ListOrder) : asked' = [asked EXCEPT !.listed = asked.listed \ {c}]
      BY <2>2 DEF RemoveContingency, ChangeList
    <3>2. asked.listed \ {c} \in SUBSET Range(ListOrder)
      BY DEF SweepInv, ReportsTypeOK, TypeOK
    <3> QED BY <3>1, <3>2
  <2>3. CASE Clear \/ ChangeAlgorithm \/ SetComputeLimitViolations
    BY <2>3 DEF Clear, ChangeAlgorithm, SetComputeLimitViolations, Clears
  <2>4. CASE SetViolationThreshold
    BY <2>4 DEF SetViolationThreshold, inputs
  <2> QED BY <2>1, <2>2, <2>3, <2>4 DEF Drops
<1>4. /\ asked' \in [inj : Seq(Injections), targets : Seq(Targets), masks : Seq(SUBSET Branches),
                     rows : Nat \cup {-1}, listed : SUBSET Range(ListOrder)]
      /\ AxisFits(asked.inj)' /\ AxisFits(asked.targets)' /\ AxisFits(asked.masks)'
  <2>1. asked \in [inj : Seq(Injections), targets : Seq(Targets), masks : Seq(SUBSET Branches),
                   rows : Nat \cup {-1}, listed : SUBSET Range(ListOrder)]
        /\ AxisFits(asked.inj) /\ AxisFits(asked.targets) /\ AxisFits(asked.masks)
    BY DEF SweepInv, ReportsTypeOK, TypeOK, Fits
  <2>2. CASE asked' = NothingAsked
    BY <2>2, EmptySeq DEF NothingAsked, AxisFits
  <2>3. CASE asked' = asked
    BY <2>1, <2>3 DEF AxisFits
  <2>4. CASE \E L \in SUBSET Range(ListOrder) : asked' = [asked EXCEPT !.listed = L]
    BY <2>1, <2>4 DEF AxisFits
  <2> QED BY <1>3, <2>2, <2>3, <2>4
<1>5. NoReports.rows = <<>> /\ NoReports.n.told = "nothing" /\ DOMAIN <<>> = {}
  BY DEF NoReports, Untold
<1>6. ReportsTypeOK'
  <2>1. TypeOK /\ Families \subseteq {"NR", "FD", "DC"}
    BY SweepAssumption DEF SweepInv, ReportsTypeOK
  <2>2. /\ kind' \in AllKinds /\ family' \in {"NR", "FD", "DC"} /\ stale' \in BOOLEAN
        /\ ybus' \in [side : {"none", "AC", "DC"}, matrix : Matrices] /\ status' \in {0, 1}
    BY <1>1, <2>1 DEF TypeOK
  <2>3. /\ coeffs' \in Seq(SUBSET Branches) /\ volts' \in Seq(Answers) /\ conv' \in Seq(BOOLEAN)
        /\ counts' \in [solved : Nat, converged : Nat] /\ said' \in Seq(BOOLEAN)
        /\ flows' \in Seq([of : Answers, zeroed : SUBSET Branches])
    BY <1>1, <2>1, EmptySeq DEF TypeOK, NoCounts
  <2>4. phase' \in {"idle", "running", "returned", "crashed"}
        /\ DOMAIN th' \subseteq 0 .. MaxThreads - 1 /\ \A t \in DOMAIN th' : th'[t] \in Workers
    BY <1>1
  <2>5. /\ reports'.rows \in Seq(RowReports) /\ threshold' \in Thresholds
        /\ reports'.n.told \in {"nothing", "diverged", "checked"}
    BY <1>1, <1>5, EmptySeq
  <2> QED BY <1>2, <1>4, <2>2, <2>3, <2>4, <2>5 DEF ReportsTypeOK, TypeOK
<1>7. Fits'
  BY <1>1, <1>2, <1>4 DEF SweepInv, Fits, Contingent, Varies, Chained
<1> QED BY <1>1, <1>5, <1>6, <1>7, EmptyStep

LEMMA Loosening ==
    ASSUME SweepInv, SetViolationThreshold, ~(threshold' < threshold)
    PROVE  SweepInv'
<1>1. /\ Free /\ phase' = "idle" /\ said' = <<>> /\ th' = <<>> /\ threshold' \in Thresholds
      /\ UNCHANGED <<inputs, stale, coeffs, ybus, status, volts, conv, counts, flows, reports>>
  BY DEF SetViolationThreshold, Calling
<1>2. ReportsTypeOK'
  BY <1>1, EmptySeq DEF SweepInv, ReportsTypeOK, TypeOK, inputs
<1>3. Fits'
  BY <1>1 DEF SweepInv, Fits, AxisFits, Contingent, Varies, Chained, inputs
<1>4. threshold <= threshold'
  BY <1>1, ReportsAssumption DEF SweepInv, ReportsTypeOK
<1> QED BY <1>1, <1>2, <1>3, <1>4, QuietStep DEF inputs

-----------------------------------------------------------------------------
(* The workers.                                                            *)

LEMMA WorkersSame ==
    ASSUME UNCHANGED inputs
    PROVE  /\ NbRows' = NbRows /\ NbWorkers' = NbWorkers /\ RowFlags' = RowFlags
           /\ \A t : Begin(t)' = Begin(t)
<1>1. NbRows' = NbRows /\ Side' = Side /\ setup' = setup
  BY InputsSame DEF inputs
<1>2. NbWorkers' = NbWorkers
  BY <1>1 DEF NbWorkers, Least
<1> QED BY <1>1, <1>2 DEF RowFlags, Begin

LEMMA WorkerFitsNext ==
    ASSUME UNCHANGED inputs, NEW t,
           Begin(t) < th'[t].next, th'[t].next <= th'[t].last + 1,
           th'[t].last = SplitEnd(NbRows, NbWorkers, t),
           \A i \in th'[t].next .. th'[t].last : volts'[i] = NoAnswer,
           ~th'[t].error =>
              /\ Clean(th'[t].matrix, th'[t].algo, th'[t].ctl)
              /\ th'[t].next <= th'[t].last =>
                    th'[t].seed = IF Chained /\ Side = "AC" THEN th'[t].next - 1 ELSE 0
              /\ setup.limits => \A i \in Begin(t) + 1 .. th'[t].next - 1 :
                    /\ reports'.rows[i].told # "nothing"
                    /\ reports'.rows[i].told = "not simulated" <=> Forbidden(i)'
    PROVE  WorkerFits(t)'
<1>1. /\ NbRows' = NbRows /\ NbWorkers' = NbWorkers /\ RowFlags' = RowFlags
      /\ Begin(t)' = Begin(t) /\ setup' = setup
      /\ Side' = Side /\ Contingent' = Contingent /\ Chained' = Chained
  BY InputsSame, WorkersSame DEF inputs
<1>2. InRange(t)'
  BY <1>1 DEF InRange
<1>3. ASSUME ~th'[t].error
      PROVE  Clean(th[t].matrix, th[t].algo, th[t].ctl)'
  BY <1>1, <1>3 DEF Clean
<1>4. ASSUME ~th'[t].error
      PROVE  Seeded(t)' /\ ToldBehind(t)'
  BY <1>1, <1>4 DEF Seeded, ToldBehind
<1> QED BY <1>2, <1>3, <1>4 DEF WorkerFits

(* The powerflow without contingency leaves an algorithm that has no trace *)
(* of a row either.                                                        *)
LEMMA BaseAlgo ==
    ASSUME NEW o \in BaseOutcomes, o.conv
    PROVE  /\ o.algo \in Algos /\ FreshAlgo \in Algos /\ Plain(FreshAlgo)
           /\ Side = "AC" => o.algo.mask = {}
           /\ Side # "AC" => /\ Plain(o.algo) /\ o.algo.built /\ ~o.algo.factorize
                             /\ o.algo.matrix = Base /\ o.algo.inj = GridInjection /\ o.algo.mask = {}
<1>1. FreshAlgo \in Algos /\ Plain(FreshAlgo) /\ FreshAlgo.mask = {} /\ FreshAlgo.factorize = TRUE
  BY AlgoTyped DEF FreshAlgo, Plain
<1>2. CASE Side = "AC"
  <2>1. o \in AcOutcomes(FreshAlgo, Base, GridInjection)
    BY <1>2 DEF BaseOutcomes, Outcomes
  <2>2. o.algo = FreshAlgo
    BY <2>1 DEF AcOutcomes, Outcome
  <2> QED BY <1>1, <1>2, <2>2
<1>3. CASE Side # "AC"
  <2>1. o \in DcOutcomes(FreshAlgo, GridInjection, AllChanged)
    BY <1>3 DEF BaseOutcomes, Outcomes, Side
  <2>2. "sbus" \in AllChanged /\ GridInjection \in Injections
    BY SweepAssumption DEF AllChanged, Flags
  <2>3. /\ o.algo \in Algos /\ Plain(o.algo) /\ o.algo.built
        /\ ~o.algo.factorize /\ o.algo.matrix = Base /\ o.algo.inj = GridInjection
    BY <1>1, <2>1, <2>2, DcPlain
  <2> QED BY <1>1, <1>3, <2>3 DEF Plain
<1> QED BY <1>2, <1>3

LEMMA WorkerStarts ==
    ASSUME SweepInv, UNCHANGED inputs, phase' = "running", Sound', NbRows \in Nat,
           NEW o \in BaseOutcomes, o.conv, NEW t \in 0 .. NbWorkers - 1
    PROVE  LET w == Worker(t, o.algo)
           IN  /\ w \in Workers
               /\ w.next = Begin(t) + 1 /\ w.last = SplitEnd(NbRows, NbWorkers, t)
               /\ w.next <= w.last + 1 /\ Begin(t) \in Nat
               /\ Clean(w.matrix, w.algo, w.ctl) /\ w.error = FALSE
               /\ w.seed = IF Chained /\ Side = "AC" THEN w.next - 1 ELSE 0
<1> DEFINE w == Worker(t, o.algo)
<1>1. TypeOK /\ Fits
  BY DEF SweepInv, ReportsTypeOK
<1>2. NbWorkers \in 1 .. MaxThreads /\ (setup.threads = 1 \/ NbRows <= 1 => NbWorkers = 1)
  BY <1>1, NbWorkersIs
<1>3. MaxThreads \in Nat \ {0} /\ NbWorkers \in Nat \ {0} /\ t \in Nat
  BY <1>2, SweepAssumption
<1>4. /\ Begin(t) \in Nat /\ SplitEnd(NbRows, NbWorkers, t) \in Nat
      /\ Begin(t) <= SplitEnd(NbRows, NbWorkers, t) /\ SplitBegin(NbRows, NbWorkers, 0) = 0
  BY <1>3, SplitFollows DEF Begin
<1> DEFINE algo == IF NbWorkers = 1 THEN o.algo ELSE FreshAlgo
           ctl == IF NbWorkers = 1 THEN RowFlags ELSE AllChanged
<1>5. w = [next |-> Begin(t) + 1, last |-> SplitEnd(NbRows, NbWorkers, t), matrix |-> Base, seed |-> 0,
           algo |-> algo, ctl |-> ctl, solved |-> 0, converged |-> 0, diverged |-> FALSE, error |-> FALSE]
  BY DEF Worker, Begin
<1>6. algo \in Algos /\ ctl \in SUBSET Flags
  BY BaseAlgo DEF RowFlags, AllChanged, Flags
<1>7. Clean(Base, algo, ctl)
  <2>1. CASE Side = "AC"
    BY <2>1, BaseAlgo DEF Clean, Plain
  <2>2. CASE Side # "AC" /\ ~Contingent
    <3>1. Plain(algo)
      BY <2>2, BaseAlgo
    <3>2. "sbus" \in ctl
      BY <1>1, <2>2 DEF RowFlags, AllChanged, Flags, Fits, Side
    <3> QED BY <2>2, <3>1, <3>2 DEF Clean
  <2>3. CASE Side # "AC" /\ Contingent
    <3>1. Side' = "DC" /\ Contingent' /\ setup' = setup /\ NbRows' = NbRows
      BY <2>3, InputsSame DEF inputs, Side
    <3>2. NbWorkers = 1
      BY <1>2, <3>1 DEF Sound
    <3> QED BY <2>3, <3>2, BaseAlgo DEF Clean
  <2> QED BY <2>1, <2>2, <2>3
<1> HIDE DEF algo, ctl
<1>8. w \in Workers
  BY <1>4, <1>5, <1>6, EditsUndone DEF Workers
<1>9. 0 = IF Chained /\ Side = "AC" THEN w.next - 1 ELSE 0
  <2>1. CASE Chained
    <3>1. t = 0
      BY <1>1, <1>2, <2>1 DEF Fits
    <3> QED BY <1>4, <1>5, <3>1 DEF Begin
  <2> QED BY <2>1
<1> HIDE DEF w
<1>10. /\ w.next = Begin(t) + 1 /\ w.last = SplitEnd(NbRows, NbWorkers, t) /\ w.matrix = Base
       /\ w.algo = algo /\ w.ctl = ctl /\ w.error = FALSE /\ w.seed = 0
  BY <1>5
<1> QED BY <1>4, <1>7, <1>8, <1>9, <1>10 DEF w

LEMMA Starting ==
    ASSUME SweepInv, TellBase, UNCHANGED threshold, Sound'
    PROVE  SweepInv'
<1>1. /\ Free /\ phase' = "running" /\ said' = <<>> /\ status' = 0 /\ counts' = NoCounts
      /\ UNCHANGED inputs /\ stale' = stale /\ NbRows >= 0 /\ conv' = NoRows(FALSE)
      /\ flows' = <<>> /\ volts' = NoRows(NoAnswer) /\ coeffs' = FreshCoeffs
      /\ ybus' = [side |-> Side, matrix |-> Base]
  BY DEF TellBase, ComputeStarts, Begins, Prepares
<1>2. TypeOK /\ Fits /\ NbRows \in Nat
  BY <1>1, RowTyped DEF SweepInv, ReportsTypeOK
<1>3. PICK o \in BaseOutcomes : o.conv /\ th' = [t \in 0 .. NbWorkers - 1 |-> Worker(t, o.algo)]
  BY DEF TellBase, ComputeStarts
<1>4. FALSE \in BOOLEAN /\ NoAnswer \in Answers
  BY DEF Answers
<1>5. /\ conv' \in Seq(BOOLEAN) /\ DOMAIN conv' = 1 .. NbRows
      /\ volts' \in Seq(Answers) /\ DOMAIN volts' = 1 .. NbRows
      /\ \A i \in 1 .. NbRows : volts'[i] = NoAnswer
  BY <1>1, <1>2, <1>4, NoRowsTyped
<1>6. coeffs' \in Seq(SUBSET Branches) /\ ybus' \in [side : {"none", "AC", "DC"}, matrix : Matrices]
  <2>1. coeffs' \in Seq(SUBSET Branches)
    BY <1>1, <1>2, RowTyped
  <2> QED BY <1>1, <2>1, EditsUndone DEF Side
<1>7. /\ reports'.rows \in Seq(RowReports) /\ reports'.n.told \in {"nothing", "diverged", "checked"}
      /\ setup.limits => reports'.n.told = "checked" /\ DOMAIN reports'.rows = 1 .. NbRows
      /\ \A i \in DOMAIN reports'.rows : reports'.rows[i].told = "nothing"
      /\ ~setup.limits => reports'.rows = <<>>
  <2>1. CASE ~setup.limits
    <3>1. reports' = reports /\ reports.rows = <<>>
      BY <2>1 DEF TellBase, SweepInv, ReportsFit
    <3>2. \A i \in DOMAIN <<>> : FALSE
      OBVIOUS
    <3> QED BY <2>1, <3>1, <3>2 DEF SweepInv, ReportsTypeOK
  <2>2. CASE setup.limits
    <3>1. reports' = [Reset EXCEPT !.n = [told |-> "checked", at |-> threshold]]
      BY <2>2 DEF TellBase
    <3>2. reports'.rows = Reset.rows /\ reports'.n.told = "checked"
      BY <3>1 DEF Reset
    <3> QED BY <1>2, <2>2, <3>2, ResetTyped
  <2> QED BY <2>1, <2>2
<1>8. /\ NbWorkers \in 1 .. MaxThreads /\ NbWorkers \in Nat \ {0}
      /\ DOMAIN th' = 0 .. NbWorkers - 1 /\ DOMAIN th' \subseteq 0 .. MaxThreads - 1
  BY <1>2, <1>3, NbWorkersIs, SweepAssumption
<1>9. ASSUME NEW t \in 0 .. NbWorkers - 1
      PROVE  th'[t] \in Workers /\ WorkerFits(t)'
  <2>1. /\ th'[t] \in Workers
        /\ th'[t].next = Begin(t) + 1 /\ th'[t].last = SplitEnd(NbRows, NbWorkers, t)
        /\ th'[t].next <= th'[t].last + 1 /\ Begin(t) \in Nat
        /\ Clean(th'[t].matrix, th'[t].algo, th'[t].ctl) /\ th'[t].error = FALSE
        /\ th'[t].seed = IF Chained /\ Side = "AC" THEN th'[t].next - 1 ELSE 0
    <3> DEFINE w == Worker(t, o.algo)
    <3>1. th'[t] = w
      BY <1>3
    <3>2. /\ w \in Workers /\ w.next = Begin(t) + 1 /\ w.last = SplitEnd(NbRows, NbWorkers, t)
          /\ w.next <= w.last + 1 /\ Begin(t) \in Nat
          /\ Clean(w.matrix, w.algo, w.ctl) /\ w.error = FALSE
          /\ w.seed = IF Chained /\ Side = "AC" THEN w.next - 1 ELSE 0
      BY <1>1, <1>2, <1>3, WorkerStarts
    <3> HIDE DEF w
    <3> QED BY <3>1, <3>2
  <2>2. \A i \in th'[t].next .. th'[t].last : volts'[i] = NoAnswer
    <3>1. \A i \in 1 .. NbRows : volts'[i] = NoAnswer
      BY <1>5
    <3>2. SplitEnd(NbRows, NbWorkers, t) \in Nat /\ SplitEnd(NbRows, NbWorkers, t) <= NbRows
      BY <1>2, <1>8, SplitWithin
    <3> QED BY <1>2, <2>1, <3>1, <3>2
  <2>3. Begin(t) + 1 .. th'[t].next - 1 = {} /\ Begin(t) < th'[t].next
    BY <2>1
  <2> QED BY <1>1, <2>1, <2>2, <2>3, WorkerFitsNext
<1>10. ReportsTypeOK'
  <2>1. \A t \in DOMAIN th' : th'[t] \in Workers
    BY <1>8, <1>9
  <2>2. counts' \in [solved : Nat, converged : Nat] /\ flows' \in Seq([of : Answers, zeroed : SUBSET Branches])
        /\ said' \in Seq(BOOLEAN)
    BY <1>1, EmptySeq DEF NoCounts
  <2> QED BY <1>1, <1>5, <1>6, <1>7, <1>8, <2>1, <2>2 DEF SweepInv, ReportsTypeOK, TypeOK, inputs
<1>11. Fits'
  BY <1>1 DEF SweepInv, Fits, AxisFits, Contingent, Varies, Chained, inputs
<1>12. NbRows' = NbRows /\ FreshCoeffs' = FreshCoeffs /\ NbWorkers' = NbWorkers /\ setup' = setup
  BY <1>1, InputsSame, WorkersSame DEF inputs
<1>13. Running'
  BY <1>1, <1>2, <1>5, <1>7, <1>8, <1>9, <1>12 DEF Running
<1>14. AnswersRight'
  BY <1>5, <1>12 DEF AnswersRight
<1>15. FlowsMatchInputs'
  BY <1>1 DEF FlowsMatchInputs
<1>16. ReportsTellRows' /\ ReportsFit'
  BY <1>7, <1>12 DEF ReportsTellRows, ReportsFit
<1>17. EveryRowIsTold' /\ NeverCrashes'
  BY <1>1 DEF EveryRowIsTold, NeverCrashes
<1> QED BY <1>10, <1>11, <1>13, <1>14, <1>15, <1>16, <1>17 DEF SweepInv

(* No two workers share a row.                                             *)
LEMMA RowsApart ==
    ASSUME NEW n \in Nat, NEW nb \in Nat \ {0}, NEW t \in 0 .. nb - 1, NEW u \in 0 .. nb - 1, t # u,
           NEW i \in Nat, SplitBegin(n, nb, t) < i, i <= SplitEnd(n, nb, t)
    PROVE  ~(SplitBegin(n, nb, u) < i /\ i <= SplitEnd(n, nb, u))
<1>1. t \in Nat /\ u \in Nat
  OBVIOUS
<1>2. /\ SplitBegin(n, nb, t) \in Nat /\ SplitEnd(n, nb, t) \in Nat
      /\ SplitBegin(n, nb, u) \in Nat /\ SplitEnd(n, nb, u) \in Nat
  BY SplitWithin
<1>3. CASE t < u
  <2>1. SplitEnd(n, nb, t) <= SplitBegin(n, nb, u)
    BY <1>1, <1>3, SplitOrdered
  <2> QED BY <1>2, <2>1
<1>4. CASE u < t
  <2>1. SplitEnd(n, nb, u) <= SplitBegin(n, nb, t)
    BY <1>1, <1>4, SplitOrdered
  <2> QED BY <1>2, <2>1
<1> QED BY <1>1, <1>3, <1>4

LEMMA ForbiddenSame ==
    ASSUME UNCHANGED <<inputs, coeffs>>
    PROVE  \A i : Forbidden(i)' = Forbidden(i)
<1>1. setup' = setup /\ Side' = Side /\ Contingent' = Contingent
  BY InputsSame DEF inputs
<1>2. \A i : Skipped(i)' = Skipped(i)
  BY SkippedIs
<1> QED BY <1>1, <1>2 DEF Forbidden

(* A row touches its own voltages, report and worker only.                 *)
RowTold(i, report, answer) ==
    /\ report.told = "checked" =>
          /\ report.of = answer /\ Without(report.skipped) = answer.matrix
          /\ report.unchecked = answer.mask /\ report.at <= threshold
    /\ report.told \in {"diverged", "not simulated"} => answer = NoAnswer

LEMMA RowStep ==
    ASSUME SweepInv, NEW t, AtRow(t),
           UNCHANGED <<inputs, stale, coeffs, ybus, status, counts, flows, said, phase, threshold>>,
           conv' \in Seq(BOOLEAN), DOMAIN conv' = 1 .. NbRows,
           volts' \in Seq(Answers), DOMAIN volts' = 1 .. NbRows,
           \A j \in 1 .. NbRows : j # th[t].next => volts'[j] = volts[j],
           volts'[th[t].next] \in {NoAnswer, Problem(th[t].next)},
           reports'.n = reports.n, reports'.rows \in Seq(RowReports),
           DOMAIN reports'.rows = DOMAIN reports.rows,
           \A j \in DOMAIN reports.rows : j # th[t].next => reports'.rows[j] = reports.rows[j],
           setup.limits => RowTold(th[t].next, reports'.rows[th[t].next], volts'[th[t].next]),
           DOMAIN th' = DOMAIN th, th'[t] \in Workers, WorkerFits(t)',
           \A u \in DOMAIN th : u # t => th'[u] = th[u]
    PROVE  SweepInv'
<1> DEFINE i == th[t].next
<1>1. /\ t \in 0 .. NbWorkers - 1 /\ i \in 1 .. NbRows /\ NbRows \in Nat /\ NbWorkers \in Nat \ {0}
      /\ Begin(t) < i /\ i <= SplitEnd(NbRows, NbWorkers, t) /\ Begin(t) \in Nat
  BY AtRowTyped
<1>2. phase = "running" /\ Running /\ Sound /\ TypeOK /\ Fits
  BY DEF AtRow, SweepInv, ReportsTypeOK
<1>3. /\ NbRows' = NbRows /\ FreshCoeffs' = FreshCoeffs /\ NbWorkers' = NbWorkers /\ setup' = setup
      /\ RowFlags' = RowFlags /\ Side' = Side /\ Contingent' = Contingent /\ Chained' = Chained
      /\ \A j : Problem(j)' = Problem(j) /\ Begin(j)' = Begin(j) /\ Forbidden(j)' = Forbidden(j)
  BY InputsSame, WorkersSame, ForbiddenSame DEF inputs
<1>4. ReportsTypeOK'
  <2>1. \A u \in DOMAIN th' : th'[u] \in Workers
    BY <1>2 DEF TypeOK
  <2> QED BY <2>1 DEF SweepInv, ReportsTypeOK, TypeOK, inputs
<1>5. Fits'
  BY <1>2 DEF Fits, AxisFits, Contingent, Varies, Chained, inputs
<1>6. AnswersRight'
  <2>1. SUFFICES ASSUME NEW j \in 1 .. NbRows, volts'[j] # NoAnswer PROVE volts'[j] = Problem(j)
    BY <1>3 DEF AnswersRight
  <2>2. j # i => volts'[j] = volts[j] /\ j \in DOMAIN volts
    BY <1>2 DEF Running
  <2>3. j \in DOMAIN volts /\ volts[j] # NoAnswer => volts[j] = Problem(j)
    BY <1>2 DEF SweepInv, AnswersRight
  <2> QED BY <2>1, <2>2, <2>3
<1>7. FlowsMatchInputs'
  BY DEF SweepInv, FlowsMatchInputs, Contingent, inputs
<1>8. ~setup.limits => reports'.rows = <<>>
  <2>1. SUFFICES ASSUME ~setup.limits PROVE reports'.rows = <<>>
    OBVIOUS
  <2>2. reports.rows = <<>>
    BY <2>1 DEF SweepInv, ReportsFit
  <2>3. DOMAIN reports'.rows = 1 .. Len(reports'.rows) /\ Len(reports'.rows) \in Nat
    BY SeqIs
  <2>4. \A j \in DOMAIN <<>> : FALSE
    OBVIOUS
  <2>5. 1 \notin DOMAIN reports'.rows
    BY <2>2, <2>4
  <2>6. Len(reports'.rows) = 0
    BY <2>3, <2>5
  <2> QED BY <2>6, EmptySeq
<1>9. ReportsTellRows' /\ ReportsFit'
  <2>1. CASE ~setup.limits
    <3>1. \A j \in DOMAIN <<>> : FALSE
      OBVIOUS
    <3> QED BY <1>3, <1>8, <2>1, <3>1 DEF ReportsTellRows, ReportsFit
  <2>2. CASE setup.limits
    <3>1. DOMAIN reports.rows = 1 .. NbRows
      BY <1>2, <2>2 DEF Running
    <3>2. ASSUME NEW j \in 1 .. NbRows
          PROVE  RowTold(j, reports'.rows[j], volts'[j])
      <4>1. CASE j = i
        BY <2>2, <4>1
      <4>2. CASE j # i
        BY <3>1, <4>2 DEF SweepInv, ReportsTellRows, RowTold
      <4> QED BY <4>1, <4>2
    <3> QED BY <1>3, <2>2, <3>1, <3>2 DEF ReportsTellRows, ReportsFit, RowTold
  <2> QED BY <2>1, <2>2
<1>10. ASSUME NEW u \in DOMAIN th, u # t PROVE WorkerFits(u)'
  <2>1. /\ WorkerFits(u) /\ u \in 0 .. NbWorkers - 1 /\ th'[u] = th[u]
    BY <1>2, <1>10 DEF Running
  <2>2. ~(Begin(u) < i /\ i <= SplitEnd(NbRows, NbWorkers, u)) /\ Begin(u) \in Nat
        /\ SplitEnd(NbRows, NbWorkers, u) \in Nat /\ SplitEnd(NbRows, NbWorkers, u) <= NbRows
    <3>1. u # t /\ i \in Nat /\ SplitBegin(NbRows, NbWorkers, t) < i
      BY <1>1, <1>10 DEF Begin
    <3> HIDE DEF i
    <3>2. ~(SplitBegin(NbRows, NbWorkers, u) < i /\ i <= SplitEnd(NbRows, NbWorkers, u))
      BY <1>1, <2>1, <3>1, RowsApart
    <3> QED BY <1>1, <2>1, <3>2, SplitWithin DEF Begin
  <2>3. /\ Begin(u) < th[u].next /\ th[u].next <= th[u].last + 1
        /\ th[u].last = SplitEnd(NbRows, NbWorkers, u)
        /\ \A j \in th[u].next .. th[u].last : volts[j] = NoAnswer
    BY <2>1 DEF WorkerFits, InRange
  <2>4. th[u].next \in Nat
    BY <1>2, <1>10 DEF TypeOK, Workers
  <2>5. \A j \in th[u].next .. th[u].last : volts'[j] = NoAnswer
    <3>1. SUFFICES ASSUME NEW j \in th[u].next .. th[u].last PROVE volts'[j] = NoAnswer
      OBVIOUS
    <3>2. j # i /\ j \in 1 .. NbRows
      BY <1>1, <2>2, <2>3, <2>4
    <3> QED BY <2>3, <3>2
  <2>6. ASSUME ~th[u].error
        PROVE  /\ Clean(th[u].matrix, th[u].algo, th[u].ctl)
               /\ th[u].next <= th[u].last =>
                     th[u].seed = IF Chained /\ Side = "AC" THEN th[u].next - 1 ELSE 0
               /\ setup.limits => \A j \in Begin(u) + 1 .. th[u].next - 1 :
                     /\ reports'.rows[j].told # "nothing"
                     /\ reports'.rows[j].told = "not simulated" <=> Forbidden(j)'
    <3>1. /\ Clean(th[u].matrix, th[u].algo, th[u].ctl)
          /\ th[u].next <= th[u].last =>
                th[u].seed = IF Chained /\ Side = "AC" THEN th[u].next - 1 ELSE 0
      BY <2>1, <2>6 DEF WorkerFits, Seeded
    <3>2. ASSUME setup.limits, NEW j \in Begin(u) + 1 .. th[u].next - 1
          PROVE  /\ reports'.rows[j].told # "nothing"
                 /\ reports'.rows[j].told = "not simulated" <=> Forbidden(j)'
      <4>1. j # i /\ j \in 1 .. NbRows
        BY <1>1, <2>2, <2>3, <2>4
      <4>2. reports'.rows[j] = reports.rows[j]
        BY <1>2, <3>2, <4>1 DEF Running
      <4>3. /\ reports.rows[j].told # "nothing"
            /\ reports.rows[j].told = "not simulated" <=> Forbidden(j)
        BY <2>1, <2>6, <3>2 DEF WorkerFits, ToldBehind
      <4> QED BY <1>3, <4>2, <4>3
    <3> QED BY <3>1, <3>2
  <2> QED BY <2>1, <2>3, <2>5, <2>6, WorkerFitsNext
<1>11. Running'
  <2>1. \A u \in DOMAIN th' : WorkerFits(u)'
    BY <1>10
  <2> QED BY <1>1, <1>2, <1>3, <2>1 DEF Running
<1>12. Sound' /\ EveryRowIsTold' /\ NeverCrashes'
  <2>1. \A j : Out(j)' = Out(j)
    BY InputsSame DEF inputs
  <2>2. Varies' = Varies
    BY InputsSame DEF inputs
  <2> QED BY <1>2, <1>3, <2>1, <2>2 DEF Sound, EveryRowIsTold, NeverCrashes
<1> QED BY <1>4, <1>5, <1>6, <1>7, <1>9, <1>11, <1>12 DEF SweepInv

LEMMA AfterRowTyped ==
    ASSUME NEW w \in Workers, NEW ok \in BOOLEAN
    PROVE  LET v == AfterRow(w, ok)
           IN  /\ v \in Workers /\ v.last = w.last /\ v.matrix = w.matrix /\ v.algo = w.algo
               /\ v.seed = w.seed /\ v.error = w.error /\ v.ctl = RowFlags
               /\ v.solved = w.solved /\ v.converged = w.converged /\ v.diverged = (w.diverged \/ ~ok)
               /\ v.next = IF ok \/ ~Chained THEN w.next + 1 ELSE w.last + 1
<1>1. w.next \in Nat /\ w.last \in Nat /\ w.diverged \in BOOLEAN
  BY DEF Workers
<1> DEFINE n == IF ok \/ ~Chained THEN w.next + 1 ELSE w.last + 1
           d == w.diverged \/ ~ok
<1>2. n \in Nat /\ d \in BOOLEAN /\ RowFlags \in SUBSET Flags
  BY <1>1 DEF RowFlags, Flags
<1>3. AfterRow(w, ok) = [w EXCEPT !.next = n, !.diverged = d, !.ctl = RowFlags]
  BY DEF AfterRow
<1> HIDE DEF d, n
<1>4. LET v == AfterRow(w, ok)
      IN  /\ v \in Workers /\ v.last = w.last /\ v.matrix = w.matrix /\ v.algo = w.algo
          /\ v.seed = w.seed /\ v.error = w.error /\ v.ctl = RowFlags
          /\ v.solved = w.solved /\ v.converged = w.converged /\ v.diverged = d /\ v.next = n
  BY <1>2, <1>3 DEF Workers
<1> QED BY <1>4 DEF d, n

(* A worker that ends a row is ready for the next one.                     *)
RowEnds(t, ok) ==
    /\ th'[t] \in Workers /\ th'[t].last = th[t].last
    /\ th'[t].next = IF ok \/ ~Chained THEN th[t].next + 1 ELSE th[t].last + 1
    /\ \A j \in 1 .. NbRows : j # th[t].next => volts'[j] = volts[j]
    /\ \A j \in DOMAIN reports.rows : j # th[t].next => reports'.rows[j] = reports.rows[j]
    /\ ~th'[t].error =>
          /\ Clean(th'[t].matrix, th'[t].algo, th'[t].ctl)
          /\ ok \/ ~Chained => th'[t].seed = IF Chained /\ Side = "AC" THEN th[t].next ELSE 0
          /\ setup.limits =>
                /\ reports'.rows[th[t].next].told # "nothing"
                /\ reports'.rows[th[t].next].told = "not simulated" <=> Forbidden(th[t].next)

LEMMA Advances ==
    ASSUME SweepInv, NEW t, AtRow(t), UNCHANGED <<inputs, coeffs>>, NEW ok \in BOOLEAN, RowEnds(t, ok)
    PROVE  WorkerFits(t)'
<1> DEFINE i == th[t].next
           e == th[t].last
           n == th'[t].next
           b == Begin(t)
<1>1. /\ t \in 0 .. NbWorkers - 1 /\ i \in 1 .. NbRows /\ NbRows \in Nat /\ NbWorkers \in Nat \ {0}
      /\ b < i /\ i <= e /\ b \in Nat /\ th[t] \in Workers
      /\ e = SplitEnd(NbRows, NbWorkers, t) /\ WorkerFits(t) /\ ~th[t].error
  BY AtRowTyped
<1>2. e \in Nat /\ e <= NbRows
  <2>1. SplitEnd(NbRows, NbWorkers, t) \in Nat /\ SplitEnd(NbRows, NbWorkers, t) <= NbRows
    BY <1>1, SplitWithin
  <2> HIDE DEF e
  <2> QED BY <1>1, <2>1
<1>3. n = i + 1 \/ (n = e + 1 /\ Chained)
  BY DEF RowEnds
<1>4. n = e + 1 \/ (n = i + 1 /\ (ok \/ ~Chained))
  BY DEF RowEnds
<1>5. /\ WorkerFits(t) /\ th'[t].last = e
      /\ \A j \in i .. e : volts[j] = NoAnswer
      /\ \A j \in 1 .. NbRows : j # i => volts'[j] = volts[j]
  BY <1>1 DEF WorkerFits, InRange, RowEnds
<1>6. ASSUME ~th'[t].error, setup.limits
      PROVE  /\ DOMAIN reports.rows = 1 .. NbRows /\ ~Chained
             /\ \A j \in b + 1 .. i - 1 : /\ reports.rows[j].told # "nothing"
                                          /\ reports.rows[j].told = "not simulated" <=> Forbidden(j)
             /\ \A j \in 1 .. NbRows : j # i => reports'.rows[j] = reports.rows[j]
             /\ reports'.rows[i].told # "nothing"
             /\ reports'.rows[i].told = "not simulated" <=> Forbidden(i)
  <2>1. ~Chained /\ Running
    BY <1>6 DEF SweepInv, Fits, Chained, Contingent, AtRow
  <2> QED BY <1>1, <1>6, <2>1 DEF Running, WorkerFits, ToldBehind, RowEnds
<1>7. ASSUME ~th'[t].error
      PROVE  /\ Clean(th'[t].matrix, th'[t].algo, th'[t].ctl)
             /\ ok \/ ~Chained => th'[t].seed = IF Chained /\ Side = "AC" THEN i ELSE 0
  BY <1>7 DEF RowEnds
<1> HIDE DEF i, e, n, b
<1>8. b < n /\ n <= e + 1 /\ i < n /\ n \in Nat /\ i \in Nat
  <2>0. i \in Nat
    <3>1. i \in 1 .. NbRows /\ NbRows \in Nat
      BY <1>1
    <3> QED BY <3>1
  <2>1. i \in Nat /\ i <= e /\ b < i /\ b \in Nat /\ e \in Nat
    BY <1>1, <1>2
  <2>2. CASE n = i + 1
    BY <2>1, <2>2
  <2>3. CASE n = e + 1
    BY <2>1, <2>3
  <2> QED BY <1>3, <2>2, <2>3
<1>9. \A j \in n .. e : volts'[j] = NoAnswer
  <2>1. SUFFICES ASSUME NEW j \in n .. e PROVE volts'[j] = NoAnswer
    OBVIOUS
  <2>2. j \in i .. e /\ j # i /\ j \in 1 .. NbRows
    BY <1>1, <1>2, <1>8
  <2> QED BY <1>5, <2>2
<1>10. ASSUME ~th'[t].error, setup.limits
       PROVE  \A j \in b + 1 .. n - 1 :
                    /\ reports'.rows[j].told # "nothing"
                    /\ reports'.rows[j].told = "not simulated" <=> Forbidden(j)'
  <2>1. n = i + 1
    BY <1>3, <1>6, <1>10
  <2>2. ASSUME NEW j \in b + 1 .. i
        PROVE  /\ reports'.rows[j].told # "nothing"
               /\ reports'.rows[j].told = "not simulated" <=> Forbidden(j)
    <3>1. CASE j = i
      BY <1>6, <1>10, <3>1
    <3>2. CASE j # i
      <4>1. j \in b + 1 .. i - 1 /\ j \in 1 .. NbRows
        BY <1>1, <1>8, <3>2
      <4>2. reports'.rows[j] = reports.rows[j]
        BY <1>6, <1>10, <3>2, <4>1
      <4>3. /\ reports.rows[j].told # "nothing"
            /\ reports.rows[j].told = "not simulated" <=> Forbidden(j)
        BY <1>6, <1>10, <4>1
      <4> QED BY <4>2, <4>3
    <3> QED BY <3>1, <3>2
  <2>3. n - 1 = i
    BY <1>1, <1>8, <2>1
  <2>4. \A j : Forbidden(j)' = Forbidden(j)
    BY ForbiddenSame
  <2> QED BY <2>2, <2>3, <2>4
<1>11. ASSUME ~th'[t].error, n <= e
       PROVE  th'[t].seed = IF Chained /\ Side = "AC" THEN n - 1 ELSE 0
  <2>1. n = i + 1 /\ (ok \/ ~Chained)
    BY <1>2, <1>4, <1>8, <1>11
  <2> QED BY <1>7, <1>8, <1>11, <2>1
<1>12. th'[t].last = SplitEnd(NbRows, NbWorkers, t)
  BY <1>1, <1>5
<1> QED BY <1>5, <1>7, <1>8, <1>9, <1>10, <1>11, <1>12, WorkerFitsNext DEF n, b

(* What a report of a row does to the reports.                             *)
LEMMA TellsTyped ==
    ASSUME SweepInv, NEW t, AtRow(t), NEW report \in RowReports, Tells(th[t].next, report)
    PROVE  /\ reports'.n = reports.n /\ reports'.rows \in Seq(RowReports)
           /\ DOMAIN reports'.rows = DOMAIN reports.rows
           /\ \A j \in DOMAIN reports.rows : j # th[t].next => reports'.rows[j] = reports.rows[j]
           /\ setup.limits => reports'.rows[th[t].next] = report
<1>1. reports.rows \in Seq(RowReports) /\ th[t].next \in 1 .. NbRows /\ Running
  BY AtRowTyped DEF SweepInv, ReportsTypeOK, AtRow
<1>2. CASE ~setup.limits
  BY <1>1, <1>2 DEF Tells
<1>3. CASE setup.limits
  <2>1. th[t].next \in DOMAIN reports.rows
    BY <1>1, <1>3 DEF Running
  <2>2. [reports.rows EXCEPT ![th[t].next] = report] \in Seq(RowReports)
    BY <1>1, <2>1, SeqIs
  <2>3. reports'.n = reports.n /\ reports'.rows = [reports.rows EXCEPT ![th[t].next] = report]
    BY <1>3 DEF Tells
  <2> QED BY <2>1, <2>2, <2>3
<1> QED BY <1>2, <1>3

(* A row that is not simulated keeps the invariant.                        *)
LEMMA Skipping ==
    ASSUME SweepInv, NEW t, TellSkipped(t), UNCHANGED threshold
    PROVE  SweepInv'
<1> DEFINE i == th[t].next
           w == th[t]
           a == AfterRow(w, FALSE)
           v == IF setup.mask THEN [a EXCEPT !.ctl = w.ctl] ELSE a
<1>1. /\ AtRow(t) /\ NotSimulated(w, i) /\ th' = [th EXCEPT ![t] = v]
      /\ conv' = [conv EXCEPT ![i] = FALSE] /\ Tells(i, Sentinel("not simulated"))
      /\ UNCHANGED <<inputs, stale, coeffs, ybus, volts, status, counts, flows, said, phase>>
  BY DEF TellSkipped, SkipRow
<1>2. /\ t \in DOMAIN th /\ w \in Workers /\ i \in 1 .. NbRows /\ volts[i] = NoAnswer
      /\ ~w.error /\ WorkerFits(t) /\ NbRows \in Nat /\ i <= w.last
  BY <1>1, AtRowTyped
<1>3. Running /\ TypeOK /\ Fits
  BY <1>1 DEF SweepInv, ReportsTypeOK, AtRow
<1>4. Forbidden(i)
  BY <1>1, RowForbidden
<1>5. /\ a \in Workers /\ a.last = w.last /\ a.matrix = w.matrix /\ a.algo = w.algo
      /\ a.seed = w.seed /\ a.error = w.error /\ a.ctl = RowFlags
      /\ a.next = IF FALSE \/ ~Chained THEN w.next + 1 ELSE w.last + 1
  BY <1>2, AfterRowTyped, FALSE \in BOOLEAN
<1> HIDE DEF a
<1>6. /\ v \in Workers /\ v.last = w.last /\ v.matrix = w.matrix /\ v.algo = w.algo
      /\ v.seed = w.seed /\ v.error = FALSE /\ v.ctl = (IF setup.mask THEN w.ctl ELSE RowFlags)
      /\ v.next = IF FALSE \/ ~Chained THEN w.next + 1 ELSE w.last + 1
  BY <1>2, <1>5 DEF Workers
<1> HIDE DEF v
<1>7. DOMAIN th' = DOMAIN th /\ th'[t] = v /\ \A u \in DOMAIN th : u # t => th'[u] = th[u]
  BY <1>1, <1>2
<1>8. Sentinel("not simulated") \in RowReports /\ Sentinel("not simulated").told = "not simulated"
  BY DEF RowReports, Sentinel
<1>9. /\ reports'.n = reports.n /\ reports'.rows \in Seq(RowReports)
      /\ DOMAIN reports'.rows = DOMAIN reports.rows
      /\ \A j \in DOMAIN reports.rows : j # i => reports'.rows[j] = reports.rows[j]
      /\ setup.limits => reports'.rows[i] = Sentinel("not simulated")
  BY <1>1, <1>8, TellsTyped
<1>10. Clean(v.matrix, v.algo, v.ctl)
  <2>1. Clean(w.matrix, w.algo, w.ctl)
    BY <1>2 DEF WorkerFits
  <2>2. setup.mask \/ Side = "AC"
    BY <1>1 DEF NotSimulated
  <2>3. CASE setup.mask
    BY <1>6, <2>1, <2>3
  <2>4. CASE Side = "AC"
    BY <1>6, <2>1, <2>4 DEF Clean
  <2> QED BY <2>2, <2>3, <2>4
<1>11. ~Chained => v.seed = IF Chained /\ Side = "AC" THEN i ELSE 0
  BY <1>2, <1>6 DEF WorkerFits, Seeded
<1>12. RowEnds(t, FALSE)
  BY <1>1, <1>4, <1>6, <1>7, <1>8, <1>9, <1>10, <1>11 DEF RowEnds
<1>13. WorkerFits(t)'
  BY <1>1, <1>12, Advances, FALSE \in BOOLEAN
<1>14. /\ conv' \in Seq(BOOLEAN) /\ DOMAIN conv' = 1 .. NbRows
       /\ volts' \in Seq(Answers) /\ DOMAIN volts' = 1 .. NbRows /\ volts'[i] = NoAnswer
  <2>1. conv \in Seq(BOOLEAN) /\ DOMAIN conv = 1 .. NbRows /\ i \in DOMAIN conv
    BY <1>2, <1>3 DEF Running, TypeOK
  <2>2. [conv EXCEPT ![i] = FALSE] \in Seq(BOOLEAN)
    BY <2>1, SeqIs, FALSE \in BOOLEAN
  <2>3. volts \in Seq(Answers) /\ DOMAIN volts = 1 .. NbRows /\ volts' = volts
    BY <1>1, <1>3 DEF Running, TypeOK
  <2> QED BY <1>1, <1>2, <2>1, <2>2, <2>3
<1>15. RowTold(i, Sentinel("not simulated"), volts'[i])
  BY <1>8, <1>14 DEF RowTold
<1> HIDE DEF i
<1> QED BY <1>1, <1>6, <1>7, <1>9, <1>13, <1>14, <1>15, RowStep DEF i

(* A row that is solved keeps the invariant, whether it converges, whether *)
(* its check throws.                                                       *)
LEMMA Solving ==
    ASSUME SweepInv, NEW t, TellSolved(t), UNCHANGED threshold
    PROVE  SweepInv'
<1> DEFINE i == th[t].next
           w == th[t]
           c == coeffs[i]
           r == Taken(w, c)
<1>1. /\ AtRow(t) /\ ~NotSimulated(w, i)
      /\ UNCHANGED <<inputs, stale, coeffs, ybus, status, counts, flows, said, phase>>
  BY DEF TellSolved, SolveRow
<1> DEFINE Solved(o, throws) ==
             LET back == Restored([r EXCEPT !.algo = [o.algo EXCEPT !.mask = {}]], c)
                 done == [AfterRow(back, o.conv) EXCEPT !.solved = @ + 1,
                             !.converged = IF o.conv THEN @ + 1 ELSE @,
                             !.seed = IF o.conv /\ Chained /\ Side = "AC" THEN i ELSE @,
                             !.error = throws]
             IN /\ th' = [th EXCEPT ![t] = done]
                /\ conv' = [conv EXCEPT ![i] = o.conv]
                /\ volts' = IF o.conv /\ (throws => setup.mask)
                            THEN [volts EXCEPT ![i] = Answer(o.solved, i, w.seed)] ELSE volts
           EndsRow(o) == \E throws \in {FALSE, setup.limits /\ o.conv} : Solved(o, throws)
           outcomes == Outcomes([r.algo EXCEPT !.mask = RowMask(i)], r.matrix, RowInjection(i), w.ctl)
<1>01. PICK o \in outcomes : EndsRow(o)
  BY DEF TellSolved, SolveRow
<1>2. PICK throws \in {FALSE, setup.limits /\ o.conv} : Solved(o, throws)
  BY <1>01
<1> DEFINE s == [r EXCEPT !.algo = [o.algo EXCEPT !.mask = {}]]
           back == Restored(s, c)
           a == AfterRow(back, o.conv)
           seed == IF o.conv /\ Chained /\ Side = "AC" THEN i ELSE w.seed
           done == [a EXCEPT !.solved = w.solved + 1,
                             !.converged = IF o.conv THEN w.converged + 1 ELSE w.converged,
                             !.seed = seed, !.error = throws]
           answer == Answer(o.solved, i, w.seed)
<1>3. /\ t \in DOMAIN th /\ w \in Workers /\ i \in 1 .. NbRows /\ volts[i] = NoAnswer
      /\ ~w.error /\ WorkerFits(t) /\ NbRows \in Nat /\ i <= w.last
      /\ Running /\ TypeOK /\ Fits
  BY <1>1, AtRowTyped DEF SweepInv, ReportsTypeOK, AtRow
<1>4. /\ back \in Workers /\ Kept(w, back) /\ o.conv \in BOOLEAN
      /\ Clean(back.matrix, back.algo, RowFlags)
      /\ o.conv => answer = Problem(i) /\ RowMask(i) = Problem(i).mask
  BY <1>1, RowSolved
<1>5. throws \in BOOLEAN /\ (throws => o.conv /\ setup.limits)
  BY <1>2, <1>4
<1> HIDE DEF back, answer
<1>6. /\ a \in Workers /\ a.last = back.last /\ a.matrix = back.matrix /\ a.algo = back.algo
      /\ a.seed = back.seed /\ a.error = back.error /\ a.ctl = RowFlags
      /\ a.solved = back.solved /\ a.converged = back.converged
      /\ a.next = IF o.conv \/ ~Chained THEN back.next + 1 ELSE back.last + 1
  BY <1>4, AfterRowTyped
<1> HIDE DEF a
<1>7. th' = [th EXCEPT ![t] = done] /\ conv' = [conv EXCEPT ![i] = o.conv]
      /\ volts' = IF o.conv /\ (throws => setup.mask) THEN [volts EXCEPT ![i] = answer] ELSE volts
  BY <1>2, <1>4, <1>6 DEF Kept, back, a, answer, Workers
<1>8. seed \in Nat /\ w.solved + 1 \in Nat
      /\ (IF o.conv THEN w.converged + 1 ELSE w.converged) \in Nat
  BY <1>3 DEF Workers
<1> HIDE DEF seed
<1>9. /\ done \in Workers /\ done.last = w.last /\ Clean(done.matrix, done.algo, done.ctl)
      /\ done.seed = seed /\ done.error = throws
      /\ done.next = IF o.conv \/ ~Chained THEN w.next + 1 ELSE w.last + 1
  BY <1>4, <1>5, <1>6, <1>8 DEF Workers, Kept
<1> HIDE DEF done
<1>10. DOMAIN th' = DOMAIN th /\ th'[t] = done /\ \A u \in DOMAIN th : u # t => th'[u] = th[u]
  BY <1>3, <1>7
<1>11. /\ Problem(i) \in Answers /\ Problem(i) # NoAnswer /\ Out(i) \in SUBSET Branches
       /\ Problem(i).matrix = Without(Out(i)) /\ RowMask(i) \in SUBSET BusIds
  BY <1>1, <1>3, RowTyped, RowForbidden
<1>12. /\ conv' \in Seq(BOOLEAN) /\ DOMAIN conv' = 1 .. NbRows /\ conv'[i] = o.conv
       /\ volts' \in Seq(Answers) /\ DOMAIN volts' = 1 .. NbRows
       /\ volts'[i] = IF o.conv /\ (throws => setup.mask) THEN answer ELSE NoAnswer
       /\ \A j \in 1 .. NbRows : j # i => volts'[j] = volts[j]
  <2>1. /\ conv \in Seq(BOOLEAN) /\ DOMAIN conv = 1 .. NbRows
        /\ volts \in Seq(Answers) /\ DOMAIN volts = 1 .. NbRows
    BY <1>3 DEF Running, TypeOK
  <2>2. [conv EXCEPT ![i] = o.conv] \in Seq(BOOLEAN)
    BY <1>3, <1>4, <2>1, SeqIs
  <2>3. o.conv => [volts EXCEPT ![i] = answer] \in Seq(Answers)
    BY <1>3, <1>4, <1>11, <2>1, SeqIs
  <2> QED BY <1>3, <1>7, <2>1, <2>2, <2>3
<1> DEFINE report == IF throws THEN Untold
                     ELSE IF o.conv THEN CheckedRow(i) ELSE Sentinel("diverged")
<1>13. /\ report \in RowReports /\ RowTold(i, report, volts'[i])
       /\ ~throws => report.told \in {"checked", "diverged"}
  <2>1. Untold.told = "nothing" /\ Sentinel("diverged").told = "diverged"
    BY DEF Untold, Sentinel
  <2>2. CASE throws
    BY <2>1, <2>2 DEF RowReports, RowTold
  <2>3. CASE ~throws /\ ~o.conv
    BY <1>12, <2>1, <2>3 DEF RowReports, RowTold
  <2>4. CASE ~throws /\ o.conv
    <3>1. volts'[i] = Problem(i)
      BY <1>4, <1>12, <2>4
    <3>2. threshold \in Thresholds /\ threshold <= threshold
      BY ReportsAssumption DEF SweepInv, ReportsTypeOK
    <3>3. CheckedRow(i) \in [told : {"checked"}, of : Answers, skipped : SUBSET Branches,
                             unchecked : SUBSET BusIds, at : Thresholds]
      BY <1>11, <3>1, <3>2 DEF CheckedRow
    <3>4. RowTold(i, CheckedRow(i), volts'[i])
      BY <1>4, <1>11, <2>4, <3>1, <3>2 DEF RowTold, CheckedRow
    <3> QED BY <2>4, <3>3, <3>4 DEF RowReports, CheckedRow
  <2> QED BY <1>5, <2>2, <2>3, <2>4
<1>14. Tells(i, report)
  BY <1>9, <1>10, <1>12 DEF TellSolved
<1> HIDE DEF report
<1>15. /\ reports'.n = reports.n /\ reports'.rows \in Seq(RowReports)
       /\ DOMAIN reports'.rows = DOMAIN reports.rows
       /\ \A j \in DOMAIN reports.rows : j # i => reports'.rows[j] = reports.rows[j]
       /\ setup.limits => reports'.rows[i] = report
  BY <1>1, <1>13, <1>14, TellsTyped
<1>16. o.conv \/ ~Chained => seed = IF Chained /\ Side = "AC" THEN i ELSE 0
  BY <1>3 DEF seed, WorkerFits, Seeded
<1>17. ~Forbidden(i)
  BY <1>1, RowForbidden
<1>18. RowEnds(t, o.conv)
  BY <1>9, <1>10, <1>12, <1>13, <1>15, <1>16, <1>17 DEF RowEnds
<1>19. WorkerFits(t)'
  BY <1>1, <1>4, <1>18, Advances
<1>20. volts'[i] \in {NoAnswer, Problem(i)}
  BY <1>4, <1>12
<1> HIDE DEF i
<1> QED BY <1>1, <1>9, <1>10, <1>12, <1>13, <1>15, <1>19, <1>20, RowStep DEF i

(* A row whose algorithm throws ends its worker; no edit reads what was    *)
(* never built.                                                            *)
LEMMA Breaking ==
    ASSUME SweepInv, NEW t, RowBreaks(t), UNCHANGED <<reports, threshold>>
    PROVE  SweepInv'
<1> DEFINE i == th[t].next
           w == th[t]
           r == Taken(w, coeffs[i])
           v == [r EXCEPT !.error = TRUE]
<1>1. AtRow(t) /\ ~NotSimulated(w, i)
  BY DEF RowBreaks
<1>2. /\ th' = [th EXCEPT ![t] = v] /\ phase' = phase
      /\ UNCHANGED <<inputs, stale, coeffs, ybus, results, flows, said>>
  BY <1>1, RowForbidden DEF RowBreaks
<1>3. /\ t \in DOMAIN th /\ w \in Workers /\ i \in 1 .. NbRows /\ volts[i] = NoAnswer
      /\ WorkerFits(t) /\ Running /\ TypeOK /\ phase = "running"
      /\ w.last = SplitEnd(NbRows, NbWorkers, t)
  BY <1>1, AtRowTyped DEF SweepInv, ReportsTypeOK, AtRow
<1>4. r \in Workers /\ Kept(w, r)
  BY <1>3, TakenTyped
<1> HIDE DEF r
<1>5. v \in Workers /\ v.next = w.next /\ v.last = w.last /\ v.error = TRUE
  BY <1>4 DEF Workers, Kept
<1> HIDE DEF v
<1>6. DOMAIN th' = DOMAIN th /\ th'[t] = v /\ \A u \in DOMAIN th : u # t => th'[u] = th[u]
  BY <1>2, <1>3
<1>7. WorkerFits(t)'
  <2>1. Begin(t) < w.next /\ w.next <= w.last + 1 /\ \A j \in w.next .. w.last : volts[j] = NoAnswer
    BY <1>3 DEF WorkerFits, InRange
  <2>2. UNCHANGED inputs /\ volts' = volts
    BY <1>2 DEF results
  <2> QED BY <1>3, <1>5, <1>6, <2>1, <2>2, WorkerFitsNext
<1>8. /\ conv' = conv /\ conv \in Seq(BOOLEAN) /\ DOMAIN conv = 1 .. NbRows
      /\ volts' = volts /\ volts \in Seq(Answers) /\ DOMAIN volts = 1 .. NbRows
      /\ status' = status /\ counts' = counts /\ reports' = reports
  BY <1>2, <1>3 DEF Running, TypeOK, results
<1>9. reports.rows \in Seq(RowReports)
  BY DEF SweepInv, ReportsTypeOK
<1>10. setup.limits => RowTold(i, reports.rows[i], volts[i])
  <2>1. SUFFICES ASSUME setup.limits PROVE RowTold(i, reports.rows[i], volts[i])
    OBVIOUS
  <2>2. i \in DOMAIN reports.rows
    BY <1>3, <2>1 DEF Running
  <2> QED BY <2>2 DEF SweepInv, ReportsTellRows, RowTold
<1> HIDE DEF i
<1> QED BY <1>1, <1>2, <1>3, <1>5, <1>6, <1>7, <1>8, <1>9, <1>10, RowStep DEF i

-----------------------------------------------------------------------------
(* All the workers have ended.                                             *)

(* The counts are numbers, the matrix of the object stays a matrix.        *)
LEMMA JoinedTyped ==
    ASSUME SweepInv, Joined
    PROVE  /\ Counted \in [solved : Nat, converged : Nat]
           /\ MemberMatrix => ybus' \in [side : {"none", "AC", "DC"}, matrix : Matrices]
<1>1. TypeOK /\ Running /\ phase = "running" /\ NbRows \in Nat
  BY DEF SweepInv, ReportsTypeOK, Joined, Running
<1>2. NbWorkers \in Nat /\ DOMAIN th = 0 .. NbWorkers - 1 /\ \A t \in DOMAIN th : th[t] \in Workers
  BY <1>1, NbWorkersIs, SweepAssumption DEF TypeOK, Running
<1>3. ASSUME NEW part, \A n \in 0 .. NbWorkers - 1 : part[n] \in Nat
      PROVE  Total(part) \in Nat
  <2>1. Sums(part, NbWorkers) \in [0 .. NbWorkers -> Nat]
    BY <1>2, <1>3, SumsAre
  <2> QED BY <1>2, <2>1, TotalIs
<1>4. Total([t \in DOMAIN th |-> th[t].solved]) \in Nat
  <2>1. \A n \in 0 .. NbWorkers - 1 : [t \in DOMAIN th |-> th[t].solved][n] \in Nat
    BY <1>2 DEF Workers
  <2> QED BY <1>3, <2>1
<1>5. Total([t \in DOMAIN th |-> th[t].converged]) \in Nat
  <2>1. \A n \in 0 .. NbWorkers - 1 : [t \in DOMAIN th |-> th[t].converged][n] \in Nat
    BY <1>2 DEF Workers
  <2> QED BY <1>3, <2>1
<1>6. Counted \in [solved : Nat, converged : Nat]
  BY <1>4, <1>5 DEF Counted
<1>7. MemberMatrix => ybus' \in [side : {"none", "AC", "DC"}, matrix : Matrices]
  <2>1. Alone => th[0].matrix \in Matrices
    BY <1>2 DEF Alone, Workers
  <2>2. ybus \in [side : {"none", "AC", "DC"}, matrix : Matrices]
    BY <1>1 DEF TypeOK
  <2> QED BY <2>1, <2>2 DEF MemberMatrix
<1> QED BY <1>6, <1>7

(* When every worker has ended its rows, every row has been told.          *)
LEMMA AllTold ==
    ASSUME SweepInv, Joined, ~Failed, setup.limits
    PROVE  /\ ~Chained /\ reports.n.told = "checked" /\ DOMAIN reports.rows = DOMAIN volts
           /\ \A i \in DOMAIN volts : /\ reports.rows[i].told # "nothing"
                                      /\ reports.rows[i].told = "not simulated" <=> Forbidden(i)
<1>1. Running /\ TypeOK /\ Fits /\ ~Chained /\ NbRows \in Nat
  BY DEF SweepInv, ReportsTypeOK, Joined, Running, Fits, Chained, Contingent
<1>2. NbWorkers \in Nat \ {0} /\ DOMAIN th = 0 .. NbWorkers - 1
  BY <1>1, NbWorkersIs, SweepAssumption DEF Running
<1>3. ASSUME NEW i \in 1 .. NbRows
      PROVE  /\ reports.rows[i].told # "nothing"
             /\ reports.rows[i].told = "not simulated" <=> Forbidden(i)
  <2>1. PICK t \in 0 .. NbWorkers - 1 : Begin(t) < i /\ i <= SplitEnd(NbRows, NbWorkers, t)
    BY <1>1, <1>2, SplitCovers DEF Begin
  <2>2. /\ ~th[t].error /\ th[t].next > th[t].last /\ th[t] \in Workers
        /\ InRange(t) /\ ToldBehind(t)
    BY <1>1, <1>2, <2>1 DEF Joined, Failed, Running, WorkerFits, TypeOK
  <2>3. th[t].last = SplitEnd(NbRows, NbWorkers, t) /\ th[t].next \in Nat /\ th[t].last \in Nat
    BY <2>2 DEF InRange, Workers
  <2>4. Begin(t) \in Nat
    BY <1>1, <1>2, <2>1, SplitWithin DEF Begin
  <2>5. i \in Begin(t) + 1 .. th[t].next - 1
    BY <2>1, <2>2, <2>3, <2>4
  <2> QED BY <2>2, <2>5 DEF ToldBehind
<1> QED BY <1>1, <1>3 DEF Running

LEMMA Ending ==
    ASSUME SweepInv, ComputeThrows \/ ComputeEnds, UNCHANGED <<reports, threshold>>
    PROVE  SweepInv'
<1>1. /\ Joined /\ MemberMatrix /\ th' = <<>> /\ phase' \in {"idle", "returned"}
      /\ UNCHANGED <<inputs, coeffs, volts, conv, flows, said>>
      /\ counts' \in {counts, Counted} /\ status' \in {status, StatusOf} /\ stale' \in {stale, FALSE}
      /\ phase' = "returned" => ~Failed
  BY DEF ComputeThrows, ComputeEnds
<1>2. TypeOK /\ Fits /\ phase = "running"
  BY <1>1 DEF SweepInv, ReportsTypeOK, Joined
<1>3. ReportsTypeOK'
  <2>1. counts' \in [solved : Nat, converged : Nat]
        /\ ybus' \in [side : {"none", "AC", "DC"}, matrix : Matrices]
    BY <1>1, <1>2, JoinedTyped DEF TypeOK
  <2>2. DOMAIN th' \subseteq 0 .. MaxThreads - 1 /\ \A t \in DOMAIN th' : th'[t] \in Workers
    BY <1>1
  <2>3. status' \in {0, 1} /\ stale' \in BOOLEAN
    BY <1>1, <1>2 DEF TypeOK, StatusOf
  <2> QED BY <1>1, <1>2, <2>1, <2>2, <2>3 DEF SweepInv, ReportsTypeOK, TypeOK, inputs
<1>4. Fits'
  <2>1. stale' => stale
    BY <1>1, <1>2 DEF TypeOK
  <2>2. UNCHANGED <<kind, setup, asked>>
    BY <1>1 DEF inputs
  <2> QED BY <1>2, <2>1, <2>2 DEF Fits, AxisFits, Contingent, Varies, Chained
<1>5. AnswersRight'
  <2>1. NbRows' = NbRows /\ \A i : Problem(i)' = Problem(i)
    BY <1>1, InputsSame DEF inputs
  <2> QED BY <1>1, <1>2, <2>1 DEF SweepInv, AnswersRight
<1>6. FlowsMatchInputs'
  BY <1>1 DEF SweepInv, FlowsMatchInputs, Contingent, inputs
<1>7. ReportsTellRows' /\ ReportsFit'
  BY <1>1 DEF SweepInv, ReportsTellRows, ReportsFit, inputs
<1>8. EveryRowIsTold'
  <2>1. SUFFICES ASSUME phase' = "returned", setup'.limits
                 PROVE  (/\ reports.n.told = "checked" /\ DOMAIN reports.rows = DOMAIN volts
                         /\ \A i \in DOMAIN volts :
                               /\ reports.rows[i].told # "nothing"
                               /\ reports.rows[i].told = "not simulated" <=> i \notin Attempted)'
    BY DEF EveryRowIsTold
  <2>2. \A i : Forbidden(i)' = Forbidden(i)
    BY <1>1, ForbiddenSame
  <2>3. setup' = setup /\ Chained' = Chained /\ setup.limits /\ ~Failed
    BY <1>1, <2>1 DEF inputs, Chained
  <2>4. /\ ~Chained /\ reports.n.told = "checked" /\ DOMAIN reports.rows = DOMAIN volts
        /\ \A i \in DOMAIN volts : /\ reports.rows[i].told # "nothing"
                                   /\ reports.rows[i].told = "not simulated" <=> Forbidden(i)
    BY <1>1, <2>3, AllTold
  <2>5. \A i \in DOMAIN volts' : i \notin Attempted' <=> Forbidden(i)'
    BY <2>3, <2>4 DEF Attempted, Forbidden
  <2> QED BY <1>1, <2>2, <2>4, <2>5
<1>9. NeverCrashes' /\ (phase' = "running" => Running' /\ Sound')
  BY <1>1 DEF NeverCrashes
<1> QED BY <1>3, <1>4, <1>5, <1>6, <1>7, <1>8, <1>9 DEF SweepInv

-----------------------------------------------------------------------------
(* The invariant holds from the first state on.                            *)

reportsVars == <<vars, reports, threshold>>

LEMMA Stuttering ==
    ASSUME SweepInv, UNCHANGED reportsVars
    PROVE  SweepInv'
<1>1. UNCHANGED <<inputs, kind, family, setup, asked, stale, coeffs, ybus, volts, conv, status, counts,
                  flows, said, phase, th, reports, threshold>>
  BY DEF reportsVars, vars, inputs, results
<1>2. /\ NbRows' = NbRows /\ FreshCoeffs' = FreshCoeffs /\ NbWorkers' = NbWorkers
      /\ RowFlags' = RowFlags /\ Side' = Side /\ Contingent' = Contingent /\ Chained' = Chained
      /\ Varies' = Varies
      /\ \A j : /\ Problem(j)' = Problem(j) /\ Begin(j)' = Begin(j) /\ Forbidden(j)' = Forbidden(j)
                /\ Out(j)' = Out(j) /\ Skipped(j)' = Skipped(j)
  BY <1>1, InputsSame, WorkersSame, ForbiddenSame, SkippedIs
<1>3. ReportsTypeOK'
  BY <1>1 DEF SweepInv, ReportsTypeOK, TypeOK
<1>4. Fits' /\ AnswersRight'
  BY <1>1, <1>2 DEF SweepInv, Fits, AxisFits, AnswersRight
<1>5. FlowsMatchInputs' /\ ReportsTellRows' /\ ReportsFit'
  BY <1>1, <1>2 DEF SweepInv, FlowsMatchInputs, ReportsTellRows, ReportsFit
<1>6. EveryRowIsTold'
  <2>1. Attempted' = Attempted
    BY <1>1, <1>2 DEF Attempted
  <2> QED BY <1>1, <2>1 DEF SweepInv, EveryRowIsTold
<1>7. ASSUME phase' = "running" PROVE Running' /\ Sound'
  <2>1. Running /\ Sound
    BY <1>1, <1>7 DEF SweepInv
  <2>2. Sound'
    BY <1>1, <1>2, <2>1 DEF Sound
  <2>3. ASSUME NEW t \in DOMAIN th PROVE WorkerFits(t)'
    <3>1. WorkerFits(t)
      BY <2>1 DEF Running
    <3>2. InRange(t)' /\ Seeded(t)' = Seeded(t) /\ ToldBehind(t)' = ToldBehind(t)
      BY <1>1, <1>2, <3>1 DEF WorkerFits, InRange, Seeded, ToldBehind
    <3>3. Clean(th[t].matrix, th[t].algo, th[t].ctl)' = Clean(th[t].matrix, th[t].algo, th[t].ctl)
      BY <1>1, <1>2 DEF Clean
    <3> QED BY <1>1, <3>1, <3>2, <3>3 DEF WorkerFits
  <2> QED BY <1>1, <1>2, <2>1, <2>2, <2>3 DEF Running
<1>8. NeverCrashes'
  BY <1>1 DEF SweepInv, NeverCrashes
<1> QED BY <1>3, <1>4, <1>5, <1>6, <1>7, <1>8 DEF SweepInv

LEMMA Beginning == ReportsInit => SweepInv
<1> SUFFICES ASSUME ReportsInit PROVE SweepInv
  OBVIOUS
<1>1. Init /\ reports = NoReports /\ threshold \in Thresholds
  BY DEF ReportsInit
<1>2. \A i \in DOMAIN <<>> : FALSE
  OBVIOUS
<1>3. /\ kind \in AllKinds /\ family \in {"NR", "FD", "DC"}
      /\ setup \in [threads : 1 .. MaxThreads, mask : BOOLEAN, limits : BOOLEAN]
  BY <1>1, SweepAssumption DEF Init
<1>4. asked \in [inj : Seq(Injections), targets : Seq(Targets), masks : Seq(SUBSET Branches),
                 rows : Nat \cup {-1}, listed : SUBSET Range(ListOrder)]
  <2>1. <<>> \in Seq(Injections) /\ <<>> \in Seq(Targets) /\ <<>> \in Seq(SUBSET Branches)
    BY EmptySeq
  <2> QED BY <1>1, <2>1 DEF Init, NothingAsked
<1>5. ybus \in [side : {"none", "AC", "DC"}, matrix : Matrices]
  BY <1>1, EditsUndone DEF Init
<1>6. TypeOK
  <2>1. /\ <<>> \in Seq(SUBSET Branches) /\ <<>> \in Seq(Answers) /\ <<>> \in Seq(BOOLEAN)
        /\ <<>> \in Seq([of : Answers, zeroed : SUBSET Branches])
    BY EmptySeq
  <2>2. DOMAIN th \subseteq 0 .. MaxThreads - 1 /\ \A t \in DOMAIN th : th[t] \in Workers
    BY <1>1, <1>2 DEF Init
  <2>3. counts \in [solved : Nat, converged : Nat]
    BY <1>1 DEF Init, NoCounts
  <2> QED BY <1>1, <1>3, <1>4, <1>5, <2>1, <2>2, <2>3 DEF Init, TypeOK
<1>7. ReportsTypeOK
  <2>1. <<>> \in Seq(RowReports)
    BY EmptySeq
  <2> QED BY <1>1, <1>6, <2>1 DEF ReportsTypeOK, NoReports, Untold
<1>8. Fits
  BY <1>1 DEF Init, Fits, AxisFits, NothingAsked
<1>9. AnswersRight /\ FlowsMatchInputs /\ ReportsTellRows /\ ReportsFit
  BY <1>1, <1>2 DEF Init, AnswersRight, FlowsMatchInputs, ReportsTellRows, ReportsFit, NoReports
<1>10. EveryRowIsTold /\ NeverCrashes /\ phase # "running"
  BY <1>1 DEF Init, EveryRowIsTold, NeverCrashes
<1> QED BY <1>7, <1>8, <1>9, <1>10 DEF SweepInv

LEMMA EveryStep == SweepInv /\ [ReportsNext /\ Sound']_reportsVars => SweepInv'
<1> SUFFICES ASSUME SweepInv, [ReportsNext /\ Sound']_reportsVars PROVE SweepInv'
  OBVIOUS
<1>1. CASE SetViolationThreshold
  BY <1>1, Dropping, Loosening
<1>2. ASSUME NEW t, TellSkipped(t), UNCHANGED threshold PROVE SweepInv'
  BY <1>2, Skipping
<1>3. ASSUME NEW t, TellSolved(t), UNCHANGED threshold PROVE SweepInv'
  BY <1>3, Solving
<1>4. ASSUME NEW t, RowBreaks(t), UNCHANGED <<reports, threshold>> PROVE SweepInv'
  BY <1>4, Breaking
<1>5. CASE TellFailed /\ UNCHANGED threshold
  BY <1>5, ComputingUnprepared, ComputingEmpty DEF TellFailed, ComputeFails
<1>6. CASE TellBaseDiverged /\ UNCHANGED threshold
  BY <1>6, ComputingEmpty
<1>7. CASE TellBase /\ Sound' /\ UNCHANGED threshold
  BY <1>7, Starting
<1>8. CASE Keeps /\ UNCHANGED <<reports, threshold>>
  <2>1. CASE ModifyInjections \/ ModifyGenV \/ SetContingencies
    BY <1>8, <2>1, AxisSet DEF ModifyInjections, ModifyGenV, SetContingencies, Calling
  <2> QED BY <1>8, <2>1, SettingUp, Inspecting, ComputingFlows, ComputingNothing DEF Keeps
<1>9. CASE (ComputeThrows \/ ComputeEnds) /\ UNCHANGED <<reports, threshold>>
  BY <1>9, Ending
<1>10. CASE Drops /\ reports' = NoReports /\ UNCHANGED threshold
  BY <1>10, Dropping
<1>11. CASE UNCHANGED reportsVars
  BY <1>11, Stuttering
<1> QED BY <1>1, <1>2, <1>3, <1>4, <1>5, <1>6, <1>7, <1>8, <1>9, <1>10, <1>11 DEF ReportsNext, Told

LEMMA SoundAlways == SoundSpec => []SweepInv
<1>1. SoundSpec => ReportsInit /\ [][ReportsNext /\ Sound']_reportsVars
  BY DEF SoundSpec, reportsVars
<1> QED BY <1>1, Beginning, EveryStep, PTL

-----------------------------------------------------------------------------
(* The theorems.                                                           *)

(* Every variable keeps its type, whatever the client calls, whatever      *)
(* throws, and however the workers interleave.                             *)
THEOREM SweepTypeCorrect == SoundSpec => []ReportsTypeOK
<1>1. SweepInv => ReportsTypeOK
  BY DEF SweepInv
<1> QED BY <1>1, SoundAlways, PTL

(* A table of flows sets to zero the branches its voltages were solved     *)
(* without, whatever was set or listed since they were.                    *)
THEOREM FlowsAlwaysMatch == SoundSpec => []FlowsMatchInputs
<1>1. SweepInv => FlowsMatchInputs
  BY DEF SweepInv
<1> QED BY <1>1, SoundAlways, PTL

(* A report is about the voltages that are stored, and leaves aside the    *)
(* branches and the buses they were solved without.                        *)
THEOREM ReportsAlwaysTell == SoundSpec => []ReportsTellRows
<1>1. SweepInv => ReportsTellRows
  BY DEF SweepInv
<1> QED BY <1>1, SoundAlways, PTL

(* When compute() returns, every row has been told, by whichever worker    *)
(* had it: no row falls between the ranges of two workers.                 *)
THEOREM RowsAlwaysTold == SoundSpec => []EveryRowIsTold
<1>1. SweepInv => EveryRowIsTold
  BY DEF SweepInv
<1> QED BY <1>1, SoundAlways, PTL

(* The sound client never meets an edit of what was never built.           *)
THEOREM SoundNeverCrashes == SoundSpec => []NeverCrashes
<1>1. SweepInv => NeverCrashes
  BY DEF SweepInv
<1> QED BY <1>1, SoundAlways, PTL

(* What a step changes of the inputs, it withdraws the answers of.         *)
LEMMA AnswersWithdrawn ==
    ASSUME [ReportsNext /\ Sound']_reportsVars
    PROVE  stale' \/ volts' = <<>> \/ UNCHANGED <<kind, family, asked>>
<1>1. ASSUME NEW t, SkipRow(t) \/ SolveRow(t) \/ RowBreaks(t)
      PROVE  UNCHANGED <<kind, family, asked>>
  BY <1>1 DEF SkipRow, SolveRow, RowBreaks, inputs
<1>2. CASE ComputeFails \/ ComputeBaseDiverges \/ ComputeStarts \/ ComputeThrows \/ ComputeEnds
  BY <1>2 DEF ComputeFails, ComputeUnprepared, ComputeUnmaskable, ComputeChecksThrow,
              ComputeBaseDiverges, ComputeStarts, ComputeThrows, ComputeEnds, inputs
<1>3. CASE Keeps
  BY <1>3 DEF Keeps, ModifyInjections, ModifyGenV, SetContingencies, SetAxis, LockRows, SetNbThread,
              SetHandleDisconnectedGrid, SetUp, IsGridConnected, PickReferenceSlack,
              InspectContingencies, InspectionThrows, ComputeFlows, ComputeNothingSet, inputs
<1>4. CASE Drops \/ SetViolationThreshold
  <2>1. Drops => volts' = <<>>
    BY DEF Drops, AddContingency, RemoveContingency, ChangeList, Clear, ChangeAlgorithm,
           SetComputeLimitViolations, Clears, DropResults
  <2>2. SetViolationThreshold => UNCHANGED <<kind, family, asked>>
    BY DEF SetViolationThreshold, inputs
  <2> QED BY <1>4, <2>1, <2>2
<1>5. CASE UNCHANGED reportsVars
  BY <1>5 DEF reportsVars, vars, inputs
<1> QED BY <1>1, <1>2, <1>3, <1>4, <1>5
        DEF ReportsNext, Told, TellSkipped, TellSolved, TellFailed, TellBaseDiverged, TellBase

Problems == [i \in 1 .. NbRows |-> Problem(i)]
Held == [i \in Readable |-> volts[i]]

(* The sweeps keep their promise: at any time what can be read answers,    *)
(* row by row, what the rows are asked at that time.                       *)
LEMMA StepKeepsPromise ==
    SweepInv /\ [ReportsNext /\ Sound']_reportsVars => [Promise!Next]_<<Problems, Held>>
<1> SUFFICES ASSUME SweepInv, [ReportsNext /\ Sound']_reportsVars
             PROVE  Promise!Answer \/ Promise!Change
  BY DEF Promise!Next
<1>1. SweepInv'
  BY EveryStep
<1>2. CASE Readable' = {}
  <2>1. Held' = <<>>
    BY <1>2 DEF Held
  <2> QED BY <2>1 DEF Promise!Change, Held
<1>3. CASE Readable' # {}
  <2>1. ~stale' /\ volts' # <<>>
    <3>1. \A i \in DOMAIN <<>> : FALSE
      OBVIOUS
    <3> QED BY <1>3, <3>1 DEF Readable
  <2>2. UNCHANGED <<kind, family, asked>>
    BY <2>1, AnswersWithdrawn
  <2>3. NbRows' = NbRows /\ \A i : Problem(i)' = Problem(i)
    BY <2>2, InputsSame
  <2>4. \A i \in Readable' : i \in 1 .. NbRows /\ volts'[i] = Problem(i)
    BY <1>1, <2>1, <2>3 DEF SweepInv, AnswersRight, Readable
  <2>5. Problems' = Problems
    BY <2>3 DEF Problems
  <2>6. DOMAIN Held' = Readable' /\ \A i \in Readable' : Held'[i] = volts'[i]
    BY DEF Held
  <2>7. DOMAIN Problems = 1 .. NbRows /\ \A i \in 1 .. NbRows : Problems[i] = Problem(i)
    BY DEF Problems
  <2> QED BY <2>4, <2>5, <2>6, <2>7 DEF Promise!Answer, Problems, Held
<1> QED BY <1>2, <1>3

THEOREM SweepPromiseKept == SoundSpec => KeepsSweepPromise
<1>1. ReportsInit => Promise!Init
  <2>1. ReportsInit => Readable = {}
    <3>1. \A i \in DOMAIN <<>> : FALSE
      OBVIOUS
    <3> QED BY <3>1 DEF ReportsInit, Init, Readable
  <2> QED BY <2>1 DEF Promise!Init
<1>2. SoundSpec => ReportsInit /\ [][ReportsNext /\ Sound']_reportsVars
  BY DEF SoundSpec, reportsVars
<1>3. SweepInv /\ [ReportsNext /\ Sound']_reportsVars
        => [Promise!Next]_<<[i \in 1 .. NbRows |-> Problem(i)], [i \in Readable |-> volts[i]]>>
  BY StepKeepsPromise DEF Problems, Held
<1> QED BY <1>1, <1>2, <1>3, SoundAlways, PTL DEF KeepsSweepPromise, Promise!Spec

-----------------------------------------------------------------------------
(* The counts.  Each worker counts what it has done of its rows; nothing   *)
(* of it can be read until compute() returns.                              *)

Behind(t) == Begin(t) + 1 .. th[t].next - 1
Tried(i)  == ~Forbidden(i) /\ (Chained => \A j \in 1 .. i - 1 : conv[j])

CountsBehind(t) ==
    /\ th[t].solved = Cardinality({i \in Behind(t) : Tried(i)})
    /\ th[t].converged = Cardinality({i \in Behind(t) : conv[i]})
    /\ th[t].diverged <=> \E i \in Behind(t) : ~conv[i]
    /\ \A i \in Behind(t) : conv[i] <=> volts[i] # NoAnswer
    /\ \A i \in th[t].next .. th[t].last : ~conv[i]
    /\ Chained /\ th[t].next <= th[t].last => \A i \in Behind(t) : conv[i]

CountInv == /\ CountsAgree
            /\ phase = "running" => \A t \in DOMAIN th : ~th[t].error => CountsBehind(t)

(* What the workers count adds up to what there is to count.               *)
Share(S, n, nb, t) == {i \in SplitBegin(n, nb, t) + 1 .. SplitEnd(n, nb, t) : i \in S}

LEMMA SumOfParts ==
    ASSUME NEW n \in Nat, NEW nb \in Nat \ {0}, NEW S \in SUBSET (1 .. n), NEW part,
           \A t \in 0 .. nb - 1 : part[t] = Cardinality(Share(S, n, nb, t))
    PROVE  Sums(part, nb)[nb] = Cardinality(S)
<1> DEFINE up(k) == {i \in S : i <= SplitBegin(n, nb, k)}
           own(t) == Share(S, n, nb, t)
<1>1. IsFiniteSet(S) /\ \A T \in SUBSET S : IsFiniteSet(T) /\ Cardinality(T) \in Nat
  <2>1. IsFiniteSet(1 .. n)
    BY FS_Interval
  <2>2. IsFiniteSet(S)
    BY <2>1, FS_Subset
  <2>3. \A T \in SUBSET S : IsFiniteSet(T)
    BY <2>2, FS_Subset
  <2> QED BY <2>2, <2>3, FS_CardinalityType
<1>0. n \in Nat /\ \A i \in S : i \in Nat /\ 0 < i /\ i <= n
  OBVIOUS
<1>2. \A t \in 0 .. nb - 1 : part[t] \in Nat
  <2>1. \A t \in 0 .. nb - 1 : own(t) \in SUBSET S /\ part[t] = Cardinality(own(t))
    BY DEF Share
  <2> HIDE DEF own
  <2> QED BY <1>1, <2>1
<1>3. /\ Sums(part, nb)[0] = 0
      /\ \A k \in 1 .. nb : Sums(part, nb)[k] = Sums(part, nb)[k - 1] + part[k - 1]
  BY <1>2, SumsAre
<1>4. \A k \in 0 .. nb : SplitBegin(n, nb, k) \in Nat
  BY SplitFollows
<1> DEFINE Bad == {k \in Nat : k <= nb /\ Sums(part, nb)[k] # Cardinality(up(k))}
<1>5. Bad = {}
  <2>1. SUFFICES ASSUME Bad # {} PROVE FALSE
    OBVIOUS
  <2>2. PICK k \in Bad : \A m \in Bad : k <= m
    BY <2>1, LeastNumber
  <2>3. CASE k = 0
    <3>1. up(0) = {}
      <4>1. SplitBegin(n, nb, 0) = 0
        BY SplitFollows
      <4>2. \A i \in S : ~(i <= SplitBegin(n, nb, 0))
        BY <1>0, <4>1
      <4> QED BY <4>2
    <3>2. Cardinality(up(0)) = 0
      <4> HIDE DEF up
      <4> QED BY <3>1, FS_EmptySet
    <3> QED BY <1>3, <2>2, <2>3, <3>2
  <2>4. CASE k # 0
    <3>1. k - 1 \in Nat /\ k \in 1 .. nb /\ k - 1 \in 0 .. nb - 1 /\ (k - 1) + 1 = k /\ k - 1 <= nb
      BY <2>2, <2>4
    <3>2. Sums(part, nb)[k - 1] = Cardinality(up(k - 1)) /\ part[k - 1] = Cardinality(own(k - 1))
      <4> HIDE DEF up, own
      <4>1. k - 1 \in Bad => k <= k - 1
        BY <2>2
      <4>2. k - 1 \notin Bad
        BY <3>1, <4>1
      <4> QED BY <3>1, <4>2 DEF own
    <3>3. /\ SplitBegin(n, nb, k - 1) \in Nat /\ SplitBegin(n, nb, k) \in Nat
          /\ SplitBegin(n, nb, k - 1) <= SplitBegin(n, nb, k)
          /\ SplitEnd(n, nb, k - 1) = SplitBegin(n, nb, k)
      <4>1. /\ SplitBegin(n, nb, k - 1) \in Nat /\ SplitEnd(n, nb, k - 1) \in Nat
            /\ SplitBegin(n, nb, k - 1) <= SplitEnd(n, nb, k - 1)
            /\ SplitEnd(n, nb, k - 1) = SplitBegin(n, nb, (k - 1) + 1)
        BY <3>1, SplitFollows
      <4> QED BY <3>1, <4>1
    <3>4. up(k) = up(k - 1) \cup own(k - 1) /\ up(k - 1) \cap own(k - 1) = {}
      <4> DEFINE p == SplitBegin(n, nb, k - 1)
                 q == SplitBegin(n, nb, k)
      <4>1. p \in Nat /\ q \in Nat /\ p <= q /\ own(k - 1) = {i \in p + 1 .. q : i \in S}
        BY <3>3 DEF Share
      <4>2. up(k - 1) = {i \in S : i <= p} /\ up(k) = {i \in S : i <= q}
        OBVIOUS
      <4> HIDE DEF p, q, up, own
      <4>3. \A i : i \in up(k - 1) \cup own(k - 1) <=> i \in up(k)
        <5>1. SUFFICES ASSUME NEW i \in S
                       PROVE  i <= p \/ i \in p + 1 .. q <=> i <= q
          BY <4>1, <4>2
        <5>2. i \in Nat
          BY <1>0
        <5> QED BY <4>1, <5>2
      <4>4. \A i : ~(i \in up(k - 1) /\ i \in own(k - 1))
        BY <1>0, <4>1, <4>2
      <4> QED BY <4>3, <4>4
    <3>5. up(k - 1) \in SUBSET S /\ own(k - 1) \in SUBSET S
      BY DEF Share
    <3> HIDE DEF up, own
    <3>6. /\ IsFiniteSet(up(k - 1)) /\ IsFiniteSet(own(k - 1))
          /\ Cardinality(up(k - 1)) \in Nat /\ Cardinality(own(k - 1)) \in Nat
      BY <1>1, <3>5
    <3>7. Cardinality(up(k)) = Cardinality(up(k - 1)) + Cardinality(own(k - 1))
      <4>1. Cardinality(up(k - 1) \cup own(k - 1)) =
              Cardinality(up(k - 1)) + Cardinality(own(k - 1)) - Cardinality(up(k - 1) \cap own(k - 1))
        BY <3>6, FS_Union
      <4>2. Cardinality(up(k - 1) \cap own(k - 1)) = 0
        BY <3>4, FS_EmptySet
      <4> QED BY <3>4, <3>6, <4>1, <4>2
    <3> QED BY <1>3, <2>2, <3>1, <3>2, <3>7
  <2> QED BY <2>3, <2>4
<1>6. Sums(part, nb)[nb] = Cardinality(up(nb))
  BY <1>5
<1>7. up(nb) = S
  <2>1. nb - 1 \in Nat /\ (nb - 1) + 1 = nb
    OBVIOUS
  <2>2. SplitEnd(n, nb, nb - 1) = SplitBegin(n, nb, (nb - 1) + 1) /\ SplitEnd(n, nb, nb - 1) = n
    BY <2>1, SplitFollows
  <2>3. SplitBegin(n, nb, nb) = n
    BY <2>1, <2>2
  <2> QED BY <1>0, <2>3
<1> HIDE DEF up
<1> QED BY <1>6, <1>7

(* One row more, counted or not.                                           *)
LEMMA OneMore ==
    ASSUME NEW S, IsFiniteSet(S), NEW i, i \notin S, NEW T, NEW P \in BOOLEAN,
           T = S \cup (IF P THEN {i} ELSE {})
    PROVE  Cardinality(S) \in Nat /\ Cardinality(T) = Cardinality(S) + (IF P THEN 1 ELSE 0)
<1>1. Cardinality(S) \in Nat
  BY FS_CardinalityType
<1>2. CASE P
  <2>1. T = S \cup {i}
    BY <1>2
  <2>2. Cardinality(S \cup {i}) = Cardinality(S) + 1
    BY FS_AddElement
  <2> QED BY <1>1, <1>2, <2>1, <2>2
<1>3. CASE ~P
  <2>1. T = S
    BY <1>3
  <2> QED BY <1>1, <1>3, <2>1
<1> QED BY <1>2, <1>3

(* Where rows are chained there is one worker, and it begins at the first. *)
LEMMA ChainedAlone ==
    ASSUME SweepInv, Chained, phase = "running"
    PROVE  NbWorkers = 1 /\ DOMAIN th = {0} /\ Begin(0) = 0
<1>1. Running /\ TypeOK /\ Fits /\ NbRows \in Nat
  BY DEF SweepInv, ReportsTypeOK, Running
<1>2. NbWorkers = 1
  BY <1>1, NbWorkersIs DEF Fits
<1>3. Begin(0) = 0
  BY <1>1, <1>2, SplitFollows DEF Begin
<1> QED BY <1>1, <1>2, <1>3 DEF Running

(* What a row that ends changes of the counts of its worker.               *)
RowCounted(t, ok) ==
    LET w == th[t]
        v == th'[t]
    IN /\ v.next = IF ok \/ ~Chained THEN w.next + 1 ELSE w.last + 1
       /\ v.last = w.last
       /\ v.solved = w.solved + (IF Forbidden(w.next) THEN 0 ELSE 1)
       /\ v.converged = w.converged + (IF ok THEN 1 ELSE 0)
       /\ v.diverged = (w.diverged \/ ~ok)
       /\ volts'[w.next] # NoAnswer <=> ok
       /\ \A j \in 1 .. NbRows : j # w.next => volts'[j] = volts[j]

LEMMA CountsOn ==
    ASSUME SweepInv, CountInv, NEW t, AtRow(t), NEW ok \in BOOLEAN, UNCHANGED <<inputs, coeffs>>,
           conv' = [conv EXCEPT ![th[t].next] = ok], RowCounted(t, ok)
    PROVE  CountsBehind(t)'
<1> PICK i : i = th[t].next
  OBVIOUS
<1> DEFINE e == th[t].last
           n == th'[t].next
           b == Begin(t)
<1>1. /\ t \in DOMAIN th /\ i \in 1 .. NbRows /\ NbRows \in Nat /\ NbWorkers \in Nat \ {0}
      /\ t \in 0 .. NbWorkers - 1 /\ b < i /\ i <= e /\ b \in Nat /\ th[t] \in Workers
      /\ e = SplitEnd(NbRows, NbWorkers, t) /\ WorkerFits(t) /\ ~th[t].error
  BY AtRowTyped
<1>2. CountsBehind(t) /\ DOMAIN conv = 1 .. NbRows /\ conv \in Seq(BOOLEAN) /\ phase = "running"
  BY <1>1 DEF CountInv, AtRow, SweepInv, Running, ReportsTypeOK, TypeOK
<1>3. e \in Nat /\ e <= NbRows
  <2>1. SplitEnd(NbRows, NbWorkers, t) \in Nat /\ SplitEnd(NbRows, NbWorkers, t) <= NbRows
    BY <1>1, SplitWithin
  <2> HIDE DEF e
  <2> QED BY <1>1, <2>1
<1>4. /\ Begin(t)' = b /\ Chained' = Chained /\ \A j : Forbidden(j)' = Forbidden(j)
  BY InputsSame, WorkersSame, ForbiddenSame DEF inputs
<1>5. /\ th[t].solved = Cardinality({j \in b + 1 .. i - 1 : Tried(j)})
      /\ th[t].converged = Cardinality({j \in b + 1 .. i - 1 : conv[j]})
      /\ th[t].diverged <=> \E j \in b + 1 .. i - 1 : ~conv[j]
      /\ \A j \in b + 1 .. i - 1 : conv[j] <=> volts[j] # NoAnswer
      /\ \A j \in i .. e : ~conv[j] /\ volts[j] = NoAnswer
      /\ Chained => \A j \in b + 1 .. i - 1 : conv[j]
  BY <1>1, <1>2 DEF CountsBehind, Behind, WorkerFits, InRange
<1>6. /\ n = IF ok \/ ~Chained THEN i + 1 ELSE e + 1
      /\ th'[t].last = e
      /\ th'[t].solved = th[t].solved + (IF Forbidden(i) THEN 0 ELSE 1)
      /\ th'[t].converged = th[t].converged + (IF ok THEN 1 ELSE 0)
      /\ th'[t].diverged = (th[t].diverged \/ ~ok)
      /\ volts'[i] # NoAnswer <=> ok
      /\ \A j \in 1 .. NbRows : j # i => volts'[j] = volts[j]
  BY DEF RowCounted
<1>7. Chained => b = 0
  BY <1>1, <1>2, ChainedAlone
<1>8. /\ conv'[i] = ok /\ \A j \in 1 .. NbRows : j # i => conv'[j] = conv[j]
      /\ \A j \in 1 .. NbRows : conv[j] \in BOOLEAN
  <2>1. \A j \in DOMAIN conv : conv[j] \in BOOLEAN
    BY <1>2, SeqIs
  <2> QED BY <1>1, <1>2, <2>1
<1> HIDE DEF e, n, b
<1>9. i \in Nat /\ e \in Nat /\ b \in Nat /\ n \in Nat /\ n - 1 \in i .. e
      /\ (n - 1 # i => Chained /\ ~ok)
  <2>1. i \in Nat
    BY <1>1
  <2> QED BY <1>1, <1>3, <1>6, <2>1
(* Which rows are tried: those before as before, this one unless it is     *)
(* forbidden, none after it where it breaks the chain.                     *)
<1>10. /\ \A j \in b + 1 .. i - 1 : Tried(j)' <=> Tried(j)
       /\ Tried(i)' <=> ~Forbidden(i)
       /\ \A j \in i + 1 .. n - 1 : ~Tried(j)'
  <2>1. ASSUME NEW j \in b + 1 .. i - 1 PROVE Tried(j)' <=> Tried(j)
    <3>1. \A k \in 1 .. j - 1 : conv'[k] = conv[k]
      BY <1>1, <1>8, <1>9, <2>1
    <3> QED BY <1>4, <3>1 DEF Tried
  <2>2. Tried(i)' <=> ~Forbidden(i)
    <3>1. ASSUME Chained, NEW k \in 1 .. i - 1 PROVE conv'[k]
      <4>1. k \in b + 1 .. i - 1 /\ k \in 1 .. NbRows /\ k # i
        BY <1>1, <1>7, <1>9, <3>1
      <4> QED BY <1>5, <1>8, <3>1, <4>1
    <3> QED BY <1>4, <3>1 DEF Tried
  <2>3. ASSUME NEW j \in i + 1 .. n - 1 PROVE ~Tried(j)'
    <3>1. Chained /\ ~ok /\ i \in 1 .. j - 1
      BY <1>1, <1>9, <2>3
    <3>2. ~conv'[i]
      BY <1>8, <3>1
    <3> QED BY <1>4, <3>1, <3>2 DEF Tried
  <2> QED BY <2>1, <2>2, <2>3
<1>11. \A j \in i + 1 .. e : ~conv'[j] /\ volts'[j] = NoAnswer
  <2>1. SUFFICES ASSUME NEW j \in i + 1 .. e PROVE ~conv'[j] /\ volts'[j] = NoAnswer
    OBVIOUS
  <2>2. j \in i .. e /\ j # i /\ j \in 1 .. NbRows
    BY <1>1, <1>3, <1>9
  <2> QED BY <1>5, <1>6, <1>8, <2>2
<1>12. \A j \in b + 1 .. i - 1 : conv'[j] = conv[j] /\ volts'[j] = volts[j]
  BY <1>1, <1>6, <1>8, <1>9
<1>13. Behind(t)' = b + 1 .. n - 1
  BY <1>4 DEF Behind, n
<1>14. \A j \in b + 1 .. n - 1 : j \in b + 1 .. i - 1 \/ j = i \/ (j \in i + 1 .. n - 1 /\ j \in i + 1 .. e)
  BY <1>9
<1>15. i \in b + 1 .. n - 1 /\ \A j \in b + 1 .. i - 1 : j \in b + 1 .. n - 1
  BY <1>1, <1>9
<1>16. th'[t].solved = Cardinality({j \in Behind(t)' : Tried(j)'})
  <2> DEFINE S == {j \in b + 1 .. i - 1 : Tried(j)}
             T == {j \in b + 1 .. n - 1 : Tried(j)'}
  <2>1. IsFiniteSet(S) /\ i \notin S
    <3>1. S \in SUBSET (b + 1 .. i - 1) /\ i \notin S
      BY <1>9
    <3> HIDE DEF S
    <3>2. b + 1 \in Int /\ i - 1 \in Int
      BY <1>9
    <3>3. IsFiniteSet(b + 1 .. i - 1)
      BY <3>2, FS_Interval
    <3> QED BY <3>1, <3>3, FS_Subset
  <2>2. T = S \cup (IF ~Forbidden(i) THEN {i} ELSE {})
    <3>1. CASE Forbidden(i)
      BY <1>10, <1>14, <1>15, <3>1
    <3>2. CASE ~Forbidden(i)
      <4>1. T \subseteq S \cup {i}
        BY <1>10, <1>14
      <4>2. S \cup {i} \subseteq T
        BY <1>10, <1>15, <3>2
      <4> QED BY <3>2, <4>1, <4>2
    <3> QED BY <3>1, <3>2
  <2> HIDE DEF S, T
  <2>3. Cardinality(T) = Cardinality(S) + (IF ~Forbidden(i) THEN 1 ELSE 0)
    <3>1. (~Forbidden(i)) \in BOOLEAN
      OBVIOUS
    <3> QED BY <2>1, <2>2, <3>1, OneMore
  <2>4. th[t].solved = Cardinality(S)
    BY <1>5 DEF S
  <2>5. th'[t].solved = Cardinality(T)
    BY <1>6, <2>3, <2>4
  <2> QED BY <1>13, <2>5 DEF T
<1>17. th'[t].converged = Cardinality({j \in Behind(t)' : conv'[j]})
  <2> DEFINE S == {j \in b + 1 .. i - 1 : conv[j]}
             T == {j \in b + 1 .. n - 1 : conv'[j]}
  <2>1. IsFiniteSet(S) /\ i \notin S
    <3>1. S \in SUBSET (b + 1 .. i - 1) /\ i \notin S
      BY <1>9
    <3> HIDE DEF S
    <3>2. b + 1 \in Int /\ i - 1 \in Int
      BY <1>9
    <3>3. IsFiniteSet(b + 1 .. i - 1)
      BY <3>2, FS_Interval
    <3> QED BY <3>1, <3>3, FS_Subset
  <2>2. T = S \cup (IF ok THEN {i} ELSE {})
    BY <1>8, <1>11, <1>12, <1>14, <1>15
  <2> HIDE DEF S, T
  <2>3. Cardinality(T) = Cardinality(S) + (IF ok THEN 1 ELSE 0)
    BY <2>1, <2>2, OneMore
  <2>4. th'[t].converged = Cardinality(T)
    BY <1>5, <1>6, <2>3 DEF S
  <2> QED BY <1>13, <2>4 DEF T
<1>18. th'[t].diverged <=> \E j \in Behind(t)' : ~conv'[j]
  <2>1. CASE ok
    <3>1. n - 1 = i
      BY <1>9, <2>1
    <3>2. \A j \in b + 1 .. n - 1 : j \in b + 1 .. i - 1 \/ j = i
      BY <1>9, <1>14, <3>1
    <3>3. conv'[i]
      BY <1>8, <2>1
    <3>4. (\E j \in b + 1 .. n - 1 : ~conv'[j]) <=> (\E j \in b + 1 .. i - 1 : ~conv[j])
      BY <1>12, <1>15, <3>2, <3>3
    <3> QED BY <1>5, <1>6, <1>13, <2>1, <3>4
  <2>2. CASE ~ok
    BY <1>6, <1>8, <1>13, <1>15, <2>2
  <2> QED BY <2>1, <2>2
<1>19. \A j \in Behind(t)' : conv'[j] <=> volts'[j] # NoAnswer
  BY <1>5, <1>6, <1>8, <1>11, <1>12, <1>13, <1>14
<1>20. \A j \in n .. e : ~conv'[j]
  BY <1>9, <1>11
<1>21. ASSUME Chained', n <= e PROVE \A j \in Behind(t)' : conv'[j]
  <2>1. Chained /\ ok /\ n - 1 = i
    BY <1>4, <1>6, <1>9, <1>21
  <2>2. \A j \in b + 1 .. n - 1 : j \in b + 1 .. i - 1 \/ j = i
    BY <1>9, <1>14, <2>1
  <2>3. conv'[i] /\ \A j \in b + 1 .. i - 1 : conv'[j]
    BY <1>5, <1>8, <1>12, <2>1
  <2> QED BY <1>13, <2>2, <2>3
<1> QED BY <1>6, <1>16, <1>17, <1>18, <1>19, <1>20, <1>21 DEF CountsBehind, n

(* A row of one worker is none of the counts of another.                   *)
LEMMA CountsApart ==
    ASSUME SweepInv, CountInv, NEW t, AtRow(t), UNCHANGED <<inputs, coeffs>>,
           \A j \in 1 .. NbRows : j # th[t].next => conv'[j] = conv[j] /\ volts'[j] = volts[j],
           NEW u \in DOMAIN th, u # t, th'[u] = th[u], ~th[u].error
    PROVE  CountsBehind(u)'
<1> DEFINE i == th[t].next
<1>1. /\ t \in 0 .. NbWorkers - 1 /\ i \in 1 .. NbRows /\ NbRows \in Nat /\ NbWorkers \in Nat \ {0}
      /\ Begin(t) < i /\ i <= SplitEnd(NbRows, NbWorkers, t) /\ t \in DOMAIN th
  <2>1. th[t].last = SplitEnd(NbRows, NbWorkers, t) /\ th[t].next <= th[t].last
    BY AtRowTyped
  <2> QED BY <2>1, AtRowTyped
<1>2. Running /\ TypeOK /\ phase = "running"
  BY DEF AtRow, SweepInv, ReportsTypeOK
<1>3. u \in 0 .. NbWorkers - 1 /\ WorkerFits(u) /\ CountsBehind(u) /\ th[u].next \in Nat
  BY <1>2 DEF Running, CountInv, TypeOK, Workers
<1>4. ~(Begin(u) < i /\ i <= SplitEnd(NbRows, NbWorkers, u)) /\ Begin(u) \in Nat
      /\ SplitEnd(NbRows, NbWorkers, u) \in Nat /\ SplitEnd(NbRows, NbWorkers, u) <= NbRows
  <2>1. u # t /\ i \in Nat /\ SplitBegin(NbRows, NbWorkers, t) < i
    BY <1>1 DEF Begin
  <2> HIDE DEF i
  <2>2. ~(SplitBegin(NbRows, NbWorkers, u) < i /\ i <= SplitEnd(NbRows, NbWorkers, u))
    BY <1>1, <1>3, <2>1, RowsApart
  <2> QED BY <1>1, <1>3, <2>2, SplitWithin DEF Begin
<1>5. Begin(u)' = Begin(u) /\ Chained' = Chained /\ \A j : Forbidden(j)' = Forbidden(j)
  BY InputsSame, WorkersSame, ForbiddenSame DEF inputs
<1>6. ~Chained
  BY <1>1, <1>2, ChainedAlone
<1>7. \A j : Tried(j)' <=> Tried(j)
  BY <1>5, <1>6 DEF Tried
<1>8. th[u].last = SplitEnd(NbRows, NbWorkers, u) /\ Begin(u) < th[u].next /\ th[u].next <= th[u].last + 1
  BY <1>3 DEF WorkerFits, InRange
<1>9. \A j \in Begin(u) + 1 .. th[u].last : conv'[j] = conv[j] /\ volts'[j] = volts[j]
  <2>1. SUFFICES ASSUME NEW j \in Begin(u) + 1 .. th[u].last
                 PROVE  conv'[j] = conv[j] /\ volts'[j] = volts[j]
    OBVIOUS
  <2>2. j # i /\ j \in 1 .. NbRows
    BY <1>1, <1>4, <1>8
  <2> QED BY <2>2
<1>10. Behind(u)' = Behind(u) /\ Behind(u) \subseteq Begin(u) + 1 .. th[u].last
       /\ th[u].next .. th[u].last \subseteq Begin(u) + 1 .. th[u].last
  BY <1>3, <1>4, <1>5, <1>8 DEF Behind
<1>11. {j \in Behind(u)' : Tried(j)'} = {j \in Behind(u) : Tried(j)}
       /\ {j \in Behind(u)' : conv'[j]} = {j \in Behind(u) : conv[j]}
  BY <1>7, <1>9, <1>10
<1>12. /\ (\E j \in Behind(u)' : ~conv'[j]) <=> (\E j \in Behind(u) : ~conv[j])
       /\ \A j \in Behind(u)' : conv'[j] <=> volts'[j] # NoAnswer
       /\ \A j \in th[u].next .. th[u].last : ~conv'[j]
  BY <1>3, <1>9, <1>10 DEF CountsBehind
<1> QED BY <1>3, <1>5, <1>6, <1>11, <1>12 DEF CountsBehind

(* A row that ends, whoever its worker is, keeps the counts of them all.   *)
LEMMA CountsKept ==
    ASSUME SweepInv, CountInv, NEW t, AtRow(t), NEW ok \in BOOLEAN,
           UNCHANGED <<inputs, coeffs, phase>>, conv' = [conv EXCEPT ![th[t].next] = ok],
           \A j \in 1 .. NbRows : j # th[t].next => volts'[j] = volts[j],
           DOMAIN th' = DOMAIN th, \A u \in DOMAIN th : u # t => th'[u] = th[u],
           ~th'[t].error => RowCounted(t, ok)
    PROVE  CountInv'
<1>1. phase = "running" /\ t \in DOMAIN th /\ ~th[t].error /\ Running
  BY DEF AtRow, SweepInv
<1>2. ASSUME ~th'[t].error PROVE CountsBehind(t)'
  BY <1>2, CountsOn
<1>3. \A j \in 1 .. NbRows : j # th[t].next => conv'[j] = conv[j] /\ volts'[j] = volts[j]
  BY <1>1 DEF Running
<1>4. ASSUME NEW u \in DOMAIN th, u # t, ~th'[u].error PROVE CountsBehind(u)'
  BY <1>3, <1>4, CountsApart
<1> QED BY <1>1, <1>2, <1>4 DEF CountInv, CountsAgree

LEMMA CountsSkipped ==
    ASSUME SweepInv, CountInv, NEW t, SkipRow(t)
    PROVE  CountInv'
<1> DEFINE w == th[t]
           a == AfterRow(w, FALSE)
           v == IF setup.mask THEN [a EXCEPT !.ctl = w.ctl] ELSE a
<1>1. /\ AtRow(t) /\ NotSimulated(w, w.next) /\ th' = [th EXCEPT ![t] = v]
      /\ conv' = [conv EXCEPT ![w.next] = FALSE]
      /\ UNCHANGED <<inputs, coeffs, volts, phase>>
  BY DEF SkipRow
<1>2. /\ t \in DOMAIN th /\ w \in Workers /\ volts[w.next] = NoAnswer /\ Forbidden(w.next)
  BY <1>1, AtRowTyped, RowForbidden
<1>3. /\ a \in Workers /\ a.last = w.last /\ a.solved = w.solved /\ a.converged = w.converged
      /\ a.diverged = (w.diverged \/ ~FALSE)
      /\ a.next = IF FALSE \/ ~Chained THEN w.next + 1 ELSE w.last + 1
  BY <1>2, AfterRowTyped, FALSE \in BOOLEAN
<1> HIDE DEF a
<1>4. /\ v.last = w.last /\ v.solved = w.solved /\ v.converged = w.converged
      /\ v.diverged = (w.diverged \/ ~FALSE)
      /\ v.next = IF FALSE \/ ~Chained THEN w.next + 1 ELSE w.last + 1
  BY <1>3 DEF Workers
<1> HIDE DEF v
<1>5. DOMAIN th' = DOMAIN th /\ th'[t] = v /\ \A u \in DOMAIN th : u # t => th'[u] = th[u]
  BY <1>1, <1>2
<1>6. w.solved \in Nat /\ w.converged \in Nat
  BY <1>2 DEF Workers
<1>7. RowCounted(t, FALSE)
  BY <1>1, <1>2, <1>4, <1>5, <1>6 DEF RowCounted
<1> QED BY <1>1, <1>5, <1>7, CountsKept, FALSE \in BOOLEAN

LEMMA CountsSolved ==
    ASSUME SweepInv, CountInv, NEW t, SolveRow(t)
    PROVE  CountInv'
<1> DEFINE i == th[t].next
           w == th[t]
           c == coeffs[i]
           r == Taken(w, c)
<1>1. AtRow(t) /\ ~NotSimulated(w, i) /\ UNCHANGED <<inputs, coeffs, phase>>
  BY DEF SolveRow
<1> DEFINE Solved(o, throws) ==
             LET back == Restored([r EXCEPT !.algo = [o.algo EXCEPT !.mask = {}]], c)
                 done == [AfterRow(back, o.conv) EXCEPT !.solved = @ + 1,
                             !.converged = IF o.conv THEN @ + 1 ELSE @,
                             !.seed = IF o.conv /\ Chained /\ Side = "AC" THEN i ELSE @,
                             !.error = throws]
             IN /\ th' = [th EXCEPT ![t] = done]
                /\ conv' = [conv EXCEPT ![i] = o.conv]
                /\ volts' = IF o.conv /\ (throws => setup.mask)
                            THEN [volts EXCEPT ![i] = Answer(o.solved, i, w.seed)] ELSE volts
           EndsRow(o) == \E throws \in {FALSE, setup.limits /\ o.conv} : Solved(o, throws)
           outcomes == Outcomes([r.algo EXCEPT !.mask = RowMask(i)], r.matrix, RowInjection(i), w.ctl)
<1>2. PICK o \in outcomes : EndsRow(o)
  BY DEF SolveRow
<1>3. PICK throws \in {FALSE, setup.limits /\ o.conv} : Solved(o, throws)
  BY <1>2
<1> DEFINE s == [r EXCEPT !.algo = [o.algo EXCEPT !.mask = {}]]
           back == Restored(s, c)
           a == AfterRow(back, o.conv)
           seed == IF o.conv /\ Chained /\ Side = "AC" THEN i ELSE w.seed
           done == [a EXCEPT !.solved = w.solved + 1,
                             !.converged = IF o.conv THEN w.converged + 1 ELSE w.converged,
                             !.seed = seed, !.error = throws]
           answer == Answer(o.solved, i, w.seed)
<1>4. /\ t \in DOMAIN th /\ w \in Workers /\ i \in 1 .. NbRows /\ volts[i] = NoAnswer
      /\ Running /\ TypeOK /\ Fits /\ ~Forbidden(i)
  BY <1>1, AtRowTyped, RowForbidden DEF SweepInv, ReportsTypeOK, AtRow
<1>5. /\ back \in Workers /\ Kept(w, back) /\ o.conv \in BOOLEAN /\ (o.conv => answer = Problem(i))
  BY <1>1, RowSolved
<1> HIDE DEF back, answer
<1>6. /\ a \in Workers /\ a.last = back.last /\ a.seed = back.seed
      /\ a.solved = back.solved /\ a.converged = back.converged
      /\ a.diverged = (back.diverged \/ ~o.conv)
      /\ a.next = IF o.conv \/ ~Chained THEN back.next + 1 ELSE back.last + 1
  BY <1>5, AfterRowTyped
<1> HIDE DEF a
<1>7. th' = [th EXCEPT ![t] = done] /\ conv' = [conv EXCEPT ![i] = o.conv]
      /\ volts' = IF o.conv /\ (throws => setup.mask) THEN [volts EXCEPT ![i] = answer] ELSE volts
  BY <1>3, <1>5, <1>6 DEF Kept, back, a, answer, Workers
<1> HIDE DEF seed
<1>8. /\ done.last = w.last /\ done.error = throws
      /\ done.solved = w.solved + 1
      /\ done.converged = (IF o.conv THEN w.converged + 1 ELSE w.converged)
      /\ done.diverged = (w.diverged \/ ~o.conv)
      /\ done.next = IF o.conv \/ ~Chained THEN w.next + 1 ELSE w.last + 1
  BY <1>5, <1>6 DEF Workers, Kept
<1> HIDE DEF done
<1>9. DOMAIN th' = DOMAIN th /\ th'[t] = done /\ \A u \in DOMAIN th : u # t => th'[u] = th[u]
  BY <1>4, <1>7
<1>10. /\ \A j \in 1 .. NbRows : j # i => volts'[j] = volts[j]
       /\ volts'[i] = IF o.conv /\ (throws => setup.mask) THEN answer ELSE NoAnswer
  BY <1>4, <1>7 DEF Running
<1>11. Problem(i) # NoAnswer /\ w.converged \in Nat
  BY <1>4, RowTyped DEF Workers
<1>12. ASSUME ~th'[t].error PROVE RowCounted(t, o.conv)
  <2>1. volts'[i] # NoAnswer <=> o.conv
    BY <1>5, <1>8, <1>9, <1>10, <1>11, <1>12
  <2> QED BY <1>4, <1>8, <1>9, <1>10, <1>11, <2>1 DEF RowCounted
<1> QED BY <1>1, <1>5, <1>7, <1>9, <1>10, <1>12, CountsKept

(* A worker that has thrown counts no more; the others are as they were.   *)
LEMMA CountsBroken ==
    ASSUME SweepInv, CountInv, NEW t, RowBreaks(t)
    PROVE  CountInv'
<1> DEFINE r == Taken(th[t], coeffs[th[t].next])
           v == [r EXCEPT !.error = TRUE]
<1>1. AtRow(t) /\ ~NotSimulated(th[t], th[t].next)
  BY DEF RowBreaks
<1>2. /\ th' = [th EXCEPT ![t] = v] /\ phase' = phase
      /\ UNCHANGED <<inputs, coeffs, volts, conv>>
  BY <1>1, RowForbidden DEF RowBreaks, results
<1>3. t \in DOMAIN th /\ th[t] \in Workers /\ phase = "running"
  BY <1>1, AtRowTyped DEF AtRow
<1>4. r \in Workers
  BY <1>3, TakenTyped
<1> HIDE DEF r
<1>5. v.error = TRUE
  BY <1>4 DEF Workers
<1> HIDE DEF v
<1>6. DOMAIN th' = DOMAIN th /\ th'[t] = v /\ \A u \in DOMAIN th : u # t => th'[u] = th[u]
  BY <1>2, <1>3
<1>7. ASSUME NEW u \in DOMAIN th, u # t, ~th'[u].error PROVE CountsBehind(u)'
  BY <1>1, <1>2, <1>6, <1>7, CountsApart
<1> QED BY <1>2, <1>3, <1>5, <1>6, <1>7 DEF CountInv, CountsAgree

(* Nothing is behind a worker that starts.                                 *)
LEMMA CountsStart ==
    ASSUME SweepInv, TellBase
    PROVE  CountInv'
<1>1. /\ phase' = "running" /\ UNCHANGED inputs /\ NbRows >= 0 /\ conv' = NoRows(FALSE)
  BY DEF TellBase, ComputeStarts, Begins, Prepares
<1>2. TypeOK /\ Fits /\ NbRows \in Nat
  BY <1>1, RowTyped DEF SweepInv, ReportsTypeOK
<1>3. PICK o \in BaseOutcomes : o.conv /\ th' = [t \in 0 .. NbWorkers - 1 |-> Worker(t, o.algo)]
  BY DEF TellBase, ComputeStarts
<1>4. NbWorkers \in Nat \ {0}
  BY <1>2, NbWorkersIs, SweepAssumption
<1>5. ASSUME NEW t \in 0 .. NbWorkers - 1 PROVE CountsBehind(t)'
  <2>1. /\ th'[t].next = Begin(t) + 1 /\ th'[t].last = SplitEnd(NbRows, NbWorkers, t)
        /\ th'[t].solved = 0 /\ th'[t].converged = 0 /\ th'[t].diverged = FALSE
    BY <1>3 DEF Worker, Begin
  <2>2. /\ Begin(t) \in Nat /\ SplitEnd(NbRows, NbWorkers, t) \in Nat
        /\ SplitEnd(NbRows, NbWorkers, t) <= NbRows
    BY <1>2, <1>4, SplitWithin DEF Begin
  <2>3. Begin(t)' = Begin(t)
    BY <1>1, WorkersSame
  <2>4. Behind(t)' = {}
    BY <2>1, <2>2, <2>3 DEF Behind
  <2>5. /\ {i \in Behind(t)' : Tried(i)'} = {} /\ {i \in Behind(t)' : conv'[i]} = {}
        /\ Cardinality({}) = 0
    BY <2>4, FS_EmptySet
  <2>6. \A i \in th'[t].next .. th'[t].last : ~conv'[i]
    <3>1. \A i \in 1 .. NbRows : conv'[i] = FALSE
      BY <1>1 DEF NoRows
    <3> QED BY <1>2, <2>1, <2>2, <3>1
  <2> QED BY <2>1, <2>4, <2>5, <2>6 DEF CountsBehind
<1> QED BY <1>1, <1>3, <1>5 DEF CountInv, CountsAgree

(* All the workers have ended, and none has thrown.                        *)
LEMMA CountsEnd ==
    ASSUME SweepInv, CountInv, ComputeEnds
    PROVE  CountInv'
<1>1. /\ Joined /\ ~Failed /\ counts' = Counted /\ phase' = "returned"
      /\ status' = (IF Varies THEN StatusOf ELSE status)
      /\ UNCHANGED <<inputs, coeffs, volts, conv>>
  BY DEF ComputeEnds
<1>2. /\ Running /\ TypeOK /\ Fits /\ NbRows \in Nat /\ phase = "running"
      /\ DOMAIN conv = 1 .. NbRows /\ DOMAIN volts = 1 .. NbRows /\ conv \in Seq(BOOLEAN)
  BY <1>1 DEF SweepInv, ReportsTypeOK, Joined, Running, TypeOK
<1>3. NbWorkers \in Nat \ {0} /\ DOMAIN th = 0 .. NbWorkers - 1
  BY <1>2, NbWorkersIs, SweepAssumption DEF Running
<1>4. ASSUME NEW t \in 0 .. NbWorkers - 1
      PROVE  CountsBehind(t) /\ Behind(t) = Begin(t) + 1 .. SplitEnd(NbRows, NbWorkers, t)
  <2>1. /\ ~th[t].error /\ th[t].next > th[t].last /\ th[t] \in Workers /\ InRange(t) /\ CountsBehind(t)
    BY <1>1, <1>2, <1>3 DEF Joined, Failed, Running, WorkerFits, TypeOK, CountInv
  <2>2. th[t].last = SplitEnd(NbRows, NbWorkers, t) /\ th[t].next - 1 = th[t].last
    BY <2>1 DEF InRange, Workers
  <2> QED BY <2>1, <2>2 DEF Behind
<1>5. \A i \in 1 .. NbRows : \E t \in 0 .. NbWorkers - 1 : i \in Behind(t)
  <2>1. SUFFICES ASSUME NEW i \in 1 .. NbRows PROVE \E t \in 0 .. NbWorkers - 1 : i \in Behind(t)
    OBVIOUS
  <2>2. PICK t \in 0 .. NbWorkers - 1 : Begin(t) < i /\ i <= SplitEnd(NbRows, NbWorkers, t)
    BY <1>2, <1>3, SplitCovers DEF Begin
  <2>3. Begin(t) \in Nat /\ SplitEnd(NbRows, NbWorkers, t) \in Nat
    BY <1>2, <1>3, SplitWithin DEF Begin
  <2> QED BY <1>4, <2>2, <2>3
<1>6. ASSUME NEW t \in 0 .. NbWorkers - 1 PROVE Behind(t) \subseteq 1 .. NbRows
  <2>1. /\ Begin(t) \in Nat /\ SplitEnd(NbRows, NbWorkers, t) \in Nat
        /\ SplitEnd(NbRows, NbWorkers, t) <= NbRows
    BY <1>2, <1>3, SplitWithin DEF Begin
  <2> QED BY <1>2, <1>4, <2>1
<1> DEFINE ok == {i \in DOMAIN conv : conv[i]}
<1>7. ok = {i \in DOMAIN volts : volts[i] # NoAnswer}
  <2>1. \A i \in 1 .. NbRows : conv[i] <=> volts[i] # NoAnswer
    BY <1>4, <1>5 DEF CountsBehind
  <2> QED BY <1>2, <2>1
<1>8. Attempted \in SUBSET (1 .. NbRows) /\ \A i \in 1 .. NbRows : i \in Attempted <=> Tried(i)
  BY <1>2 DEF Attempted, Tried, Forbidden
<1>9. Counted.solved = Cardinality(Attempted)
  <2> DEFINE part == [t \in DOMAIN th |-> th[t].solved]
  <2>1. ASSUME NEW t \in 0 .. NbWorkers - 1
        PROVE  part[t] = Cardinality(Share(Attempted, NbRows, NbWorkers, t))
    <3>1. {i \in Behind(t) : Tried(i)} = {i \in Behind(t) : i \in Attempted}
      BY <1>6, <1>8
    <3>2. part[t] = Cardinality({i \in Behind(t) : Tried(i)})
      BY <1>3, <1>4 DEF CountsBehind
    <3> QED BY <1>4, <3>1, <3>2 DEF Begin, Share
  <2>2. Counted.solved = Sums(part, NbWorkers)[NbWorkers]
    BY TotalIs DEF Counted
  <2> HIDE DEF part
  <2> QED BY <1>2, <1>3, <1>8, <2>1, <2>2, SumOfParts
<1>10. Counted.converged = Cardinality(ok)
  <2> DEFINE part == [t \in DOMAIN th |-> th[t].converged]
  <2>0. ok \in SUBSET (1 .. NbRows)
    BY <1>2
  <2>1. ASSUME NEW t \in 0 .. NbWorkers - 1
        PROVE  part[t] = Cardinality(Share(ok, NbRows, NbWorkers, t))
    <3>1. {i \in Behind(t) : conv[i]} = {i \in Behind(t) : i \in ok}
      BY <1>2, <1>6
    <3>2. part[t] = Cardinality({i \in Behind(t) : conv[i]})
      BY <1>3, <1>4 DEF CountsBehind
    <3> QED BY <1>4, <3>1, <3>2 DEF Begin, Share
  <2>2. Counted.converged = Sums(part, NbWorkers)[NbWorkers]
    BY TotalIs DEF Counted
  <2> HIDE DEF part, ok
  <2> QED BY <1>2, <1>3, <2>0, <2>1, <2>2, SumOfParts
<1>11. StatusOf = 1 <=> ok = DOMAIN volts
  <2>1. (\E t \in DOMAIN th : th[t].diverged) <=> \E i \in 1 .. NbRows : ~conv[i]
    <3>1. \A t \in 0 .. NbWorkers - 1 : th[t].diverged <=> \E i \in Behind(t) : ~conv[i]
      BY <1>4 DEF CountsBehind
    <3> QED BY <1>3, <1>5, <1>6, <3>1
  <2>2. (ok = DOMAIN volts) <=> \A i \in 1 .. NbRows : conv[i]
    BY <1>2
  <2> QED BY <2>1, <2>2 DEF StatusOf
<1>12. Counted = [solved |-> Cardinality(Attempted), converged |-> Cardinality(ok)]
  BY <1>9, <1>10 DEF Counted
<1>13. Attempted' = Attempted /\ Varies' = Varies
  <2>1. setup' = setup /\ Chained' = Chained /\ Varies' = Varies /\ \A i : Forbidden(i)' = Forbidden(i)
    BY <1>1, InputsSame, ForbiddenSame DEF inputs
  <2>2. \A i : i \in Attempted <=> i \in DOMAIN volts /\ Tried(i)
    BY DEF Attempted, Tried, Forbidden
  <2>3. \A i : i \in Attempted' <=> i \in DOMAIN volts' /\ Tried(i)'
    BY DEF Attempted, Tried, Forbidden
  <2>4. \A i : i \in Attempted' <=> i \in Attempted
    BY <1>1, <2>1, <2>2, <2>3 DEF Tried
  <2> QED BY <2>1, <2>4
<1>14. CountsAgree'
  BY <1>1, <1>7, <1>11, <1>12, <1>13 DEF CountsAgree
<1> QED BY <1>1, <1>14 DEF CountInv

(* Every step keeps the counts; most of them withdraw what they are of.    *)
LEMMA CountsStep ==
    SweepInv /\ CountInv /\ [ReportsNext /\ Sound']_reportsVars => CountInv'
<1> SUFFICES ASSUME SweepInv, CountInv, [ReportsNext /\ Sound']_reportsVars PROVE CountInv'
  OBVIOUS
<1>1. ASSUME phase' = "idle" PROVE CountInv'
  BY <1>1 DEF CountInv, CountsAgree
<1>2. CASE SetViolationThreshold \/ Drops \/ Keeps \/ ComputeFails \/ ComputeBaseDiverges \/ ComputeThrows
  <2>1. phase' = "idle"
    BY <1>2 DEF SetViolationThreshold, Drops, AddContingency, RemoveContingency, ChangeList, Clear,
                ChangeAlgorithm, SetComputeLimitViolations, Keeps, ModifyInjections, ModifyGenV,
                SetContingencies, SetNbThread, SetHandleDisconnectedGrid, SetUp, IsGridConnected,
                PickReferenceSlack, InspectContingencies, InspectionThrows, ComputeFlows,
                ComputeNothingSet, ComputeFails, ComputeUnprepared, ComputeUnmaskable,
                ComputeChecksThrow, ComputeBaseDiverges, ComputeThrows, Calling
  <2> QED BY <1>1, <2>1
<1>3. ASSUME NEW t, SkipRow(t) \/ SolveRow(t) \/ RowBreaks(t) PROVE CountInv'
  BY <1>3, CountsSkipped, CountsSolved, CountsBroken
<1>4. CASE TellBase
  BY <1>4, CountsStart
<1>5. CASE ComputeEnds
  BY <1>5, CountsEnd
<1>6. CASE UNCHANGED reportsVars
  <2>1. UNCHANGED <<inputs, kind, family, setup, asked, coeffs, volts, conv, status, counts, phase, th>>
    BY <1>6 DEF reportsVars, vars, inputs, results
  <2>2. /\ Chained' = Chained /\ Varies' = Varies
        /\ \A j : Begin(j)' = Begin(j) /\ Forbidden(j)' = Forbidden(j) /\ Skipped(j)' = Skipped(j)
    BY <2>1, InputsSame, WorkersSame, ForbiddenSame, SkippedIs
  <2>3. Attempted' = Attempted
    BY <2>1, <2>2 DEF Attempted, Side, Contingent
  <2>4. CountsAgree'
    BY <2>1, <2>2, <2>3 DEF CountInv, CountsAgree
  <2>5. \A t : CountsBehind(t)' <=> CountsBehind(t)
    BY <2>1, <2>2 DEF CountsBehind, Behind, Tried
  <2> QED BY <2>1, <2>4, <2>5 DEF CountInv
<1> QED BY <1>2, <1>3, <1>4, <1>5, <1>6
        DEF ReportsNext, Told, TellSkipped, TellSolved, TellFailed, TellBaseDiverged

(* When compute() returns, every row has been handed to the algorithm once *)
(* unless its contingency forbids it or the chain broke before it, and the *)
(* mask, the voltages, the counts and the status agree on what came of it. *)
THEOREM CountsAlwaysAgree == SoundSpec => []CountsAgree
<1>1. ReportsInit => CountInv
  BY DEF ReportsInit, Init, CountInv, CountsAgree
<1>2. CountInv => CountsAgree
  BY DEF CountInv
<1>3. SoundSpec => ReportsInit /\ [][ReportsNext /\ Sound']_reportsVars
  BY DEF SoundSpec, reportsVars
<1> QED BY <1>1, <1>2, <1>3, SoundAlways, CountsStep, PTL
=============================================================================
