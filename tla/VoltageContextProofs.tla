------------------------ MODULE VoltageContextProofs ------------------------
(***************************************************************************)
(* Proofs about VoltageFiles and VoltageContext, for every list of files,  *)
(* every schedule and every number of blocks.                              *)
(***************************************************************************)
EXTENDS VoltageContext, FiniteSetTheorems, TLAPS

-----------------------------------------------------------------------------
(* Least and greatest numbers. *)

LEMMA LeastExists ==
  ASSUME NEW S \in SUBSET Nat, S # {}
  PROVE  Least(S) \in S /\ \A t \in S : Least(S) <= t
<1> DEFINE Less == {p \in Nat \X Nat : p[1] < p[2]}
<1>1. IsWellFoundedOn(Less, Nat)
  BY NatLessThanWellFounded DEF OpToRel
<1>2. PICK t \in S : \A u \in S : <<u, t>> \notin Less
  <2>1. S \subseteq Nat
    OBVIOUS
  <2> HIDE DEF Less
  <2>2. QED
    BY <1>1, <2>1, WFMin
<1>3. ASSUME NEW u \in S PROVE t <= u
  <2>1. <<u, t>> \in Nat \X Nat /\ <<u, t>>[1] = u /\ <<u, t>>[2] = t
    OBVIOUS
  <2>2. ~(u < t)
    BY <1>2, <2>1
  <2>3. QED
    BY <2>2
<1>4. QED
  BY <1>3 DEF Least

LEMMA GreatestExists ==
  ASSUME NEW S \in SUBSET Nat, IsFiniteSet(S), S # {}
  PROVE  Greatest(S) \in S /\ \A t \in S : t <= Greatest(S)
<1> DEFINE Above(t) == {u \in S : t < u}
           F == {Above(t) : t \in S}
<1>1. IsWellFoundedOn(StrictSubsetOrdering(S), SUBSET S)
  BY FS_StrictSubsetOrderingWellFounded, FS_FiniteSubsetsOfFinite
<1>2. F \subseteq SUBSET S /\ F # {}
  OBVIOUS
<1>3. PICK B \in F : \A C \in F : <<C, B>> \notin StrictSubsetOrdering(S)
  BY <1>1, <1>2, WFMin
<1>4. PICK t \in S : B = Above(t)
  BY <1>3
<1>5. ASSUME NEW u \in S, t < u
      PROVE  FALSE
  <2>1. Above(u) \subseteq Above(t)
    <3>1. \A v \in S : u < v => t < v
      BY <1>5
    <3>2. QED
      BY <3>1, Zenon
  <2>2. u \in Above(t) /\ u \notin Above(u)
    BY <1>5
  <2>3. Above(u) \in SUBSET S /\ Above(t) \in SUBSET S /\ Above(u) \in F
    OBVIOUS
  <2>4. <<Above(u), Above(t)>> \in StrictSubsetOrdering(S)
    BY <2>1, <2>2, <2>3 DEF StrictSubsetOrdering
  <2>5. QED
    BY <1>3, <1>4, <2>3, <2>4
<1>6. \A u \in S : u <= t
  BY <1>5
<1>7. QED
  BY <1>6 DEF Greatest

-----------------------------------------------------------------------------
(* Times that are a whole number of timesteps apart. *)

Apart(a, b, d) == \E k \in Int : b = a + k * d

\* The remainder that the model computes with says so.
LEMMA ApartByRemainder ==
  ASSUME NEW a \in Int, NEW b \in Int, NEW d \in Nat \ {0}
  PROVE  (b - a) % d = 0 <=> Apart(a, b, d)
<1>1. ASSUME (b - a) % d = 0 PROVE Apart(a, b, d)
  <2>1. b - a = ((b - a) \div d) * d + ((b - a) % d) /\ (b - a) \div d \in Int
    OBVIOUS
  <2>2. b = a + ((b - a) \div d) * d
    <3> DEFINE q == ((b - a) \div d) * d
    <3>1. q \in Int
      BY <2>1
    <3> HIDE DEF q
    <3>2. b - a = q
      BY <1>1, <2>1, <3>1 DEF q
    <3>3. QED
      BY <3>1, <3>2 DEF q
  <2>3. QED
    BY <2>1, <2>2 DEF Apart
<1>2. ASSUME NEW k \in Int, b = a + k * d PROVE (b - a) % d = 0
  <2>1. b - a = k * d
    BY <1>2
  <2>2. (k * d) % d = 0
    OBVIOUS
  <2>3. QED
    BY <2>1, <2>2
<1>3. QED
  BY <1>1, <1>2 DEF Apart

LEMMA ApartSelf ==
  ASSUME NEW a \in Int, NEW d \in Nat \ {0}
  PROVE  Apart(a, a, d) /\ Apart(a, a + d, d)
<1>1. a = a + 0 * d /\ a + d = a + 1 * d
  OBVIOUS
<1>2. QED
  BY <1>1 DEF Apart

LEMMA ApartSym ==
  ASSUME NEW a \in Int, NEW b \in Int, NEW d \in Nat \ {0}, Apart(a, b, d)
  PROVE  Apart(b, a, d)
<1>1. PICK k \in Int : b = a + k * d
  BY DEF Apart
<1>2. a = b + (0 - k) * d /\ 0 - k \in Int
  BY <1>1
<1>3. QED
  BY <1>2 DEF Apart

LEMMA ApartTrans ==
  ASSUME NEW a \in Int, NEW b \in Int, NEW c \in Int, NEW d \in Nat \ {0},
         Apart(a, b, d), Apart(b, c, d)
  PROVE  Apart(a, c, d)
<1>1. PICK k \in Int : b = a + k * d
  BY DEF Apart
<1>2. PICK l \in Int : c = b + l * d
  BY DEF Apart
<1>3. c = a + (k + l) * d /\ k + l \in Int
  BY <1>1, <1>2
<1>4. QED
  BY <1>3 DEF Apart

\* Two different times are at least one timestep apart.
LEMMA ApartByOne ==
  ASSUME NEW a \in Int, NEW b \in Int, NEW d \in Nat \ {0}, Apart(a, b, d), a < b
  PROVE  a + d <= b
<1>1. PICK k \in Int : b = a + k * d
  BY DEF Apart
<1>2. k >= 1
  <2>1. SUFFICES ASSUME k <= 0 PROVE FALSE
    BY <1>1
  <2>2. k * d <= 0
    BY <2>1
  <2>3. QED
    BY <1>1, <2>2
<1>3. k * d >= d
  BY <1>2
<1>4. QED
  BY <1>1, <1>3

-----------------------------------------------------------------------------
(* Sets of times without a gap. *)

Chained(R, d) == \A t, u \in R : t < u => t + d \in R /\ t + d <= u

\* They are all the times, a whole number of timesteps from the first, up to
\* the last.
LEMMA ChainedIsGrid ==
  ASSUME NEW R \in SUBSET Nat, IsFiniteSet(R), R # {}, NEW d \in Nat \ {0}, Chained(R, d)
  PROVE  /\ \A u \in R : Apart(Least(R), u, d)
         /\ \A v \in Nat : /\ Least(R) <= v /\ v <= Greatest(R)
                           /\ Apart(Least(R), v, d)
                           => v \in R
<1> DEFINE m == Least(R)
           h == Greatest(R)
<1>1. m \in R /\ m \in Nat /\ \A t \in R : m <= t
  BY LeastExists
<1>2. h \in R /\ h \in Nat
  BY GreatestExists
<1> HIDE DEF m, h
<1>3. ASSUME NEW u \in R, ~Apart(m, u, d) PROVE FALSE
  <2> DEFINE B == {t \in R : t < u /\ Apart(m, t, d)}
  <2>1. m \in B
    <3>1. Apart(m, m, d)
      BY <1>1, ApartSelf
    <3>2. m # u
      BY <1>3, <3>1
    <3>3. m < u
      BY <1>1, <3>2
    <3>4. QED
      BY <1>1, <3>1, <3>3
  <2>2. B \in SUBSET Nat /\ IsFiniteSet(B)
    BY FS_Subset
  <2>3. Greatest(B) \in B /\ \A t \in B : t <= Greatest(B)
    <3> HIDE DEF B
    <3>1. QED
      BY <2>1, <2>2, GreatestExists
  <2>4. PICK g \in B : \A t \in B : t <= g
    BY <2>3
  <2>5. g + d \in R /\ g + d <= u
    BY <1>3, <2>4 DEF Chained
  <2>6. Apart(m, g + d, d)
    BY <1>1, <2>4, ApartSelf, ApartTrans
  <2>7. g + d \in B
    BY <1>3, <2>5, <2>6
  <2>8. QED
    BY <2>4, <2>7
<1>4. ASSUME NEW v \in Nat, m <= v, v <= h, Apart(m, v, d), v \notin R PROVE FALSE
  <2> DEFINE B == {t \in R : t < v}
  <2>1. m \in B
    BY <1>1, <1>4
  <2>2. B \in SUBSET Nat /\ IsFiniteSet(B)
    BY FS_Subset
  <2>3. Greatest(B) \in B /\ \A t \in B : t <= Greatest(B)
    <3> HIDE DEF B
    <3>1. QED
      BY <2>1, <2>2, GreatestExists
  <2>4. PICK g \in B : \A t \in B : t <= g
    BY <2>3
  <2>5. g \in Nat /\ g < v /\ g < h /\ g + d \in R
    <3>1. g \in R /\ g \in Nat /\ g < v
      BY <2>4
    <3>2. g < h
      BY <1>2, <1>4, <3>1
    <3>3. QED
      BY <1>2, <3>1, <3>2 DEF Chained
  <2>6. Apart(g, v, d)
    BY <1>1, <1>3, <1>4, <2>4, <2>5, ApartSym, ApartTrans
  <2>7. g + d <= v
    BY <2>5, <2>6, ApartByOne
  <2>8. g + d \in B
    BY <1>4, <2>5, <2>7
  <2>9. QED
    BY <2>4, <2>5, <2>8
<1>5. QED
  BY <1>3, <1>4 DEF m, h

\* The data timesteps, extended to the schedule, are such a set again.
LEMMA SupersetIsChained ==
  ASSUME NEW M \in SUBSET Nat, IsFiniteSet(M), M # {}, NEW d \in Nat \ {0}, Chained(M, d),
         NEW a \in Nat, NEW z \in Nat
  PROVE  LET T == Superset(M, a, z, d)
         IN  /\ T \in SUBSET Nat /\ IsFiniteSet(T) /\ M \subseteq T
             /\ Chained(T, d)
<1> DEFINE m == Least(M)
           g == Greatest(M)
           E == Extended(M, a, z, d)
           lo == Least(E)
           hi == Greatest(E)
           T == Superset(M, a, z, d)
<1>1. m \in M /\ g \in M /\ \A u \in M : Apart(m, u, d)
  BY LeastExists, GreatestExists, ChainedIsGrid
<1>2. E = M \cup {u \in a .. m : (u - m) % d = 0} \cup {u \in g .. z : (u - g) % d = 0}
  BY DEF Extended, OnGrid
<1> HIDE DEF m, g, E
<1>3. E \in SUBSET Nat /\ E # {} /\ M \subseteq E
  <2>1. m \in Nat /\ g \in Nat
    BY <1>1
  <2>2. \A u \in E : u \in Nat
    BY <1>2, <2>1
  <2>3. M \subseteq E /\ m \in E
    BY <1>1, <1>2
  <2>4. QED
    BY <2>2, <2>3
<1>4. IsFiniteSet(E)
  <2>1. IsFiniteSet(a .. m) /\ IsFiniteSet(g .. z)
    BY <1>1, FS_Interval
  <2>2. IsFiniteSet(M \cup (a .. m))
    BY <2>1, FS_Union
  <2>3. IsFiniteSet((M \cup (a .. m)) \cup (g .. z))
    BY <2>1, <2>2, FS_Union
  <2>4. E \in SUBSET ((M \cup (a .. m)) \cup (g .. z))
    BY <1>2
  <2>5. QED
    BY <2>3, <2>4, FS_Subset
<1>5. ASSUME NEW u \in E PROVE Apart(m, u, d)
  <2>1. CASE u \in M
    BY <1>1, <2>1
  <2>2. CASE u \in a .. m /\ (u - m) % d = 0
    BY <1>1, <2>2, ApartByRemainder
  <2>3. CASE u \in g .. z /\ (u - g) % d = 0
    <3>1. Apart(g, u, d) /\ Apart(m, g, d)
      BY <1>1, <2>3, ApartByRemainder
    <3>2. QED
      BY <1>1, <2>3, <3>1, ApartTrans
  <2>4. QED
    BY <1>2, <2>1, <2>2, <2>3
<1>6. lo \in E /\ hi \in E /\ \A u \in E : lo <= u /\ u <= hi
  BY <1>3, <1>4, LeastExists, GreatestExists
<1>7. T = E \cup {u \in lo .. hi : (u - lo) % d = 0}
  BY DEF Superset, OnGrid, E
<1> HIDE DEF lo, hi, T
<1>8. lo \in Nat /\ hi \in Nat /\ lo <= hi
  BY <1>3, <1>6
<1>9. ASSUME NEW u PROVE u \in T <=> u \in lo .. hi /\ Apart(lo, u, d)
  <2>1. ASSUME u \in E PROVE u \in lo .. hi /\ Apart(lo, u, d)
    BY <1>1, <1>3, <1>5, <1>6, <2>1, ApartSym, ApartTrans
  <2>2. ASSUME u \in lo .. hi PROVE (u - lo) % d = 0 <=> Apart(lo, u, d)
    BY <1>8, <2>2, ApartByRemainder
  <2>3. QED
    BY <1>7, <2>1, <2>2
<1>10. T \in SUBSET Nat /\ M \subseteq T
  <2>1. \A u \in T : u \in Nat
    BY <1>8, <1>9
  <2>2. E \subseteq T
    BY <1>7
  <2>3. QED
    BY <1>3, <2>1, <2>2
<1>11. IsFiniteSet(T)
  <2>1. IsFiniteSet(lo .. hi)
    BY <1>8, FS_Interval
  <2>2. T \in SUBSET (lo .. hi)
    BY <1>9
  <2>3. QED
    BY <2>1, <2>2, FS_Subset
<1>12. Chained(T, d)
  <2>1. SUFFICES ASSUME NEW t \in T, NEW u \in T, t < u PROVE t + d \in T /\ t + d <= u
    BY DEF Chained
  <2>2. t \in Nat /\ u \in Nat /\ lo <= t /\ u <= hi /\ Apart(lo, t, d) /\ Apart(lo, u, d)
    BY <1>8, <1>9
  <2>3. t + d <= u
    BY <1>8, <2>1, <2>2, ApartSym, ApartTrans, ApartByOne
  <2>4. Apart(lo, t + d, d)
    BY <1>8, <2>2, ApartSelf, ApartTrans
  <2>5. QED
    BY <1>8, <1>9, <2>2, <2>3, <2>4
<1>13. QED
  BY <1>10, <1>11, <1>12 DEF T
-----------------------------------------------------------------------------
(* What Sorted makes of them. *)

LEMMA SortedGrid ==
  ASSUME NEW T \in SUBSET Nat, IsFiniteSet(T), T # {}, NEW d \in Nat \ {0}, Chained(T, d)
  PROVE  \E n \in Nat \ {0} :
           /\ Sorted(T) = [i \in 1 .. n |-> Least(T) + (i - 1) * d]
           /\ \A u : u \in T <=> \E i \in 1 .. n : u = Least(T) + (i - 1) * d
<1> DEFINE lo == Least(T)
           hi == Greatest(T)
<1>1. lo \in T /\ hi \in T /\ lo \in Nat /\ hi \in Nat /\ \A t \in T : lo <= t /\ t <= hi
  BY LeastExists, GreatestExists
<1>2. /\ \A u \in T : Apart(lo, u, d)
      /\ \A v \in Nat : lo <= v /\ v <= hi /\ Apart(lo, v, d) => v \in T
  BY ChainedIsGrid
<1> HIDE DEF lo, hi
<1>3. PICK k \in Int : hi = lo + k * d
  BY <1>1, <1>2 DEF Apart
<1>4. k \in Nat
  <2>1. SUFFICES ASSUME k < 0 PROVE FALSE
    OBVIOUS
  <2>2. k * d < 0
    BY <2>1
  <2>3. QED
    BY <1>1, <1>3, <2>2
<1> DEFINE n == k + 1
           F(i) == lo + (i - 1) * d
<1>5. n \in Nat \ {0}
  BY <1>4
<1>6. ASSUME NEW i \in 1 .. n PROVE F(i) \in T /\ F(i) \in Nat
  <2>1. (i - 1) * d \in Nat /\ (i - 1) * d <= k * d
    BY <1>4
  <2>2. F(i) \in Nat /\ lo <= F(i) /\ F(i) <= hi
    <3> DEFINE p == (i - 1) * d
               q == k * d
    <3>1. p \in Nat /\ p <= q /\ q \in Int /\ hi = lo + q /\ F(i) = lo + p
      BY <1>3, <1>4, <2>1
    <3> HIDE DEF p, q, F
    <3>2. QED
      BY <1>1, <3>1
  <2>3. Apart(lo, F(i), d)
    <3>1. i - 1 \in Int /\ F(i) = lo + (i - 1) * d
      BY <1>4
    <3> HIDE DEF F
    <3>2. QED
      BY <3>1 DEF Apart
  <2>4. QED
    BY <1>2, <2>2, <2>3
<1>7. ASSUME NEW i \in 1 .. n, NEW j \in 1 .. n PROVE F(i) <= F(j) <=> i <= j
  <2>1. i \in Nat /\ j \in Nat
    BY <1>5
  <2>2. ASSUME i <= j PROVE F(i) <= F(j)
    <3>1. (i - 1) * d <= (j - 1) * d
      BY <2>1, <2>2
    <3>2. QED
      BY <1>1, <2>1, <3>1
  <2>3. ASSUME j < i PROVE F(j) < F(i)
    <3>1. (j - 1) * d + d <= (i - 1) * d
      <4>1. (j - 1) * d + d = j * d
        BY <2>1
      <4>2. j * d <= (i - 1) * d
        BY <2>1, <2>3
      <4>3. QED
        BY <4>1, <4>2
    <3> DEFINE p == (j - 1) * d
               q == (i - 1) * d
    <3>2. p \in Int /\ q \in Int /\ p + d <= q /\ F(j) = lo + p /\ F(i) = lo + q
      BY <2>1, <3>1
    <3> HIDE DEF p, q, F
    <3>3. QED
      BY <1>1, <3>2
  <2> HIDE DEF F
  <2>4. F(i) \in Int /\ F(j) \in Int
    BY <1>6
  <2>5. QED
    BY <2>1, <2>2, <2>3, <2>4
<1>8. ASSUME NEW u \in T PROVE \E i \in 1 .. n : u = F(i)
  <2>1. PICK q \in Int : u = lo + q * d
    BY <1>2 DEF Apart
  <2>2. u \in Nat /\ lo <= u /\ u <= hi
    BY <1>1
  <2>3. q >= 0
    <3>1. SUFFICES ASSUME q < 0 PROVE FALSE
      BY <2>1
    <3>2. q * d < 0
      BY <3>1
    <3>3. QED
      BY <1>1, <2>1, <2>2, <3>2
  <2>4. q <= k
    <3>1. SUFFICES ASSUME q >= k + 1 PROVE FALSE
      BY <1>4, <2>1
    <3>2. q * d >= (k + 1) * d
      BY <1>4, <3>1
    <3>3. (k + 1) * d = k * d + d
      BY <1>4
    <3>4. k * d \in Int /\ q * d \in Int
      BY <1>4
    <3>5. QED
      BY <1>1, <1>3, <2>1, <2>2, <3>2, <3>3, <3>4
  <2>5. q + 1 \in 1 .. n /\ (q + 1) - 1 = q
    BY <1>4, <2>3, <2>4
  <2>6. QED
    BY <2>1, <2>5
<1> HIDE DEF F, n
\* The members up to the i-th are i.
<1>9. ASSUME NEW i \in 1 .. n PROVE Cardinality({y \in T : y <= F(i)}) = i
  <2> DEFINE D == {y \in T : y <= F(i)}
             f == [j \in 1 .. i |-> F(j)]
  <2>1. i \in Nat /\ \A j \in 1 .. i : j \in 1 .. n
    BY <1>5
  <2>2. \A j \in 1 .. i : f[j] = F(j) /\ F(j) \in D
    BY <1>6, <1>7, <2>1
  <2>3. \A y \in D : \E j \in 1 .. i : f[j] = y
    <3>1. SUFFICES ASSUME NEW y \in D PROVE \E j \in 1 .. i : F(j) = y
      OBVIOUS
    <3>2. PICK j \in 1 .. n : y = F(j)
      BY <1>8
    <3>3. j <= i
      BY <1>7, <3>2
    <3>4. QED
      BY <1>5, <3>2, <3>3
  <2>4. \A j, l \in 1 .. i : f[j] = f[l] => j = l
    <3>1. SUFFICES ASSUME NEW j \in 1 .. i, NEW l \in 1 .. i, F(j) = F(l) PROVE j = l
      OBVIOUS
    <3>2. F(j) <= F(l) /\ F(l) <= F(j)
      BY <1>6, <2>1, <3>1
    <3>3. QED
      BY <1>7, <2>1, <3>2
  <2>5. f \in Bijection(1 .. i, D)
    <3> HIDE DEF D
    <3>1. f \in [1 .. i -> D]
      BY <2>2
    <3>2. QED
      BY <2>3, <2>4, <3>1 DEF Bijection, Injection, Surjection, IsInjective
  <2>6. QED
    BY <2>1, <2>5, FS_CountingElements DEF ExistsBijection
<1>10. {y \in T : y <= F(n)} = T
  <2>1. n \in 1 .. n
    BY <1>5
  <2>2. \A y \in T : y <= F(n)
    BY <1>7, <1>8, <2>1, <1>5
  <2>3. QED
    BY <2>2
<1>11. Cardinality(T) = n
  BY <1>5, <1>9, <1>10
<1>12. ASSUME NEW i \in 1 .. n
       PROVE  (CHOOSE x \in T : Cardinality({y \in T : y <= x}) = i) = F(i)
  <2>1. F(i) \in T /\ Cardinality({y \in T : y <= F(i)}) = i
    BY <1>6, <1>9
  <2>2. ASSUME NEW x \in T, Cardinality({y \in T : y <= x}) = i PROVE x = F(i)
    <3>1. PICK j \in 1 .. n : x = F(j)
      BY <1>8
    <3>2. Cardinality({y \in T : y <= x}) = j
      BY <1>9, <3>1
    <3>3. QED
      BY <2>2, <3>1, <3>2
  <2>3. QED
    BY <2>1, <2>2
<1>13. Sorted(T) = [i \in 1 .. n |-> F(i)]
  BY <1>11, <1>12 DEF Sorted
<1>14. \A u : u \in T <=> \E i \in 1 .. n : u = F(i)
  BY <1>6, <1>8
<1>15. QED
  BY <1>5, <1>13, <1>14 DEF F, lo

\* Sorted lists every member of a set, and nothing else.
LEMMA SortedMembers ==
  ASSUME NEW S \in SUBSET Nat, IsFiniteSet(S)
  PROVE  /\ Cardinality(S) \in Nat
         /\ \A i \in 1 .. Cardinality(S) : Sorted(S)[i] \in S
         /\ \A x \in S : \E i \in 1 .. Cardinality(S) : Sorted(S)[i] = x
<1> DEFINE n == Cardinality(S)
           Upto(x) == {y \in S : y <= x}
           r == [x \in S |-> Cardinality(Upto(x))]
<1>1. n \in Nat
  BY FS_CardinalityType
<1>2. ASSUME NEW x \in S PROVE IsFiniteSet(Upto(x)) /\ r[x] \in 1 .. n
  <2>1. Upto(x) \in SUBSET S /\ x \in Upto(x)
    OBVIOUS
  <2> HIDE DEF Upto
  <2>2. IsFiniteSet(Upto(x)) /\ Cardinality(Upto(x)) <= n
    BY <2>1, FS_Subset
  <2>3. Cardinality(Upto(x)) \in Nat /\ Cardinality(Upto(x)) # 0
    BY <2>1, <2>2, FS_CardinalityType, FS_EmptySet
  <2>4. QED
    BY <1>1, <2>2, <2>3
<1>3. ASSUME NEW x \in S, NEW z \in S, x < z PROVE r[x] # r[z]
  <2>1. Upto(x) \in SUBSET Upto(z)
    <3>1. \A y \in S : y <= x => y <= z
      BY <1>3
    <3>2. QED
      BY <3>1, Zenon
  <2>2. z \in Upto(z) /\ z \notin Upto(x)
    BY <1>3
  <2>3. IsFiniteSet(Upto(z))
    BY <1>2
  <2> HIDE DEF Upto
  <2>4. Cardinality(Upto(z)) # Cardinality(Upto(x))
    BY <2>1, <2>2, <2>3, FS_Subset
  <2>5. QED
    BY <2>4
<1> HIDE DEF n, Upto
<1>4. r \in Injection(S, 1 .. n)
  <2>1. r \in [S -> 1 .. n]
    BY <1>2
  <2>2. \A x, z \in S : r[x] = r[z] => x = z
    <3> HIDE DEF r
    <3>1. \A x, z \in S : x < z \/ x = z \/ z < x
      OBVIOUS
    <3>2. QED
      BY <1>3, <3>1
  <2>3. QED
    BY <2>1, <2>2 DEF Injection, IsInjective
<1>5. IsFiniteSet(1 .. n) /\ Cardinality(1 .. n) = n
  BY <1>1, FS_Interval
<1>6. r \in Surjection(S, 1 .. n)
  BY <1>4, <1>5, FS_Injection DEF n
<1>7. \A i \in 1 .. n : \E x \in S : r[x] = i
  BY <1>6 DEF Surjection
<1>8. ASSUME NEW i \in 1 .. n
      PROVE  Sorted(S)[i] \in S /\ r[Sorted(S)[i]] = i
  <2>1. Sorted(S) = [j \in 1 .. n |-> CHOOSE x \in S : Cardinality(Upto(x)) = j]
    BY DEF Sorted, n, Upto
  <2>2. \E x \in S : Cardinality(Upto(x)) = i
    BY <1>7
  <2>3. QED
    BY <2>1, <2>2
<1>9. ASSUME NEW x \in S PROVE \E i \in 1 .. n : Sorted(S)[i] = x
  <2>1. r[x] \in 1 .. n
    BY <1>2
  <2>2. Sorted(S)[r[x]] \in S /\ r[Sorted(S)[r[x]]] = r[x]
    BY <1>8, <2>1
  <2>3. Sorted(S)[r[x]] = x
    BY <1>4, <2>2 DEF Injection, IsInjective
  <2>4. QED
    BY <2>1, <2>3
<1>10. QED
  BY <1>1, <1>8, <1>9 DEF n

-----------------------------------------------------------------------------
(* The files: what others do to them leaves their names as they are, and   *)
(* leaves a trace among the changes.                                       *)

Files == ToSet(offered)

TimeOf(n) == Contents[n].time
ChanOf(n) == Contents[n].chan

ChangeRecords == [name : Files, kind : {"vanished", "cut", "grown"}]

DiskInv ==
  /\ offered \in Seq(Names)
  /\ disk \in [Files -> FileRecords]
  /\ changes \in Seq(ChangeRecords)
  /\ \A n \in Files : /\ disk[n].format = Contents[n].format /\ disk[n].obsid = Contents[n].obsid
                      /\ disk[n].time = TimeOf(n) /\ disk[n].chan = ChanOf(n)

\* A file has been changed in one of these ways.
Touched(n, kinds) ==
  \E i \in DOMAIN changes : changes[i].name = n /\ changes[i].kind \in kinds

\* It is there and of that size, unless it has been changed.
IsAsSeen(n, s) ==
  /\ disk[n].present \/ Touched(n, {"vanished"})
  /\ disk[n].size >= s \/ Touched(n, {"cut"})
  /\ disk[n].size <= s \/ Touched(n, {"grown"})

SeenInv ==
  /\ size \subseteq Nat /\ \A s, u \in size : s = u
  /\ stage = "batches" => size = {}
  /\ stage = "ready" => unseen = {}
  /\ stage \in {"examine", "ready"} =>
       \A i \in DOMAIN offered \ unseen : size # {} /\ \A s \in size : IsAsSeen(offered[i], s)

\* What the batches hold.
NamesInv ==
  stage \in {"examine", "ready"} =>
    /\ offered # <<>> /\ mwaVersion \in Versions
    /\ \A n \in Files : Contents[n].format = mwaVersion /\ Contents[n].obsid = "same"
    /\ \A t : t \in MapTimes <=> \E n \in Files : t = TimeOf(n)
    /\ \A t \in MapTimes : \A c : c \in timeMap[t] <=> \E n \in Files : t = TimeOf(n) /\ c = ChanOf(n)
    /\ 0 \notin MapTimes => Chained(MapTimes, FileSeconds)

\* Every time and channel of a name has its file.
FileOfInv ==
  stage \in {"examine", "ready"} =>
    /\ \A k : k \in DOMAIN fileOf <=> \E n \in Files : k = <<TimeOf(n), ChanOf(n)>>
    /\ \A k \in DOMAIN fileOf :
         fileOf[k] \in Files /\ k = <<TimeOf(fileOf[k]), ChanOf(fileOf[k])>>

\* As many files of one time as of another, as far as the counter can tell.
NamesOf(t) == {i \in DOMAIN offered : TimeOf(offered[i]) = t}
CountsInv ==
  stage \in {"examine", "ready"} =>
    \A t, u \in MapTimes :
      Cardinality(NamesOf(t)) % CounterLimit = Cardinality(NamesOf(u)) % CounterLimit


LEMMA FilesOffered ==
  ASSUME DiskInv
  PROVE  /\ Len(offered) \in Nat /\ DOMAIN offered = 1 .. Len(offered)
         /\ \A i \in DOMAIN offered : offered[i] \in Files /\ offered[i] \in Names
         /\ \A n \in Files : n \in Names /\ \E i \in DOMAIN offered : n = offered[i]
         /\ \A n \in Names : Contents[n] \in FileRecords
<1>1. offered \in Seq(Names)
  BY DEF DiskInv
<1>2. Len(offered) \in Nat /\ DOMAIN offered = 1 .. Len(offered)
  BY <1>1
<1>3. \A i \in DOMAIN offered : offered[i] \in Names
  BY <1>1
<1>4. QED
  BY <1>2, <1>3, FilesAssumption DEF Files, ToSet

LEMMA DiskInit == Init => DiskInv
<1>1. SUFFICES ASSUME Init PROVE DiskInv
  OBVIOUS
<1>2. offered \in Seq(Names) /\ changes = <<>> /\ disk = [n \in Files |-> Contents[n]]
  BY <1>1, FilesAssumption DEF Init, Files
<1>3. \A n \in Files : Contents[n] \in FileRecords
  BY <1>2, FilesAssumption DEF Files, ToSet
<1>4. QED
  BY <1>2, <1>3 DEF DiskInv, TimeOf, ChanOf

\* A change of one file leaves it a file with the same name.
LEMMA FileChanges ==
  ASSUME NEW r \in FileRecords, NEW p \in BOOLEAN, NEW s \in Nat
  PROVE  \A f \in {[r EXCEPT !.present = p], [r EXCEPT !.size = s]} :
           /\ f \in FileRecords
           /\ f.format = r.format /\ f.obsid = r.obsid /\ f.time = r.time /\ f.chan = r.chan
<1>1. DOMAIN r = {"format", "time", "chan", "obsid", "size", "present"}
  BY DEF FileRecords
<1>2. ASSUME NEW f, f = [r EXCEPT !.present = p]
      PROVE  /\ f \in FileRecords
             /\ f.format = r.format /\ f.obsid = r.obsid /\ f.time = r.time /\ f.chan = r.chan
  BY <1>2 DEF FileRecords
<1>3. ASSUME NEW f, f = [r EXCEPT !.size = s]
      PROVE  /\ f \in FileRecords
             /\ f.format = r.format /\ f.obsid = r.obsid /\ f.time = r.time /\ f.chan = r.chan
  BY <1>3 DEF FileRecords
<1>4. QED
  BY <1>2, <1>3

\* So the disk holds the files offered, as it did.
LEMMA DiskChanges ==
  ASSUME DiskInv, NEW n \in Files, NEW f \in FileRecords, disk' = [disk EXCEPT ![n] = f],
         /\ f.format = disk[n].format /\ f.obsid = disk[n].obsid
         /\ f.time = disk[n].time /\ f.chan = disk[n].chan
  PROVE  /\ disk' \in [Files -> FileRecords]
         /\ \A m \in Files : /\ disk'[m].format = disk[m].format /\ disk'[m].obsid = disk[m].obsid
                             /\ disk'[m].time = disk[m].time /\ disk'[m].chan = disk[m].chan
<1>1. disk \in [Files -> FileRecords]
  BY DEF DiskInv
<1>2. disk' \in [Files -> FileRecords]
  BY <1>1
<1>3. disk'[n] = f /\ \A m \in Files : m # n => disk'[m] = disk[m]
  BY <1>1
<1>4. QED
  BY <1>2, <1>3

LEMMA DiskNext == DiskInv /\ [Next]_vars => DiskInv'
<1>1. SUFFICES ASSUME DiskInv, [Next]_vars PROVE DiskInv'
  OBVIOUS
<1>2. ASSUME UNCHANGED others PROVE DiskInv'
  BY <1>1, <1>2 DEF DiskInv, others, Files, ChangeRecords
<1>3. CASE Vanish
  <2>1. PICK n \in Files : /\ disk' = [disk EXCEPT ![n].present = FALSE]
                           /\ changes' = Append(changes, [name |-> n, kind |-> "vanished"])
                           /\ offered' = offered
    BY <1>3 DEF Vanish, Files
  <2>2. Files' = Files /\ ChangeRecords' = ChangeRecords
    BY <2>1 DEF Files, ChangeRecords
  <2>3. [name |-> n, kind |-> "vanished"] \in ChangeRecords
    BY DEF ChangeRecords
  <2>4. changes' \in Seq(ChangeRecords)
    BY <1>1, <2>1, <2>3 DEF DiskInv
  <2> DEFINE f == [disk[n] EXCEPT !.present = FALSE]
  <2>5. disk[n] \in FileRecords /\ FALSE \in BOOLEAN /\ 0 \in Nat
    BY <1>1 DEF DiskInv
  <2>6. /\ f \in FileRecords
        /\ f.format = disk[n].format /\ f.obsid = disk[n].obsid
        /\ f.time = disk[n].time /\ f.chan = disk[n].chan
    BY <2>5, FileChanges
  <2>7. disk' = [disk EXCEPT ![n] = f]
    BY <2>1
  <2> HIDE DEF f
  <2>8. /\ disk' \in [Files -> FileRecords]
        /\ \A m \in Files : /\ disk'[m].format = disk[m].format /\ disk'[m].obsid = disk[m].obsid
                            /\ disk'[m].time = disk[m].time /\ disk'[m].chan = disk[m].chan
    BY <1>1, <2>6, <2>7, DiskChanges
  <2>9. QED
    BY <1>1, <2>1, <2>2, <2>4, <2>8 DEF DiskInv
<1>4. CASE Resize
  <2>1. PICK n \in Files, s \in NewSizes :
          /\ disk' = [disk EXCEPT ![n].size = s]
          /\ changes' = Append(changes, [name |-> n, kind |-> IF s < disk[n].size THEN "cut" ELSE "grown"])
          /\ offered' = offered
    BY <1>4 DEF Resize, Files
  <2>2. Files' = Files /\ ChangeRecords' = ChangeRecords
    BY <2>1 DEF Files, ChangeRecords
  <2>3. [name |-> n, kind |-> IF s < disk[n].size THEN "cut" ELSE "grown"] \in ChangeRecords
    BY DEF ChangeRecords
  <2>4. changes' \in Seq(ChangeRecords)
    BY <1>1, <2>1, <2>3 DEF DiskInv
  <2> DEFINE f == [disk[n] EXCEPT !.size = s]
  <2>5. disk[n] \in FileRecords /\ s \in Nat /\ TRUE \in BOOLEAN
    BY <1>1, FilesAssumption DEF DiskInv
  <2>6. /\ f \in FileRecords
        /\ f.format = disk[n].format /\ f.obsid = disk[n].obsid
        /\ f.time = disk[n].time /\ f.chan = disk[n].chan
    BY <2>5, FileChanges
  <2>7. disk' = [disk EXCEPT ![n] = f]
    BY <2>1
  <2> HIDE DEF f
  <2>8. /\ disk' \in [Files -> FileRecords]
        /\ \A m \in Files : /\ disk'[m].format = disk[m].format /\ disk'[m].obsid = disk[m].obsid
                            /\ disk'[m].time = disk[m].time /\ disk'[m].chan = disk[m].chan
    BY <1>1, <2>6, <2>7, DiskChanges
  <2>9. QED
    BY <1>1, <2>1, <2>2, <2>4, <2>8 DEF DiskInv
<1>5. CASE Build
  BY <1>2, <1>5 DEF Build, RefuseNames, RefuseTimes, CounterOverflows, DetermineBatches,
     ExamineFile, Populate
<1>6. CASE UNCHANGED vars
  BY <1>2, <1>6 DEF vars
<1>7. QED
  BY <1>1, <1>3, <1>4, <1>5, <1>6 DEF Next

-----------------------------------------------------------------------------
(* The names: no time is missing between two. *)

LEMMA FollowsChained ==
  ASSUME NEW G \in SUBSET Nat, IsFiniteSet(G), 0 \notin G, NEW d \in Nat \ {0},
         \A t \in G : {u \in G : u < t} \ {0} # {} => Greatest({u \in G : u < t}) + d = t
  PROVE  Chained(G, d)
<1>1. SUFFICES ASSUME NEW t \in G, NEW u \in G, t < u PROVE t + d \in G /\ t + d <= u
  BY DEF Chained
<1> DEFINE After == {v \in G : t < v}
<1>2. PICK w \in After : \A v \in After : w <= v
  <2>1. After \in SUBSET Nat /\ After # {}
    BY <1>1
  <2> HIDE DEF After
  <2>2. QED
    BY <2>1, LeastExists
<1> DEFINE Before == {v \in G : v < w}
<1>3. t \in Before /\ Before \in SUBSET Nat /\ IsFiniteSet(Before)
  <2>1. t \in Before /\ Before \in SUBSET G
    BY <1>2
  <2>2. QED
    BY <2>1, FS_Subset
<1>4. PICK g \in Before : g = Greatest(Before) /\ t <= g
  <2> HIDE DEF Before
  <2>1. Greatest(Before) \in Before /\ \A v \in Before : v <= Greatest(Before)
    BY <1>3, GreatestExists
  <2>2. QED
    BY <1>3, <2>1
<1>5. g = t
  <2>1. g \in Nat /\ t \in Nat /\ g < w /\ t <= g /\ w \in Nat
    BY <1>2, <1>4
  <2>2. ~(t < g)
    BY <1>2, <1>4, <2>1
  <2>3. QED
    BY <2>1, <2>2
<1>6. Greatest(Before) + d = w
  BY <1>2, <1>3
<1>7. QED
  BY <1>1, <1>2, <1>4, <1>5, <1>6

\* What the names on the disk say is what they said at first.
LEMMA NamesAsRead ==
  ASSUME DiskInv
  PROVE  /\ \A i \in DOMAIN offered :
              /\ FileAt(i).time = TimeOf(offered[i]) /\ FileAt(i).chan = ChanOf(offered[i])
              /\ FileAt(i).format = Contents[offered[i]].format
              /\ FileAt(i).obsid = Contents[offered[i]].obsid
              /\ FileAt(i).time \in Nat /\ FileAt(i).chan \in Nat /\ FileAt(i).size \in Nat
         /\ \A t : t \in GpsTimes <=> \E n \in Files : t = TimeOf(n)
         /\ GpsTimes \in SUBSET Nat /\ IsFiniteSet(GpsTimes)
<1>1. ASSUME NEW i \in DOMAIN offered
      PROVE  /\ FileAt(i).time = TimeOf(offered[i]) /\ FileAt(i).chan = ChanOf(offered[i])
             /\ FileAt(i).format = Contents[offered[i]].format
             /\ FileAt(i).obsid = Contents[offered[i]].obsid
             /\ FileAt(i).time \in Nat /\ FileAt(i).chan \in Nat /\ FileAt(i).size \in Nat
  BY FilesOffered DEF DiskInv, FileAt, FileRecords
<1>2. \A t : t \in GpsTimes <=> \E n \in Files : t = TimeOf(n)
  BY <1>1, FilesOffered DEF GpsTimes
<1>3. GpsTimes \in SUBSET Nat
  BY <1>1 DEF GpsTimes
<1>4. IsFiniteSet(GpsTimes)
  <2> DEFINE f == [i \in DOMAIN offered |-> FileAt(i).time]
  <2>1. f \in Surjection(DOMAIN offered, GpsTimes)
    BY DEF GpsTimes, Surjection
  <2>2. IsFiniteSet(DOMAIN offered)
    BY FilesOffered, FS_Interval
  <2>3. QED
    BY <2>1, <2>2, FS_Surjection
<1>5. QED
  BY <1>1, <1>2, <1>3, <1>4

LEMMA NamesNext ==
  ASSUME DiskInv, NamesInv, FileOfInv, [Next]_vars
  PROVE  NamesInv' /\ FileOfInv'
<1>1. ASSUME UNCHANGED <<offered, mwaVersion, timeMap, fileOf>>,
             stage' \in {"examine", "ready"} => stage \in {"examine", "ready"}
      PROVE  NamesInv' /\ FileOfInv'
  <2>1. Files' = Files /\ MapTimes' = MapTimes /\ FileSeconds' = FileSeconds
    BY <1>1 DEF Files, MapTimes, FileSeconds
  <2>2. \A R, d : Chained(R, d)' <=> Chained(R, d)
    BY DEF Chained
  <2>3. QED
    BY <1>1, <2>1, <2>2 DEF NamesInv, FileOfInv, TimeOf, ChanOf
<1>2. CASE DetermineBatches
  <2> DEFINE keys == {KeyOf(i) : i \in DOMAIN offered}
  <2>1. /\ NamesAreSound /\ \A t \in GpsTimes : TimeFault(t) = "none"
        /\ offered' = offered /\ mwaVersion' = FileAt(1).format
        /\ timeMap' = [t \in GpsTimes |-> {FileAt(i).chan : i \in FilesAt(t)}]
    BY <1>2 DEF DetermineBatches, others
  <2>2. PICK firsts \in SUBSET DOMAIN offered :
          /\ {KeyOf(i) : i \in firsts} = keys
          /\ fileOf' = [k \in keys |-> offered[CHOOSE i \in firsts : KeyOf(i) = k]]
    BY <1>2 DEF DetermineBatches, kSubset
  <2>3. offered # <<>> /\ 1 \in DOMAIN offered
    BY <2>1, FilesOffered DEF NamesAreSound, DiskInv
  <2>4. \A i \in DOMAIN offered : /\ FileAt(i).format = FileAt(1).format /\ FileAt(i).format # "none"
                                  /\ FileAt(i).obsid = "same"
    BY <2>1 DEF NamesAreSound, NameFault
  <2>5. mwaVersion' \in Versions /\ FileSeconds' = Interval /\ Interval \in Nat \ {0}
    <3>1. FileAt(1).format \in Versions
      BY <2>3, <2>4, FilesOffered DEF DiskInv, FileAt, FileRecords
    <3>2. QED
      BY <2>1, <3>1, SecondsAssumption DEF FileSeconds, Interval
  <2>6. Files' = Files /\ MapTimes' = GpsTimes
    BY <2>1 DEF Files, MapTimes
  <2>7. \A n \in Files : Contents[n].format = mwaVersion' /\ Contents[n].obsid = "same"
    BY <2>1, <2>4, NamesAsRead, FilesOffered
  <2>8. ASSUME NEW t \in GpsTimes, NEW c
        PROVE  c \in timeMap'[t] <=> \E n \in Files : t = TimeOf(n) /\ c = ChanOf(n)
    <3>1. timeMap'[t] = {FileAt(i).chan : i \in FilesAt(t)}
      BY <2>1
    <3>2. c \in timeMap'[t] <=> \E i \in DOMAIN offered : FileAt(i).time = t /\ c = FileAt(i).chan
      BY <3>1 DEF FilesAt
    <3>3. QED
      BY <3>2, NamesAsRead, FilesOffered
  <2>9. 0 \notin GpsTimes => Chained(GpsTimes, Interval)
    <3>1. \A t \in GpsTimes : Follows(t)
      BY <2>1 DEF TimeFault
    <3>2. QED
      BY <2>5, <3>1, FollowsChained, NamesAsRead DEF Follows
  <2>10. NamesInv'
    <3>1. \A R, d : Chained(R, d)' <=> Chained(R, d)
      BY DEF Chained
    <3>2. \A t : t \in MapTimes' <=> \E n \in Files : t = TimeOf(n)
      BY <2>6, NamesAsRead
    <3>3. \A t \in MapTimes' : \A c : c \in timeMap'[t] <=> \E n \in Files : t = TimeOf(n) /\ c = ChanOf(n)
      BY <2>6, <2>8
    <3>4. 0 \notin MapTimes' => Chained(MapTimes', FileSeconds')
      BY <2>5, <2>6, <2>9
    <3>5. QED
      BY <2>1, <2>3, <2>5, <2>6, <2>7, <3>1, <3>2, <3>3, <3>4 DEF NamesInv, TimeOf, ChanOf
  <2>11. \A k : k \in keys <=> \E n \in Files : k = <<TimeOf(n), ChanOf(n)>>
    BY NamesAsRead, FilesOffered DEF KeyOf
  <2>12. ASSUME NEW k \in keys
         PROVE  fileOf'[k] \in Files /\ k = <<TimeOf(fileOf'[k]), ChanOf(fileOf'[k])>>
    <3>1. PICK i \in firsts : i = (CHOOSE j \in firsts : KeyOf(j) = k) /\ KeyOf(i) = k
      <4>1. \E j \in firsts : KeyOf(j) = k
        BY <2>2
      <4>2. QED
        BY <4>1
    <3>2. fileOf'[k] = offered[i] /\ i \in DOMAIN offered
      BY <2>2, <3>1
    <3>3. QED
      BY <3>1, <3>2, NamesAsRead, FilesOffered DEF KeyOf
  <2>13. DOMAIN fileOf' = keys
    BY <2>2
  <2>14. FileOfInv'
    <3> HIDE DEF keys
    <3>1. QED
      BY <2>6, <2>11, <2>12, <2>13 DEF FileOfInv, TimeOf, ChanOf
  <2>15. QED
    BY <2>10, <2>14
<1>3. CASE Populate
  BY <1>1, <1>3 DEF Populate, others
<1>4. CASE ExamineFile
  BY <1>1, <1>4 DEF ExamineFile, others, built, ErrorIn
<1>5. CASE RefuseNames \/ RefuseTimes \/ CounterOverflows
  BY <1>1, <1>5 DEF RefuseNames, RefuseTimes, CounterOverflows, others, built, ErrorIn
<1>6. CASE Vanish \/ Resize \/ UNCHANGED vars
  BY <1>1, <1>6 DEF Vanish, Resize, vars, others, built
<1>7. QED
  BY <1>2, <1>3, <1>4, <1>5, <1>6 DEF Next, Build

-----------------------------------------------------------------------------
(* The sizes: a file that the loop has seen is as it was seen, unless a    *)
(* change says otherwise.                                                  *)

LEMMA TouchedByAppend ==
  ASSUME changes \in Seq(ChangeRecords), NEW c \in ChangeRecords, changes' = Append(changes, c)
  PROVE  /\ \A n, kinds : Touched(n, kinds) => Touched(n, kinds)'
         /\ \A kinds : c.kind \in kinds => Touched(c.name, kinds)'
<1>1. /\ Len(changes) \in Nat /\ DOMAIN changes = 1 .. Len(changes)
      /\ DOMAIN changes' = 1 .. Len(changes) + 1
      /\ \A i \in 1 .. Len(changes) : changes'[i] = changes[i]
      /\ changes'[Len(changes) + 1] = c
  OBVIOUS
<1>2. QED
  BY <1>1 DEF Touched

LEMMA SeenAfterChange ==
  ASSUME DiskInv, SeenInv, UNCHANGED <<offered, stage, unseen, size>>,
         \A n \in Files : \A s \in Nat : IsAsSeen(n, s) => IsAsSeen(n, s)'
  PROVE  SeenInv'
<1>1. \A i \in DOMAIN offered : offered[i] \in Files
  BY FilesOffered
<1>2. QED
  BY <1>1 DEF SeenInv

\* A file stays as it was seen.
LEMMA StaysAsSeen ==
  ASSUME DiskInv, [Next]_vars, NEW m \in Files, NEW s \in Nat, IsAsSeen(m, s)
  PROVE  IsAsSeen(m, s)'
<1>1. CASE Vanish
  <2>1. PICK n \in Files : /\ disk' = [disk EXCEPT ![n].present = FALSE]
                           /\ changes' = Append(changes, [name |-> n, kind |-> "vanished"])
    BY <1>1 DEF Vanish, Files
  <2>2. [name |-> n, kind |-> "vanished"] \in ChangeRecords
    BY DEF ChangeRecords
  <2>3. /\ \A l, kinds : Touched(l, kinds) => Touched(l, kinds)'
        /\ Touched(n, {"vanished"})'
    BY <2>1, <2>2, TouchedByAppend DEF DiskInv
  <2>4. /\ disk'[m].size = disk[m].size
        /\ m # n => disk'[m].present = disk[m].present
    BY <2>1 DEF DiskInv, FileRecords
  <2>5. QED
    BY <2>3, <2>4 DEF IsAsSeen
<1>2. CASE Resize
  <2>1. PICK n \in Files, z \in NewSizes :
          /\ disk' = [disk EXCEPT ![n].size = z]
          /\ changes' = Append(changes, [name |-> n, kind |-> IF z < disk[n].size THEN "cut" ELSE "grown"])
    BY <1>2 DEF Resize, Files
  <2>2. z \in Nat /\ disk[n].size \in Nat
    BY FilesAssumption DEF DiskInv, FileRecords
  <2>3. /\ \A l, kinds : Touched(l, kinds) => Touched(l, kinds)'
        /\ z < disk[n].size => Touched(n, {"cut"})'
        /\ z >= disk[n].size => Touched(n, {"grown"})'
    <3> DEFINE c == [name |-> n, kind |-> IF z < disk[n].size THEN "cut" ELSE "grown"]
    <3>1. c \in ChangeRecords /\ c.name = n
      BY DEF ChangeRecords
    <3>2. /\ z < disk[n].size => c.kind \in {"cut"}
          /\ z >= disk[n].size => c.kind \in {"grown"}
      BY <2>2
    <3> HIDE DEF c
    <3>3. changes' = Append(changes, c) /\ changes \in Seq(ChangeRecords)
      BY <2>1 DEF DiskInv, c
    <3>4. QED
      BY <3>1, <3>2, <3>3, TouchedByAppend
  <2>4. /\ disk'[m].present = disk[m].present /\ disk[m].size \in Nat
        /\ m # n => disk'[m].size = disk[m].size
        /\ m = n => disk'[m].size = z
    BY <2>1 DEF DiskInv, FileRecords
  <2>5. CASE m # n
    BY <2>3, <2>4, <2>5 DEF IsAsSeen
  <2>6. CASE m = n
    <3>1. disk'[n].present \/ Touched(n, {"vanished"})'
      BY <2>3, <2>4, <2>6 DEF IsAsSeen
    <3>2. z >= s \/ Touched(n, {"cut"})'
      BY <2>2, <2>3, <2>6 DEF IsAsSeen
    <3>3. z <= s \/ Touched(n, {"grown"})'
      BY <2>2, <2>3, <2>6 DEF IsAsSeen
    <3>4. QED
      BY <2>4, <2>6, <3>1, <3>2, <3>3 DEF IsAsSeen
  <2>7. QED
    BY <2>5, <2>6
<1>3. ASSUME UNCHANGED others PROVE IsAsSeen(m, s)'
  BY <1>3 DEF IsAsSeen, Touched, others
<1>4. CASE Build
  BY <1>3, <1>4 DEF Build, RefuseNames, RefuseTimes, CounterOverflows, DetermineBatches,
     ExamineFile, Populate
<1>5. QED
  BY <1>1, <1>2, <1>3, <1>4 DEF Next, vars

LEMMA SeenNext ==
  ASSUME DiskInv, SeenInv, [Next]_vars
  PROVE  SeenInv'
<1>1. CASE Vanish
  BY <1>1, StaysAsSeen, SeenAfterChange DEF Vanish
<1>2. CASE Resize
  BY <1>2, StaysAsSeen, SeenAfterChange DEF Resize
<1>3. ASSUME UNCHANGED <<disk, changes>> PROVE \A n, s : IsAsSeen(n, s)' <=> IsAsSeen(n, s)
  BY <1>3 DEF IsAsSeen, Touched
<1>4. CASE ExamineFile
  <2>1. PICK i \in DOMAIN offered :
          /\ unseen' = unseen \ {i}
          /\ size' = IF size = {} /\ FileAt(i).present THEN {FileAt(i).size} ELSE size
          /\ IF ~FileAt(i).present THEN ErrorIn("VoltageFileError")
             ELSE IF SizeDiffers(FileAt(i).size) THEN ErrorIn("UnequalFileSizes")
             ELSE UNCHANGED <<stage, why>>
    BY <1>4 DEF ExamineFile
  <2>2. stage = "examine" /\ UNCHANGED <<disk, changes, offered>>
    BY <1>4 DEF ExamineFile, others
  <2>3. FileAt(i).size \in Nat
    BY NamesAsRead
  <2>4. size' \subseteq Nat /\ \A s, u \in size' : s = u
    BY <2>1, <2>3 DEF SeenInv
  <2>5. CASE stage' = "examine"
    <3>1. FileAt(i).present /\ ~SizeDiffers(FileAt(i).size)
      BY <2>1, <2>5 DEF ErrorIn
    <3>2. size' = {FileAt(i).size}
      BY <2>1, <3>1 DEF SizeDiffers, SeenInv
    <3>3. IsAsSeen(offered[i], FileAt(i).size)
      BY <2>3, <3>1 DEF IsAsSeen, FileAt
    <3>4. ASSUME NEW j \in DOMAIN offered \ unseen PROVE IsAsSeen(offered[j], FileAt(i).size)
      <4>1. size # {} /\ \A s \in size : IsAsSeen(offered[j], s)
        BY <2>2 DEF SeenInv
      <4>2. FileAt(i).size \in size
        BY <3>1, <4>1 DEF SizeDiffers
      <4>3. QED
        BY <4>1, <4>2
    <3>5. \A j \in DOMAIN offered \ unseen' : IsAsSeen(offered[j], FileAt(i).size)
      BY <2>1, <3>3, <3>4
    <3>6. (\A j \in DOMAIN offered \ unseen : \A s \in size : IsAsSeen(offered[j], s))'
      BY <2>2, <3>2, <3>5 DEF IsAsSeen, Touched
    <3>7. QED
      BY <2>2, <2>4, <2>5, <3>2, <3>6 DEF SeenInv
  <2>6. CASE stage' = "error"
    BY <2>4, <2>6 DEF SeenInv
  <2>7. QED
    BY <2>1, <2>2, <2>5, <2>6 DEF ErrorIn
<1>5. CASE Populate
  BY <1>3, <1>5 DEF Populate, SeenInv, others
<1>6. CASE DetermineBatches
  BY <1>6 DEF DetermineBatches, SeenInv, others
<1>7. CASE RefuseNames \/ RefuseTimes \/ CounterOverflows
  BY <1>7 DEF RefuseNames, RefuseTimes, CounterOverflows, SeenInv, others, built, ErrorIn
<1>8. CASE UNCHANGED vars
  BY <1>3, <1>8 DEF vars, others, SeenInv
<1>9. QED
  BY <1>1, <1>2, <1>4, <1>5, <1>6, <1>7, <1>8 DEF Next, Build

-----------------------------------------------------------------------------
(* The timesteps: one grid, on which the times of the data are. *)

Grid(n) ==
  /\ timesteps[1] \in Nat
  /\ timesteps = [i \in 1 .. n |-> timesteps[1] + (i - 1) * FileSeconds]
  /\ \A t \in MapTimes : \E i \in 1 .. n : t = timesteps[i]

UniformInv == stage = "ready" /\ 0 \notin MapTimes => \E n \in Nat \ {0} : Grid(n)

\* From the first to the last common time all times have every channel, none
\* before the first, nor the one after the last.
IsCommon(a, from) ==
  \/ a = NoCommon /\ \A t \in MapTimes : t >= from => timeMap[t] # MapChans
  \/ \E s \in MapTimes, l \in MapTimes :
       /\ a = [kind |-> "some", start |-> s, end |-> l + FileSeconds, chans |-> MapChans]
       /\ from <= s /\ s <= l
       /\ \A t \in MapTimes : s <= t /\ t <= l => timeMap[t] = MapChans
       /\ \A t \in MapTimes : from <= t /\ t < s => timeMap[t] # MapChans
       /\ l + FileSeconds \in MapTimes => timeMap[l + FileSeconds] # MapChans

CommonInv == stage = "ready" /\ 0 \notin MapTimes => IsCommon(common, 0) /\ IsCommon(good, GoodTime)

\* The times of a map that holds something.
LEMMA MapTimesAreTimes ==
  ASSUME DiskInv, NamesInv, stage \in {"examine", "ready"}
  PROVE  /\ MapTimes \in SUBSET Nat /\ IsFiniteSet(MapTimes) /\ MapTimes # {}
         /\ FileSeconds \in Nat \ {0}
         /\ \A n \in Files : TimeOf(n) \in MapTimes
<1>1. \A t : t \in MapTimes <=> t \in GpsTimes
  BY NamesAsRead DEF NamesInv
<1>2. MapTimes = GpsTimes
  BY <1>1
<1>3. FileSeconds \in Nat \ {0}
  BY SecondsAssumption DEF FileSeconds, NamesInv
<1>4. offered[1] \in Files
  BY FilesOffered DEF NamesInv, DiskInv
<1>5. \A n \in Files : TimeOf(n) \in MapTimes
  BY DEF NamesInv
<1>6. QED
  BY <1>2, <1>3, <1>4, <1>5, NamesAsRead

LEMMA ScheduleEnds ==
  ASSUME FileSeconds \in Nat \ {0}
  PROVE  Least(Schedule) \in Nat /\ Greatest(Schedule) \in Nat
<1> DEFINE end == SchedStart + SchedSeconds - 1
<1>1. SchedStart \in Nat /\ end \in Nat /\ SchedStart <= end
  BY ScheduleAssumption
<1>2. Schedule = {u \in SchedStart .. end : (u - SchedStart) % FileSeconds = 0}
  BY DEF Schedule, OnGrid
<1> HIDE DEF end
<1>3. (SchedStart - SchedStart) % FileSeconds = 0
  BY <1>1
<1>4. SchedStart \in Schedule /\ Schedule \in SUBSET (SchedStart .. end)
  BY <1>1, <1>2, <1>3
<1>5. Schedule \in SUBSET Nat
  BY <1>1, <1>4
<1>6. IsFiniteSet(Schedule)
  <2>1. IsFiniteSet(SchedStart .. end)
    BY <1>1, FS_Interval
  <2>2. QED
    BY <1>4, <2>1, FS_Subset
<1>7. QED
  BY <1>4, <1>5, <1>6, LeastExists, GreatestExists

LEMMA CommonShape ==
  ASSUME DiskInv, NamesInv, stage = "examine", 0 \notin MapTimes,
         NEW from \in Nat, NEW a \in CommonFrom(from)
  PROVE  IsCommon(a, from)
<1>1. PICK v \in Versions : mwaVersion = v
  BY DEF NamesInv
<1> DEFINE d == Seconds[v]
           CT == {t \in MapTimes : t >= from /\ timeMap[t] = MapChans}
<1>2. /\ MapTimes \in SUBSET Nat /\ IsFiniteSet(MapTimes) /\ MapTimes # {}
      /\ d \in Nat \ {0} /\ d = FileSeconds
      /\ Chained(MapTimes, d)
  BY <1>1, MapTimesAreTimes DEF NamesInv, FileSeconds
<1>3. Stretch(d, from)!CommonTime = CT
  BY DEF Stretch!CommonTime, Stretch!ProvidedChans, MapTimes, MapChans
<1>4. a \in CommonRanges(d, from)
  BY <1>1 DEF CommonFrom
<1> HIDE DEF d, CT
<1>5. CASE CT = {}
  <2>1. a = NoCommon
    BY <1>3, <1>4, <1>5 DEF CommonRanges
  <2>2. QED
    BY <1>5, <2>1 DEF IsCommon, CT
<1>6. CASE CT # {}
  <2>1. PICK s \in MapTimes, l \in MapTimes :
          /\ a = [kind |-> "some", start |-> s, end |-> l + d, chans |-> MapChans]
          /\ Stretch(d, from)!IsCommonRange(s, l)
    <3>1. PICK r \in MapTimes \X MapTimes :
            /\ a = [kind |-> "some", start |-> r[1], end |-> r[2] + d, chans |-> MapChans]
            /\ Stretch(d, from)!IsCommonRange(r[1], r[2])
      BY <1>3, <1>4, <1>6 DEF CommonRanges
    <3>2. QED
      BY <3>1
  <2> DEFINE run == {t \in CT : t <= l}
  <2>2. /\ s \in CT /\ \A t \in CT : s <= t
        /\ l \in CT
        /\ Chained(run, d)
        /\ l + d \notin CT \/ \E t \in CT : l < t /\ t < l + d
    BY <1>3, <2>1 DEF Stretch!IsCommonRange, Stretch!Contiguous, Chained
  <2>3. s \in Nat /\ l \in Nat /\ s <= l
    BY <1>2, <2>2 DEF CT
  <2>4. run \in SUBSET Nat /\ IsFiniteSet(run) /\ s \in run /\ l \in run
    <3>1. run \in SUBSET MapTimes
      BY DEF CT
    <3>2. s \in run /\ l \in run
      BY <2>2, <2>3
    <3>3. QED
      BY <1>2, <3>1, <3>2, FS_Subset
  <2>5. Least(run) = s /\ Greatest(run) = l
    <3>1. \A t \in run : t \in Nat /\ s <= t /\ t <= l
      BY <2>2, <2>4
    <3> HIDE DEF run
    <3> DEFINE p == Least(run)
               q == Greatest(run)
    <3>2. p \in run /\ p <= s
      BY <2>4, LeastExists
    <3>3. q \in run /\ l <= q
      BY <2>4, GreatestExists
    <3> HIDE DEF p, q
    <3>4. p = s /\ q = l
      BY <2>3, <3>1, <3>2, <3>3
    <3>5. QED
      BY <3>4 DEF p, q
  <2>6. ASSUME NEW t \in MapTimes, NEW u \in MapTimes PROVE Apart(t, u, d)
    <3>1. Least(MapTimes) \in Nat /\ Apart(Least(MapTimes), t, d) /\ Apart(Least(MapTimes), u, d)
      BY <1>2, ChainedIsGrid, LeastExists
    <3>2. Apart(t, Least(MapTimes), d)
      BY <1>2, <3>1, ApartSym
    <3>3. QED
      BY <1>2, <3>1, <3>2, ApartTrans
  <2>7. ASSUME NEW t \in MapTimes, s <= t, t <= l PROVE timeMap[t] = MapChans
    <3>1. t \in Nat /\ Apart(s, t, d)
      BY <1>2, <2>6
    <3>2. t \in run
      <4> HIDE DEF run
      <4>1. QED
        BY <1>2, <2>2, <2>4, <2>5, <2>7, <3>1, ChainedIsGrid
    <3>3. QED
      BY <3>2 DEF CT
  <2>8. ASSUME NEW t \in MapTimes, from <= t, t < s PROVE timeMap[t] # MapChans
    BY <1>2, <2>2, <2>3, <2>8 DEF CT
  <2>9. ASSUME l + d \in MapTimes PROVE timeMap[l + d] # MapChans
    <3>1. ASSUME NEW t \in CT, l < t, t < l + d PROVE FALSE
      <4>1. t \in Nat /\ Apart(l, t, d)
        BY <1>2, <2>6 DEF CT
      <4>2. QED
        BY <1>2, <2>3, <3>1, <4>1, ApartByOne
    <3>2. l + d \notin CT
      BY <2>2, <3>1
    <3>3. l + d >= from
      BY <1>2, <2>2, <2>3 DEF CT
    <3>4. QED
      BY <2>9, <3>2, <3>3 DEF CT
  <2>10. from <= s
    BY <2>2 DEF CT
  <2>11. QED
    BY <1>2, <2>1, <2>3, <2>7, <2>8, <2>9, <2>10 DEF IsCommon
<1>7. QED
  BY <1>5, <1>6

LEMMA ReadyNext ==
  ASSUME DiskInv, NamesInv, UniformInv, CommonInv, [Next]_vars
  PROVE  UniformInv' /\ CommonInv'
<1>1. ASSUME UNCHANGED <<mwaVersion, timeMap, timesteps, common, good>>,
             stage' = "ready" => stage = "ready"
      PROVE  UniformInv' /\ CommonInv'
  <2>1. MapTimes' = MapTimes /\ FileSeconds' = FileSeconds
    BY <1>1 DEF MapTimes, FileSeconds
  <2>2. MapChans' = MapChans
    BY <1>1, <2>1 DEF MapChans
  <2>3. UniformInv'
    BY <1>1, <2>1 DEF UniformInv, Grid
  <2>4. CommonInv'
    BY <1>1, <2>1, <2>2 DEF CommonInv, IsCommon
  <2>5. QED
    BY <2>3, <2>4
<1>2. ASSUME Populate, 0 \notin MapTimes, stage' = "ready" PROVE UniformInv' /\ CommonInv'
  <2> DEFINE d == FileSeconds
             T == Superset(MapTimes, Least(Schedule), Greatest(Schedule), d)
  <2>1. /\ stage = "examine" /\ timesteps' = Sorted(T)
        /\ common' \in CommonFrom(0) /\ good' \in CommonFrom(GoodTime)
        /\ UNCHANGED <<mwaVersion, timeMap>>
    BY <1>2 DEF Populate
  <2>2. /\ MapTimes \in SUBSET Nat /\ IsFiniteSet(MapTimes) /\ MapTimes # {}
        /\ d \in Nat \ {0} /\ Chained(MapTimes, d)
    BY <1>2, <2>1, MapTimesAreTimes DEF NamesInv
  <2>3. T \in SUBSET Nat /\ IsFiniteSet(T) /\ MapTimes \subseteq T /\ Chained(T, d)
    BY <2>2, ScheduleEnds, SupersetIsChained
  <2> HIDE DEF T, d
  <2>4. Least(T) \in Nat
    BY <2>2, <2>3, LeastExists
  <2>5. PICK n \in Nat \ {0} :
           /\ Sorted(T) = [i \in 1 .. n |-> Least(T) + (i - 1) * d]
           /\ \A u : u \in T <=> \E i \in 1 .. n : u = Least(T) + (i - 1) * d
    <3>1. T # {}
      BY <2>2, <2>3
    <3>2. T \in SUBSET Nat /\ IsFiniteSet(T) /\ d \in Nat \ {0} /\ Chained(T, d)
      BY <2>2, <2>3
    <3>3. QED
      BY <3>1, <3>2, SortedGrid
  <2>6. MapTimes' = MapTimes /\ d' = d /\ FileSeconds' = d
    BY <2>1 DEF MapTimes, FileSeconds, d
  <2>7. MapChans' = MapChans
    BY <2>1, <2>6 DEF MapChans
  <2>8. timesteps' = [i \in 1 .. n |-> Least(T) + (i - 1) * d]
    BY <2>1, <2>5
  <2>9. timesteps'[1] = Least(T)
    BY <2>2, <2>4, <2>8
  <2>10. ASSUME NEW t \in MapTimes PROVE \E i \in 1 .. n : t = timesteps'[i]
    BY <2>3, <2>5, <2>8
  <2>11. UniformInv'
    BY <2>4, <2>6, <2>8, <2>9, <2>10 DEF UniformInv, Grid
  <2>12. IsCommon(common', 0) /\ IsCommon(good', GoodTime)
    <3>1. \A a \in CommonFrom(0) : IsCommon(a, 0)
      BY <1>2, <2>1, CommonShape
    <3>2. \A a \in CommonFrom(GoodTime) : IsCommon(a, GoodTime)
      BY <1>2, <2>1, ScheduleAssumption, CommonShape
    <3>3. QED
      BY <2>1, <3>1, <3>2
  <2>13. CommonInv'
    BY <2>1, <2>6, <2>7, <2>12 DEF CommonInv, IsCommon, d
  <2>14. QED
    BY <2>11, <2>13
<1>3. CASE Populate
  <2>1. MapTimes' = MapTimes
    BY <1>3 DEF Populate, MapTimes
  <2>2. QED
    BY <1>2, <1>3, <2>1 DEF UniformInv, CommonInv
<1>4. CASE ExamineFile \/ DetermineBatches
  BY <1>4 DEF ExamineFile, DetermineBatches, built, ErrorIn, UniformInv, CommonInv
<1>5. CASE RefuseNames \/ RefuseTimes \/ CounterOverflows
  BY <1>1, <1>5 DEF RefuseNames, RefuseTimes, CounterOverflows, others, built, ErrorIn
<1>6. CASE Vanish \/ Resize \/ UNCHANGED vars
  BY <1>1, <1>6 DEF Vanish, Resize, vars, others, built
<1>7. QED
  BY <1>3, <1>4, <1>5, <1>6 DEF Next, Build

-----------------------------------------------------------------------------
LEMMA CountsNext ==
  ASSUME DiskInv, CountsInv, [Next]_vars
  PROVE  CountsInv'
<1>1. ASSUME UNCHANGED <<offered, timeMap>>,
             stage' \in {"examine", "ready"} => stage \in {"examine", "ready"}
      PROVE  CountsInv'
  <2>1. MapTimes' = MapTimes /\ \A t : NamesOf(t)' = NamesOf(t)
    BY <1>1 DEF MapTimes, NamesOf, TimeOf
  <2>2. QED
    BY <1>1, <2>1 DEF CountsInv, NamesOf, TimeOf
<1>2. CASE DetermineBatches
  <2>1. /\ \A t \in GpsTimes : TimeFault(t) = "none"
        /\ offered' = offered /\ MapTimes' = GpsTimes
    BY <1>2 DEF DetermineBatches, others, MapTimes
  <2>2. \A t : FilesAt(t) = NamesOf(t)
    BY NamesAsRead DEF FilesAt, NamesOf
  <2>3. ASSUME NEW t \in GpsTimes
        PROVE  Cardinality(NamesOf(t)) % CounterLimit = NumFiles(Least(GpsTimes))
    <3>1. NumFiles(t) = NumFiles(Least(GpsTimes))
      BY <2>1 DEF TimeFault
    <3>2. QED
      BY <2>2, <3>1 DEF NumFiles
  <2>4. \A t : NamesOf(t)' = NamesOf(t)
    BY <2>1 DEF NamesOf, TimeOf
  <2>5. QED
    BY <2>1, <2>3, <2>4 DEF CountsInv, NamesOf, TimeOf
<1>3. CASE Populate
  BY <1>1, <1>3 DEF Populate, others
<1>4. CASE ExamineFile
  BY <1>1, <1>4 DEF ExamineFile, others, built, ErrorIn
<1>5. CASE RefuseNames \/ RefuseTimes \/ CounterOverflows
  BY <1>1, <1>5 DEF RefuseNames, RefuseTimes, CounterOverflows, others, built, ErrorIn
<1>6. CASE Vanish \/ Resize \/ UNCHANGED vars
  BY <1>1, <1>6 DEF Vanish, Resize, vars, others, built
<1>7. QED
  BY <1>2, <1>3, <1>4, <1>5, <1>6 DEF Next, Build

FilesInv == DiskInv /\ NamesInv /\ FileOfInv /\ CountsInv /\ SeenInv /\ UniformInv /\ CommonInv

LEMMA FilesInit == Init => FilesInv
<1>1. SUFFICES ASSUME Init PROVE FilesInv
  OBVIOUS
<1>2. stage = "batches" /\ size = {}
  BY <1>1 DEF Init
<1>3. QED
  BY <1>1, <1>2, DiskInit
     DEF FilesInv, NamesInv, FileOfInv, CountsInv, SeenInv, UniformInv, CommonInv

LEMMA FilesNext == FilesInv /\ [Next]_vars => FilesInv'
BY DiskNext, NamesNext, CountsNext, SeenNext, ReadyNext DEF FilesInv

\* A step of the reads is a step of the files or leaves them alone.
LEMMA ReadLeavesFiles == [NextRead]_<<vars, read>> => [Next]_vars
BY DEF NextRead, Next, Call, CallReadSecond, CallReadFile, Read, OpenFile, ReadBlocks, Return, Take

\* The files keep their invariant while they are read.
LEMMA FilesInvariant == SpecRead => []FilesInv
<1>1. InitRead => FilesInv
  BY FilesInit DEF InitRead
<1>2. FilesInv /\ [NextRead]_<<vars, read>> => FilesInv'
  BY FilesNext, ReadLeavesFiles
<1>3. QED
  BY <1>1, <1>2, PTL DEF SpecRead

\* Whatever order the loop sees the files in and whatever others do meanwhile,
\* a context is made of files of one version and of this observation, and those
\* nobody has touched are there and have one size.
THEOREM ContextsAreOfSoundFiles == SpecRead => []AcceptedFilesAreSound
<1>1. ASSUME FilesInv, stage = "ready" PROVE AcceptedFilesAreSound
  <2>1. ASSUME NEW n \in Files PROVE disk[n].format = mwaVersion /\ disk[n].obsid = "same"
    BY <1>1 DEF FilesInv, DiskInv, NamesInv
  <2>2. ASSUME NEW n \in Untouched
        PROVE  disk[n].present /\ \A s \in size : disk[n].size = s
    <3>1. n \in Files /\ \A kinds : ~Touched(n, kinds)
      BY DEF Untouched, Touched, Files
    <3>2. PICK i \in DOMAIN offered : n = offered[i]
      BY <1>1, <3>1, FilesOffered DEF FilesInv
    <3>3. size # {} /\ \A s \in size : IsAsSeen(n, s) /\ s \in Nat
      BY <1>1, <3>2 DEF FilesInv, SeenInv
    <3>4. disk[n].size \in Nat
      BY <1>1, <3>1 DEF FilesInv, DiskInv, FileRecords
    <3>5. QED
      BY <3>1, <3>3, <3>4 DEF IsAsSeen
  <2>3. \A m, n \in Untouched : disk[m].size = disk[n].size
    <3>1. Untouched = {} \/ size # {}
      <4>1. SUFFICES ASSUME NEW n \in Untouched PROVE size # {}
        OBVIOUS
      <4>2. PICK i \in DOMAIN offered : n = offered[i]
        BY <1>1, FilesOffered DEF FilesInv, Untouched, Files
      <4>3. QED
        BY <1>1, <4>2 DEF FilesInv, SeenInv
    <3>2. QED
      BY <2>2, <3>1
  <2>4. QED
    BY <2>1, <2>2, <2>3 DEF AcceptedFilesAreSound, Files
<1>2. FilesInv => AcceptedFilesAreSound
  BY <1>1 DEF AcceptedFilesAreSound
<1>3. QED
  BY <1>2, FilesInvariant, PTL

-----------------------------------------------------------------------------
(* Timesteps on a grid are numbered as they follow each other. *)

LEMMA GridFacts ==
  ASSUME NEW n \in Nat \ {0}, Grid(n), FileSeconds \in Nat \ {0}
  PROVE  /\ DOMAIN timesteps = 1 .. n /\ Len(timesteps) = n
         /\ \A i \in 1 .. n : /\ timesteps[i] \in Nat
                              /\ timesteps[i] = timesteps[1] + (i - 1) * FileSeconds
         /\ \A i, j \in 1 .. n : /\ Apart(timesteps[i], timesteps[j], FileSeconds)
                                 /\ i <= j => timesteps[i] <= timesteps[j]
                                 /\ i < j => timesteps[i] + FileSeconds <= timesteps[j]
<1> DEFINE d == FileSeconds
           t1 == timesteps[1]
<1>1. timesteps = [i \in 1 .. n |-> t1 + (i - 1) * d] /\ t1 \in Nat /\ d \in Nat \ {0}
  BY DEF Grid
<1> HIDE DEF t1, d
<1>2. DOMAIN timesteps = 1 .. n /\ Len(timesteps) = n
  BY <1>1
<1>3. ASSUME NEW i \in 1 .. n
      PROVE  timesteps[i] \in Nat /\ timesteps[i] = t1 + (i - 1) * d
  <2>1. (i - 1) * d \in Nat
    BY <1>1
  <2>2. timesteps[i] = t1 + (i - 1) * d
    BY <1>1
  <2>3. QED
    BY <1>1, <2>1, <2>2
<1>4. ASSUME NEW i \in 1 .. n, NEW j \in 1 .. n
      PROVE  /\ Apart(timesteps[i], timesteps[j], d)
             /\ i <= j => timesteps[i] <= timesteps[j]
             /\ i < j => timesteps[i] + d <= timesteps[j]
  <2> DEFINE p == (i - 1) * d
             q == (j - 1) * d
             r == (j - i) * d
  <2>1. p \in Nat /\ q \in Nat /\ r \in Int /\ q = p + r /\ j - i \in Int
    BY <1>1
  <2>2. i <= j => r >= 0
    BY <1>1
  <2>3. i < j => r >= d
    BY <1>1
  <2>4. timesteps[i] = t1 + p /\ timesteps[j] = t1 + q
    BY <1>3
  <2> HIDE DEF p, q
  <2>5. timesteps[j] = timesteps[i] + r
    <3> HIDE DEF r
    <3>1. QED
      BY <1>1, <2>1, <2>4
  <2>6. Apart(timesteps[i], timesteps[j], d)
    BY <2>1, <2>5 DEF Apart
  <2> HIDE DEF r
  <2>7. QED
    BY <1>1, <1>3, <2>1, <2>2, <2>3, <2>5, <2>6
<1>5. QED
  BY <1>2, <1>3, <1>4 DEF d, t1

LEMMA ProvidedOnGrid ==
  ASSUME NEW n \in Nat \ {0}, Grid(n), FileSeconds \in Nat \ {0}
  PROVE  ProvidedTimesteps = {i \in 1 .. n : timesteps[i] \in MapTimes}
<1>1. /\ DOMAIN timesteps = 1 .. n
      /\ \A i \in 1 .. n : timesteps[i] \in Nat
      /\ \A i, j \in 1 .. n : i < j => timesteps[i] + FileSeconds <= timesteps[j]
  BY GridFacts
<1>2. ASSUME NEW i \in 1 .. n, NEW j \in 1 .. i - 1 PROVE timesteps[j] # timesteps[i]
  <2>1. j \in 1 .. n /\ j < i
    OBVIOUS
  <2>2. QED
    BY <1>1, <2>1
<1>3. ASSUME NEW i \in 1 .. n PROVE \A x : IsPosition(i, timesteps, x) <=> x = timesteps[i]
  BY <1>2 DEF IsPosition
<1>4. QED
  BY <1>1, <1>3 DEF ProvidedTimesteps, IndicesOf

\* Between the first and the last time of the data all times have data.
LEMMA BetweenData ==
  ASSUME FilesInv, stage = "ready", 0 \notin MapTimes, NEW n \in Nat \ {0}, Grid(n),
         NEW i \in 1 .. n, NEW s \in MapTimes, NEW l \in MapTimes,
         s <= timesteps[i], timesteps[i] <= l
  PROVE  timesteps[i] \in MapTimes
<1>1. /\ MapTimes \in SUBSET Nat /\ IsFiniteSet(MapTimes) /\ MapTimes # {}
      /\ FileSeconds \in Nat \ {0} /\ Chained(MapTimes, FileSeconds)
  BY MapTimesAreTimes DEF FilesInv, NamesInv
<1> DEFINE lo == Least(MapTimes)
           hi == Greatest(MapTimes)
<1>2. lo \in Nat /\ lo <= s /\ hi \in Nat /\ l <= hi
  BY <1>1, LeastExists, GreatestExists
<1>3. Apart(lo, s, FileSeconds) /\ s \in Nat /\ l \in Nat
  BY <1>1, ChainedIsGrid
<1>4. Apart(s, timesteps[i], FileSeconds) /\ timesteps[i] \in Nat
  <2>1. PICK j \in 1 .. n : s = timesteps[j]
    BY DEF Grid
  <2>2. QED
    BY <1>1, <2>1, GridFacts
<1>5. /\ \A v \in Nat : lo <= v /\ v <= hi /\ Apart(lo, v, FileSeconds) => v \in MapTimes
  BY <1>1, ChainedIsGrid
<1> HIDE DEF lo, hi
<1>6. Apart(lo, timesteps[i], FileSeconds)
  BY <1>1, <1>2, <1>3, <1>4, ApartTrans
<1>7. lo <= timesteps[i] /\ timesteps[i] <= hi
  BY <1>2, <1>3, <1>4
<1>8. QED
  BY <1>4, <1>5, <1>6, <1>7

\* The timesteps of a context are a file's length apart, and from the first to
\* the last that has data all of them have data.
THEOREM TimestepsOnOneGrid == SpecRead => []TimestepsAreUniform
<1>1. ASSUME FilesInv, stage = "ready", 0 \notin MapTimes PROVE TimestepsAreUniform
  <2>1. PICK n \in Nat \ {0} : Grid(n)
    BY <1>1 DEF FilesInv, UniformInv
  <2>2. MapTimes # {} /\ FileSeconds \in Nat \ {0}
    BY <1>1, MapTimesAreTimes DEF FilesInv
  <2>3. ProvidedTimesteps = {i \in 1 .. n : timesteps[i] \in MapTimes}
    BY <2>1, <2>2, ProvidedOnGrid
  <2>4. ProvidedTimesteps # {}
    BY <2>1, <2>2, <2>3 DEF Grid
  <2>5. ASSUME NEW i \in Least(ProvidedTimesteps) .. Greatest(ProvidedTimesteps)
        PROVE  timesteps[i] \in MapTimes
    <3>1. ProvidedTimesteps \in SUBSET Nat /\ IsFiniteSet(ProvidedTimesteps)
      <4>1. ProvidedTimesteps \in SUBSET (1 .. n) /\ IsFiniteSet(1 .. n)
        BY <2>3, FS_Interval
      <4>2. IsFiniteSet(ProvidedTimesteps)
        BY <4>1, FS_Subset
      <4>3. ProvidedTimesteps \in SUBSET Nat
        BY <4>1
      <4>4. QED
        BY <4>2, <4>3
    <3> DEFINE p == Least(ProvidedTimesteps)
               q == Greatest(ProvidedTimesteps)
    <3>2. p \in ProvidedTimesteps /\ q \in ProvidedTimesteps
      BY <2>4, <3>1, LeastExists, GreatestExists
    <3>3. i \in p .. q
      OBVIOUS
    <3> HIDE DEF p, q
    <3>4. p \in 1 .. n /\ q \in 1 .. n /\ timesteps[p] \in MapTimes /\ timesteps[q] \in MapTimes
      BY <2>3, <3>2
    <3>5. i \in 1 .. n /\ p <= i /\ i <= q
      BY <3>3, <3>4
    <3>6. timesteps[p] <= timesteps[i] /\ timesteps[i] <= timesteps[q]
      BY <2>1, <2>2, <3>4, <3>5, GridFacts
    <3>7. QED
      BY <1>1, <2>1, <3>4, <3>5, <3>6, BetweenData
  <2>6. DOMAIN timesteps = 1 .. n
        /\ \A i \in 1 .. n : timesteps[i] = timesteps[1] + (i - 1) * Seconds[mwaVersion]
    BY <2>1, <2>2, GridFacts DEF FileSeconds
  <2>7. QED
    BY <2>4, <2>5, <2>6 DEF TimestepsAreUniform
<1>2. FilesInv => TimestepsAreUniform
  BY <1>1 DEF TimestepsAreUniform
<1>3. QED
  BY <1>2, FilesInvariant, PTL

-----------------------------------------------------------------------------
(* Equal counts leave no timestep complete, or all of them. *)

\* The channels of a time are as many as its files, when their names differ.
LEMMA ChansCountFiles ==
  ASSUME FilesInv, stage = "ready", NamesDiffer, NEW t \in MapTimes
  PROVE  IsFiniteSet(timeMap[t]) /\ Cardinality(timeMap[t]) = Cardinality(NamesOf(t))
<1> DEFINE f == [i \in NamesOf(t) |-> ChanOf(offered[i])]
<1>1. \A c : c \in timeMap[t] <=> \E i \in NamesOf(t) : c = f[i]
  <2>1. \A c : c \in timeMap[t] <=> \E n \in Files : t = TimeOf(n) /\ c = ChanOf(n)
    BY DEF FilesInv, NamesInv
  <2>2. /\ \A i \in NamesOf(t) : offered[i] \in Files /\ t = TimeOf(offered[i])
        /\ \A n \in Files : t = TimeOf(n) => \E i \in NamesOf(t) : n = offered[i]
    BY FilesOffered DEF FilesInv, NamesOf
  <2>3. QED
    BY <2>1, <2>2
<1>2. \A i, j \in NamesOf(t) : f[i] = f[j] => i = j
  BY NamesAsRead DEF NamesDiffer, NamesOf, FilesInv
<1>3. f \in Bijection(NamesOf(t), timeMap[t])
  <2>1. f \in [NamesOf(t) -> timeMap[t]]
    BY <1>1
  <2> HIDE DEF f
  <2>2. QED
    BY <1>1, <1>2, <2>1 DEF Bijection, Injection, Surjection, IsInjective
<1>4. IsFiniteSet(NamesOf(t))
  <2>1. NamesOf(t) \in SUBSET (1 .. Len(offered)) /\ IsFiniteSet(1 .. Len(offered))
    BY FilesOffered, FS_Interval DEF NamesOf, FilesInv
  <2>2. QED
    BY <2>1, FS_Subset
<1>5. QED
  BY <1>3, <1>4, FS_Bijection DEF ExistsBijection

\* Each of the two cases, for all the times of the map.
LEMMA AllOrNone ==
  ASSUME FilesInv, stage = "ready", NamesDiffer, CountsAre8Bit
  PROVE  /\ Complete => \A t \in MapTimes : timeMap[t] = MapChans
         /\ ~Complete => \A t \in MapTimes : timeMap[t] # MapChans
<1>1. \A t \in MapTimes : \A c : <<t, c>> \in DOMAIN fileOf <=> c \in timeMap[t]
  BY DEF FilesInv, FileOfInv, NamesInv
<1>2. \A t \in MapTimes : timeMap[t] \subseteq MapChans
  BY DEF MapChans
<1>3. ASSUME Complete, NEW t \in MapTimes PROVE timeMap[t] = MapChans
  BY <1>1, <1>2, <1>3 DEF Complete
<1>4. ASSUME NEW t \in MapTimes, NEW u \in MapTimes
      PROVE  Cardinality(timeMap[t]) = Cardinality(timeMap[u])
  <2>1. /\ FilesAt(t) = NamesOf(t) /\ FilesAt(u) = NamesOf(u)
        /\ t \in GpsTimes /\ u \in GpsTimes
    BY NamesAsRead DEF FilesAt, NamesOf, FilesInv, NamesInv
  <2> DEFINE p == Cardinality(NamesOf(t))
             q == Cardinality(NamesOf(u))
  <2>2. p \in Nat /\ q \in Nat
    BY ChansCountFiles, FS_CardinalityType
  <2>3. p < CounterLimit /\ q < CounterLimit
    BY <2>1 DEF CountsAre8Bit
  <2>4. p % CounterLimit = q % CounterLimit
    BY DEF FilesInv, CountsInv
  <2> HIDE DEF p, q
  <2>5. p = q
    BY <2>2, <2>3, <2>4, CounterAssumption
  <2>6. QED
    BY <2>5, ChansCountFiles DEF p, q
<1>5. ASSUME NEW t \in MapTimes, timeMap[t] = MapChans PROVE Complete
  <2>1. IsFiniteSet(MapChans)
    BY <1>5, ChansCountFiles
  <2>2. ASSUME NEW u \in MapTimes PROVE timeMap[u] = MapChans
    <3>1. timeMap[u] \in SUBSET MapChans /\ Cardinality(MapChans) = Cardinality(timeMap[u])
      BY <1>2, <1>4, <1>5
    <3>2. QED
      BY <2>1, <3>1, FS_Subset
  <2>3. QED
    BY <1>1, <2>2 DEF Complete
<1>6. QED
  BY <1>3, <1>5

\* All of the times that are allowed are selected, when every one is complete.
LEMMA SelectedWhole ==
  ASSUME FilesInv, stage = "ready", 0 \notin MapTimes, NEW n \in Nat \ {0}, Grid(n),
         \A t \in MapTimes : timeMap[t] = MapChans,
         NEW from \in Nat, NEW a, IsCommon(a, from)
  PROVE  /\ Selected(a) = {i \in 1 .. n : timesteps[i] \in MapTimes /\ timesteps[i] >= from}
         /\ Selected(a) # {} => a.chans = MapChans
<1>1. /\ MapTimes \in SUBSET Nat /\ FileSeconds \in Nat \ {0} /\ Chained(MapTimes, FileSeconds)
  BY MapTimesAreTimes DEF FilesInv, NamesInv
<1>2. /\ DOMAIN timesteps = 1 .. n
      /\ \A i \in 1 .. n : timesteps[i] \in Nat
  BY <1>1, GridFacts
<1>3. CASE a = NoCommon /\ \A t \in MapTimes : ~(t >= from)
  <2>1. Selected(a) = {}
    BY <1>2, <1>3 DEF Selected, NoCommon
  <2>2. QED
    BY <1>3, <2>1
<1>4. ASSUME NEW s \in MapTimes, NEW l \in MapTimes,
             a = [kind |-> "some", start |-> s, end |-> l + FileSeconds, chans |-> MapChans],
             from <= s, s <= l,
             \A t \in MapTimes : ~(from <= t /\ t < s),
             l + FileSeconds \notin MapTimes
      PROVE  /\ Selected(a) = {i \in 1 .. n : timesteps[i] \in MapTimes /\ timesteps[i] >= from}
             /\ a.chans = MapChans
  <2>1. s \in Nat /\ l \in Nat /\ \A t \in MapTimes : t <= l
    BY <1>1, <1>4 DEF Chained
  <2>2. ASSUME NEW i \in 1 .. n, s <= timesteps[i], timesteps[i] < l + FileSeconds
        PROVE  timesteps[i] \in MapTimes /\ timesteps[i] >= from
    <3>1. PICK j \in 1 .. n : l = timesteps[j]
      BY DEF Grid
    <3>2. ~(j < i)
      <4>1. FileSeconds \in Nat \ {0} /\ Grid(n) /\ n \in Nat \ {0}
        BY <1>1
      <4>2. j < i => timesteps[j] + FileSeconds <= timesteps[i]
        BY <4>1, GridFacts
      <4>3. timesteps[i] \in Nat /\ timesteps[j] \in Nat
        BY <4>1, GridFacts
      <4>4. QED
        BY <2>1, <2>2, <3>1, <4>1, <4>2, <4>3
    <3>3. timesteps[i] <= l
      <4>1. i <= j
        BY <3>2
      <4>2. QED
        BY <1>1, <3>1, <4>1, GridFacts
    <3>4. timesteps[i] \in MapTimes
      BY <2>2, <3>3, BetweenData
    <3>5. timesteps[i] >= from
      <4>1. from <= s /\ s <= timesteps[i] /\ timesteps[i] \in Nat
        BY <1>2, <1>4, <2>2
      <4>2. QED
        BY <2>1, <4>1
    <3>6. QED
      BY <3>4, <3>5
  <2>3. ASSUME NEW i \in 1 .. n, timesteps[i] \in MapTimes, timesteps[i] >= from
        PROVE  s <= timesteps[i] /\ timesteps[i] < l + FileSeconds
    <3>1. timesteps[i] \in Nat /\ timesteps[i] <= l /\ ~(timesteps[i] < s)
      BY <1>2, <1>4, <2>1, <2>3
    <3>2. QED
      BY <1>1, <2>1, <3>1
  <2>4. a.start = s /\ a.end = l + FileSeconds /\ a.chans = MapChans
    BY <1>4
  <2>5. QED
    BY <1>2, <2>2, <2>3, <2>4 DEF Selected
<1>5. QED
  BY <1>3, <1>4 DEF IsCommon

\* When the names tell the files apart and the counter can hold their number,
\* everything provided is common, or nothing is; what is good is what is common
\* from the good time on.
THEOREM CommonIsAllOrNone == SpecRead => []CommonIsAllOrNothing
<1>1. ASSUME FilesInv, stage = "ready", 0 \notin MapTimes, NamesDiffer, CountsAre8Bit
      PROVE  CommonIsAllOrNothing
  <2>1. PICK n \in Nat \ {0} : Grid(n)
    BY <1>1 DEF FilesInv, UniformInv
  <2>2. FileSeconds \in Nat \ {0} /\ MapTimes \in SUBSET Nat /\ GoodTime \in Nat
    BY <1>1, MapTimesAreTimes, ScheduleAssumption DEF FilesInv
  <2>3. IsCommon(common, 0) /\ IsCommon(good, GoodTime)
    BY <1>1 DEF FilesInv, CommonInv
  <2>4. CASE Complete
    <3>1. \A t \in MapTimes : timeMap[t] = MapChans
      BY <1>1, <2>4, AllOrNone
    <3>2. CommonTimesteps = {i \in 1 .. n : timesteps[i] \in MapTimes}
      <4>1. CommonTimesteps = {i \in 1 .. n : timesteps[i] \in MapTimes /\ timesteps[i] >= 0}
        BY <1>1, <2>1, <2>3, <3>1, SelectedWhole DEF CommonTimesteps
      <4>2. \A i \in 1 .. n : timesteps[i] \in Nat /\ timesteps[i] >= 0
        BY <2>1, <2>2, GridFacts
      <4>3. QED
        BY <4>1, <4>2
    <3>3. CommonTimesteps = ProvidedTimesteps /\ ProvidedTimesteps # {}
      <4>1. CommonTimesteps = ProvidedTimesteps
        BY <2>1, <2>2, <3>2, ProvidedOnGrid
      <4>2. MapTimes # {}
        BY <1>1, MapTimesAreTimes DEF FilesInv
      <4>3. QED
        BY <2>1, <3>2, <4>1, <4>2 DEF Grid
    <3>4. common.chans = MapChans
      BY <1>1, <2>1, <2>3, <3>1, <3>3, SelectedWhole DEF CommonTimesteps
    <3>5. /\ GoodTimesteps = {i \in 1 .. n : timesteps[i] \in MapTimes /\ timesteps[i] >= GoodTime}
          /\ GoodTimesteps # {} => good.chans = MapChans
      BY <1>1, <2>1, <2>2, <2>3, <3>1, SelectedWhole DEF GoodTimesteps
    <3>6. QED
      BY <2>4, <3>2, <3>3, <3>4, <3>5
         DEF CommonIsAllOrNothing, CommonChans, ProvidedChans, GoodChans
  <2>5. CASE ~Complete
    <3>1. \A t \in MapTimes : timeMap[t] # MapChans
      BY <1>1, <2>5, AllOrNone
    <3>2. common = NoCommon /\ good = NoCommon
      <4>1. \A s \in MapTimes : s \in Nat /\ s <= s
        BY <2>2
      <4>2. ASSUME NEW a, NEW from, IsCommon(a, from) PROVE a = NoCommon
        <5>1. ASSUME NEW s \in MapTimes, NEW l \in MapTimes, s <= l,
                     \A t \in MapTimes : s <= t /\ t <= l => timeMap[t] = MapChans
              PROVE  FALSE
          BY <3>1, <4>1, <5>1
        <5>2. QED
          BY <4>2, <5>1 DEF IsCommon
      <4>3. QED
        BY <2>3, <4>2
    <3>3. \A i \in DOMAIN timesteps : timesteps[i] \in Nat
      BY <2>1, <2>2, GridFacts
    <3>4. Selected(NoCommon) = {} /\ IndicesOf(CoarseChans, {}) = {}
      BY <3>3 DEF Selected, NoCommon, IndicesOf
    <3>5. CommonTimesteps = {} /\ CommonChans = {} /\ GoodTimesteps = {}
      BY <3>2, <3>4 DEF CommonTimesteps, CommonChans, GoodTimesteps, NoCommon
    <3>6. QED
      BY <2>5, <3>5 DEF CommonIsAllOrNothing
  <2>6. QED
    BY <2>4, <2>5
<1>2. FilesInv => CommonIsAllOrNothing
  BY <1>1 DEF CommonIsAllOrNothing
<1>3. QED
  BY <1>2, FilesInvariant, PTL

-----------------------------------------------------------------------------
(* The blocks of a second. *)

LEMMA DivBound ==
  ASSUME NEW x \in Nat, NEW d \in Nat \ {0}, NEW m \in Int
  PROVE  x \div d \in Nat /\ (m <= x \div d <=> m * d <= x)
<1> DEFINE q == x \div d
           r == x % d
           p == q * d
           s == m * d
<1>1. q \in Nat /\ r \in 0 .. d - 1 /\ x = p + r
  OBVIOUS
<1>2. m <= q => s <= p
  BY <1>1
<1>3. m >= q + 1 => s >= (q + 1) * d
  BY <1>1
<1>4. (q + 1) * d = p + d
  BY <1>1
<1>5. p \in Int /\ s \in Int /\ (m <= q \/ m >= q + 1)
  BY <1>1
<1> HIDE DEF q, r, p, s
<1>6. m >= q + 1 => s >= p + d
  BY <1>3, <1>4
<1>7. m <= q <=> s <= x
  BY <1>1, <1>2, <1>5, <1>6
<1>8. QED
  BY <1>1, <1>7 DEF q, s

LEMMA DivShift ==
  ASSUME NEW x \in Nat, NEW d \in Nat \ {0}, NEW m \in Int, x + m * d \in Nat
  PROVE  (x + m * d) \div d = x \div d + m /\ (x + m * d) % d = x % d
<1> DEFINE y == x + m * d
           q == x \div d
           r == x % d
<1>1. q \in Nat /\ r \in 0 .. d - 1 /\ x = q * d + r
  OBVIOUS
<1>2. y = (q + m) * d + r
  <2>1. (q + m) * d = q * d + m * d
    BY <1>1
  <2> DEFINE a == q * d
             b == m * d
  <2>2. a \in Int /\ b \in Int /\ (q + m) * d = a + b /\ y = x + b /\ x = a + r
    BY <1>1, <2>1
  <2> HIDE DEF a, b, y, q, r
  <2>3. QED
    BY <1>1, <2>2
<1>3. q + m >= 0
  <2>1. SUFFICES ASSUME q + m <= -1 PROVE FALSE
    BY <1>1
  <2>2. (q + m) * d <= -d
    <3>1. (q + m) * d <= (-1) * d
      BY <1>1, <2>1
    <3>2. QED
      BY <3>1
  <2> DEFINE c == (q + m) * d
  <2>3. c \in Int /\ y = c + r /\ c <= -d
    BY <1>1, <1>2, <2>2
  <2> HIDE DEF c, q, r, y
  <2>4. y < 0
    BY <1>1, <2>3
  <2>5. QED
    BY <2>4 DEF y
<1>4. q + m \in Nat
  BY <1>1, <1>3
<1> DEFINE k == q + m
<1>5. k \in Nat /\ y = k * d + r
  BY <1>2, <1>4
<1> HIDE DEF k, q, r, y
<1>6. y \div d = k /\ y % d = r
  BY <1>1, <1>5
<1>7. QED
  BY <1>6 DEF k, q, r, y

LEMMA SortedInterval ==
  ASSUME NEW a \in Int, NEW m \in Nat
  PROVE  Sorted(a .. a + m - 1) = [k \in 1 .. m |-> a + k - 1]
<1> DEFINE A == a .. a + m - 1
<1>1. Cardinality(A) = m
  BY FS_Interval
<1>2. ASSUME NEW x \in A PROVE Cardinality({y \in A : y <= x}) = x - a + 1
  <2>1. {y \in A : y <= x} = a .. x
    BY <1>2
  <2>2. x \in Int /\ ~(a > x)
    OBVIOUS
  <2> HIDE DEF A
  <2>3. Cardinality(a .. x) = x - a + 1
    BY <2>2, FS_Interval
  <2>4. QED
    BY <2>1, <2>3
<1>3. ASSUME NEW k \in 1 .. m
      PROVE  (CHOOSE x \in A : Cardinality({y \in A : y <= x}) = k) = a + k - 1
  <2>1. a + k - 1 \in A /\ (a + k - 1) - a + 1 = k
    OBVIOUS
  <2>2. \A x \in A : x - a + 1 = k => x = a + k - 1
    OBVIOUS
  <2> HIDE DEF A
  <2>3. QED
    BY <1>2, <2>1, <2>2
<1> HIDE DEF A
<1>4. Sorted(A) = [k \in 1 .. m |-> a + k - 1]
  BY <1>1, <1>3 DEF Sorted
<1>5. QED
  BY <1>4 DEF A

-----------------------------------------------------------------------------
(* The reads.  What a call has read so far is all that it asks for before  *)
(* the timestep it is at.                                                  *)

Calls ==
  [method : {"read_second"}, start : Int, count : Nat, chan : Int, fits : BOOLEAN]
  \cup [method : {"read_file"}, timestep : Int, chan : Int, fits : BOOLEAN]

\* When the i-th timestep begins, past the last one too.
TimeAt(i) == timesteps[1] + (i - 1) * FileSeconds

\* Of the seconds asked for, the first that is not before a time.
Upto(t) ==
  IF t < call.start THEN call.start
  ELSE IF t > call.start + call.count THEN call.start + call.count
  ELSE t

End == SecondEnd(call.start, call.count)

\* The loop of read_second ends at the timestep of the last second, except when
\* no second is asked for at the start of the observation.
SecondInv ==
  /\ StartOfObs <= call.start /\ call.start <= EndOfObs /\ End <= EndOfObs
  /\ call.start < TimeAt(at + 1)
  /\ \/ call.count = 0 /\ call.start = StartOfObs /\ last = NumTimesteps + 1
     \/ TimeAt(last) <= End /\ End < TimeAt(last + 1)
  /\ Len(buffer) = (Upto(TimeAt(at)) - call.start) * BlocksPerSecond

FileInv ==
  /\ call.timestep \in DOMAIN timesteps /\ last = call.timestep
  /\ \/ at = call.timestep /\ Len(buffer) = 0
     \/ at = call.timestep + 1 /\ Len(buffer) = Blocks /\ handle = {}

\* The open file is that of the timestep and channel, and was whole.
OpenInv ==
  \A n \in handle :
    /\ n \in Files /\ at \in DOMAIN timesteps
    /\ TimeOf(n) = timesteps[at] /\ ChanOf(n) = CoarseChans[call.chan]
    /\ IsAsSeen(n, ExpectedSize)

RunInv ==
  /\ call.chan \in DOMAIN CoarseChans
  /\ at \in Nat \ {0} /\ last \in Nat
  /\ call.method = "read_second" => SecondInv
  /\ call.method = "read_file" => FileInv
  /\ OpenInv

BlockRecords == [name : Files, offset : Int]

\* The k-th block of what was asked for.
IsRight(x, k) ==
  /\ BlockAt(x) \in 0 .. Blocks - 1
  /\ ChanOf(x.name) = CoarseChans[call.chan]
  /\ call.method = "read_second" =>
       /\ TimeOf(x.name) + BlockAt(x) \div BlocksPerSecond
            = call.start + (k - 1) \div BlocksPerSecond
       /\ BlockAt(x) % BlocksPerSecond = (k - 1) % BlocksPerSecond
  /\ call.method = "read_file" =>
       TimeOf(x.name) = timesteps[call.timestep] /\ BlockAt(x) = k - 1

BufferInv ==
  /\ buffer \in Seq(BlockRecords)
  /\ \A k \in DOMAIN buffer : IsRight(buffer[k], k)

FullInv ==
  Len(buffer) = IF call.method = "read_second" THEN call.count * BlocksPerSecond ELSE Blocks

ReadInv ==
  /\ stage # "ready" => result = "none"
  /\ result = "none" => buffer = <<>> /\ handle = {}
  /\ result # "none" /\ 0 \notin MapTimes => call \in Calls /\ BufferInv
  /\ result = "running" /\ 0 \notin MapTimes => RunInv
  /\ result = "ok" /\ 0 \notin MapTimes => FullInv

\* The sizes of things, on a grid of timesteps.
LEMMA Measures ==
  ASSUME FilesInv, stage = "ready", 0 \notin MapTimes
  PROVE  \E n \in Nat \ {0} :
           /\ Grid(n) /\ NumTimesteps = n /\ DOMAIN timesteps = 1 .. n
           /\ FileSeconds \in Nat \ {0} /\ Blocks \in Nat \ {0} /\ BlocksPerSecond \in Nat \ {0}
           /\ Blocks = FileSeconds * BlocksPerSecond
           /\ Prefix[mwaVersion] \in Nat
           /\ StartOfObs \in Nat /\ StartOfObs = TimeAt(1)
           /\ EndOfObs \in Nat /\ EndOfObs = TimeAt(n + 1)
           /\ \A i \in 1 .. n : timesteps[i] = TimeAt(i) /\ timesteps[i] \in Nat
<1>1. PICK n \in Nat \ {0} : Grid(n)
  BY DEF FilesInv, UniformInv
<1>2. /\ mwaVersion \in Versions
      /\ FileSeconds \in Nat \ {0} /\ Blocks \in Nat \ {0} /\ Prefix[mwaVersion] \in Nat
      /\ Blocks % FileSeconds = 0
  BY SecondsAssumption, BlocksAssumption DEF FilesInv, NamesInv, FileSeconds, Blocks
<1>3. BlocksPerSecond \in Nat \ {0} /\ Blocks = FileSeconds * BlocksPerSecond
  <2> DEFINE b == Blocks
             d == FileSeconds
             q == b \div d
  <2>1. BlocksPerSecond = q
    BY DEF BlocksPerSecond
  <2>2. b \in Nat \ {0} /\ d \in Nat \ {0} /\ b % d = 0
    BY <1>2
  <2> HIDE DEF b, d
  <2>3. q \in Nat /\ b = q * d + (b % d)
    BY <2>2
  <2>4. b = q * d
    <3> DEFINE p == q * d
    <3>1. p \in Int /\ b = p + (b % d)
      BY <2>2, <2>3
    <3> HIDE DEF p
    <3>2. b = p
      BY <2>2, <3>1
    <3>3. QED
      BY <3>2 DEF p
  <2>5. q # 0
    <3>1. ASSUME q = 0 PROVE FALSE
      <4>1. b = 0 * d
        BY <2>4, <3>1
      <4>2. QED
        BY <2>2, <4>1
    <3>2. QED
      BY <3>1
  <2>6. q * d = d * q
    BY <2>2, <2>3
  <2>7. QED
    BY <2>1, <2>3, <2>4, <2>5, <2>6 DEF b, d
<1>4. /\ DOMAIN timesteps = 1 .. n /\ Len(timesteps) = n
      /\ \A i \in 1 .. n : timesteps[i] \in Nat /\ timesteps[i] = TimeAt(i)
  BY <1>1, <1>2, GridFacts DEF TimeAt
<1>5. TimeAt(n + 1) = TimeAt(n) + FileSeconds
  <2> DEFINE d == FileSeconds
             t == timesteps[1]
  <2>1. t \in Nat /\ d \in Nat
    BY <1>1, <1>2 DEF Grid
  <2> HIDE DEF t, d
  <2>2. ((n + 1) - 1) * d = (n - 1) * d + d
    BY <2>1
  <2> DEFINE p == (n - 1) * d
  <2>3. p \in Int /\ t + ((n + 1) - 1) * d = t + (p + d)
    BY <2>1, <2>2
  <2> HIDE DEF p
  <2>4. t + ((n + 1) - 1) * d = (t + p) + d
    BY <2>1, <2>3
  <2>5. QED
    BY <2>4 DEF p, t, d, TimeAt
<1>6. 1 \in 1 .. n /\ n \in 1 .. n
  OBVIOUS
<1>7. QED
  BY <1>1, <1>2, <1>3, <1>4, <1>5, <1>6 DEF NumTimesteps, StartOfObs, EndOfObs

LEMMA TimesInOrder ==
  ASSUME timesteps[1] \in Nat, FileSeconds \in Nat \ {0}, NEW i \in Int, NEW j \in Int
  PROVE  /\ TimeAt(i) \in Int /\ TimeAt(i + 1) = TimeAt(i) + FileSeconds
         /\ i <= j => TimeAt(i) <= TimeAt(j)
<1> DEFINE d == FileSeconds
           t == timesteps[1]
           p == (i - 1) * d
           q == (j - 1) * d
           r == ((i + 1) - 1) * d
<1>1. t \in Int /\ d \in Nat \ {0}
  OBVIOUS
<1>2. TimeAt(i) = t + p /\ TimeAt(j) = t + q /\ TimeAt(i + 1) = t + r
  BY DEF TimeAt
<1> HIDE DEF d, t
<1>3. p \in Int /\ q \in Int /\ r = p + d
  BY <1>1
<1>4. i <= j => p <= q
  BY <1>1
<1> HIDE DEF p, q, r
<1>5. QED
  BY <1>1, <1>2, <1>3, <1>4 DEF d

LEMMA TimestepOfSecond ==
  ASSUME timesteps[1] \in Nat, FileSeconds \in Nat \ {0}, NEW s \in Int, StartOfObs <= s
  PROVE  /\ TimestepOf(s) \in Nat \ {0}
         /\ TimeAt(TimestepOf(s)) <= s /\ s < TimeAt(TimestepOf(s) + 1)
<1> DEFINE d == FileSeconds
           t == timesteps[1]
           x == s - t
           q == x \div d
           f == q + 1
<1>1. t \in Nat /\ d \in Nat \ {0} /\ x \in Nat /\ s = t + x
  BY DEF StartOfObs
<1>2. TimestepOf(s) = f /\ TimeAt(f) = t + ((q + 1) - 1) * d
  BY DEF TimestepOf, TimeAt, StartOfObs
<1> HIDE DEF d, t, x
<1>3. q \in Nat /\ (q <= q => q * d <= x) /\ (q + 1 <= q <=> (q + 1) * d <= x)
  BY <1>1, DivBound
<1> HIDE DEF q
<1>4. (q + 1) - 1 = q /\ (q + 1) * d = q * d + d
  BY <1>1, <1>3
<1> DEFINE p == q * d
<1>5. p \in Int /\ p <= x /\ ~(p + d <= x) /\ TimeAt(f) = t + p
  BY <1>1, <1>2, <1>3, <1>4
<1> HIDE DEF p
<1>6. TimeAt(f) <= s /\ s < TimeAt(f) + d
  BY <1>1, <1>5
<1>7. f \in Nat \ {0}
  BY <1>3
<1> HIDE DEF f
<1>8. TimeAt(f + 1) = TimeAt(f) + d
  BY <1>1, <1>7, TimesInOrder DEF d, t
<1>9. QED
  BY <1>2, <1>6, <1>7, <1>8

\* What the reads use of the files does not change while they read.
LEMMA SameContext ==
  ASSUME UNCHANGED <<offered, mwaVersion, timeMap, timesteps>>
  PROVE  /\ MapTimes' = MapTimes /\ Files' = Files /\ FileSeconds' = FileSeconds
         /\ Blocks' = Blocks /\ BlocksPerSecond' = BlocksPerSecond /\ ExpectedSize' = ExpectedSize
         /\ StartOfObs' = StartOfObs /\ EndOfObs' = EndOfObs /\ NumTimesteps' = NumTimesteps
         /\ BlockRecords' = BlockRecords /\ \A i : TimeAt(i)' = TimeAt(i)
BY DEF MapTimes, Files, FileSeconds, Blocks, BlocksPerSecond, ExpectedSize, StartOfObs, EndOfObs,
   NumTimesteps, BlockRecords, TimeAt

LEMMA SameCall ==
  ASSUME UNCHANGED <<offered, mwaVersion, timeMap, timesteps, call>>
  PROVE  End' = End /\ \A x, k : IsRight(x, k)' <=> IsRight(x, k)
BY DEF End, IsRight, BlockAt, TimeOf, ChanOf, Blocks, BlocksPerSecond, FileSeconds

LEMMA RunByFiles ==
  ASSUME FilesInv, ReadInv, [Next]_vars, UNCHANGED read
  PROVE  ReadInv'
<1>1. CASE result = "none"
  BY <1>1 DEF ReadInv, read
<1>2. CASE result # "none"
  <2>1. stage = "ready"
    BY <1>2 DEF ReadInv
  <2>2. UNCHANGED <<offered, mwaVersion, timeMap, timesteps, stage>>
    BY <2>1 DEF Next, Build, RefuseNames, RefuseTimes, CounterOverflows, DetermineBatches,
       ExamineFile, Populate, Vanish, Resize, vars, others, built
  <2>3. /\ MapTimes' = MapTimes /\ Files' = Files /\ FileSeconds' = FileSeconds
        /\ Blocks' = Blocks /\ BlocksPerSecond' = BlocksPerSecond /\ ExpectedSize' = ExpectedSize
        /\ StartOfObs' = StartOfObs /\ EndOfObs' = EndOfObs /\ NumTimesteps' = NumTimesteps
        /\ BlockRecords' = BlockRecords /\ End' = End
    BY <2>2, SameContext, SameCall DEF read
  <2>4. CASE 0 \in MapTimes
    BY <1>2, <2>1, <2>2, <2>3, <2>4 DEF ReadInv, read
  <2>5. CASE 0 \notin MapTimes
    <3>1. call' \in Calls /\ BufferInv'
      BY <1>2, <2>2, <2>3, <2>5 DEF ReadInv, read, BufferInv, IsRight, BlockAt, TimeOf, ChanOf
    <3>2. FullInv \/ result # "ok"
      BY <2>5 DEF ReadInv
    <3>3. result' = "ok" => FullInv'
      BY <2>2, <2>3, <3>2 DEF FullInv, read
    <3>4. ASSUME result = "running" PROVE RunInv'
      <4>1. RunInv
        BY <2>5, <3>4 DEF ReadInv
      <4>2. PICK n \in Nat \ {0} : Prefix[mwaVersion] \in Nat /\ Blocks \in Nat \ {0}
        BY <2>1, <2>5, Measures
      <4>3. ExpectedSize \in Nat
        BY <4>2 DEF ExpectedSize
      <4>4. PICK z \in Nat : z = ExpectedSize
        BY <4>3
      <4>5. \A m \in handle : IsAsSeen(m, z)'
        BY <4>1, <4>4, StaysAsSeen DEF RunInv, OpenInv, FilesInv
      <4> HIDE DEF ExpectedSize
      <4>6. \A m \in handle : IsAsSeen(m, ExpectedSize)'
        BY <2>3, <4>4, <4>5 DEF IsAsSeen
      <4>7. OpenInv'
        BY <2>2, <2>3, <4>1, <4>6 DEF OpenInv, RunInv, read, TimeOf, ChanOf
      <4>8. QED
        BY <2>2, <2>3, <4>1, <4>7 DEF RunInv, SecondInv, FileInv, TimeAt, Upto, read
    <3>5. QED
      BY <1>2, <2>1, <2>2, <2>3, <3>1, <3>3, <3>4 DEF ReadInv, read
  <2>6. QED
    BY <2>4, <2>5
<1>3. QED
  BY <1>1, <1>2

\* The calls that are refused, and the loops that begin.
LEMMA SecondIsCalled ==
  ASSUME FilesInv, stage = "ready", 0 \notin MapTimes,
         NEW start \in Int, NEW count \in Nat, NEW c \in Nat \ {0}, NEW fits \in BOOLEAN,
         CallReadSecond(start, count, c, fits)
  PROVE  ReadInv'
<1>1. PICK n \in Nat \ {0} :
        /\ Grid(n) /\ NumTimesteps = n /\ DOMAIN timesteps = 1 .. n
        /\ FileSeconds \in Nat \ {0} /\ BlocksPerSecond \in Nat \ {0}
        /\ StartOfObs \in Nat /\ StartOfObs = TimeAt(1)
        /\ EndOfObs \in Nat /\ EndOfObs = TimeAt(n + 1)
        /\ timesteps[1] \in Nat
  BY Measures DEF Grid
<1>2. UNCHANGED <<offered, mwaVersion, timeMap, timesteps, stage>>
  BY DEF CallReadSecond, vars, others, built
<1>3. /\ MapTimes' = MapTimes /\ BlocksPerSecond' = BlocksPerSecond
      /\ StartOfObs' = StartOfObs /\ EndOfObs' = EndOfObs /\ NumTimesteps' = NumTimesteps
      /\ \A i : TimeAt(i)' = TimeAt(i)
  BY <1>2, SameContext
<1>4. /\ call' = [method |-> "read_second", start |-> start, count |-> count, chan |-> c, fits |-> fits]
      /\ handle' = {} /\ buffer' = <<>>
  BY DEF CallReadSecond
<1>5. call' \in Calls /\ BufferInv'
  BY <1>4 DEF Calls, BufferInv
<1>6. result' \notin {"none", "ok"} /\ stage' = "ready"
  BY <1>2 DEF CallReadSecond, Refused, LoopFrom, Loop, SecondsFault
<1>7. ASSUME result' = "running" PROVE RunInv'
  <2> DEFINE end == SecondEnd(start, count)
  <2>1. /\ c \in DOMAIN CoarseChans /\ SecondsFault(start, count) = "none"
        /\ at' = TimestepOf(start)
        /\ last' = (IF end < StartOfObs THEN NumTimesteps + 1 ELSE TimestepOf(end))
    BY <1>7 DEF CallReadSecond, Refused, LoopFrom, Loop, SecondsFault
  <2>2. StartOfObs <= start /\ start <= EndOfObs /\ end <= EndOfObs /\ end = start + count - 1
    BY <1>1, <2>1 DEF SecondsFault, SecondEnd
  <2>3. /\ at' \in Nat \ {0} /\ TimeAt(at') <= start /\ start < TimeAt(at' + 1)
        /\ TimeAt(at') \in Int
    <3>1. timesteps[1] \in Nat /\ FileSeconds \in Nat \ {0} /\ start \in Int
      BY <1>1
    <3>2. /\ TimestepOf(start) \in Nat \ {0}
          /\ TimeAt(TimestepOf(start)) <= start /\ start < TimeAt(TimestepOf(start) + 1)
      BY <2>2, <3>1, TimestepOfSecond
    <3>3. TimestepOf(start) \in Int
      BY <3>2
    <3>4. TimeAt(TimestepOf(start)) \in Int
      BY <3>1, <3>3, TimesInOrder
    <3>5. QED
      BY <2>1, <3>2, <3>4
  <2>4. /\ last' \in Nat
        /\ \/ count = 0 /\ start = StartOfObs /\ last' = NumTimesteps + 1
           \/ TimeAt(last') <= end /\ end < TimeAt(last' + 1)
    <3>1. CASE end < StartOfObs
      BY <1>1, <2>1, <2>2, <3>1
    <3>2. CASE ~(end < StartOfObs)
      <4>1. end \in Int /\ StartOfObs <= end /\ last' = TimestepOf(end)
        BY <1>1, <2>1, <2>2, <3>2
      <4>2. QED
        BY <1>1, <4>1, TimestepOfSecond
    <3>3. QED
      BY <3>1, <3>2
  <2>5. End' = end /\ (call.start)' = start /\ (call.count)' = count
    BY <1>4 DEF End, SecondEnd
  <2>6. Len(buffer)' = (Upto(TimeAt(at)) - call.start)' * BlocksPerSecond'
    <3>1. Upto(TimeAt(at))' = start
      BY <1>3, <2>2, <2>3, <2>5 DEF Upto
    <3>2. Len(buffer)' = 0 /\ (start - start) * BlocksPerSecond = 0
      BY <1>1, <1>4
    <3>3. QED
      BY <1>3, <2>5, <3>1, <3>2
  <2>7. SecondInv'
    BY <1>3, <2>2, <2>3, <2>4, <2>5, <2>6 DEF SecondInv
  <2>8. c \in DOMAIN CoarseChans'
    BY <2>1 DEF CoarseChans
  <2>9. QED
    BY <1>4, <2>3, <2>4, <2>7, <2>8 DEF RunInv, OpenInv
<1>8. QED
  BY <1>5, <1>6, <1>7 DEF ReadInv

LEMMA FileIsCalled ==
  ASSUME FilesInv, stage = "ready", 0 \notin MapTimes,
         NEW i \in Nat \ {0}, NEW c \in Nat \ {0}, NEW fits \in BOOLEAN,
         CallReadFile(i, c, fits)
  PROVE  ReadInv'
<1>1. UNCHANGED <<offered, mwaVersion, timeMap, timesteps, stage>>
  BY DEF CallReadFile, vars, others, built
<1>2. /\ call' = [method |-> "read_file", timestep |-> i, chan |-> c, fits |-> fits]
      /\ handle' = {} /\ buffer' = <<>>
  BY DEF CallReadFile
<1>3. call' \in Calls /\ BufferInv'
  BY <1>2 DEF Calls, BufferInv
<1>4. result' \notin {"none", "ok"} /\ stage' = "ready"
  BY <1>1 DEF CallReadFile, Refused, Loop
<1>5. ASSUME result' = "running" PROVE RunInv'
  <2>1. i \in DOMAIN timesteps /\ c \in DOMAIN CoarseChans /\ at' = i /\ last' = i
    BY <1>5 DEF CallReadFile, Refused, Loop
  <2>2. FileInv'
    BY <1>1, <1>2, <2>1 DEF FileInv
  <2>3. c \in DOMAIN CoarseChans'
    BY <2>1 DEF CoarseChans
  <2>4. QED
    BY <1>2, <2>1, <2>2, <2>3 DEF RunInv, OpenInv
<1>6. QED
  BY <1>3, <1>4, <1>5 DEF ReadInv

LEMMA RunByCall ==
  ASSUME FilesInv, ReadInv, Call
  PROVE  ReadInv'
<1>1. stage = "ready" /\ stage' = "ready" /\ MapTimes' = MapTimes /\ result' \notin {"none", "ok"}
  BY DEF Call, CallReadSecond, CallReadFile, Refused, LoopFrom, Loop, SecondsFault, vars, built, MapTimes
<1>2. CASE 0 \in MapTimes
  BY <1>1, <1>2 DEF ReadInv
<1>3. CASE 0 \notin MapTimes
  <2>1. PICK n \in Nat \ {0} : NumTimesteps = n /\ StartOfObs \in Nat /\ EndOfObs \in Nat
    BY <1>1, <1>3, Measures
  <2>2. \A c \in 1 .. Len(CoarseChans) + 1 : c \in Nat \ {0}
    OBVIOUS
  <2>3. \A start \in StartOfObs - 1 .. EndOfObs + 1 : start \in Int
    BY <2>1
  <2>4. \A count \in 0 .. MaxCount : count \in Nat
    OBVIOUS
  <2>5. \A i \in 1 .. NumTimesteps + 1 : i \in Nat \ {0}
    OBVIOUS
  <2>6. PICK c \in 1 .. Len(CoarseChans) + 1, fits \in BOOLEAN :
          \/ \E start \in StartOfObs - 1 .. EndOfObs + 1, count \in 0 .. MaxCount :
               CallReadSecond(start, count, c, fits)
          \/ \E i \in 1 .. NumTimesteps + 1 : CallReadFile(i, c, fits)
    BY DEF Call
  <2>7. CASE \E start \in StartOfObs - 1 .. EndOfObs + 1, count \in 0 .. MaxCount :
               CallReadSecond(start, count, c, fits)
    BY <1>1, <1>3, <2>2, <2>3, <2>4, <2>7, SecondIsCalled
  <2>8. CASE \E i \in 1 .. NumTimesteps + 1 : CallReadFile(i, c, fits)
    BY <1>1, <1>3, <2>2, <2>5, <2>8, FileIsCalled
  <2>9. QED
    BY <2>6, <2>7, <2>8
<1>4. QED
  BY <1>2, <1>3

LEMMA RunByOpenFile ==
  ASSUME FilesInv, ReadInv, OpenFile
  PROVE  ReadInv'
<1>1. result = "running" /\ handle = {} /\ at <= last /\ stage = "ready"
  BY DEF OpenFile, Looping, ReadInv
<1>2. UNCHANGED <<offered, mwaVersion, timeMap, timesteps, stage, call, buffer, at, last, disk, changes>>
  BY DEF OpenFile, vars, others, built
<1>3. result' \notin {"none", "ok"} /\ stage' = "ready"
  BY <1>1, <1>2 DEF OpenFile, OpenFault
<1>4. /\ MapTimes' = MapTimes /\ Files' = Files /\ FileSeconds' = FileSeconds
      /\ Blocks' = Blocks /\ BlocksPerSecond' = BlocksPerSecond /\ ExpectedSize' = ExpectedSize
      /\ StartOfObs' = StartOfObs /\ EndOfObs' = EndOfObs /\ NumTimesteps' = NumTimesteps
      /\ BlockRecords' = BlockRecords /\ End' = End
      /\ \A i : TimeAt(i)' = TimeAt(i)
      /\ \A x, k : IsRight(x, k)' <=> IsRight(x, k)
  BY <1>2, SameContext, SameCall
<1>5. CASE 0 \in MapTimes
  BY <1>3, <1>4, <1>5 DEF ReadInv
<1>6. CASE 0 \notin MapTimes
  <2>1. call \in Calls /\ BufferInv /\ RunInv
    BY <1>1, <1>6 DEF ReadInv
  <2>2. call' \in Calls /\ BufferInv'
    BY <1>2, <1>4, <2>1 DEF BufferInv
  <2>3. ASSUME result' = "running" PROVE RunInv'
    <3>1. /\ at \in DOMAIN timesteps /\ Key \in DOMAIN fileOf
          /\ OpenFault(disk[fileOf[Key]]) = "none" /\ handle' = {fileOf[Key]}
      <4>1. \A f : OpenFault(f) # "running"
        BY DEF OpenFault
      <4>2. QED
        BY <1>1, <2>3, <4>1 DEF OpenFile
    <3>2. PICK m \in Files :
            m = fileOf[Key] /\ TimeOf(m) = timesteps[at] /\ ChanOf(m) = CoarseChans[call.chan]
      BY <1>1, <3>1 DEF FilesInv, FileOfInv, Key
    <3>3. disk[m].present /\ disk[m].size = ExpectedSize
      BY <3>1, <3>2 DEF OpenFault
    <3>4. disk[m].size \in Nat
      BY <3>2 DEF FilesInv, DiskInv, FileRecords
    <3> HIDE DEF ExpectedSize
    <3>5. IsAsSeen(m, ExpectedSize)
      BY <3>3, <3>4 DEF IsAsSeen
    <3>6. IsAsSeen(m, ExpectedSize)'
      BY <1>2, <1>4, <3>5 DEF IsAsSeen, Touched
    <3>7. OpenInv'
      BY <1>2, <1>4, <3>1, <3>2, <3>6 DEF OpenInv, TimeOf, ChanOf, CoarseChans
    <3>8. call.method = "read_second" => SecondInv'
      BY <1>2, <1>4, <2>1 DEF RunInv, SecondInv, Upto
    <3>9. call.method = "read_file" => FileInv'
      <4>1. call \in Calls /\ call.method = "read_file" => call.timestep \in Int
        BY DEF Calls
      <4>2. call.method = "read_file" => at = call.timestep
        BY <1>1, <2>1, <4>1 DEF RunInv, FileInv
      <4>3. QED
        BY <1>2, <1>4, <2>1, <4>2 DEF RunInv, FileInv
    <3>10. QED
      BY <1>2, <2>1, <3>7, <3>8, <3>9 DEF RunInv, CoarseChans
  <2>4. QED
    BY <1>3, <2>2, <2>3 DEF ReadInv
<1>7. QED
  BY <1>5, <1>6

\* The blocks asked for are those of the seconds from p up to q, in a file that
\* begins at t and has b blocks in a second.
AskedUpto(b, t, p, q) ==
  /\ p \in Int /\ q \in Int /\ p - t \in Int
  /\ (q - p) * b \in Nat
  /\ AskedBlocks = [k \in 1 .. (q - p) * b |-> (p - t) * b + k - 1]
  /\ \A k \in 1 .. (q - p) * b : (p - t) * b + k - 1 \in 0 .. Blocks - 1

\* The blocks that a second or a whole file asks for are an interval.
LEMMA AskedOfSecond ==
  ASSUME NEW d \in Nat \ {0}, d = FileSeconds, NEW b \in Nat \ {0}, b = BlocksPerSecond,
         Blocks = d * b, NEW t \in Nat, t = timesteps[at],
         call.method = "read_second", call.start \in Int, call.count \in Nat, call.start < t + d,
         NEW p, NEW q, p = Upto(t), q = Upto(t + d)
  PROVE  AskedUpto(b, t, p, q)
<1> DEFINE s == call.start - t
           e == call.start + call.count - t
           x == p - t
           y == q - t
<1>1. s \in Int /\ e \in Int /\ s <= e /\ s < d
  OBVIOUS
<1>2. /\ p \in Int /\ q \in Int /\ x \in Int /\ y \in Int
      /\ x = (IF 0 < s THEN s ELSE IF 0 > e THEN e ELSE 0)
      /\ y = (IF d < s THEN s ELSE IF d > e THEN e ELSE d)
  BY DEF Upto
<1> DEFINE S == s * b
           E == e * b
           X == x * b
           Y == y * b
           D == d * b
<1>3. /\ S \in Int /\ E \in Int /\ X \in Int /\ Y \in Int /\ D \in Int
      /\ (q - p) * b = Y - X
  <2>1. q - p = y - x
    BY <1>2
  <2> HIDE DEF x, y
  <2>2. (y - x) * b = y * b - x * b
    BY <1>2
  <2>3. x * b \in Int /\ y * b \in Int
    BY <1>2
  <2>4. QED
    BY <1>1, <2>1, <2>2, <2>3
<1>4. ASSUME NEW i \in Int, NEW j \in Int, i <= j PROVE i * b <= j * b
  BY <1>4
<1>5. 0 * b = 0
  OBVIOUS
<1>6. /\ X = (IF 0 < s THEN S ELSE IF 0 > e THEN E ELSE 0)
      /\ Y = (IF d > e THEN E ELSE D)
      /\ S <= E
      /\ 0 < s => 0 <= S
      /\ ~(0 < s) => S <= 0
      /\ 0 > e => E <= 0
      /\ ~(0 > e) => 0 <= E
      /\ d > e => E <= D
      /\ ~(d > e) => D <= E
      /\ S <= D
      /\ 0 <= D
  <2>1. X = (IF 0 < s THEN S ELSE IF 0 > e THEN E ELSE 0) /\ Y = (IF d > e THEN E ELSE D)
    <3> HIDE DEF s, e, x, y
    <3>1. QED
      BY <1>1, <1>2, <1>5
  <2> HIDE DEF s, e, x, y
  <2>2. S <= E /\ S <= D
    BY <1>1, <1>4
  <2>3. /\ 0 < s => 0 <= S
        /\ ~(0 < s) => S <= 0
    BY <1>1, <1>4, <1>5
  <2>4. /\ 0 > e => E <= 0
        /\ ~(0 > e) => 0 <= E
    BY <1>1, <1>4, <1>5
  <2>5. /\ d > e => E <= D
        /\ ~(d > e) => D <= E
        /\ 0 <= D
    BY <1>1, <1>4, <1>5
  <2>6. QED
    BY <2>1, <2>2, <2>3, <2>4, <2>5
<1>7. ASSUME NEW k \in Nat PROVE Asked(k) <=> S <= k /\ k < E
  <2>1. k \div b \in Nat /\ (s <= k \div b <=> s * b <= k) /\ (e <= k \div b <=> e * b <= k)
    BY <1>1, DivBound
  <2>2. Asked(k) <=> call.start <= t + k \div b /\ t + k \div b <= call.start + call.count - 1
    BY DEF Asked, SecondOfBlock, SecondEnd
  <2> DEFINE z == k \div b
  <2>3. z \in Nat /\ (Asked(k) <=> call.start <= t + z /\ t + z <= call.start + call.count - 1)
    BY <2>1, <2>2
  <2> HIDE DEF z
  <2>4. Asked(k) <=> s <= z /\ ~(e <= z)
    BY <2>3
  <2> HIDE DEF s, e
  <2>5. Asked(k) <=> S <= k /\ ~(E <= k)
    BY <2>1, <2>4 DEF z
  <2>6. QED
    BY <1>3, <2>5
<1> HIDE DEF S, E, X, Y, s, e
<1>8. X <= Y /\ Y <= D /\ (X < Y => 0 <= X)
  BY <1>3, <1>6
<1>9. {k \in 0 .. Blocks - 1 : Asked(k)} = X .. X + (Y - X) - 1
  <2>1. Blocks = D
    OBVIOUS
  <2> HIDE DEF D
  <2>2. ASSUME NEW k \in 0 .. Blocks - 1 PROVE Asked(k) <=> k \in X .. X + (Y - X) - 1
    <3>1. k \in Nat /\ k < D
      BY <1>3, <2>1
    <3>2. S <= k /\ k < E <=> X <= k /\ k < Y
      BY <1>1, <1>3, <1>6, <3>1
    <3>3. QED
      BY <1>3, <1>7, <3>1, <3>2
  <2>3. ASSUME NEW k \in X .. X + (Y - X) - 1 PROVE k \in 0 .. Blocks - 1
    BY <1>3, <1>8, <2>1, <2>3
  <2>4. QED
    BY <2>2, <2>3
<1>10. Y - X \in Nat
  BY <1>3, <1>8
<1>11. Sorted(X .. X + (Y - X) - 1) = [k \in 1 .. (Y - X) |-> X + k - 1]
  <2> DEFINE m == Y - X
  <2>1. m \in Nat
    BY <1>10
  <2> HIDE DEF m
  <2>2. Sorted(X .. X + m - 1) = [k \in 1 .. m |-> X + k - 1]
    BY <1>3, <2>1, SortedInterval
  <2>3. QED
    BY <2>2 DEF m
<1>12. AskedBlocks = [k \in 1 .. (q - p) * b |-> X + k - 1]
  BY <1>3, <1>9, <1>11 DEF AskedBlocks
<1>13. \A k \in 1 .. (q - p) * b : X + k - 1 \in 0 .. Blocks - 1
  <2>1. Blocks = D
    OBVIOUS
  <2> HIDE DEF D
  <2>2. QED
    BY <1>3, <1>8, <2>1
<1>14. QED
  BY <1>2, <1>3, <1>10, <1>12, <1>13 DEF X, AskedUpto

LEMMA AskedOfFile ==
  ASSUME call.method = "read_file", Blocks \in Nat
  PROVE  AskedBlocks = [k \in 1 .. Blocks |-> k - 1]
<1>1. {b \in 0 .. Blocks - 1 : Asked(b)} = 0 .. 0 + Blocks - 1
  BY DEF Asked
<1>2. Sorted(0 .. 0 + Blocks - 1) = [k \in 1 .. Blocks |-> 0 + k - 1]
  BY SortedInterval
<1>3. [k \in 1 .. Blocks |-> 0 + k - 1] = [k \in 1 .. Blocks |-> k - 1]
  OBVIOUS
<1>4. AskedBlocks = Sorted(0 .. 0 + Blocks - 1)
  BY <1>1 DEF AskedBlocks
<1>5. QED
  BY <1>2, <1>3, <1>4

\* The k-th block asked for from second p on, counted from second t on.
AskedAt(p, t, b, k) == (p - t) * b + k - 1

\* The k-th of the blocks read now is the block that follows in the call.
LEMMA RightSecond ==
  ASSUME NEW b \in Nat \ {0}, NEW t \in Int, NEW p \in Int, NEW s \in Int, s <= p,
         NEW k \in Nat \ {0}, AskedAt(p, t, b, k) \in Nat
  PROVE  /\ t + AskedAt(p, t, b, k) \div b = s + AskedAt(p, s, b, k) \div b
         /\ AskedAt(p, t, b, k) % b = AskedAt(p, s, b, k) % b
<1> DEFINE i == k - 1
           x == p - t
           y == p - s
<1>1. i \in Nat /\ x \in Int /\ y \in Int /\ y \in Nat
  OBVIOUS
<1>2. AskedAt(p, t, b, k) = i + x * b /\ AskedAt(p, s, b, k) = i + y * b
  <2>1. x * b \in Int /\ y * b \in Int
    BY <1>1
  <2>2. QED
    BY <2>1 DEF AskedAt
<1>3. i + x * b \in Nat /\ i + y * b \in Nat
  <2> HIDE DEF i, x, y
  <2>1. y * b \in Nat
    BY <1>1
  <2>2. QED
    BY <1>1, <1>2, <2>1
<1> HIDE DEF i, x, y
<1>4. (i + x * b) \div b = i \div b + x /\ (i + x * b) % b = i % b
  BY <1>1, <1>3, DivShift
<1>5. (i + y * b) \div b = i \div b + y /\ (i + y * b) % b = i % b
  BY <1>1, <1>3, DivShift
<1>6. i \div b \in Int
  BY <1>1
<1> DEFINE z == i \div b
<1>7. z \in Int /\ AskedAt(p, t, b, k) \div b = z + x /\ AskedAt(p, s, b, k) \div b = z + y
  BY <1>2, <1>4, <1>5, <1>6
<1> HIDE DEF z
<1>8. t + (z + x) = s + (z + y)
  BY <1>7 DEF x, y
<1>9. QED
  BY <1>2, <1>4, <1>5, <1>7, <1>8

\* What ReadBlocks asks of the open file, for either method: where the buffer
\* ends before and after, and that the blocks are the right ones.
LEMMA BlocksToRead ==
  ASSUME FilesInv, ReadInv, result = "running", 0 \notin MapTimes, NEW n \in handle
  PROVE  \E m \in Nat :
           /\ DOMAIN AskedBlocks = 1 .. m
           /\ \A k \in 1 .. m : /\ AskedBlocks[k] \in 0 .. Blocks - 1
                                /\ IsRight([name |-> n, offset |-> Offset(AskedBlocks[k])], Len(buffer) + k)
           /\ Len(buffer) + m <= Capacity
           /\ call.method = "read_second" =>
                Len(buffer) + m = (Upto(TimeAt(at + 1)) - call.start) * BlocksPerSecond
           /\ call.method = "read_file" => Len(buffer) = 0 /\ m = Blocks
<1>1. stage = "ready" /\ call \in Calls /\ RunInv
  BY DEF ReadInv
<1>2. PICK w \in Nat \ {0} :
        /\ DOMAIN timesteps = 1 .. w
        /\ FileSeconds \in Nat \ {0} /\ Blocks \in Nat \ {0} /\ BlocksPerSecond \in Nat \ {0}
        /\ Blocks = FileSeconds * BlocksPerSecond
        /\ Prefix[mwaVersion] \in Nat
        /\ timesteps[1] \in Nat
        /\ \A i \in 1 .. w : timesteps[i] = TimeAt(i) /\ timesteps[i] \in Nat
  BY <1>1, Measures DEF Grid
<1>3. /\ n \in Files /\ at \in 1 .. w
      /\ TimeOf(n) = timesteps[at] /\ ChanOf(n) = CoarseChans[call.chan]
  BY <1>1, <1>2 DEF RunInv, OpenInv
<1>4. ASSUME NEW o \in Nat PROVE BlockAt([name |-> n, offset |-> Offset(o)]) = o
  BY <1>2 DEF BlockAt, Offset
<1>5. CASE call.method = "read_second"
  <2>1. call.start \in Int /\ call.count \in Nat
    BY <1>1, <1>5 DEF Calls
  <2>2. PICK t \in Nat : t = timesteps[at] /\ t = TimeAt(at)
    BY <1>2, <1>3
  <2>3. PICK d \in Nat \ {0} : d = FileSeconds
    BY <1>2
  <2>4. PICK b \in Nat \ {0} : b = BlocksPerSecond
    BY <1>2
  <2>5. TimeAt(at + 1) = t + d
    BY <1>2, <1>3, <2>2, <2>3, TimesInOrder
  <2>6. call.start < t + d /\ Len(buffer) = (Upto(t) - call.start) * b
    BY <1>1, <1>5, <2>2, <2>4, <2>5 DEF RunInv, SecondInv
  <2> DEFINE p == Upto(t)
             q == Upto(t + d)
             m == (q - p) * b
  <2>7. /\ p \in Int /\ q \in Int /\ m \in Nat
        /\ AskedBlocks = [k \in 1 .. m |-> (p - t) * b + k - 1]
        /\ \A k \in 1 .. m : (p - t) * b + k - 1 \in 0 .. Blocks - 1
    <3>1. Blocks = d * b
      BY <1>2, <2>3, <2>4
    <3>2. p = Upto(t) /\ q = Upto(t + d)
      OBVIOUS
    <3> HIDE DEF p, q
    <3>3. /\ d \in Nat \ {0} /\ d = FileSeconds /\ b \in Nat \ {0} /\ b = BlocksPerSecond
          /\ t \in Nat /\ t = timesteps[at]
      BY <2>2, <2>3, <2>4
    <3>4. call.method = "read_second" /\ call.start < t + d
      BY <1>5, <2>6
    <3>5. AskedUpto(b, t, p, q)
      BY <2>1, <3>1, <3>2, <3>3, <3>4, AskedOfSecond
    <3>6. QED
      BY <3>5 DEF AskedUpto
  <2>8. /\ p \in Int /\ q \in Int
        /\ call.start <= p /\ q <= call.start + call.count
    BY <2>1, <2>2, <2>3 DEF Upto
  <2> HIDE DEF p, q
  <2>9. (p - call.start) * b + m = (q - call.start) * b
    <3>1. (p - call.start) + (q - p) = q - call.start
      BY <2>1, <2>8
    <3>2. p - call.start \in Int /\ q - p \in Int
      BY <2>1, <2>8
    <3> DEFINE u == p - call.start
               v == q - p
    <3> HIDE DEF u, v
    <3>3. u * b + v * b = (u + v) * b
      BY <3>2 DEF u, v
    <3>4. QED
      BY <3>1, <3>3 DEF u, v
  <2>10. Len(buffer) + m <= Capacity
    <3>1. Capacity = call.count * b
      BY <1>5, <2>4 DEF Capacity
    <3>2. q - call.start <= call.count /\ q - call.start \in Int
      BY <2>1, <2>8
    <3> DEFINE u == q - call.start
    <3>3. u * b <= call.count * b
      <4> HIDE DEF u
      <4>1. QED
        BY <2>1, <3>2 DEF u
    <3>4. QED
      BY <2>6, <2>9, <3>1, <3>3 DEF p
  <2>11. ASSUME NEW k \in 1 .. m
         PROVE  IsRight([name |-> n, offset |-> Offset(AskedBlocks[k])], Len(buffer) + k)
    <3> DEFINE o == (p - t) * b + k - 1
               x == [name |-> n, offset |-> Offset(o)]
    <3>1. k \in Nat \ {0} /\ AskedBlocks[k] = o /\ o \in 0 .. Blocks - 1
      BY <2>7
    <3>2. /\ t + o \div b = call.start + ((p - call.start) * b + k - 1) \div b
          /\ o % b = ((p - call.start) * b + k - 1) % b
      <4> DEFINE y == o
      <4>1. y = (p - t) * b + k - 1 /\ y \in 0 .. Blocks - 1
        BY <3>1
      <4>2. b \in Nat \ {0} /\ b = BlocksPerSecond /\ t \in Nat /\ k \in Nat \ {0}
        BY <2>2, <2>4, <3>1
      <4> HIDE DEF m, y
      <4>3. call.start \in Int /\ p \in Int /\ call.start <= p
        BY <2>1, <2>8
      <4>4. PICK u \in Int : u = p
        BY <4>3
      <4>5. call.start <= u /\ y = (u - t) * b + k - 1
        BY <4>1, <4>3, <4>4
      <4>6. PICK s \in Int : s = call.start
        BY <4>3
      <4>7. s <= u /\ (u - t) * b + k - 1 \in Nat /\ t \in Int
        BY <1>2, <4>1, <4>2, <4>5, <4>6
      <4>8. /\ t + ((u - t) * b + k - 1) \div b = s + ((u - s) * b + k - 1) \div b
            /\ ((u - t) * b + k - 1) % b = ((u - s) * b + k - 1) % b
        <5>1. AskedAt(u, t, b, k) \in Nat
          BY <4>7 DEF AskedAt
        <5>2. /\ t + AskedAt(u, t, b, k) \div b = s + AskedAt(u, s, b, k) \div b
              /\ AskedAt(u, t, b, k) % b = AskedAt(u, s, b, k) % b
          BY <4>2, <4>7, <5>1, RightSecond
        <5>3. QED
          BY <5>2 DEF AskedAt
      <4>9. QED
        BY <4>4, <4>5, <4>6, <4>8 DEF y
    <3>3. Len(buffer) = (p - call.start) * b /\ Len(buffer) \in Int
      <4>1. (p - call.start) * b \in Int
        BY <2>1, <2>7
      <4>2. QED
        BY <2>6, <4>1 DEF p
    <3> HIDE DEF o
    <3>4. o \in Nat /\ BlockAt(x) = o
      BY <1>2, <1>4, <3>1
    <3>5. Len(buffer) + k - 1 = (p - call.start) * b + k - 1
      BY <3>3
    <3>6. /\ BlockAt(x) \in 0 .. Blocks - 1
          /\ ChanOf(x.name) = CoarseChans[call.chan]
          /\ TimeOf(x.name) + BlockAt(x) \div b = call.start + (Len(buffer) + k - 1) \div b
          /\ BlockAt(x) % b = (Len(buffer) + k - 1) % b
      BY <1>3, <2>2, <3>1, <3>2, <3>4, <3>5
    <3>7. IsRight(x, Len(buffer) + k)
      BY <1>5, <2>4, <3>6 DEF IsRight
    <3>8. QED
      BY <3>1, <3>7
  <2>12. Len(buffer) + m = (Upto(TimeAt(at + 1)) - call.start) * BlocksPerSecond
    BY <2>4, <2>5, <2>6, <2>9 DEF p, q
  <2>13. DOMAIN AskedBlocks = 1 .. m /\ \A k \in 1 .. m : AskedBlocks[k] \in 0 .. Blocks - 1
    BY <2>7
  <2>14. m \in Nat
    BY <2>7
  <2> HIDE DEF m
  <2>15. QED
    BY <1>5, <2>10, <2>11, <2>12, <2>13, <2>14
<1>6. CASE call.method = "read_file"
  <2>1. call.timestep \in Int
    BY <1>1, <1>6 DEF Calls
  <2>2. Len(buffer) = 0 /\ at = call.timestep
    BY <1>1, <1>6 DEF RunInv, FileInv
  <2>3. AskedBlocks = [k \in 1 .. Blocks |-> k - 1]
    BY <1>2, <1>6, AskedOfFile
  <2>4. ASSUME NEW k \in 1 .. Blocks
        PROVE  /\ AskedBlocks[k] \in 0 .. Blocks - 1
               /\ IsRight([name |-> n, offset |-> Offset(AskedBlocks[k])], Len(buffer) + k)
    <3> DEFINE o == k - 1
               x == [name |-> n, offset |-> Offset(o)]
    <3>1. AskedBlocks[k] = o /\ o \in 0 .. Blocks - 1 /\ o \in Nat
      BY <1>2, <2>3
    <3>2. BlockAt(x) = o /\ Len(buffer) + k - 1 = o
      BY <1>4, <2>2, <3>1
    <3>3. IsRight(x, Len(buffer) + k)
      BY <1>3, <1>6, <2>2, <3>1, <3>2 DEF IsRight
    <3>4. QED
      BY <3>1, <3>3
  <2>5. Len(buffer) + Blocks <= Capacity
    BY <1>2, <1>6, <2>2 DEF Capacity
  <2>6. QED
    BY <1>2, <1>6, <2>2, <2>3, <2>4, <2>5
<1>7. QED
  BY <1>1, <1>5, <1>6 DEF Calls

LEMMA RunByReadBlocks ==
  ASSUME FilesInv, ReadInv, ReadBlocks
  PROVE  ReadInv'
<1>1. result = "running" /\ stage = "ready" /\ result' \in {"running", "panic"}
  BY DEF ReadBlocks, ReadInv
<1>2. UNCHANGED <<offered, mwaVersion, timeMap, timesteps, stage, call, last>> /\ handle' = {}
  BY DEF ReadBlocks, vars, others, built
<1>3. /\ MapTimes' = MapTimes /\ Files' = Files /\ FileSeconds' = FileSeconds
      /\ Blocks' = Blocks /\ BlocksPerSecond' = BlocksPerSecond
      /\ StartOfObs' = StartOfObs /\ EndOfObs' = EndOfObs /\ NumTimesteps' = NumTimesteps
      /\ BlockRecords' = BlockRecords /\ End' = End
      /\ \A i : TimeAt(i)' = TimeAt(i)
      /\ \A x, k : IsRight(x, k)' <=> IsRight(x, k)
  BY <1>2, SameContext, SameCall
<1>4. CASE 0 \in MapTimes
  BY <1>1, <1>2, <1>3, <1>4 DEF ReadInv
<1>5. CASE 0 \notin MapTimes
  <2>1. call \in Calls /\ BufferInv /\ RunInv
    BY <1>1, <1>5 DEF ReadInv
  <2>2. call' \in Calls /\ call.method \in {"read_second", "read_file"}
    BY <1>2, <2>1 DEF Calls
  <2>3. CASE result' = "panic"
    <3>1. UNCHANGED buffer
      BY <1>1, <2>3 DEF ReadBlocks
    <3>2. BufferInv'
      BY <1>3, <2>1, <3>1 DEF BufferInv
    <3>3. QED
      BY <1>1, <1>2, <2>2, <2>3, <3>2 DEF ReadInv
  <2>4. CASE result' = "running"
    <3>1. PICK n \in handle :
            /\ buffer' = buffer \o [k \in DOMAIN AskedBlocks |-> [name |-> n, offset |-> Offset(AskedBlocks[k])]]
            /\ at' = at + 1
      BY <2>4 DEF ReadBlocks
    <3>2. PICK m \in Nat :
            /\ DOMAIN AskedBlocks = 1 .. m
            /\ \A k \in 1 .. m : /\ AskedBlocks[k] \in 0 .. Blocks - 1
                                 /\ IsRight([name |-> n, offset |-> Offset(AskedBlocks[k])], Len(buffer) + k)
            /\ call.method = "read_second" =>
                 Len(buffer) + m = (Upto(TimeAt(at + 1)) - call.start) * BlocksPerSecond
            /\ call.method = "read_file" => Len(buffer) = 0 /\ m = Blocks
      BY <1>1, <1>5, BlocksToRead
    <3> DEFINE blocks == [k \in 1 .. m |-> [name |-> n, offset |-> Offset(AskedBlocks[k])]]
    <3>3. blocks \in Seq(BlockRecords)
      <4>1. PICK w \in Nat \ {0} : Prefix[mwaVersion] \in Nat /\ Blocks \in Nat
        BY <1>1, <1>5, Measures
      <4>2. n \in Files
        BY <2>1 DEF RunInv, OpenInv
      <4>3. \A k \in 1 .. m : Offset(AskedBlocks[k]) \in Int
        <5>1. \A o \in 0 .. Blocks - 1 : Offset(o) \in Int
          BY <4>1 DEF Offset
        <5>2. QED
          BY <3>2, <5>1
      <4>4. \A k \in 1 .. m : blocks[k] \in BlockRecords
        BY <4>2, <4>3 DEF BlockRecords
      <4>5. QED
        BY <4>4
    <3>4. buffer' = buffer \o blocks /\ Len(blocks) = m
      BY <3>1, <3>2
    <3>5. \A k \in 1 .. m : IsRight(blocks[k], Len(buffer) + k)
      BY <3>2
    <3> HIDE DEF blocks
    <3>6. buffer \in Seq(BlockRecords) /\ Len(buffer) \in Nat
      BY <2>1 DEF BufferInv
    <3>7. buffer' \in Seq(BlockRecords) /\ Len(buffer') = Len(buffer) + m
      <4>1. /\ buffer \o blocks \in Seq(BlockRecords)
            /\ Len(buffer \o blocks) = Len(buffer) + Len(blocks)
        BY <3>3, <3>6
      <4>2. QED
        BY <3>4, <4>1
    <3>8. ASSUME NEW k \in DOMAIN buffer' PROVE IsRight(buffer'[k], k)
      <4>1. k \in 1 .. Len(buffer) + m
        BY <3>7
      <4>2. CASE k <= Len(buffer)
        <5>1. buffer'[k] = buffer[k] /\ k \in DOMAIN buffer
          BY <3>3, <3>4, <3>6, <4>1, <4>2
        <5>2. QED
          BY <2>1, <5>1 DEF BufferInv
      <4>3. CASE ~(k <= Len(buffer))
        <5>1. k - Len(buffer) \in 1 .. m /\ Len(buffer) + (k - Len(buffer)) = k
          BY <3>6, <4>1, <4>3
        <5>2. buffer'[k] = blocks[k - Len(buffer)]
          BY <3>3, <3>4, <3>6, <4>1, <4>3
        <5>3. QED
          BY <3>5, <5>1, <5>2
      <4>4. QED
        BY <4>2, <4>3
    <3>9. BufferInv'
      BY <1>3, <3>7, <3>8 DEF BufferInv
    <3>10. ASSUME call.method = "read_second" PROVE SecondInv'
      <4>1. timesteps[1] \in Nat /\ FileSeconds \in Nat \ {0} /\ at \in Nat
        BY <1>1, <1>5, <2>1, Measures DEF Grid, RunInv
      <4>2. TimeAt(at + 1) <= TimeAt(at + 2) /\ TimeAt(at + 1) \in Int /\ TimeAt(at + 2) \in Int
        <5>1. at + 1 \in Int /\ at + 2 \in Int /\ at + 1 <= at + 2
          BY <4>1
        <5>2. QED
          BY <4>1, <5>1, TimesInOrder
      <4>3. call.start \in Int
        BY <2>1, <3>10 DEF Calls
      <4>4. call.start < TimeAt(at + 1)'
        <5>1. call.start < TimeAt(at + 1) /\ at' + 1 = at + 2
          BY <2>1, <3>1, <3>10, <4>1 DEF RunInv, SecondInv
        <5>2. TimeAt(at + 1)' = TimeAt(at + 2)
          BY <1>3, <5>1
        <5>3. QED
          BY <4>2, <4>3, <5>1, <5>2
      <4>5. Len(buffer') = (Upto(TimeAt(at)) - call.start)' * BlocksPerSecond
        <5>1. Upto(TimeAt(at))' = Upto(TimeAt(at + 1))
          BY <1>2, <1>3, <3>1 DEF Upto
        <5>2. QED
          BY <1>2, <3>2, <3>7, <3>10, <5>1
      <4>6. QED
        BY <1>2, <1>3, <2>1, <3>10, <4>4, <4>5 DEF RunInv, SecondInv
    <3>11. ASSUME call.method = "read_file" PROVE FileInv'
      <4>1. call.timestep \in Int
        BY <2>1, <3>11 DEF Calls
      <4>2. at = call.timestep
        BY <2>1, <3>1, <3>11 DEF RunInv, FileInv
      <4>3. Len(buffer') = Blocks'
        <5>1. Blocks \in Nat
          BY <1>1, <1>5, Measures
        <5>2. QED
          BY <1>3, <3>2, <3>7, <3>11, <5>1
      <4>4. QED
        BY <1>2, <2>1, <3>1, <3>11, <4>2, <4>3 DEF RunInv, FileInv
    <3>12. RunInv'
      BY <1>2, <2>1, <3>1, <3>10, <3>11 DEF RunInv, OpenInv, CoarseChans
    <3>13. QED
      BY <1>1, <1>2, <2>2, <2>4, <3>9, <3>12 DEF ReadInv
  <2>5. QED
    BY <1>1, <2>3, <2>4
<1>6. QED
  BY <1>4, <1>5

LEMMA RunByReturn ==
  ASSUME FilesInv, ReadInv, Return
  PROVE  ReadInv'
<1>1. /\ result = "running" /\ stage = "ready" /\ result' = "ok" /\ stage' = "ready"
      /\ handle = {} /\ at > last
  BY DEF Return, ReadInv, vars
<1>2. UNCHANGED <<offered, mwaVersion, timeMap, timesteps, stage, call, at, last, handle, buffer>>
  BY DEF Return, vars, others, built
<1>3. /\ MapTimes' = MapTimes /\ Blocks' = Blocks /\ BlocksPerSecond' = BlocksPerSecond
      /\ BlockRecords' = BlockRecords /\ \A x, k : IsRight(x, k)' <=> IsRight(x, k)
  BY <1>2, SameContext, SameCall
<1>4. CASE 0 \in MapTimes
  BY <1>1, <1>3, <1>4 DEF ReadInv
<1>5. CASE 0 \notin MapTimes
  <2>1. call \in Calls /\ BufferInv /\ RunInv
    BY <1>1, <1>5 DEF ReadInv
  <2>2. call' \in Calls /\ BufferInv'
    BY <1>2, <1>3, <2>1 DEF BufferInv
  <2>3. FullInv
    <3>1. CASE call.method = "read_second"
      <4>1. call.start \in Int /\ call.count \in Nat /\ at \in Nat /\ last \in Nat
        BY <2>1, <3>1 DEF Calls, RunInv
      <4>2. PICK n \in Nat \ {0} : /\ NumTimesteps = n /\ timesteps[1] \in Nat
                                   /\ FileSeconds \in Nat \ {0} /\ BlocksPerSecond \in Nat
        BY <1>1, <1>5, Measures DEF Grid
      <4>3. TimeAt(at) \in Int /\ TimeAt(last + 1) \in Int /\ TimeAt(last + 1) <= TimeAt(at)
        <5>1. at \in Int /\ last + 1 \in Int /\ last + 1 <= at
          BY <1>1, <4>1
        <5>2. QED
          BY <4>2, <5>1, TimesInOrder
      <4>4. Upto(TimeAt(at)) = call.start + call.count
        <5>1. CASE call.count = 0
          BY <4>1, <4>3, <5>1 DEF Upto
        <5>2. CASE End < TimeAt(last + 1)
          BY <4>1, <4>3, <5>2 DEF Upto, End, SecondEnd
        <5>3. QED
          BY <2>1, <3>1, <5>1, <5>2 DEF RunInv, SecondInv
      <4>5. Upto(TimeAt(at)) - call.start = call.count
        BY <4>1, <4>4
      <4>6. QED
        BY <2>1, <3>1, <4>5 DEF FullInv, RunInv, SecondInv
    <3>2. CASE call.method = "read_file"
      <4>1. call.timestep \in Int
        BY <2>1, <3>2 DEF Calls
      <4>2. QED
        BY <1>1, <2>1, <3>2, <4>1 DEF FullInv, RunInv, FileInv
    <3>3. QED
      BY <2>1, <3>1, <3>2 DEF Calls
  <2>4. FullInv'
    BY <1>2, <1>3, <2>3 DEF FullInv
  <2>5. QED
    BY <1>1, <2>2, <2>4 DEF ReadInv
<1>6. QED
  BY <1>4, <1>5

\* The reads keep their invariant, whatever others do to the files meanwhile.
LEMMA ReadsInvariant == SpecRead => []ReadInv
<1>1. InitRead => ReadInv
  BY DEF InitRead, ReadInv
<1>2. ASSUME FilesInv, ReadInv, [NextRead]_<<vars, read>> PROVE ReadInv'
  <2>1. CASE UNCHANGED read
    BY <1>2, <2>1, ReadLeavesFiles, RunByFiles
  <2>2. CASE Call
    BY <1>2, <2>2, RunByCall
  <2>3. CASE OpenFile
    BY <1>2, <2>3, RunByOpenFile
  <2>4. CASE ReadBlocks
    BY <1>2, <2>4, RunByReadBlocks
  <2>5. CASE Return
    BY <1>2, <2>5, RunByReturn
  <2>6. CASE Take
    BY <2>6 DEF Take, ReadInv
  <2>7. QED
    BY <1>2, <2>1, <2>2, <2>3, <2>4, <2>5, <2>6 DEF NextRead, Read, read
<1>3. QED
  BY <1>1, <1>2, FilesInvariant, PTL DEF SpecRead

\* At any time, and also when a read fails half way, every block in the buffer
\* is the one that was asked for at its place, and a read that succeeds has
\* filled the buffer.
THEOREM BuffersAreAsAsked == SpecRead => []BufferIsAsAsked
<1>1. ASSUME FilesInv, ReadInv PROVE BufferIsAsAsked
  <2>1. CASE result = "none"
    BY <1>1, <2>1 DEF ReadInv, BufferIsAsAsked
  <2>2. CASE result # "none" /\ 0 \notin MapTimes
    <3>1. call \in Calls /\ BufferInv
      BY <1>1, <2>2 DEF ReadInv
    <3>2. ASSUME NEW k \in DOMAIN buffer PROVE IsAsked(buffer[k], k)
      <4>1. IsRight(buffer[k], k) /\ buffer[k] \in BlockRecords
        BY <3>1 DEF BufferInv
      <4>2. buffer[k].name \in Files
        BY <4>1 DEF BlockRecords
      <4>3. /\ disk[buffer[k].name].time = TimeOf(buffer[k].name)
            /\ disk[buffer[k].name].chan = ChanOf(buffer[k].name)
        BY <1>1, <4>2 DEF FilesInv, DiskInv
      <4>4. QED
        BY <3>1, <4>1, <4>3 DEF IsAsked, IsRight, Calls
    <3>3. result = "ok" => FullInv
      BY <1>1, <2>2 DEF ReadInv
    <3>4. QED
      BY <3>2, <3>3 DEF BufferIsAsAsked, FullInv
  <2>3. QED
    BY <2>1, <2>2 DEF BufferIsAsAsked
<1>2. QED
  BY <1>1, FilesInvariant, ReadsInvariant, PTL

-----------------------------------------------------------------------------
(* How a read ends. *)

\* A second that is asked for lies in the timestep that the loop is at.
LEMMA SecondAtHand ==
  ASSUME FilesInv, ReadInv, result = "running", at <= last, 0 \notin MapTimes,
         AskedSeconds # {}
  PROVE  /\ at \in DOMAIN timesteps \/ AsksBeyond
         /\ at \in DOMAIN timesteps => \E s \in AskedSeconds : Covers(timesteps[at], s)
<1>1. stage = "ready" /\ call \in Calls /\ RunInv
  BY DEF ReadInv
<1>2. PICK n \in Nat \ {0} :
        /\ DOMAIN timesteps = 1 .. n /\ FileSeconds \in Nat \ {0} /\ timesteps[1] \in Nat
        /\ StartOfObs \in Nat /\ EndOfObs \in Nat /\ EndOfObs = TimeAt(n + 1)
        /\ \A i \in 1 .. n : timesteps[i] = TimeAt(i) /\ timesteps[i] \in Nat
  BY <1>1, Measures DEF Grid
<1>3. CASE call.method = "read_second"
  <2>1. call.start \in Int /\ call.count \in Nat /\ at \in Nat \ {0} /\ last \in Nat
    BY <1>1, <1>3 DEF Calls, RunInv
  <2>2. AskedSeconds = call.start .. call.start + call.count - 1 /\ call.count # 0
    BY <1>3, <2>1 DEF AskedSeconds
  <2>3. /\ call.start <= EndOfObs /\ End <= EndOfObs /\ call.start < TimeAt(at + 1)
        /\ TimeAt(last) <= End /\ End = call.start + call.count - 1
    BY <1>1, <1>3, <2>2 DEF RunInv, SecondInv, End, SecondEnd
  <2>4. /\ TimeAt(at) \in Int /\ TimeAt(last) \in Int /\ TimeAt(at) <= TimeAt(last)
        /\ TimeAt(at + 1) = TimeAt(at) + FileSeconds
    <3>1. at \in Int /\ last \in Int
      BY <2>1
    <3>2. QED
      BY <1>2, <3>1, TimesInOrder
  <2>5. ASSUME at \notin DOMAIN timesteps PROVE AsksBeyond
    <3>1. n + 1 \in Int /\ n + 1 <= at /\ at \in Int
      BY <1>2, <2>1, <2>5
    <3>2. TimeAt(n + 1) <= TimeAt(at)
      BY <1>2, <3>1, TimesInOrder
    <3>3. EndOfObs = call.start + call.count - 1
      <4>1. EndOfObs \in Nat /\ TimeAt(n + 1) = EndOfObs
        BY <1>2
      <4>2. EndOfObs <= TimeAt(at) /\ TimeAt(at) <= TimeAt(last) /\ TimeAt(last) <= End
        BY <2>3, <2>4, <3>2, <4>1
      <4>3. TimeAt(at) \in Int /\ TimeAt(last) \in Int /\ End \in Int /\ End <= EndOfObs
        BY <2>1, <2>3, <2>4
      <4>4. QED
        BY <2>3, <4>1, <4>2, <4>3
    <3>4. EndOfObs \in AskedSeconds
      BY <1>2, <2>1, <2>2, <2>3, <3>3
    <3>5. QED
      BY <1>3, <3>4 DEF AsksBeyond
  <2>6. ASSUME at \in DOMAIN timesteps PROVE \E s \in AskedSeconds : Covers(timesteps[at], s)
    <3>1. timesteps[at] = TimeAt(at)
      BY <1>2, <2>6
    <3>2. CASE TimeAt(at) < call.start
      <4>1. call.start \in AskedSeconds
        BY <2>1, <2>2
      <4>2. Covers(timesteps[at], call.start)
        BY <2>1, <2>3, <2>4, <3>1, <3>2 DEF Covers
      <4>3. QED
        BY <4>1, <4>2
    <3>3. CASE ~(TimeAt(at) < call.start)
      <4>1. TimeAt(at) \in call.start .. call.start + call.count - 1
        <5>1. TimeAt(at) <= call.start + call.count - 1
          BY <2>1, <2>3, <2>4
        <5>2. QED
          BY <2>1, <2>4, <3>3, <5>1
      <4>2. Covers(timesteps[at], TimeAt(at))
        BY <1>2, <2>4, <3>1 DEF Covers
      <4>3. QED
        BY <2>2, <4>1, <4>2
    <3>4. QED
      BY <3>2, <3>3
  <2>7. QED
    BY <2>5, <2>6
<1>4. CASE call.method = "read_file"
  <2>1. call.timestep \in Int /\ at = call.timestep /\ at \in DOMAIN timesteps
    <3>1. call.timestep \in Int
      BY <1>1, <1>4 DEF Calls
    <3>2. QED
      BY <1>1, <1>4, <3>1 DEF RunInv, FileInv
  <2>2. timesteps[at] \in Nat /\ AskedSeconds = timesteps[at] .. timesteps[at] + FileSeconds - 1
    BY <1>2, <1>4, <2>1 DEF AskedSeconds
  <2>3. timesteps[at] \in AskedSeconds /\ Covers(timesteps[at], timesteps[at])
    BY <1>2, <2>2 DEF Covers
  <2>4. QED
    BY <2>1, <2>3
<1>5. QED
  BY <1>1, <1>3, <1>4 DEF Calls

\* The timesteps that cover one second are the same.
LEMMA CoveredOnce ==
  ASSUME NEW n \in Nat \ {0}, Grid(n), FileSeconds \in Nat \ {0},
         NEW i \in 1 .. n, NEW j \in 1 .. n, NEW s \in Int,
         Covers(timesteps[i], s), Covers(timesteps[j], s)
  PROVE  i = j
<1>1. /\ timesteps[i] \in Nat /\ timesteps[j] \in Nat
      /\ i < j => timesteps[i] + FileSeconds <= timesteps[j]
      /\ j < i => timesteps[j] + FileSeconds <= timesteps[i]
  BY GridFacts
<1>2. ~(i < j) /\ ~(j < i)
  BY <1>1 DEF Covers
<1>3. QED
  BY <1>2

LEMMA AskedAreTimes ==
  ASSUME FilesInv, ReadInv, result # "none", 0 \notin MapTimes
  PROVE  call \in Calls /\ \A s \in AskedSeconds : s \in Int
<1>1. stage = "ready" /\ call \in Calls
  BY DEF ReadInv
<1>2. QED
  BY <1>1 DEF AskedSeconds, Calls

\* No file of the channel holds one of the seconds.
GapInv ==
  result = "NoDataForTimeStepCoarseChannel" /\ 0 \notin MapTimes /\ AskedSeconds # {} =>
    \E s \in AskedSeconds :
      \A n \in Files : ~(ChanOf(n) = CoarseChans[call.chan] /\ Covers(TimeOf(n), s))

LEMMA GapAtOpen ==
  ASSUME FilesInv, ReadInv, Looping, 0 \notin MapTimes, AskedSeconds # {},
         at \in DOMAIN timesteps, Key \notin DOMAIN fileOf
  PROVE  \E s \in AskedSeconds :
           \A n \in Files : ~(ChanOf(n) = CoarseChans[call.chan] /\ Covers(TimeOf(n), s))
<1>1. result = "running" /\ at <= last /\ stage = "ready"
  BY DEF Looping, ReadInv
<1>2. PICK s \in AskedSeconds : Covers(timesteps[at], s)
  BY <1>1, SecondAtHand
<1>3. s \in Int
  BY <1>1, AskedAreTimes
<1>4. PICK w \in Nat \ {0} : Grid(w) /\ DOMAIN timesteps = 1 .. w /\ FileSeconds \in Nat \ {0}
  BY <1>1, Measures
<1>5. ASSUME NEW n \in Files, ChanOf(n) = CoarseChans[call.chan], Covers(TimeOf(n), s)
      PROVE  FALSE
  <2>1. TimeOf(n) \in MapTimes
    BY <1>1 DEF FilesInv, NamesInv
  <2>2. PICK j \in 1 .. w : TimeOf(n) = timesteps[j]
    BY <1>4, <2>1 DEF Grid
  <2>3. j = at
    BY <1>2, <1>3, <1>4, <1>5, <2>2, CoveredOnce
  <2>4. Key = <<TimeOf(n), ChanOf(n)>>
    BY <1>5, <2>2, <2>3 DEF Key
  <2>5. QED
    BY <1>1, <2>4 DEF FilesInv, FileOfInv
<1>6. QED
  BY <1>5

\* What a result says of the call is not changed by others.
LEMMA SameAsked ==
  ASSUME UNCHANGED <<offered, mwaVersion, timeMap, timesteps, call>>
  PROVE  /\ MapTimes' = MapTimes /\ Files' = Files /\ AskedSeconds' = AskedSeconds
         /\ CoarseChans' = CoarseChans /\ ExpectedSize' = ExpectedSize
         /\ \A t, s : Covers(t, s)' <=> Covers(t, s)
         /\ \A n : ChanOf(n)' = ChanOf(n) /\ TimeOf(n)' = TimeOf(n)
         /\ AsksBeyond' <=> AsksBeyond
         /\ AsksNothingAtStart' <=> AsksNothingAtStart
BY DEF MapTimes, Files, AskedSeconds, CoarseChans, ExpectedSize, Blocks, Covers, ChanOf, TimeOf,
   FileSeconds, AsksBeyond, AsksNothingAtStart, EndOfObs, StartOfObs, NumTimesteps

LEMMA SameReady ==
  ASSUME stage = "ready", [NextRead]_<<vars, read>>
  PROVE  UNCHANGED <<offered, mwaVersion, timeMap, timesteps, fileOf, stage, size, common>>
<1>1. [Next]_vars
  BY ReadLeavesFiles
<1>2. QED
  BY <1>1 DEF Next, Build, RefuseNames, RefuseTimes, CounterOverflows, DetermineBatches,
     ExamineFile, Populate, Vanish, Resize, vars, others, built

LEMMA GapNext ==
  ASSUME FilesInv, ReadInv, GapInv, [NextRead]_<<vars, read>>
  PROVE  GapInv'
<1>1. CASE UNCHANGED <<call, result>>
  <2>1. CASE result = "none"
    BY <1>1, <2>1 DEF GapInv
  <2>2. CASE result # "none"
    <3>1. stage = "ready"
      BY <2>2 DEF ReadInv
    <3>2. UNCHANGED <<offered, mwaVersion, timeMap, timesteps>>
      BY <3>1, SameReady
    <3>3. QED
      BY <1>1, <3>2, SameAsked DEF GapInv
  <2>3. QED
    BY <2>1, <2>2
<1>2. CASE Call
  BY <1>2 DEF Call, CallReadSecond, CallReadFile, Refused, LoopFrom, Loop, SecondsFault, GapInv
<1>3. CASE OpenFile
  <2>1. UNCHANGED <<offered, mwaVersion, timeMap, timesteps, call>> /\ Looping
    BY <1>3 DEF OpenFile, vars, others, built
  <2>2. ASSUME result' = "NoDataForTimeStepCoarseChannel"
        PROVE  at \in DOMAIN timesteps /\ Key \notin DOMAIN fileOf
    <3>1. \A f : OpenFault(f) # "NoDataForTimeStepCoarseChannel"
      BY DEF OpenFault
    <3>2. result = "running"
      BY <1>3 DEF OpenFile, Looping
    <3>3. QED
      BY <1>3, <2>2, <3>1, <3>2 DEF OpenFile
  <2>3. QED
    BY <2>1, <2>2, GapAtOpen, SameAsked DEF GapInv
<1>4. CASE ReadBlocks
  BY <1>4 DEF ReadBlocks, GapInv
<1>5. CASE Return \/ Take
  BY <1>5 DEF Return, Take, GapInv
<1>6. QED
  BY <1>1, <1>2, <1>3, <1>4, <1>5 DEF NextRead, Read, read

\* A read finds no data only if some second that it asks for has no file of the
\* channel: data that were offered are never reported missing.
THEOREM NoDataIsAGap == SpecRead => []NoDataOnlyForGaps
<1>1. InitRead => GapInv
  BY DEF InitRead, GapInv
<1>2. FilesInv /\ ReadInv /\ GapInv /\ [NextRead]_<<vars, read>> => GapInv'
  BY GapNext
<1>3. ASSUME FilesInv, GapInv PROVE NoDataOnlyForGaps
  <2>1. \A n \in Files : disk[n].chan = ChanOf(n) /\ disk[n].time = TimeOf(n)
    BY <1>3 DEF FilesInv, DiskInv
  <2>2. QED
    BY <1>3, <2>1 DEF GapInv, NoDataOnlyForGaps, HasFile, Files
<1>4. QED
  BY <1>1, <1>2, <1>3, FilesInvariant, ReadsInvariant, PTL DEF SpecRead

\* A common timestep is one of the times, and has a file of every channel.
LEMMA CommonHasFiles ==
  ASSUME FilesInv, stage = "ready", 0 \notin MapTimes, NEW n \in Nat \ {0}, Grid(n),
         NEW i \in CommonTimesteps, NEW c \in CommonChans
  PROVE  i \in 1 .. n /\ <<timesteps[i], CoarseChans[c]>> \in DOMAIN fileOf
<1>1. FileSeconds \in Nat \ {0} /\ MapTimes \in SUBSET Nat
  BY MapTimesAreTimes DEF FilesInv
<1>2. i \in 1 .. n /\ common.start <= timesteps[i] /\ timesteps[i] < common.end
  BY <1>1, GridFacts DEF CommonTimesteps, Selected
<1>3. timesteps[i] \in Nat
  BY <1>1, <1>2, GridFacts
<1>4. IsCommon(common, 0)
  BY DEF FilesInv, CommonInv
<1>5. common # NoCommon
  <2>1. ASSUME common = NoCommon PROVE FALSE
    BY <1>2, <1>3, <2>1 DEF NoCommon
  <2>2. QED
    BY <2>1
<1>6. PICK s \in MapTimes, l \in MapTimes :
        /\ common = [kind |-> "some", start |-> s, end |-> l + FileSeconds, chans |-> MapChans]
        /\ s <= l
        /\ \A t \in MapTimes : s <= t /\ t <= l => timeMap[t] = MapChans
  BY <1>4, <1>5 DEF IsCommon
<1>7. s <= timesteps[i] /\ timesteps[i] < l + FileSeconds /\ common.chans = MapChans
  BY <1>2, <1>6
<1>8. PICK j \in 1 .. n : l = timesteps[j]
  BY DEF Grid
<1>9. ~(j < i)
  <2>1. j < i => timesteps[j] + FileSeconds <= timesteps[i]
    BY <1>1, <1>2, GridFacts
  <2>2. timesteps[j] \in Nat
    BY <1>1, GridFacts
  <2>3. QED
    BY <1>1, <1>3, <1>7, <1>8, <2>1, <2>2
<1>10. timesteps[i] <= l
  <2>1. i <= j
    BY <1>2, <1>9
  <2>2. QED
    BY <1>1, <1>2, <1>8, <2>1, GridFacts
<1>11. timesteps[i] \in MapTimes
  BY <1>2, <1>7, <1>10, BetweenData
<1>12. timeMap[timesteps[i]] = MapChans
  BY <1>6, <1>7, <1>10, <1>11
<1>13. CoarseChans[c] \in MapChans
  BY <1>7 DEF CommonChans, IndicesOf, IsPosition
<1>14. PICK m \in Files : timesteps[i] = TimeOf(m) /\ CoarseChans[c] = ChanOf(m)
  BY <1>11, <1>12, <1>13 DEF FilesInv, NamesInv
<1>15. QED
  BY <1>2, <1>14 DEF FilesInv, FileOfInv

\* The file at hand is as the constructor saw it, if nobody changes files.
LEMMA WholeFile ==
  ASSUME FilesInv, changes = <<>>, NEW m \in Files, NEW s \in Nat, IsAsSeen(m, s)
  PROVE  disk[m].present /\ disk[m].size = s
<1>1. \A kinds : ~Touched(m, kinds)
  BY DEF Touched
<1>2. disk[m].size \in Nat
  BY DEF FilesInv, DiskInv, FileRecords
<1>3. QED
  BY <1>1, <1>2 DEF IsAsSeen

\* The seconds that a call asks for are common: the premise of CommonCanBeRead.
Readable ==
  /\ call.fits /\ changes = <<>> /\ size = {ExpectedSize}
  /\ 0 \notin MapTimes /\ InCommon

\* The call of read_second is let through.
LEMMA ReadableSeconds ==
  ASSUME FilesInv, stage = "ready", 0 \notin MapTimes,
         NEW start \in Int, NEW count \in Nat,
         start .. start + count - 1 # {},
         \A s \in start .. start + count - 1 : \E i \in CommonTimesteps : Covers(timesteps[i], s),
         CommonChans # {}
  PROVE  SecondsFault(start, count) = "none" /\ ~(SecondEnd(start, count) < StartOfObs)
<1>1. PICK n \in Nat \ {0} :
        /\ Grid(n) /\ DOMAIN timesteps = 1 .. n /\ FileSeconds \in Nat \ {0}
        /\ StartOfObs \in Nat /\ StartOfObs = TimeAt(1) /\ EndOfObs \in Nat
        /\ EndOfObs = TimeAt(n + 1) /\ timesteps[1] \in Nat
        /\ \A i \in 1 .. n : timesteps[i] = TimeAt(i) /\ timesteps[i] \in Nat
  BY Measures DEF Grid
<1>2. \A i \in CommonTimesteps : i \in 1 .. n
  BY <1>1, CommonHasFiles
<1>3. ASSUME NEW i \in 1 .. n
      PROVE  StartOfObs <= timesteps[i] /\ timesteps[i] + FileSeconds <= EndOfObs
  <2>1. i \in Int /\ i + 1 \in Int /\ n + 1 \in Int /\ 1 <= i /\ i + 1 <= n + 1 /\ 1 \in Int
    BY <1>3
  <2>2. /\ TimeAt(1) <= TimeAt(i) /\ TimeAt(i + 1) <= TimeAt(n + 1)
        /\ TimeAt(i + 1) = TimeAt(i) + FileSeconds
    BY <1>1, <2>1, TimesInOrder
  <2>3. QED
    BY <1>1, <1>3, <2>2
<1>4. ASSUME NEW s \in start .. start + count - 1 PROVE StartOfObs <= s /\ s < EndOfObs
  <2>1. PICK i \in 1 .. n : Covers(timesteps[i], s)
    BY <1>2
  <2>2. timesteps[i] \in Nat /\ s \in Int
    BY <1>1
  <2>3. timesteps[i] <= s /\ s < timesteps[i] + FileSeconds
    BY <2>1 DEF Covers
  <2>4. StartOfObs \in Nat /\ EndOfObs \in Nat /\ FileSeconds \in Nat
    BY <1>1
  <2>5. StartOfObs <= timesteps[i] /\ timesteps[i] + FileSeconds <= EndOfObs
    BY <1>3
  <2>6. QED
    BY <2>2, <2>3, <2>4, <2>5
<1>5. start \in start .. start + count - 1 /\ start + count - 1 \in start .. start + count - 1
  OBVIOUS
<1>6. StartOfObs <= start /\ start + count - 1 < EndOfObs /\ start <= start + count - 1
  BY <1>4, <1>5
<1>7. QED
  BY <1>1, <1>6 DEF SecondsFault, SecondEnd

LEMMA CommonAtCall ==
  ASSUME FilesInv, ReadInv, Call, Readable',
         result' \notin {"none", "running", "InvalidTimeStepIndex", "InvalidCoarseChanIndex"}
  PROVE  FALSE
<1>1. stage = "ready" /\ UNCHANGED vars
  BY DEF Call, CallReadSecond, CallReadFile
<1>2. UNCHANGED <<offered, mwaVersion, timeMap, timesteps, common>>
  BY <1>1 DEF vars, others, built
<1>3. /\ MapTimes' = MapTimes /\ CommonTimesteps' = CommonTimesteps /\ CommonChans' = CommonChans
      /\ \A t, s : Covers(t, s)' <=> Covers(t, s)
  BY <1>2 DEF MapTimes, CommonTimesteps, Selected, CommonChans, IndicesOf, IsPosition, CoarseChans, Covers,
     FileSeconds
<1>4. 0 \notin MapTimes
  BY <1>3 DEF Readable
<1>5. PICK n \in Nat \ {0} : StartOfObs \in Nat /\ EndOfObs \in Nat
  BY <1>1, <1>4, Measures
<1>6. PICK c \in 1 .. Len(CoarseChans) + 1, fits \in BOOLEAN :
        \/ \E start \in StartOfObs - 1 .. EndOfObs + 1, count \in 0 .. MaxCount :
             CallReadSecond(start, count, c, fits)
        \/ \E i \in 1 .. NumTimesteps + 1 : CallReadFile(i, c, fits)
  BY DEF Call
<1>7. ASSUME NEW start \in StartOfObs - 1 .. EndOfObs + 1, NEW count \in 0 .. MaxCount,
             CallReadSecond(start, count, c, fits)
      PROVE  FALSE
  <2>1. start \in Int /\ count \in Nat
    BY <1>5
  <2>2. call' = [method |-> "read_second", start |-> start, count |-> count, chan |-> c, fits |-> fits]
    BY <1>7 DEF CallReadSecond
  <2>3. AskedSeconds' = start .. start + count - 1 /\ fits /\ c \in CommonChans
    BY <1>3, <2>2 DEF AskedSeconds, Readable, InCommon
  <2>4. /\ start .. start + count - 1 # {}
        /\ \A s \in start .. start + count - 1 : \E i \in CommonTimesteps : Covers(timesteps[i], s)
    BY <1>2, <1>3, <2>3 DEF Readable, InCommon
  <2>5. SecondsFault(start, count) = "none" /\ ~(SecondEnd(start, count) < StartOfObs)
    BY <1>1, <1>4, <2>1, <2>3, <2>4, ReadableSeconds
  <2>6. QED
    BY <1>7, <2>3, <2>5 DEF CallReadSecond, LoopFrom, Refused, Loop
<1>8. ASSUME NEW i, CallReadFile(i, c, fits) PROVE FALSE
  BY <1>8 DEF CallReadFile, Refused, Loop
<1>9. QED
  BY <1>6, <1>7, <1>8

LEMMA CommonAtOpen ==
  ASSUME FilesInv, ReadInv, OpenFile, Readable
  PROVE  result' = "running"
<1>1. /\ Looping /\ result = "running" /\ handle = {} /\ at <= last /\ stage = "ready" /\ 0 \notin MapTimes
      /\ call.fits /\ changes = <<>> /\ size = {ExpectedSize}
  BY DEF OpenFile, Looping, ReadInv, Readable
<1>2. call \in Calls /\ RunInv
  BY <1>1 DEF ReadInv
<1>3. PICK n \in Nat \ {0} :
        /\ Grid(n) /\ DOMAIN timesteps = 1 .. n /\ FileSeconds \in Nat \ {0}
        /\ EndOfObs \in Nat /\ EndOfObs = TimeAt(n + 1) /\ timesteps[1] \in Nat
        /\ Blocks \in Nat /\ Prefix[mwaVersion] \in Nat
        /\ \A i \in 1 .. n : timesteps[i] = TimeAt(i) /\ timesteps[i] \in Nat
  BY <1>1, Measures DEF Grid
<1>4. /\ AskedSeconds # {} /\ call.chan \in CommonChans
      /\ \A s \in AskedSeconds : s \in Int /\ \E i \in CommonTimesteps : Covers(timesteps[i], s)
  BY <1>1, AskedAreTimes DEF Readable, InCommon
<1>5. \A i \in CommonTimesteps : i \in 1 .. n
  BY <1>1, <1>3, <1>4, CommonHasFiles
<1>6. ~AsksBeyond
  <2>1. ASSUME EndOfObs \in AskedSeconds PROVE FALSE
    <3>1. PICK i \in 1 .. n : Covers(timesteps[i], EndOfObs)
      BY <1>4, <1>5, <2>1
    <3>2. i + 1 \in Int /\ n + 1 \in Int /\ i + 1 <= n + 1 /\ i \in Int
      OBVIOUS
    <3>3. TimeAt(i + 1) <= TimeAt(n + 1) /\ TimeAt(i + 1) = TimeAt(i) + FileSeconds
      BY <1>3, <3>2, TimesInOrder
    <3>4. EndOfObs < timesteps[i] + FileSeconds
      BY <3>1 DEF Covers
    <3>5. QED
      BY <1>3, <3>3, <3>4
  <2>2. QED
    BY <2>1 DEF AsksBeyond
<1>7. at \in 1 .. n
  BY <1>1, <1>3, <1>4, <1>6, SecondAtHand
<1>8. PICK s \in AskedSeconds : Covers(timesteps[at], s)
  BY <1>1, <1>3, <1>4, <1>7, SecondAtHand
<1>9. PICK i \in CommonTimesteps : Covers(timesteps[i], s)
  BY <1>4
<1>10. i = at
  BY <1>3, <1>4, <1>5, <1>7, <1>8, <1>9, CoveredOnce
<1>11. Key \in DOMAIN fileOf
  BY <1>1, <1>3, <1>4, <1>9, <1>10, CommonHasFiles DEF Key
<1>12. PICK m \in Files : m = fileOf[Key]
  BY <1>1, <1>11 DEF FilesInv, FileOfInv
<1>13. ExpectedSize \in Nat
  BY <1>3 DEF ExpectedSize
<1>14. PICK z \in Nat : z = ExpectedSize
  BY <1>13
<1>15. IsAsSeen(m, z)
  <2>1. PICK k \in DOMAIN offered : m = offered[k]
    BY FilesOffered DEF FilesInv
  <2>2. unseen = {} /\ z \in size
    BY <1>1, <1>14 DEF FilesInv, SeenInv
  <2>3. QED
    BY <1>1, <2>1, <2>2 DEF FilesInv, SeenInv
<1>16. disk[m].present /\ disk[m].size = ExpectedSize
  BY <1>1, <1>14, <1>15, WholeFile
<1>17. OpenFault(disk[fileOf[Key]]) = "none"
  BY <1>1, <1>12, <1>16 DEF OpenFault
<1>18. QED
  BY <1>1, <1>3, <1>7, <1>11, <1>17 DEF OpenFile

LEMMA CommonAtBlocks ==
  ASSUME FilesInv, ReadInv, ReadBlocks, Readable
  PROVE  result' = "running"
<1>1. /\ result = "running" /\ stage = "ready" /\ 0 \notin MapTimes /\ changes = <<>>
  BY DEF ReadBlocks, ReadInv, Readable
<1>2. RunInv
  BY <1>1 DEF ReadInv
<1>3. PICK w \in Nat \ {0} : Blocks \in Nat /\ Prefix[mwaVersion] \in Nat
  BY <1>1, Measures
<1>4. ExpectedSize \in Nat
  BY <1>3 DEF ExpectedSize
<1>5. ASSUME NEW n \in handle
      PROVE  /\ \A k \in DOMAIN AskedBlocks : Offset(AskedBlocks[k]) < disk[n].size
             /\ \E m \in Nat : DOMAIN AskedBlocks = 1 .. m /\ Len(buffer) + m <= Capacity
  <2>1. n \in Files /\ IsAsSeen(n, ExpectedSize)
    BY <1>2 DEF RunInv, OpenInv
  <2>2. disk[n].size = ExpectedSize
    BY <1>1, <1>4, <2>1, WholeFile
  <2>3. PICK m \in Nat :
          /\ DOMAIN AskedBlocks = 1 .. m /\ \A k \in 1 .. m : AskedBlocks[k] \in 0 .. Blocks - 1
          /\ Len(buffer) + m <= Capacity
    BY <1>1, BlocksToRead
  <2>4. \A o \in 0 .. Blocks - 1 : Offset(o) < ExpectedSize
    BY <1>3 DEF Offset, ExpectedSize
  <2>5. \A k \in DOMAIN AskedBlocks : AskedBlocks[k] \in 0 .. Blocks - 1
    BY <2>3
  <2>6. \A k \in DOMAIN AskedBlocks : Offset(AskedBlocks[k]) < disk[n].size
    BY <2>2, <2>4, <2>5
  <2>7. QED
    BY <2>3, <2>6
<1> DEFINE blocks(n) == [k \in DOMAIN AskedBlocks |-> [name |-> n, offset |-> Offset(AskedBlocks[k])]]
           Whole(n) == \A k \in DOMAIN blocks(n) : blocks(n)[k].offset < disk[n].size
           Fit(n) == Len(buffer) + Len(blocks(n)) <= Capacity
<1>6. PICK n \in handle : Whole(n) /\ Fit(n) => result' = result
  BY DEF ReadBlocks
<1>7. Whole(n)
  BY <1>5
<1>8. Fit(n)
  <2>1. PICK m \in Nat : DOMAIN AskedBlocks = 1 .. m /\ Len(buffer) + m <= Capacity
    BY <1>5
  <2>2. DOMAIN blocks(n) = 1 .. m
    BY <2>1
  <2> HIDE DEF blocks
  <2>3. Len(blocks(n)) = m
    BY <2>1, <2>2
  <2>4. QED
    BY <2>1, <2>3
<1> HIDE DEF Whole, Fit
<1>9. QED
  BY <1>1, <1>6, <1>7, <1>8

LEMMA CommonNext ==
  ASSUME FilesInv, ReadInv, CommonCanBeRead, [NextRead]_<<vars, read>>
  PROVE  CommonCanBeRead'
<1>1. SUFFICES ASSUME /\ result' \notin {"none", "running", "InvalidTimeStepIndex", "InvalidCoarseChanIndex"}
                      /\ Readable'
               PROVE  result' = "ok"
  BY DEF CommonCanBeRead, Readable
<1>2. CASE UNCHANGED <<call, result>>
  <2>1. stage = "ready"
    BY <1>1, <1>2 DEF ReadInv
  <2>2. UNCHANGED <<offered, mwaVersion, timeMap, timesteps, size, common>>
    BY <2>1, SameReady
  <2>3. changes = <<>>
    <3>1. changes' = <<>> /\ changes \in Seq(ChangeRecords)
      BY <1>1 DEF Readable, FilesInv, DiskInv
    <3>2. UNCHANGED changes \/ \E n \in Files, k \in {"vanished", "cut", "grown"} :
                                 changes' = Append(changes, [name |-> n, kind |-> k])
      <4>1. [Next]_vars
        BY ReadLeavesFiles
      <4>2. CASE Vanish
        BY <4>2 DEF Vanish, Files
      <4>3. CASE Resize
        BY <4>3 DEF Resize, Files
      <4>4. CASE Build
        BY <4>4 DEF Build, RefuseNames, RefuseTimes, CounterOverflows, DetermineBatches,
           ExamineFile, Populate, others
      <4>5. QED
        BY <4>1, <4>2, <4>3, <4>4 DEF Next, vars, others
    <3>3. ASSUME NEW n \in Files, NEW k \in {"vanished", "cut", "grown"}
          PROVE  Append(changes, [name |-> n, kind |-> k]) # <<>>
      BY <3>1 DEF ChangeRecords
    <3>4. QED
      BY <3>1, <3>2, <3>3
  <2>4. /\ CommonTimesteps' = CommonTimesteps /\ CommonChans' = CommonChans
        /\ MapTimes' = MapTimes /\ AskedSeconds' = AskedSeconds /\ ExpectedSize' = ExpectedSize
        /\ \A t, s : Covers(t, s)' <=> Covers(t, s)
    BY <1>2, <2>2, SameAsked
       DEF CommonTimesteps, Selected, CommonChans, IndicesOf, IsPosition, CoarseChans
  <2>5. Readable
    BY <1>1, <1>2, <2>2, <2>3, <2>4 DEF Readable, InCommon
  <2>6. QED
    BY <1>1, <1>2, <2>5 DEF CommonCanBeRead, Readable
<1>3. CASE Call
  BY <1>1, <1>3, CommonAtCall
<1>4. CASE OpenFile \/ ReadBlocks
  <2>1. UNCHANGED <<offered, mwaVersion, timeMap, timesteps, call, size, common, changes>>
    BY <1>4 DEF OpenFile, ReadBlocks, vars, others, built
  <2>2. /\ CommonTimesteps' = CommonTimesteps /\ CommonChans' = CommonChans
        /\ MapTimes' = MapTimes /\ AskedSeconds' = AskedSeconds /\ ExpectedSize' = ExpectedSize
        /\ \A t, s : Covers(t, s)' <=> Covers(t, s)
    BY <2>1, SameAsked
       DEF CommonTimesteps, Selected, CommonChans, IndicesOf, IsPosition, CoarseChans
  <2>3. Readable
    BY <1>1, <2>1, <2>2 DEF Readable, InCommon
  <2>4. QED
    BY <1>1, <1>4, <2>3, CommonAtOpen, CommonAtBlocks
<1>5. CASE Return \/ Take
  BY <1>1, <1>5 DEF Return, Take
<1>6. QED
  BY <1>2, <1>3, <1>4, <1>5 DEF NextRead, Read, read

\* On whole files that nobody touches, every read of seconds within the common
\* timesteps and of a common channel, into a buffer that fits, succeeds: neither
\* the checks of read_second nor its division refuse one of them.
THEOREM CommonIsReadable == SpecRead => []CommonCanBeRead
<1>1. InitRead => CommonCanBeRead
  BY DEF InitRead, CommonCanBeRead
<1>2. FilesInv /\ ReadInv /\ CommonCanBeRead /\ [NextRead]_<<vars, read>> => CommonCanBeRead'
  BY CommonNext
<1>3. QED
  BY <1>1, <1>2, FilesInvariant, ReadsInvariant, PTL DEF SpecRead

\* A change of a file of the channel, told by its name.
LEMMA ChangedByTouch ==
  ASSUME FilesInv, NEW m \in Files, ChanOf(m) = CoarseChans[call.chan], NEW kinds, Touched(m, kinds)
  PROVE  Changed(kinds)
BY DEF FilesInv, DiskInv, Touched, Changed

LEMMA PanicAtCall ==
  ASSUME FilesInv, ReadInv, Call, result' = "panic", 0 \notin MapTimes
  PROVE  AsksNothingAtStart'
<1>1. stage = "ready" /\ UNCHANGED vars
  BY DEF Call, CallReadSecond, CallReadFile
<1>2. PICK n \in Nat \ {0} : StartOfObs \in Nat /\ EndOfObs \in Nat
  BY <1>1, Measures
<1>3. StartOfObs' = StartOfObs
  BY <1>1, SameContext DEF vars, others, built
<1>4. PICK c \in 1 .. Len(CoarseChans) + 1, fits \in BOOLEAN :
        \/ \E start \in StartOfObs - 1 .. EndOfObs + 1, count \in 0 .. MaxCount :
             CallReadSecond(start, count, c, fits)
        \/ \E i \in 1 .. NumTimesteps + 1 : CallReadFile(i, c, fits)
  BY DEF Call
<1>5. ASSUME NEW start \in StartOfObs - 1 .. EndOfObs + 1, NEW count \in 0 .. MaxCount,
             CallReadSecond(start, count, c, fits)
      PROVE  AsksNothingAtStart'
  <2>1. start \in Int /\ count \in Nat
    BY <1>2
  <2>2. call' = [method |-> "read_second", start |-> start, count |-> count, chan |-> c, fits |-> fits]
    BY <1>5 DEF CallReadSecond
  <2>3. SecondsFault(start, count) = "none" /\ SecondEnd(start, count) < StartOfObs
    BY <1>5 DEF CallReadSecond, LoopFrom, Refused, Loop, SecondsFault
  <2>4. count = 0 /\ start = StartOfObs
    BY <1>2, <2>1, <2>3 DEF SecondsFault, SecondEnd
  <2>5. QED
    BY <1>3, <2>2, <2>4 DEF AsksNothingAtStart
<1>6. ASSUME NEW i, CallReadFile(i, c, fits) PROVE FALSE
  BY <1>6 DEF CallReadFile, Refused, Loop
<1>7. QED
  BY <1>4, <1>5, <1>6

\* What a panic shows, in the state before it.
Excuse ==
  \/ Changed({"vanished", "cut"})
  \/ call.method = "read_file" /\ (size # {ExpectedSize} \/ Changed({"grown"}))
  \/ AsksBeyond \/ AsksNothingAtStart

LEMMA PanicAtOpen ==
  ASSUME FilesInv, ReadInv, OpenFile, result' = "panic", 0 \notin MapTimes
  PROVE  Excuse
<1>1. result = "running" /\ handle = {} /\ at <= last /\ stage = "ready"
  BY DEF OpenFile, Looping, ReadInv
<1>2. call \in Calls /\ RunInv
  BY <1>1 DEF ReadInv
<1>3. CASE at \notin DOMAIN timesteps
  <2>1. CASE call.method = "read_file"
    <3>1. call.timestep \in Int
      BY <1>2, <2>1 DEF Calls
    <3>2. at = call.timestep
      BY <1>1, <1>2, <2>1, <3>1 DEF RunInv, FileInv
    <3>3. QED
      BY <1>2, <1>3, <2>1, <3>2 DEF RunInv, FileInv
  <2>2. CASE call.method = "read_second"
    <3>1. CASE AskedSeconds # {}
      BY <1>1, <1>3, <3>1, SecondAtHand DEF Excuse
    <3>2. CASE AskedSeconds = {}
      <4>1. call.start \in Int /\ call.count \in Nat /\ call.count = 0
        <5>1. call.start \in Int /\ call.count \in Nat
          BY <1>2, <2>2 DEF Calls
        <5>2. call.start .. call.start + call.count - 1 = {}
          BY <2>2, <3>2 DEF AskedSeconds
        <5>3. ~(call.start \in call.start .. call.start + call.count - 1)
          BY <5>2
        <5>4. QED
          BY <5>1, <5>3
      <4>2. PICK n \in Nat \ {0} :
              /\ DOMAIN timesteps = 1 .. n /\ FileSeconds \in Nat \ {0} /\ timesteps[1] \in Nat
              /\ EndOfObs \in Nat /\ EndOfObs = TimeAt(n + 1)
        BY <1>1, Measures DEF Grid
      <4>3. n + 1 \in Int /\ n + 1 <= at /\ at \in Int /\ last \in Int
        BY <1>2, <1>3, <4>2 DEF RunInv
      <4>4. /\ TimeAt(n + 1) <= TimeAt(at) /\ TimeAt(at) <= TimeAt(last)
            /\ TimeAt(at) \in Int /\ TimeAt(last) \in Int
        BY <1>1, <4>2, <4>3, TimesInOrder
      <4>5. call.start <= EndOfObs /\ (call.start = StartOfObs \/ TimeAt(last) <= End)
        BY <1>2, <2>2 DEF RunInv, SecondInv
      <4>6. ~(TimeAt(last) <= End)
        BY <4>1, <4>2, <4>4, <4>5 DEF End, SecondEnd
      <4>7. QED
        BY <2>2, <4>1, <4>5, <4>6 DEF AsksNothingAtStart, Excuse
    <3>3. QED
      BY <3>1, <3>2
  <2>3. QED
    BY <1>2, <2>1, <2>2 DEF Calls
<1>4. CASE at \in DOMAIN timesteps
  <2>1. Key \in DOMAIN fileOf /\ OpenFault(disk[fileOf[Key]]) = "panic"
    BY <1>1, <1>4 DEF OpenFile
  <2>2. PICK m \in Files : m = fileOf[Key] /\ ChanOf(m) = CoarseChans[call.chan]
    BY <1>1, <2>1 DEF FilesInv, FileOfInv, Key
  <2>3. PICK k \in DOMAIN offered : m = offered[k]
    BY FilesOffered DEF FilesInv
  <2>4. size # {} /\ size \subseteq Nat /\ \A s \in size : IsAsSeen(m, s)
    BY <1>1, <2>3 DEF FilesInv, SeenInv
  <2>5. PICK s \in size : s \in Nat
    BY <2>4
  <2>6. size = {s}
    BY <2>5 DEF FilesInv, SeenInv
  <2>7. CASE ~disk[m].present
    <3>1. Touched(m, {"vanished"})
      BY <2>4, <2>5, <2>7 DEF IsAsSeen
    <3>2. Changed({"vanished"})
      BY <2>2, <3>1, ChangedByTouch
    <3>3. QED
      BY <3>2 DEF Changed, Excuse
  <2>8. CASE disk[m].present
    <3>1. disk[m].size # ExpectedSize /\ call.method = "read_file"
      BY <2>1, <2>2, <2>8 DEF OpenFault
    <3>2. CASE s # ExpectedSize
      BY <2>6, <3>1, <3>2 DEF Excuse
    <3>3. CASE s = ExpectedSize
      <4>1. disk[m].size \in Nat
        BY DEF FilesInv, DiskInv, FileRecords
      <4> HIDE DEF ExpectedSize
      <4>2. Touched(m, {"cut"}) \/ Touched(m, {"grown"})
        BY <2>4, <2>5, <3>1, <3>3, <4>1 DEF IsAsSeen
      <4>3. Changed({"cut"}) \/ Changed({"grown"})
        BY <2>2, <4>2, ChangedByTouch
      <4>4. QED
        BY <3>1, <4>3 DEF Changed, Excuse
    <3>4. QED
      BY <3>2, <3>3
  <2>9. QED
    BY <2>7, <2>8
<1>5. QED
  BY <1>3, <1>4

LEMMA PanicAtBlocks ==
  ASSUME FilesInv, ReadInv, ReadBlocks, result' = "panic", 0 \notin MapTimes
  PROVE  Excuse
<1>1. /\ result = "running" /\ stage = "ready"
  BY DEF ReadBlocks, ReadInv
<1>2. RunInv
  BY <1>1 DEF ReadInv
<1>3. PICK w \in Nat \ {0} : Blocks \in Nat /\ Prefix[mwaVersion] \in Nat
  BY <1>1, Measures
<1>4. ExpectedSize \in Nat
  BY <1>3 DEF ExpectedSize
<1>5. PICK n \in handle :
        ~(/\ \A k \in DOMAIN AskedBlocks : Offset(AskedBlocks[k]) < disk[n].size
          /\ Len(buffer) + Len(AskedBlocks) <= Capacity)
  BY <1>1 DEF ReadBlocks
<1>6. n \in Files /\ IsAsSeen(n, ExpectedSize) /\ ChanOf(n) = CoarseChans[call.chan]
  BY <1>2 DEF RunInv, OpenInv
<1>7. PICK m \in Nat :
        /\ DOMAIN AskedBlocks = 1 .. m /\ \A k \in 1 .. m : AskedBlocks[k] \in 0 .. Blocks - 1
        /\ Len(buffer) + m <= Capacity
  BY <1>1, BlocksToRead
<1>8. \A o \in 0 .. Blocks - 1 : Offset(o) \in Int /\ Offset(o) < ExpectedSize
  BY <1>3 DEF Offset, ExpectedSize
<1>9. disk[n].size \in Nat
  BY <1>6 DEF FilesInv, DiskInv, FileRecords
<1> HIDE DEF ExpectedSize
<1>10. ~(disk[n].size >= ExpectedSize)
  <2>1. PICK k \in 1 .. m : ~(Offset(AskedBlocks[k]) < disk[n].size)
    BY <1>5, <1>7
  <2>2. AskedBlocks[k] \in 0 .. Blocks - 1
    BY <1>7
  <2>3. Offset(AskedBlocks[k]) \in Int /\ Offset(AskedBlocks[k]) < ExpectedSize
    BY <1>8, <2>2
  <2>4. QED
    BY <1>4, <1>9, <2>1, <2>3
<1>11. Touched(n, {"cut"})
  BY <1>6, <1>10 DEF IsAsSeen
<1>12. Changed({"cut"})
  BY <1>6, <1>11, ChangedByTouch
<1>13. QED
  BY <1>12 DEF Changed, Excuse

LEMMA ExcuseStays ==
  ASSUME FilesInv, stage = "ready", Excuse, [NextRead]_<<vars, read>>, UNCHANGED call
  PROVE  Excuse'
<1>1. UNCHANGED <<offered, mwaVersion, timeMap, timesteps, size>>
  BY SameReady
<1>2. /\ CoarseChans' = CoarseChans /\ ExpectedSize' = ExpectedSize
      /\ AsksBeyond' <=> AsksBeyond
      /\ AsksNothingAtStart' <=> AsksNothingAtStart
  BY <1>1, SameAsked
<1>3. DiskInv' /\ changes \in Seq(ChangeRecords)
  BY FilesNext, ReadLeavesFiles DEF FilesInv, DiskInv
<1>4. \A n, kinds : Touched(n, kinds) => Touched(n, kinds)'
  <2>1. [Next]_vars
    BY ReadLeavesFiles
  <2>2. ASSUME NEW n \in Files, NEW k \in {"vanished", "cut", "grown"},
               changes' = Append(changes, [name |-> n, kind |-> k])
        PROVE  \A l, kinds : Touched(l, kinds) => Touched(l, kinds)'
    <3>1. [name |-> n, kind |-> k] \in ChangeRecords
      BY DEF ChangeRecords
    <3>2. QED
      BY <1>3, <2>2, <3>1, TouchedByAppend
  <2>3. CASE Vanish
    BY <2>2, <2>3 DEF Vanish, Files
  <2>4. CASE Resize
    BY <2>2, <2>4 DEF Resize, Files
  <2>5. CASE UNCHANGED changes
    BY <2>5 DEF Touched
  <2>6. QED
    BY <2>1, <2>3, <2>4, <2>5 DEF Next, Build, RefuseNames, RefuseTimes, CounterOverflows,
       DetermineBatches, ExamineFile, Populate, vars, others
<1>5. ASSUME NEW kinds, Changed(kinds) PROVE Changed(kinds)'
  <2>1. PICK i \in DOMAIN changes :
          changes[i].kind \in kinds /\ disk[changes[i].name].chan = CoarseChans[call.chan]
    BY <1>5 DEF Changed
  <2>2. PICK m \in Files : m = changes[i].name
    <3>1. changes[i] \in ChangeRecords
      BY <1>3, <2>1
    <3>2. QED
      BY <3>1 DEF ChangeRecords
  <2>3. Touched(m, kinds) /\ ChanOf(m) = CoarseChans[call.chan]
    BY <2>1, <2>2 DEF Touched, FilesInv, DiskInv
  <2>4. Touched(m, kinds)'
    BY <1>4, <2>3
  <2>5. disk'[m].chan = CoarseChans[call.chan]
    BY <1>1, <1>3, <2>2, <2>3 DEF DiskInv, Files, ChanOf
  <2>6. QED
    BY <1>2, <2>4, <2>5 DEF Touched, Changed
<1>6. QED
  BY <1>1, <1>2, <1>5 DEF Excuse

LEMMA PanicNext ==
  ASSUME FilesInv, ReadInv, ReadPanicsOnly, [NextRead]_<<vars, read>>
  PROVE  ReadPanicsOnly'
<1>1. SUFFICES ASSUME result' = "panic", 0 \notin MapTimes' PROVE Excuse'
  BY DEF ReadPanicsOnly, Excuse
<1>2. stage = "ready"
  <2>1. CASE Call
    BY <2>1 DEF Call
  <2>2. CASE Take
    BY <1>1, <2>2 DEF Take
  <2>3. CASE UNCHANGED result \/ Read
    BY <1>1, <2>3 DEF ReadInv, Read, OpenFile, Looping, ReadBlocks, Return
  <2>4. QED
    BY <2>1, <2>2, <2>3 DEF NextRead, read
<1>3. 0 \notin MapTimes
  BY <1>1, <1>2, SameReady DEF MapTimes
<1>4. CASE UNCHANGED <<call, result>>
  <2>1. Excuse
    BY <1>1, <1>3, <1>4 DEF ReadPanicsOnly, Excuse
  <2>2. QED
    BY <1>2, <1>4, <2>1, ExcuseStays
<1>5. CASE Call
  BY <1>1, <1>3, <1>5, PanicAtCall DEF Excuse
<1>6. CASE OpenFile \/ ReadBlocks
  <2>1. Excuse /\ UNCHANGED call
    BY <1>1, <1>3, <1>6, PanicAtOpen, PanicAtBlocks DEF OpenFile, ReadBlocks
  <2>2. QED
    BY <1>2, <2>1, ExcuseStays
<1>7. CASE Return \/ Take
  BY <1>1, <1>7 DEF Return, Take
<1>8. QED
  BY <1>4, <1>5, <1>6, <1>7 DEF NextRead, Read, read

\* A read panics only after a file of its channel has vanished or been cut off,
\* in read_file for a file of another size, or for a call at the edges of the
\* observation that validate_gps_time_parameters lets through.
THEOREM PanicsAreExplained == SpecRead => []ReadPanicsOnly
<1>1. InitRead => ReadPanicsOnly
  BY DEF InitRead, ReadPanicsOnly
<1>2. FilesInv /\ ReadInv /\ ReadPanicsOnly /\ [NextRead]_<<vars, read>> => ReadPanicsOnly'
  BY PanicNext
<1>3. QED
  BY <1>1, <1>2, FilesInvariant, ReadsInvariant, PTL DEF SpecRead

-----------------------------------------------------------------------------
(* The reasons. *)

\* A file has had two sizes.
Resized == \E i \in DOMAIN changes : changes[i].kind # "vanished"

\* Without that, the sizes are those that the files had at first.
SizesInv ==
  Resized \/ ( /\ \A n \in Files : disk[n].size = Contents[n].size
               /\ \A s \in size : \E n \in Files : s = Contents[n].size )

\* What a step may do to the files: names and headers stay, a file that is gone
\* stays gone, and a file of another size leaves a trace.
LEMMA FileStep ==
  ASSUME DiskInv, [Next]_vars
  PROVE  /\ offered' = offered
         /\ Resized => Resized'
         /\ \A n \in Files : /\ disk'[n].format = disk[n].format /\ disk'[n].obsid = disk[n].obsid
                             /\ disk'[n].time = disk[n].time /\ disk'[n].chan = disk[n].chan
                             /\ ~disk[n].present => ~disk'[n].present
         /\ Resized' \/ \A n \in Files : disk'[n].size = disk[n].size
<1>1. CASE Vanish
  <2>1. PICK n \in Files : /\ disk' = [disk EXCEPT ![n].present = FALSE]
                           /\ changes' = Append(changes, [name |-> n, kind |-> "vanished"])
                           /\ offered' = offered
    BY <1>1 DEF Vanish, Files
  <2>2. Resized => Resized'
    <3>1. changes \in Seq(ChangeRecords)
      BY DEF DiskInv
    <3>2. QED
      BY <2>1, <3>1 DEF Resized
  <2>3. QED
    BY <2>1, <2>2 DEF DiskInv, FileRecords
<1>2. CASE Resize
  <2>1. PICK n \in Files, z \in NewSizes :
          /\ disk' = [disk EXCEPT ![n].size = z]
          /\ changes' = Append(changes, [name |-> n, kind |-> IF z < disk[n].size THEN "cut" ELSE "grown"])
          /\ offered' = offered
    BY <1>2 DEF Resize, Files
  <2>2. Resized'
    <3> DEFINE c == [name |-> n, kind |-> IF z < disk[n].size THEN "cut" ELSE "grown"]
    <3>1. c.kind # "vanished"
      OBVIOUS
    <3> HIDE DEF c
    <3>2. changes \in Seq(ChangeRecords) /\ changes' = Append(changes, c)
      BY <2>1 DEF DiskInv, c
    <3>3. Len(changes) + 1 \in DOMAIN changes' /\ changes'[Len(changes) + 1] = c
      BY <3>2
    <3>4. QED
      BY <3>1, <3>3 DEF Resized
  <2>3. QED
    BY <2>1, <2>2 DEF DiskInv, FileRecords
<1>3. ASSUME UNCHANGED others
      PROVE  UNCHANGED <<offered, disk, Resized>>
  BY <1>3 DEF others, Resized
<1>4. CASE Build
  <2>1. UNCHANGED others
    BY <1>4 DEF Build, RefuseNames, RefuseTimes, CounterOverflows, DetermineBatches, ExamineFile, Populate
  <2>2. QED
    BY <1>3, <2>1
<1>5. CASE UNCHANGED vars
  BY <1>3, <1>5 DEF vars
<1>6. QED
  BY <1>1, <1>2, <1>4, <1>5 DEF Next

LEMMA SizesNext == DiskInv /\ SizesInv /\ [Next]_vars => SizesInv'
<1>1. SUFFICES ASSUME DiskInv, SizesInv, [Next]_vars, ~Resized' PROVE SizesInv'
  BY DEF SizesInv
<1>2. /\ ~Resized /\ Files' = Files
      /\ \A n \in Files : disk'[n].size = disk[n].size /\ disk[n].size = Contents[n].size
      /\ \A s \in size : \E n \in Files : s = Contents[n].size
  BY <1>1, FileStep DEF SizesInv, Files
<1>3. \A s \in size' : s \in size \/ \E i \in DOMAIN offered : s = FileAt(i).size
  BY <1>1 DEF Next, Build, RefuseNames, RefuseTimes, CounterOverflows, DetermineBatches, ExamineFile,
              Populate, Vanish, Resize, vars
<1>4. \A i \in DOMAIN offered : FileAt(i).size = Contents[offered[i]].size
  BY <1>1, <1>2, FilesOffered DEF FileAt
<1>5. QED
  BY <1>1, <1>2, <1>3, <1>4, FilesOffered DEF SizesInv

\* What was true of a file, as it was or as it is, remains so.
LEMMA StillTrue ==
  ASSUME DiskInv, [Next]_vars, NEW e, NEW n \in Files,
         IsTrueOf(e, Contents[n]) \/ IsTrueOf(e, disk[n])
  PROVE  (IsTrueOf(e, Contents[n]) \/ IsTrueOf(e, disk[n]))'
<1>1. /\ Files' = Files /\ GpsTimes' = GpsTimes
      /\ \A t : FilesAt(t)' = FilesAt(t)
  <2>1. \A i \in DOMAIN offered : FileAt(i)'.time = FileAt(i).time
    BY FileStep, FilesOffered DEF FileAt
  <2>2. offered' = offered
    BY FileStep
  <2>3. QED
    BY <2>1, <2>2 DEF Files, GpsTimes, FilesAt
<1>2. \A t : NextTime(t)' = NextTime(t)
  BY <1>1 DEF NextTime
<1>3. /\ disk'[n].format = disk[n].format /\ disk'[n].obsid = disk[n].obsid
      /\ disk'[n].time = disk[n].time
      /\ ~disk[n].present => ~disk'[n].present
      /\ \A m \in Files : disk'[m].format = disk[m].format
  BY FileStep
<1>4. /\ \A g : IsTrueOf("UnequalFileSizes", g) <=> Resized \/ \E m \in Files : disk[m].size # g.size
      /\ \A g : IsTrueOf("UnequalFileSizes", g)' <=> Resized' \/ \E m \in Files : disk'[m].size # g.size
  BY <1>1 DEF IsTrueOf, Resized, Files
<1>5. CASE e = "UnequalFileSizes"
  <2>1. (\A m \in Files : disk'[m].size = disk[m].size) \/ Resized'
    BY FileStep
  <2>2. Resized => Resized'
    BY FileStep
  <2>3. IsTrueOf(e, Contents[n]) => IsTrueOf(e, Contents[n])'
    BY <1>4, <1>5, <2>1, <2>2
  <2>4. IsTrueOf(e, disk[n]) => IsTrueOf(e, disk[n])'
    <3>1. IsTrueOf("UnequalFileSizes", disk[n])' <=> Resized' \/ \E m \in Files : disk'[m].size # disk'[n].size
      BY <1>1 DEF IsTrueOf, Resized, Files
    <3>2. QED
      BY <1>4, <1>5, <2>1, <2>2, <3>1
  <2>5. QED
    BY <2>3, <2>4
<1>6. CASE e \in {"Unrecognised", "MetafitsObsidMismatch", "VoltageFileError"}
  BY <1>3, <1>6 DEF IsTrueOf
<1>7. CASE e = "Mixture"
  BY <1>1, <1>3, <1>7 DEF IsTrueOf, Files
<1>8. CASE e = "GpsTimeMissing"
  BY <1>1, <1>2, <1>3, <1>8 DEF IsTrueOf
<1>9. CASE e = "UnevenChannelsForGpsTime"
  BY <1>1, <1>3, <1>9 DEF IsTrueOf
<1>10. QED
  BY <1>5, <1>6, <1>7, <1>8, <1>9 DEF IsTrueOf

\* The error that an action returns is true of a file on the disk.
LEMMA NamesRefused ==
  ASSUME DiskInv, RefuseNames
  PROVE  (why' = "NoVoltageFiles" /\ offered = <<>>) \/ \E n \in Files : IsTrueOf(why', disk[n])
<1>1. SUFFICES ASSUME NEW i \in DOMAIN offered, NameFault(i) # "none", why' = NameFault(i)
               PROVE  \E n \in Files : IsTrueOf(why', disk[n])
  BY DEF RefuseNames, ErrorIn
<1>2. offered[i] \in Files /\ offered[1] \in Files
  BY FilesOffered
<1>3. FileAt(i).obsid \in {"same", "other"}
  BY <1>2 DEF DiskInv, FileRecords, FileAt
<1>4. IsTrueOf(NameFault(i), disk[offered[i]])
  BY <1>1, <1>2, <1>3 DEF IsTrueOf, NameFault, FileAt, Files
<1>5. QED
  BY <1>1, <1>2, <1>4

LEMMA TimesRefused ==
  ASSUME DiskInv, RefuseTimes
  PROVE  \E n \in Files : IsTrueOf(why', disk[n])
<1>1. PICK t \in GpsTimes : TimeFault(t) # "none" /\ why' = TimeFault(t)
  BY DEF RefuseTimes, ErrorIn
<1>2. GpsTimes \in SUBSET Nat /\ IsFiniteSet(GpsTimes)
  BY NamesAsRead
<1>3. ASSUME NEW u \in GpsTimes
      PROVE  \E i \in DOMAIN offered : FileAt(i).time = u /\ disk[offered[i]] = FileAt(i) /\ offered[i] \in Files
  BY FilesOffered DEF GpsTimes, FileAt
<1>4. CASE ~Follows(t)
  <2> DEFINE before == {u \in GpsTimes : u < t}
             g == Greatest(before)
  <2>1. before \ {0} # {} /\ g + Interval # t
    BY <1>4 DEF Follows
  <2>2. g \in before /\ \A u \in before : u <= g
    <3>1. before \in SUBSET Nat /\ before # {} /\ before \subseteq GpsTimes
      BY <1>2, <2>1
    <3> HIDE DEF before
    <3>2. IsFiniteSet(before)
      BY <1>2, <3>1, FS_Subset
    <3>3. QED
      BY <3>1, <3>2, GreatestExists
  <2> HIDE DEF g
  <2>3. g \in GpsTimes /\ g \in Nat /\ t \in Nat /\ g < t
    BY <1>2, <2>2
  <2>4. ASSUME NEW u \in GpsTimes, g < u PROVE t <= u
    BY <1>2, <2>2, <2>3, <2>4
  <2>5. NextTime(g) = t
    <3>1. \A u \in GpsTimes : g < u /\ (\A v \in GpsTimes : g < v => u <= v) => u = t
      <4>1. ASSUME NEW u \in GpsTimes, g < u, \A v \in GpsTimes : g < v => u <= v PROVE u = t
        <5>1. u <= t /\ t <= u /\ u \in Nat
          BY <1>2, <2>3, <2>4, <4>1
        <5>2. QED
          BY <2>3, <5>1
      <4>2. QED
        BY <4>1
    <3>2. QED
      BY <2>3, <2>4, <3>1 DEF NextTime
  <2>6. g # Greatest(GpsTimes)
    <3>1. \A u \in GpsTimes : u <= Greatest(GpsTimes)
      BY <1>2, GreatestExists
    <3>2. QED
      BY <2>3, <3>1
  <2>7. PICK i \in DOMAIN offered : FileAt(i).time = g /\ disk[offered[i]] = FileAt(i) /\ offered[i] \in Files
    BY <1>3, <2>3
  <2>8. Seconds[FileAt(i).format] = Interval
    <3>1. NamesAreSound
      BY DEF RefuseTimes
    <3>2. FileAt(i).format = FileAt(1).format
      BY <3>1 DEF NamesAreSound, NameFault
    <3>3. QED
      BY <3>2 DEF Interval
  <2>9. why' = "GpsTimeMissing"
    BY <1>1, <1>4 DEF TimeFault
  <2>10. IsTrueOf("GpsTimeMissing", FileAt(i))
    BY <2>1, <2>5, <2>6, <2>7, <2>8 DEF IsTrueOf
  <2>11. QED
    BY <2>7, <2>9, <2>10
<1>5. CASE Follows(t)
  <2>1. why' = "UnevenChannelsForGpsTime" /\ NumFiles(t) # NumFiles(Least(GpsTimes))
    BY <1>1, <1>5 DEF TimeFault
  <2>2. Least(GpsTimes) \in GpsTimes
    BY <1>2, LeastExists
  <2>3. Cardinality(FilesAt(Least(GpsTimes))) # Cardinality(FilesAt(t))
    BY <2>1 DEF NumFiles
  <2>4. PICK i \in DOMAIN offered : FileAt(i).time = t /\ disk[offered[i]] = FileAt(i) /\ offered[i] \in Files
    BY <1>3
  <2>5. IsTrueOf("UnevenChannelsForGpsTime", FileAt(i))
    BY <2>2, <2>3, <2>4 DEF IsTrueOf
  <2>6. QED
    BY <2>1, <2>4, <2>5
<1>6. QED
  BY <1>4, <1>5

LEMMA FileRefused ==
  ASSUME DiskInv, SizesInv, ExamineFile, stage' = "error"
  PROVE  \E n \in Files : IsTrueOf(why', disk[n])
<1>1. PICK i \in DOMAIN offered :
        IF ~FileAt(i).present THEN ErrorIn("VoltageFileError")
        ELSE IF SizeDiffers(FileAt(i).size) THEN ErrorIn("UnequalFileSizes")
        ELSE UNCHANGED <<stage, why>>
  BY DEF ExamineFile
<1>2. stage # "error" /\ offered[i] \in Files
  BY FilesOffered DEF ExamineFile
<1>3. CASE ~FileAt(i).present
  BY <1>1, <1>2, <1>3 DEF IsTrueOf, FileAt, ErrorIn
<1>4. CASE FileAt(i).present
  <2>1. SizeDiffers(FileAt(i).size) /\ why' = "UnequalFileSizes"
    BY <1>1, <1>2, <1>4 DEF ErrorIn
  <2>2. PICK s \in size : s # FileAt(i).size
    BY <2>1 DEF SizeDiffers
  <2>3. Resized \/ \E m \in Files : disk[m].size # FileAt(i).size
    BY <2>2 DEF SizesInv
  <2>4. IsTrueOf("UnequalFileSizes", FileAt(i))
    BY <2>3 DEF IsTrueOf, Resized, Files
  <2>5. QED
    BY <1>2, <2>1, <2>4 DEF FileAt
<1>5. QED
  BY <1>3, <1>4

LEMMA PopulatePanics ==
  ASSUME DiskInv, NamesInv, Populate, stage' = "panic"
  PROVE  \E n \in Files : disk[n].chan \notin RecChans
<1>1. stage = "examine" /\ ~(MapChans \subseteq ToSet(CoarseChans))
  BY DEF Populate
<1>2. PICK c \in MapChans : c \notin RecChans
  <2>1. ASSUME NEW r \in RecChans PROVE r \in ToSet(CoarseChans)
    <3>1. DOMAIN CoarseChans = 1 .. Cardinality(RecChans)
      BY DEF CoarseChans, Sorted
    <3>2. \E i \in 1 .. Cardinality(RecChans) : CoarseChans[i] = r
      BY ChansAssumption, SortedMembers DEF CoarseChans
    <3>3. QED
      BY <3>1, <3>2 DEF ToSet
  <2>2. QED
    BY <1>1, <2>1
<1>3. PICK t \in MapTimes : c \in timeMap[t]
  BY <1>2 DEF MapChans
<1>4. PICK n \in Files : c = ChanOf(n)
  BY <1>1, <1>3 DEF NamesInv
<1>5. disk[n].chan = ChanOf(n)
  BY DEF DiskInv
<1>6. QED
  BY <1>2, <1>4, <1>5

LEMMA CountsStay ==
  ASSUME DiskInv, [Next]_vars
  PROVE  CountsAre8Bit' <=> CountsAre8Bit
<1>1. \A i \in DOMAIN offered : FileAt(i)'.time = FileAt(i).time
  BY FileStep, FilesOffered DEF FileAt
<1>2. offered' = offered
  BY FileStep
<1>3. GpsTimes' = GpsTimes /\ \A t : FilesAt(t)' = FilesAt(t)
  BY <1>1, <1>2 DEF GpsTimes, FilesAt
<1>4. QED
  BY <1>3 DEF CountsAre8Bit

LEMMA ReasonNext ==
  ASSUME DiskInv, NamesInv, SizesInv, DecidesForAReason, [Next]_vars
  PROVE  DecidesForAReason'
<1>1. /\ offered' = offered /\ Files' = Files
      /\ \A n \in Files : disk'[n].chan = disk[n].chan
  BY FileStep DEF Files
<1>2. ASSUME stage' = "error", stage # "error"
      PROVE  (why' = "NoVoltageFiles" /\ offered = <<>>) \/ \E n \in Files : IsTrueOf(why', disk[n])
  <2>1. RefuseNames \/ RefuseTimes \/ ExamineFile
    BY <1>2 DEF Next, Build, CounterOverflows, DetermineBatches, Populate, Vanish, Resize, vars
  <2>2. QED
    BY <1>2, <2>1, NamesRefused, TimesRefused, FileRefused
<1>3. stage' = "error" /\ stage = "error" => why' = why
  BY DEF Next, Build, RefuseNames, RefuseTimes, CounterOverflows, DetermineBatches, ExamineFile, Populate,
         Vanish, Resize, vars
<1>4. ASSUME stage' = "error"
      PROVE  \/ why' = "NoVoltageFiles" /\ offered = <<>>
             \/ \E n \in Files : (IsTrueOf(why, Contents[n]) \/ IsTrueOf(why, disk[n]))'
  <2>1. PICK e : e = why'
    OBVIOUS
  <2>2. \/ e = "NoVoltageFiles" /\ offered = <<>>
        \/ \E n \in Files : IsTrueOf(e, Contents[n]) \/ IsTrueOf(e, disk[n])
    BY <1>2, <1>3, <1>4, <2>1 DEF DecidesForAReason, Files
  <2>3. \/ e = "NoVoltageFiles" /\ offered = <<>>
        \/ \E n \in Files : (IsTrueOf(e, Contents[n]) \/ IsTrueOf(e, disk[n]))'
    BY <2>2, StillTrue
  <2>4. QED
    BY <2>1, <2>3
<1>5. ASSUME stage' = "panic"
      PROVE  (\E n \in Files : disk[n].chan \notin RecChans) \/ ~CountsAre8Bit
  <2>1. CASE stage = "panic"
    BY <2>1 DEF DecidesForAReason, Files
  <2>2. CASE stage # "panic"
    <3>1. CounterOverflows \/ Populate
      BY <1>5, <2>2 DEF Next, Build, RefuseNames, RefuseTimes, ErrorIn, DetermineBatches, ExamineFile,
                        Vanish, Resize, vars
    <3>2. QED
      BY <1>5, <3>1, PopulatePanics DEF CounterOverflows
  <2>3. QED
    BY <2>1, <2>2
<1>6. QED
  BY <1>1, <1>4, <1>5, CountsStay DEF DecidesForAReason, Files

\* The error that the constructor of a voltage context returns is true of one of
\* the files, as it was or as it is, and it panics only for a channel the metafits
\* lacks or a full counter, whatever others do to the files in the meantime.
THEOREM RefusalsAreTrue == SpecRead => []DecidesForAReason
<1>1. InitRead => SizesInv /\ DecidesForAReason
  <2>1. Init => SizesInv
    BY FilesAssumption DEF Init, SizesInv, Files
  <2>2. QED
    BY <2>1 DEF InitRead, Init, DecidesForAReason
<1>2. FilesInv /\ SizesInv /\ DecidesForAReason /\ [NextRead]_<<vars, read>>
        => SizesInv' /\ DecidesForAReason'
  BY ReadLeavesFiles, SizesNext, ReasonNext DEF FilesInv
<1>3. QED
  BY <1>1, <1>2, FilesInvariant, PTL DEF SpecRead
=============================================================================
