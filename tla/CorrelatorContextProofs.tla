----------------------- MODULE CorrelatorContextProofs ----------------------
(***************************************************************************)
(* Proofs about CorrelatorContext, for every list of gpubox files, every   *)
(* observation and every number of changes others make to the files; and   *)
(* about CoarseChannels, the loop whose channels the constructor uses, for *)
(* every list of receiver channels.                                        *)
(***************************************************************************)
EXTENDS CorrelatorContext, CoarseChannels, FiniteSetTheorems, TLAPS

-----------------------------------------------------------------------------
(* Least and greatest numbers. *)

LEMMA LeastExists ==
  ASSUME NEW S \in SUBSET Nat, S # {}
  PROVE  Least(S) \in S /\ \A t \in S : Least(S) <= t
<1> DEFINE Less == {p \in Nat \X Nat : p[1] < p[2]}
<1>1. IsWellFoundedOn(Less, Nat)
  BY NatLessThanWellFounded DEF OpToRel
<1>2. PICK t \in S : \A u \in S : <<u, t>> \notin Less
  <2>1. S \subseteq Nat
    OBVIOUS
  <2> HIDE DEF Less
  <2>2. QED
    BY <1>1, <2>1, WFMin
<1>3. ASSUME NEW u \in S PROVE t <= u
  <2>1. <<u, t>> \in Nat \X Nat /\ <<u, t>>[1] = u /\ <<u, t>>[2] = t
    OBVIOUS
  <2>2. ~(u < t)
    BY <1>2, <2>1
  <2>3. QED
    BY <2>2
<1>4. QED
  BY <1>3 DEF Least

LEMMA GreatestExists ==
  ASSUME NEW S \in SUBSET Nat, IsFiniteSet(S), S # {}
  PROVE  Greatest(S) \in S /\ \A t \in S : t <= Greatest(S)
<1> DEFINE Above(t) == {u \in S : t < u}
           F == {Above(t) : t \in S}
<1>1. IsWellFoundedOn(StrictSubsetOrdering(S), SUBSET S)
  BY FS_StrictSubsetOrderingWellFounded, FS_FiniteSubsetsOfFinite
<1>2. F \subseteq SUBSET S /\ F # {}
  OBVIOUS
<1>3. PICK B \in F : \A C \in F : <<C, B>> \notin StrictSubsetOrdering(S)
  BY <1>1, <1>2, WFMin
<1>4. PICK t \in S : B = Above(t)
  BY <1>3
<1>5. ASSUME NEW u \in S, t < u
      PROVE  FALSE
  <2>1. Above(u) \subseteq Above(t)
    <3>1. \A v \in S : u < v => t < v
      BY <1>5
    <3>2. QED
      BY <3>1, Zenon
  <2>2. u \in Above(t) /\ u \notin Above(u)
    BY <1>5
  <2>3. Above(u) \in SUBSET S /\ Above(t) \in SUBSET S /\ Above(u) \in F
    OBVIOUS
  <2>4. <<Above(u), Above(t)>> \in StrictSubsetOrdering(S)
    BY <2>1, <2>2, <2>3 DEF StrictSubsetOrdering
  <2>5. QED
    BY <1>3, <1>4, <2>3, <2>4
<1>6. \A u \in S : u <= t
  BY <1>5
<1>7. QED
  BY <1>6 DEF Greatest

-----------------------------------------------------------------------------
(* Times that are a whole number of timesteps apart. *)

Apart(a, b, d) == \E k \in Int : b = a + k * d

\* The remainder that the model computes with says so.
LEMMA ApartByRemainder ==
  ASSUME NEW a \in Int, NEW b \in Int, NEW d \in Nat \ {0}
  PROVE  (b - a) % d = 0 <=> Apart(a, b, d)
<1>1. ASSUME (b - a) % d = 0 PROVE Apart(a, b, d)
  <2>1. b - a = ((b - a) \div d) * d + ((b - a) % d) /\ (b - a) \div d \in Int
    OBVIOUS
  <2>2. b = a + ((b - a) \div d) * d
    <3> DEFINE q == ((b - a) \div d) * d
    <3>1. q \in Int
      BY <2>1
    <3> HIDE DEF q
    <3>2. b - a = q
      BY <1>1, <2>1, <3>1 DEF q
    <3>3. QED
      BY <3>1, <3>2 DEF q
  <2>3. QED
    BY <2>1, <2>2 DEF Apart
<1>2. ASSUME NEW k \in Int, b = a + k * d PROVE (b - a) % d = 0
  <2>1. b - a = k * d
    BY <1>2
  <2>2. (k * d) % d = 0
    OBVIOUS
  <2>3. QED
    BY <2>1, <2>2
<1>3. QED
  BY <1>1, <1>2 DEF Apart

LEMMA ApartSelf ==
  ASSUME NEW a \in Int, NEW d \in Nat \ {0}
  PROVE  Apart(a, a, d) /\ Apart(a, a + d, d)
<1>1. a = a + 0 * d /\ a + d = a + 1 * d
  OBVIOUS
<1>2. QED
  BY <1>1 DEF Apart

LEMMA ApartSym ==
  ASSUME NEW a \in Int, NEW b \in Int, NEW d \in Nat \ {0}, Apart(a, b, d)
  PROVE  Apart(b, a, d)
<1>1. PICK k \in Int : b = a + k * d
  BY DEF Apart
<1>2. a = b + (0 - k) * d /\ 0 - k \in Int
  BY <1>1
<1>3. QED
  BY <1>2 DEF Apart

LEMMA ApartTrans ==
  ASSUME NEW a \in Int, NEW b \in Int, NEW c \in Int, NEW d \in Nat \ {0},
         Apart(a, b, d), Apart(b, c, d)
  PROVE  Apart(a, c, d)
<1>1. PICK k \in Int : b = a + k * d
  BY DEF Apart
<1>2. PICK l \in Int : c = b + l * d
  BY DEF Apart
<1>3. c = a + (k + l) * d /\ k + l \in Int
  BY <1>1, <1>2
<1>4. QED
  BY <1>3 DEF Apart

\* Two different times are at least one timestep apart.
LEMMA ApartByOne ==
  ASSUME NEW a \in Int, NEW b \in Int, NEW d \in Nat \ {0}, Apart(a, b, d), a < b
  PROVE  a + d <= b
<1>1. PICK k \in Int : b = a + k * d
  BY DEF Apart
<1>2. k >= 1
  <2>1. SUFFICES ASSUME k <= 0 PROVE FALSE
    BY <1>1
  <2>2. k * d <= 0
    BY <2>1
  <2>3. QED
    BY <1>1, <2>2
<1>3. k * d >= d
  BY <1>2
<1>4. QED
  BY <1>1, <1>3

-----------------------------------------------------------------------------
(* What Sorted makes of a set of numbers, and Superset of the data. *)

\* Sorted lists every member of a set once, and nothing else.
LEMMA SortedMembers ==
  ASSUME NEW S \in SUBSET Nat, IsFiniteSet(S)
  PROVE  /\ Cardinality(S) \in Nat /\ DOMAIN Sorted(S) = 1 .. Cardinality(S)
         /\ \A i \in 1 .. Cardinality(S) : Sorted(S)[i] \in S
         /\ \A x \in S : \E i \in 1 .. Cardinality(S) : Sorted(S)[i] = x
         /\ \A i, j \in 1 .. Cardinality(S) : Sorted(S)[i] = Sorted(S)[j] => i = j
<1> DEFINE n == Cardinality(S)
           Upto(x) == {y \in S : y <= x}
           r == [x \in S |-> Cardinality(Upto(x))]
<1>1. n \in Nat
  BY FS_CardinalityType
<1>2. ASSUME NEW x \in S PROVE IsFiniteSet(Upto(x)) /\ r[x] \in 1 .. n
  <2>1. Upto(x) \in SUBSET S /\ x \in Upto(x)
    OBVIOUS
  <2> HIDE DEF Upto
  <2>2. IsFiniteSet(Upto(x)) /\ Cardinality(Upto(x)) <= n
    BY <2>1, FS_Subset
  <2>3. Cardinality(Upto(x)) \in Nat /\ Cardinality(Upto(x)) # 0
    BY <2>1, <2>2, FS_CardinalityType, FS_EmptySet
  <2>4. QED
    BY <1>1, <2>2, <2>3
<1>3. ASSUME NEW x \in S, NEW z \in S, x < z PROVE r[x] # r[z]
  <2>1. Upto(x) \in SUBSET Upto(z)
    <3>1. \A y \in S : y <= x => y <= z
      BY <1>3
    <3>2. QED
      BY <3>1, Zenon
  <2>2. z \in Upto(z) /\ z \notin Upto(x)
    BY <1>3
  <2>3. IsFiniteSet(Upto(z))
    BY <1>2
  <2> HIDE DEF Upto
  <2>4. Cardinality(Upto(z)) # Cardinality(Upto(x))
    BY <2>1, <2>2, <2>3, FS_Subset
  <2>5. QED
    BY <2>4
<1> HIDE DEF n, Upto
<1>4. r \in Injection(S, 1 .. n)
  <2>1. r \in [S -> 1 .. n]
    BY <1>2
  <2>2. \A x, z \in S : r[x] = r[z] => x = z
    <3> HIDE DEF r
    <3>1. \A x, z \in S : x < z \/ x = z \/ z < x
      OBVIOUS
    <3>2. QED
      BY <1>3, <3>1
  <2>3. QED
    BY <2>1, <2>2 DEF Injection, IsInjective
<1>5. IsFiniteSet(1 .. n) /\ Cardinality(1 .. n) = n
  BY <1>1, FS_Interval
<1>6. r \in Surjection(S, 1 .. n)
  BY <1>4, <1>5, FS_Injection DEF n
<1>7. \A i \in 1 .. n : \E x \in S : r[x] = i
  BY <1>6 DEF Surjection
<1>8. ASSUME NEW i \in 1 .. n
      PROVE  Sorted(S)[i] \in S /\ r[Sorted(S)[i]] = i
  <2>1. Sorted(S) = [j \in 1 .. n |-> CHOOSE x \in S : Cardinality(Upto(x)) = j]
    BY DEF Sorted, n, Upto
  <2>2. \E x \in S : Cardinality(Upto(x)) = i
    BY <1>7
  <2>3. QED
    BY <2>1, <2>2
<1>9. ASSUME NEW x \in S PROVE \E i \in 1 .. n : Sorted(S)[i] = x
  <2>1. r[x] \in 1 .. n
    BY <1>2
  <2>2. Sorted(S)[r[x]] \in S /\ r[Sorted(S)[r[x]]] = r[x]
    BY <1>8, <2>1
  <2>3. Sorted(S)[r[x]] = x
    BY <1>4, <2>2 DEF Injection, IsInjective
  <2>4. QED
    BY <2>1, <2>3
<1>10. DOMAIN Sorted(S) = 1 .. n
  BY DEF Sorted, n
<1>11. \A i, j \in 1 .. n : Sorted(S)[i] = Sorted(S)[j] => i = j
  BY <1>8
<1>12. QED
  BY <1>1, <1>8, <1>9, <1>10, <1>11 DEF n

\* The timesteps of the context are numbers, finitely many, and all the data
\* times are among them.
LEMMA SupersetHasData ==
  ASSUME NEW M \in SUBSET Nat, IsFiniteSet(M), M # {}, NEW d \in Nat \ {0},
         NEW a \in Nat, NEW z \in Nat
  PROVE  /\ Superset(M, a, z, d) \in SUBSET Nat /\ IsFiniteSet(Superset(M, a, z, d))
         /\ M \subseteq Superset(M, a, z, d)
<1> DEFINE m == Least(M)
           g == Greatest(M)
           E == Extended(M, a, z, d)
           lo == Least(E)
           hi == Greatest(E)
           T == Superset(M, a, z, d)
<1>1. m \in Nat /\ g \in Nat
  BY LeastExists, GreatestExists
<1>2. E = M \cup {u \in a .. m : (u - m) % d = 0} \cup {u \in g .. z : (u - g) % d = 0}
  BY DEF Extended, OnGrid
<1> HIDE DEF m, g, E
<1>3. E \in SUBSET Nat /\ M \subseteq E /\ E # {}
  <2>1. \A u \in E : u \in Nat
    BY <1>1, <1>2
  <2>2. M \subseteq E
    BY <1>2
  <2>3. QED
    BY <2>1, <2>2
<1>4. IsFiniteSet(E)
  <2>1. IsFiniteSet(a .. m) /\ IsFiniteSet(g .. z)
    BY <1>1, FS_Interval
  <2>2. IsFiniteSet(M \cup (a .. m))
    BY <2>1, FS_Union
  <2>3. IsFiniteSet((M \cup (a .. m)) \cup (g .. z))
    BY <2>1, <2>2, FS_Union
  <2>4. E \in SUBSET ((M \cup (a .. m)) \cup (g .. z))
    BY <1>2
  <2>5. QED
    BY <2>3, <2>4, FS_Subset
<1>5. lo \in Nat /\ hi \in Nat
  BY <1>3, <1>4, LeastExists, GreatestExists
<1>6. T = E \cup {u \in lo .. hi : (u - lo) % d = 0}
  BY DEF Superset, OnGrid, E
<1> HIDE DEF lo, hi, T
<1>7. T \in SUBSET Nat /\ M \subseteq T
  <2>1. \A u \in T : u \in Nat
    BY <1>3, <1>5, <1>6
  <2>2. E \subseteq T
    BY <1>6
  <2>3. QED
    BY <1>3, <2>1, <2>2
<1>8. IsFiniteSet(T)
  <2>1. IsFiniteSet(lo .. hi)
    BY <1>5, FS_Interval
  <2>2. IsFiniteSet(E \cup (lo .. hi))
    BY <1>4, <2>1, FS_Union
  <2>3. T \in SUBSET (E \cup (lo .. hi))
    BY <1>6
  <2>4. QED
    BY <2>2, <2>3, FS_Subset
<1>9. QED
  BY <1>7, <1>8 DEF T

\* When the data times are on one grid, all of them are.
LEMMA SupersetOnGrid ==
  ASSUME NEW M \in SUBSET Nat, IsFiniteSet(M), NEW d \in Nat \ {0}, NEW w \in M,
         \A u \in M : Apart(w, u, d), NEW a \in Nat, NEW z \in Nat
  PROVE  \A u \in Superset(M, a, z, d) : Apart(w, u, d)
<1> DEFINE m == Least(M)
           g == Greatest(M)
           E == Extended(M, a, z, d)
           lo == Least(E)
           hi == Greatest(E)
           T == Superset(M, a, z, d)
<1>1. m \in M /\ g \in M /\ m \in Nat /\ g \in Nat /\ w \in Nat
  BY LeastExists, GreatestExists
<1>2. E = M \cup {u \in a .. m : (u - m) % d = 0} \cup {u \in g .. z : (u - g) % d = 0}
  BY DEF Extended, OnGrid
<1>3. T = E \cup {u \in lo .. hi : (u - lo) % d = 0}
  BY DEF Superset, OnGrid
<1>4. T \in SUBSET Nat /\ IsFiniteSet(T)
  BY SupersetHasData
<1> HIDE DEF m, g, E, T
<1>5. ASSUME NEW u \in E PROVE Apart(w, u, d)
  <2>1. CASE u \in M
    BY <2>1
  <2>2. CASE u \in a .. m /\ (u - m) % d = 0
    <3>1. Apart(m, u, d) /\ Apart(w, m, d)
      BY <1>1, <2>2, ApartByRemainder
    <3>2. QED
      BY <1>1, <2>2, <3>1, ApartTrans
  <2>3. CASE u \in g .. z /\ (u - g) % d = 0
    <3>1. Apart(g, u, d) /\ Apart(w, g, d)
      BY <1>1, <2>3, ApartByRemainder
    <3>2. QED
      BY <1>1, <2>3, <3>1, ApartTrans
  <2>4. QED
    BY <1>2, <2>1, <2>2, <2>3
<1>6. lo \in E /\ lo \in Nat
  <2>1. E \in SUBSET Nat /\ w \in E
    BY <1>2, <1>3, <1>4
  <2>2. QED
    BY <2>1, LeastExists
<1>7. ASSUME NEW u \in T PROVE Apart(w, u, d)
  <2> HIDE DEF lo, hi
  <2>1. CASE u \in E
    BY <1>5, <2>1
  <2>2. CASE u \in lo .. hi /\ (u - lo) % d = 0
    <3>1. u \in Nat
      BY <1>4
    <3>2. Apart(lo, u, d) /\ Apart(w, lo, d)
      BY <1>5, <1>6, <2>2, <3>1, ApartByRemainder
    <3>3. QED
      BY <1>1, <1>6, <3>1, <3>2, ApartTrans
  <2>3. QED
    BY <1>3, <2>1, <2>2
<1>8. QED
  BY <1>7 DEF T

-----------------------------------------------------------------------------
(* The inductive invariant. *)

Given == ToSet(offered)
ChangeRecords == [name : Given, kind : {"vanished", "grown"}]

\* Others leave the names and headers of the files as they are, do not give a
\* file back and only write HDUs at the end of one.
IsLater(n) ==
  /\ disk[n].format = Contents[n].format /\ disk[n].obsid = Contents[n].obsid
  /\ disk[n].batch = Contents[n].batch /\ disk[n].chan = Contents[n].chan
  /\ disk[n].corrVer = Contents[n].corrVer /\ disk[n].axes = Contents[n].axes
  /\ disk[n].opens => Contents[n].opens
  /\ \A h \in DOMAIN Contents[n].hdus :
       h \in DOMAIN disk[n].hdus /\ disk[n].hdus[h] = Contents[n].hdus[h]

DiskInv ==
  /\ offered \in Seq(Names)
  /\ disk \in [Given -> FileRecords]
  /\ changes \in Seq(ChangeRecords)
  /\ \A n \in Given : IsLater(n)

\* The lists the constructor makes of the names have the same names.
IsListOf(s, S) == Len(s) \in Nat /\ DOMAIN s = 1 .. Len(s) /\ ToSet(s) = S

NamesInv ==
  /\ stage \in {"batches", "index"} => at = 1
  /\ stage \in {"index", "examine", "validate", "ready"} =>
       /\ offered # <<>> /\ mwaVersion \in Versions
       /\ \A n \in Given : Contents[n].format = mwaVersion
       /\ IsListOf(gpuboxes, Given)

\* The keys of the map are those of data HDUs, which are still there; and the
\* data HDUs that were there when the files were indexed have their key.
LeadsToData(k) ==
  \E n \in Given : /\ ChanOf(n) = k[2] /\ BatchOf(n) = timeMap[k][1]
                   /\ timeMap[k][2] \in Index!Holds(disk[n], Format, k[1])
HasKeys(n) ==
  \A h \in Index!DataHdus(disk[n], Format) : <<disk[n].hdus[h], ChanOf(n)>> \in DOMAIN timeMap

MapInv ==
  /\ \A k \in DOMAIN timeMap : k = <<k[1], k[2]>> /\ k[1] \in Times /\ LeadsToData(k)
  /\ \A n \in Given : HasKeys(n) \/ Changed(n, "grown")
  /\ IsFiniteSet(MapTimes)

\* A file has passed the checks of the first pass, and of the second.
PassedIndex(n) ==
  /\ disk[n].opens \/ Changed(n, "vanished")
  /\ disk[n].format = "CorrMWAXv2" => disk[n].corrVer = 2
  /\ \A h \in Index!DataHdus(disk[n], Format) : disk[n].hdus[h] # NoTime
PassedExamine(n) ==
  /\ disk[n].hdus # <<>> /\ disk[n].obsid = "same"
  /\ disk[n].corrVer = (IF disk[n].format = "CorrMWAXv2" THEN 2 ELSE 0)

IndexInv ==
  stage \in {"examine", "validate", "ready"} =>
    /\ IsListOf(batched, Given)
    /\ \A n \in Given : PassedIndex(n)
    /\ MapInv

ExaminedInv ==
  /\ stage = "examine" =>
       at \in Nat \ {0} /\ \A i \in DOMAIN batched : i < at => PassedExamine(batched[i])
  /\ stage \in {"validate", "ready"} => \A n \in Given : PassedExamine(n)

ValidatedInv ==
  /\ stage = "validate" =>
       at \in Nat \ {0} /\ \A i \in DOMAIN offered : i < at => disk[offered[i]].axes = MetafitsAxes
  /\ stage = "ready" => \A n \in Given : disk[n].axes = MetafitsAxes

\* What the constructor makes of the map.
BuiltInv ==
  /\ stage \in {"validate", "ready"} =>
       /\ MapTimes # {} /\ MapChans \subseteq ToSet(CoarseChans)
       /\ timesteps = Sorted(Superset(MapTimes, MetaFirst, MetaLast, IntTime))
  /\ stage = "ready" => common \in CommonFrom(0) /\ good \in CommonFrom(GoodTime)

FilesInv == DiskInv /\ NamesInv /\ IndexInv /\ ExaminedInv /\ ValidatedInv /\ BuiltInv

-----------------------------------------------------------------------------
(* The disk. *)

LEMMA GivenFiles ==
  ASSUME DiskInv
  PROVE  /\ Len(offered) \in Nat /\ DOMAIN offered = 1 .. Len(offered)
         /\ \A i \in DOMAIN offered : offered[i] \in Given
         /\ \A n \in Given : n \in Names /\ \E i \in DOMAIN offered : n = offered[i]
         /\ \A n \in Given : Contents[n] \in FileRecords /\ disk[n] \in FileRecords
<1>1. offered \in Seq(Names) /\ disk \in [Given -> FileRecords]
  BY DEF DiskInv
<1>2. Len(offered) \in Nat /\ DOMAIN offered = 1 .. Len(offered)
  BY <1>1
<1>3. \A i \in DOMAIN offered : offered[i] \in Names
  BY <1>1
<1>4. QED
  BY <1>1, <1>2, <1>3, FilesAssumption DEF Given, ToSet

LEMMA HdusAreTimes ==
  ASSUME NEW f \in FileRecords
  PROVE  /\ Len(f.hdus) \in Nat /\ DOMAIN f.hdus = 1 .. Len(f.hdus)
         /\ f.hdus \in Seq(Times \cup {NoTime})
         /\ \A h \in DOMAIN f.hdus : f.hdus[h] \in Times \cup {NoTime}
<1>1. f.hdus \in Seq(Times \cup {NoTime})
  BY DEF FileRecords
<1>2. QED
  BY <1>1

LEMMA DiskInit == Init => DiskInv
<1>1. SUFFICES ASSUME Init PROVE DiskInv
  OBVIOUS
<1>2. offered \in Seq(Names) /\ changes = <<>> /\ disk = [n \in Given |-> Contents[n]]
  BY <1>1, FilesAssumption DEF Init, Given
<1>3. \A n \in Given : Contents[n] \in FileRecords
  BY <1>2, FilesAssumption DEF Given, ToSet
<1>4. \A n \in Given : IsLater(n)
  BY <1>2 DEF IsLater
<1>5. QED
  BY <1>2, <1>3, <1>4 DEF DiskInv

\* What any step does to a file: nothing that leaves no trace.
FileStep(n) ==
  /\ disk'[n].format = disk[n].format /\ disk'[n].obsid = disk[n].obsid
  /\ disk'[n].batch = disk[n].batch /\ disk'[n].chan = disk[n].chan
  /\ disk'[n].corrVer = disk[n].corrVer /\ disk'[n].axes = disk[n].axes
  /\ disk'[n].opens => disk[n].opens
  /\ disk[n].opens => disk'[n].opens \/ Changed(n, "vanished")'
  /\ \A h \in DOMAIN disk[n].hdus : h \in DOMAIN disk'[n].hdus /\ disk'[n].hdus[h] = disk[n].hdus[h]
  /\ \A h \in DOMAIN disk'[n].hdus : h \in DOMAIN disk[n].hdus \/ disk'[n].hdus[h] \in Times
  /\ disk'[n].hdus = disk[n].hdus \/ Changed(n, "grown")'
  /\ \A kind : Changed(n, kind) => Changed(n, kind)'

LEMMA ChangedByAppend ==
  ASSUME NEW S, changes \in Seq(S), NEW m \in S, changes' = Append(changes, m)
  PROVE  /\ \A n, kind : Changed(n, kind) => Changed(n, kind)'
         /\ \A n, kind : m = [name |-> n, kind |-> kind] => Changed(n, kind)'
<1>1. Len(changes) \in Nat /\ DOMAIN changes = 1 .. Len(changes)
  OBVIOUS
<1>2. /\ DOMAIN changes' = 1 .. Len(changes) + 1 /\ changes'[Len(changes) + 1] = m
      /\ \A i \in DOMAIN changes : changes'[i] = changes[i]
  BY <1>1
<1>3. QED
  BY <1>1, <1>2 DEF Changed

\* A file that is gone is a file still.
LEMMA VanishedFile ==
  ASSUME NEW r \in FileRecords
  PROVE  [r EXCEPT !.opens = FALSE] \in FileRecords
<1> DEFINE Rest == Seq(Times \cup {NoTime})
           Axes == Nat \X Nat
<1>1. FileRecords = [format : Versions \cup {"none"}, batch : Nat, chan : Nat, opens : BOOLEAN,
                     corrVer : 0 .. 2, obsid : {"same", "other", "missing"}, axes : Axes,
                     hdus : Rest]
  BY DEF FileRecords
<1> HIDE DEF Rest, Axes
<1>2. QED
  BY <1>1

LEMMA AnyStep ==
  ASSUME DiskInv, [Next]_vars
  PROVE  /\ offered' = offered /\ disk' \in [Given -> FileRecords]
         /\ changes' \in Seq(ChangeRecords)
         /\ \A n \in Given : FileStep(n)
<1>1. disk \in [Given -> FileRecords] /\ changes \in Seq(ChangeRecords)
  BY DEF DiskInv
<1>2. CASE UNCHANGED others
  BY <1>1, <1>2 DEF FileStep, others, Changed
<1>3. CASE Vanish
  <2>1. PICK m \in Given : /\ disk' = [disk EXCEPT ![m].opens = FALSE]
                           /\ changes' = Append(changes, [name |-> m, kind |-> "vanished"])
                           /\ offered' = offered
    BY <1>3 DEF Vanish, Given
  <2>2. [name |-> m, kind |-> "vanished"] \in ChangeRecords
    BY DEF ChangeRecords
  <2>3. /\ changes' \in Seq(ChangeRecords) /\ Changed(m, "vanished")'
        /\ \A n, kind : Changed(n, kind) => Changed(n, kind)'
    BY <1>1, <2>1, <2>2, ChangedByAppend
  <2>4. disk' \in [Given -> FileRecords]
    <3> DEFINE f == [disk[m] EXCEPT !.opens = FALSE]
    <3>1. f \in FileRecords
      <4>1. disk[m] \in FileRecords
        BY <1>1
      <4>2. QED
        BY <4>1, VanishedFile
    <3>2. disk' = [disk EXCEPT ![m] = f]
      BY <2>1
    <3> HIDE DEF f
    <3>3. QED
      BY <1>1, <3>1, <3>2
  <2>5. ASSUME NEW n \in Given, n # m PROVE FileStep(n)
    <3>1. disk'[n] = disk[n]
      BY <1>1, <2>1, <2>5
    <3>2. QED
      BY <2>3, <3>1 DEF FileStep
  <2>6. FileStep(m)
    <3>1. disk'[m] = [disk[m] EXCEPT !.opens = FALSE] /\ disk[m] \in FileRecords
      BY <1>1, <2>1
    <3>2. QED
      BY <2>3, <3>1 DEF FileStep, FileRecords
  <2>7. QED
    BY <2>1, <2>3, <2>4, <2>5, <2>6
<1>4. CASE Grow
  <2>1. PICK m \in Given, t \in Times :
               /\ disk' = [disk EXCEPT ![m].hdus = Append(@, t)]
               /\ changes' = Append(changes, [name |-> m, kind |-> "grown"])
               /\ offered' = offered
    BY <1>4 DEF Grow, Given
  <2>2. [name |-> m, kind |-> "grown"] \in ChangeRecords
    BY DEF ChangeRecords
  <2>3. /\ changes' \in Seq(ChangeRecords) /\ Changed(m, "grown")'
        /\ \A n, kind : Changed(n, kind) => Changed(n, kind)'
    BY <1>1, <2>1, <2>2, ChangedByAppend
  <2>4. ASSUME NEW n \in Given, n # m PROVE disk'[n] = disk[n] /\ FileStep(n)
    <3>1. disk'[n] = disk[n]
      BY <1>1, <2>1, <2>4
    <3>2. QED
      BY <2>3, <3>1 DEF FileStep
  <2>5. disk'[m] = [disk[m] EXCEPT !.hdus = Append(disk[m].hdus, t)] /\ disk[m] \in FileRecords
    BY <1>1, <2>1
  <2> DEFINE old == disk[m].hdus
             new == Append(old, t)
  <2>6. old \in Seq(Times \cup {NoTime}) /\ Len(old) \in Nat /\ DOMAIN old = 1 .. Len(old)
    BY <2>5, HdusAreTimes
  <2>7. /\ new \in Seq(Times \cup {NoTime}) /\ DOMAIN new = 1 .. Len(old) + 1
        /\ new[Len(old) + 1] = t /\ \A h \in 1 .. Len(old) : new[h] = old[h]
    BY <2>6
  <2>8. disk'[m].hdus = new
    BY <2>5 DEF FileRecords
  <2> HIDE DEF old, new
  <2>9. disk'[m] \in FileRecords
    BY <2>5, <2>7 DEF FileRecords, old, new
  <2>10. disk' \in [Given -> FileRecords]
    BY <1>1, <2>1, <2>4, <2>9
  <2>11. FileStep(m)
    <3>1. /\ \A h \in DOMAIN old : h \in DOMAIN new /\ new[h] = old[h]
          /\ \A h \in DOMAIN new : h \in DOMAIN old \/ new[h] \in Times
      BY <2>6, <2>7
    <3>2. disk[m].hdus = old
      BY DEF old
    <3>3. /\ disk'[m].format = disk[m].format /\ disk'[m].obsid = disk[m].obsid
          /\ disk'[m].batch = disk[m].batch /\ disk'[m].chan = disk[m].chan
          /\ disk'[m].corrVer = disk[m].corrVer /\ disk'[m].axes = disk[m].axes
          /\ disk'[m].opens = disk[m].opens
      BY <2>5 DEF FileRecords
    <3>4. QED
      BY <2>3, <2>8, <3>1, <3>2, <3>3 DEF FileStep
  <2>12. QED
    BY <2>1, <2>3, <2>4, <2>10, <2>11
<1>5. CASE Build \/ Read
  BY <1>2, <1>5 DEF Build, RefuseNames, DetermineBatches, RefuseToIndex, CreateTimeMap,
     ExamineFile, PopulateProvided, ValidateFile, DetermineCommon, Read, others
<1>6. CASE UNCHANGED vars
  BY <1>2, <1>6 DEF vars, others
<1>7. QED
  BY <1>3, <1>4, <1>5, <1>6 DEF Next

LEMMA DiskNext == DiskInv /\ [Next]_vars => DiskInv'
<1>1. SUFFICES ASSUME DiskInv, [Next]_vars PROVE DiskInv'
  OBVIOUS
<1>2. /\ offered' = offered /\ disk' \in [Given -> FileRecords]
      /\ changes' \in Seq(ChangeRecords) /\ \A n \in Given : FileStep(n)
  BY <1>1, AnyStep
<1>3. Given' = Given /\ ChangeRecords' = ChangeRecords
  BY <1>2 DEF Given, ChangeRecords
<1>4. \A n \in Given : IsLater(n)'
  BY <1>1, <1>2 DEF DiskInv, IsLater, FileStep
<1>5. QED
  BY <1>1, <1>2, <1>3, <1>4 DEF DiskInv

-----------------------------------------------------------------------------
(* The names, and the lists made of them. *)

LEMMA SortedIsListOf ==
  ASSUME NEW s, NEW S, IsListOf(s, S), NEW g \in SortedLists(s)
  PROVE  IsListOf(g, S)
<1>1. PICK p \in Bijection(DOMAIN s, DOMAIN s) : g = [i \in DOMAIN s |-> s[p[i]]]
  BY DEF SortedLists
<1>2. p \in [DOMAIN s -> DOMAIN s] /\ \A i \in DOMAIN s : \E j \in DOMAIN s : p[j] = i
  BY <1>1 DEF Bijection, Surjection
<1>3. DOMAIN s = 1 .. Len(s) /\ Len(s) \in Nat
  BY DEF IsListOf
<1>4. \A i \in 1 .. Len(s) : g[i] = s[p[i]] /\ p[i] \in 1 .. Len(s)
  BY <1>1, <1>2, <1>3
<1>5. DOMAIN g = 1 .. Len(s) /\ Len(g) = Len(s)
  <2>1. DOMAIN g = 1 .. Len(s) /\ \A i \in 1 .. Len(s) : g[i] \in S
    BY <1>1, <1>3, <1>4 DEF IsListOf, ToSet
  <2>2. g = [i \in 1 .. Len(s) |-> g[i]]
    BY <1>1, <1>3
  <2>3. g \in Seq(S)
    BY <1>3, <2>1, <2>2
  <2>4. QED
    BY <1>3, <2>1, <2>3
<1>6. ToSet(g) = ToSet(s)
  BY <1>1, <1>2, <1>3, <1>4, <1>5 DEF ToSet
<1>7. QED
  BY <1>3, <1>5, <1>6 DEF IsListOf

LEMMA Refused ==
  ASSUME RefuseNames \/ RefuseToIndex
  PROVE  stage' = "error" /\ UNCHANGED at /\ UNCHANGED Built
<1>1. stage' = "error"
  BY DEF RefuseNames, RefuseToIndex, ErrorIn
<1>2. UNCHANGED at /\ UNCHANGED Built
  BY DEF RefuseNames, RefuseToIndex
<1>3. QED
  BY <1>1, <1>2

LEMMA NamesNext ==
  ASSUME DiskInv, NamesInv, [Next]_vars
  PROVE  NamesInv'
<1>1. offered' = offered /\ Given' = Given
  BY AnyStep DEF Given
<1>2. ASSUME UNCHANGED <<mwaVersion, gpuboxes, at>>,
             stage' # stage => stage' = "error" \/ (stage = "index" /\ stage' = "examine")
      PROVE  NamesInv'
  BY <1>1, <1>2 DEF NamesInv, IsListOf
<1>3. ASSUME UNCHANGED <<mwaVersion, gpuboxes>>, stage \in {"examine", "validate"},
             stage' \notin {"batches", "index"}
      PROVE  NamesInv'
  BY <1>1, <1>3 DEF NamesInv, IsListOf
<1>4. CASE DetermineBatches
  <2>1. /\ offered # <<>> /\ \A i \in DOMAIN offered : ~BadName(i)
        /\ mwaVersion' = disk[offered[1]].format /\ gpuboxes' \in SortedLists(offered)
        /\ stage' = "index" /\ at' = at /\ stage = "batches"
    BY <1>4 DEF DetermineBatches
  <2>2. 1 \in DOMAIN offered /\ IsListOf(offered, Given)
    BY <2>1, GivenFiles DEF DiskInv, IsListOf, Given
  <2>3. \A i \in DOMAIN offered : /\ disk[offered[i]].format # "none"
                                  /\ disk[offered[i]].format = disk[offered[1]].format
    BY <2>1 DEF BadName
  <2>4. disk[offered[1]].format \in Versions
    BY <2>2, <2>3, GivenFiles DEF FileRecords
  <2>5. \A n \in Given : Contents[n].format = mwaVersion'
    BY <2>1, <2>3, GivenFiles DEF DiskInv, IsLater
  <2>6. IsListOf(gpuboxes', Given)
    BY <2>1, <2>2, SortedIsListOf
  <2>7. QED
    BY <1>1, <2>1, <2>4, <2>5, <2>6 DEF NamesInv, IsListOf
<1>5. CASE RefuseNames \/ RefuseToIndex
  BY <1>2, <1>5, Refused DEF Built
<1>7. CASE CreateTimeMap
  BY <1>2, <1>7 DEF CreateTimeMap
<1>8. CASE ExamineFile
  <2>1. stage = "examine" /\ stage' \in {"examine", "error"} /\ UNCHANGED <<mwaVersion, gpuboxes>>
    BY <1>8 DEF ExamineFile, ErrorIn, Built
  <2>2. QED
    BY <1>3, <2>1
<1>9. CASE PopulateProvided
  <2>1. stage = "examine" /\ stage' \in {"validate", "panic"} /\ UNCHANGED <<mwaVersion, gpuboxes>>
    BY <1>9 DEF PopulateProvided
  <2>2. QED
    BY <1>3, <2>1
<1>10. CASE ValidateFile
  <2>1. stage = "validate" /\ stage' \in {"validate", "error"} /\ UNCHANGED <<mwaVersion, gpuboxes>>
    BY <1>10 DEF ValidateFile, ErrorIn, Built
  <2>2. QED
    BY <1>3, <2>1
<1>11. CASE DetermineCommon
  BY <1>3, <1>11 DEF DetermineCommon
<1>12. CASE Read \/ Vanish \/ Grow \/ UNCHANGED vars
  BY <1>2, <1>12 DEF Read, Vanish, Grow, vars, Built
<1>13. QED
  BY <1>4, <1>5, <1>7, <1>8, <1>9, <1>10, <1>11, <1>12 DEF Next, Build

-----------------------------------------------------------------------------
(* The index. *)

\* What a step leaves of a file's index entries.
LEMMA IndexAfterStep ==
  ASSUME DiskInv, [Next]_vars, mwaVersion' = mwaVersion, NEW n \in Given
  PROVE  /\ BatchOf(n)' = BatchOf(n) /\ ChanOf(n)' = ChanOf(n)
         /\ \A t : Index!Holds(disk[n], Format, t) \subseteq Index!Holds(disk[n], Format, t)'
         /\ (\A h \in Index!DataHdus(disk[n], Format) : disk[n].hdus[h] # NoTime)
              => (\A h \in Index!DataHdus(disk[n], Format) : disk[n].hdus[h] # NoTime)'
<1>1. FileStep(n)
  BY AnyStep
<1>2. Format' = Format
  BY DEF Format
<1>3. BatchOf(n)' = BatchOf(n) /\ ChanOf(n)' = ChanOf(n)
  BY <1>1 DEF BatchOf, ChanOf, FileStep
<1>4. \A h : h \in Index!DataHdus(disk[n], Format) =>
               h \in DOMAIN disk[n].hdus /\ (Format = "mwax" => h % 2 = 1)
  BY DEF Index!DataHdus
<1>5. \A h : h \in Index!DataHdus(disk[n], Format)' <=>
               h \in DOMAIN disk'[n].hdus /\ (Format = "mwax" => h % 2 = 1)
  BY <1>2 DEF Index!DataHdus
<1>6. \A h : h \in Index!DataHdus(disk[n], Format) => h \in Index!DataHdus(disk[n], Format)'
  BY <1>1, <1>4, <1>5 DEF FileStep
<1>7. \A t : Index!Holds(disk[n], Format, t) \subseteq Index!Holds(disk[n], Format, t)'
  BY <1>1, <1>4, <1>6 DEF Index!Holds, FileStep
<1>8. ASSUME \A h \in Index!DataHdus(disk[n], Format) : disk[n].hdus[h] # NoTime,
             NEW h \in Index!DataHdus(disk[n], Format)'
      PROVE  disk'[n].hdus[h] # NoTime
  <2>1. CASE h \in DOMAIN disk[n].hdus
    <3>1. h \in Index!DataHdus(disk[n], Format)
      BY <1>5, <2>1 DEF Index!DataHdus
    <3>2. QED
      BY <1>1, <1>8, <2>1, <3>1 DEF FileStep
  <2>2. CASE h \notin DOMAIN disk[n].hdus
    BY <1>1, <1>5, <2>2, FilesAssumption DEF FileStep
  <2>3. QED
    BY <2>1, <2>2
<1>9. QED
  BY <1>3, <1>7, <1>8

LEMMA LastHduHolds ==
  ASSUME NEW f, NEW v, NEW t \in Index!TimesOf(f, v),
         Len(f.hdus) \in Nat, DOMAIN f.hdus = 1 .. Len(f.hdus)
  PROVE  Index!LastHdu(f, v, t) \in Index!Holds(f, v, t)
<1> DEFINE S == Index!Holds(f, v, t)
<1>1. S \in SUBSET (1 .. Len(f.hdus)) /\ S # {}
  BY DEF Index!Holds, Index!TimesOf, Index!DataHdus
<1> HIDE DEF S
<1>2. S \in SUBSET Nat /\ IsFiniteSet(S)
  <2>1. IsFiniteSet(1 .. Len(f.hdus)) /\ 1 .. Len(f.hdus) \subseteq Nat
    BY FS_Interval
  <2>2. QED
    BY <1>1, <2>1, FS_Subset
<1>3. Greatest(S) \in S /\ \A g \in S : g <= Greatest(S)
  BY <1>1, <1>2, GreatestExists
<1>4. \E h \in S : \A g \in S : g <= h
  BY <1>3
<1>5. QED
  BY <1>4 DEF Index!LastHdu, S

LEMMA OwnerHasKey ==
  ASSUME NEW fs, NEW v, NEW n \in Nat, NEW k \in Index!Keys(fs, v, n)
  PROVE  Index!Owner(fs, v, n, k) \in 1 .. n /\ Index!HasKey(fs[Index!Owner(fs, v, n, k)], v, k)
<1> DEFINE S == {i \in 1 .. n : Index!HasKey(fs[i], v, k)}
<1>1. PICK i \in 1 .. n : \E t \in Index!TimesOf(fs[i], v) : k = <<t, fs[i].chan>>
  BY DEF Index!Keys
<1>2. i \in S
  BY <1>1 DEF Index!HasKey
<1>3. S \in SUBSET Nat
  OBVIOUS
<1>4. Least(S) \in S /\ \A j \in S : Least(S) <= j
  <2> HIDE DEF S
  <2>1. QED
    BY <1>2, <1>3, LeastExists
<1>5. PICK j \in S : \A l \in S : j <= l
  BY <1>4
<1>6. \A l \in 1 .. j - 1 : ~Index!HasKey(fs[l], v, k)
  <2>1. SUFFICES ASSUME NEW l \in 1 .. j - 1, Index!HasKey(fs[l], v, k) PROVE FALSE
    OBVIOUS
  <2>2. j \in Nat /\ j <= n
    BY <1>5
  <2>3. l \in 1 .. n /\ l < j
    BY <2>1, <2>2
  <2>4. l \in S
    BY <2>1, <2>3
  <2>5. QED
    BY <1>5, <2>2, <2>3, <2>4
<1>7. QED
  BY <1>5, <1>6 DEF Index!Owner

\* What create_time_map accepts.
LEMMA AcceptedByIndex ==
  ASSUME NEW f \in FileRecords, NEW v \in {"mwax", "legacy"}, Index!Fault(f, v) = "none"
  PROVE  /\ f.opens /\ (v = "mwax" => f.corrVer = 2)
         /\ \A h \in Index!DataHdus(f, v) : f.hdus[h] # NoTime
<1>1. f.opens \in BOOLEAN /\ f.corrVer \in 0 .. 2
  BY DEF FileRecords
<1>2. Index!OpenFault(f, v) = "none"
  BY DEF Index!Fault
<1>3. f.opens
  BY <1>1, <1>2 DEF Index!OpenFault
<1>4. v = "mwax" => f.corrVer # 0 /\ f.corrVer # 1
  BY <1>1, <1>2, <1>3 DEF Index!OpenFault
<1>5. \A h \in Index!DataHdus(f, v) : f.hdus[h] # NoTime
  BY <1>2 DEF Index!Fault
<1>6. QED
  BY <1>1, <1>3, <1>4, <1>5

LEMMA IndexMakesMap ==
  ASSUME DiskInv, NamesInv, CreateTimeMap
  PROVE  IndexInv'
<1>1. /\ \A i \in DOMAIN gpuboxes : Index!Fault(disk[gpuboxes[i]], Format) = "none"
      /\ timeMap' = Index!TimeMapOf(Indexed(gpuboxes), Format, Len(gpuboxes))
      /\ batched' \in SortedLists(gpuboxes) /\ stage = "index" /\ stage' = "examine"
      /\ UNCHANGED <<offered, disk, changes, mwaVersion>>
  BY DEF CreateTimeMap, others
<1> DEFINE v == Format
           m == Len(gpuboxes)
           fs == Indexed(gpuboxes)
<1>2. /\ IsListOf(gpuboxes, Given) /\ m \in Nat /\ DOMAIN gpuboxes = 1 .. m
      /\ \A i \in 1 .. m : gpuboxes[i] \in Given
      /\ \A n \in Given : \E i \in 1 .. m : gpuboxes[i] = n
  BY <1>1 DEF NamesInv, IsListOf, ToSet
<1>3. \A n \in Given : disk[n] \in FileRecords /\ disk[n].format = mwaVersion
  BY <1>1, GivenFiles DEF DiskInv, NamesInv, IsLater
<1>4. v \in {"mwax", "legacy"} /\ (v = "mwax" <=> mwaVersion = "CorrMWAXv2")
  BY DEF Format
<1>5. ASSUME NEW i \in 1 .. m
      PROVE  /\ fs[i].chan = ChanOf(gpuboxes[i]) /\ fs[i].batch = BatchOf(gpuboxes[i])
             /\ fs[i].hdus = disk[gpuboxes[i]].hdus
  BY <1>2, <1>3 DEF Indexed, ChanOf, FileRecords
<1>6. ASSUME NEW i \in 1 .. m
      PROVE  /\ Index!DataHdus(fs[i], v) = Index!DataHdus(disk[gpuboxes[i]], v)
             /\ \A t : Index!Holds(fs[i], v, t) = Index!Holds(disk[gpuboxes[i]], v, t)
  BY <1>5 DEF Index!DataHdus, Index!Holds
<1> HIDE DEF fs, m, v
<1>7. DOMAIN timeMap' = Index!Keys(fs, v, m) /\ \A k \in DOMAIN timeMap' : timeMap'[k] = Index!Entry(fs, v, m, k)
  BY <1>1 DEF Index!TimeMapOf, fs, v, m
<1>8. ASSUME NEW n \in Given
      PROVE  /\ disk[n].opens /\ (v = "mwax" => disk[n].corrVer = 2)
             /\ \A h \in Index!DataHdus(disk[n], v) : disk[n].hdus[h] # NoTime /\ disk[n].hdus[h] \in Times
  <2>1. Index!Fault(disk[n], v) = "none"
    BY <1>1, <1>2 DEF v
  <2>2. /\ disk[n].opens /\ (v = "mwax" => disk[n].corrVer = 2)
        /\ \A h \in Index!DataHdus(disk[n], v) : disk[n].hdus[h] # NoTime
    BY <1>3, <1>4, <2>1, AcceptedByIndex
  <2>3. \A h \in Index!DataHdus(disk[n], v) : disk[n].hdus[h] \in Times \cup {NoTime}
    BY <1>3, HdusAreTimes DEF Index!DataHdus
  <2>4. QED
    BY <2>2, <2>3
<1>9. ASSUME NEW k \in DOMAIN timeMap'
      PROVE  /\ k = <<k[1], k[2]>> /\ k[1] \in Times
             /\ \E n \in Given : /\ ChanOf(n) = k[2] /\ BatchOf(n) = timeMap'[k][1]
                                 /\ timeMap'[k][2] \in Index!Holds(disk[n], v, k[1])
  <2> DEFINE o == Index!Owner(fs, v, m, k)
             n == gpuboxes[o]
  <2>1. o \in 1 .. m /\ Index!HasKey(fs[o], v, k)
    BY <1>2, <1>7, <1>9, OwnerHasKey
  <2>2. n \in Given /\ ChanOf(n) = k[2] /\ k[1] \in Index!TimesOf(fs[o], v)
    BY <1>2, <1>5, <2>1 DEF Index!HasKey
  <2>3. timeMap'[k] = <<BatchOf(n), Index!LastHdu(fs[o], v, k[1])>>
    BY <1>5, <1>7, <2>1 DEF Index!Entry
  <2> HIDE DEF o
  <2>4. Len(fs[o].hdus) \in Nat /\ DOMAIN fs[o].hdus = 1 .. Len(fs[o].hdus)
    BY <1>3, <1>5, <2>1, <2>2, HdusAreTimes
  <2>5. Index!LastHdu(fs[o], v, k[1]) \in Index!Holds(disk[n], v, k[1])
    BY <1>6, <2>1, <2>2, <2>4, LastHduHolds
  <2>6. PICK h \in Index!DataHdus(disk[n], v) : k[1] = disk[n].hdus[h]
    BY <1>5, <1>6, <2>1, <2>2 DEF Index!TimesOf
  <2>7. k = <<k[1], k[2]>>
    BY <1>7, <1>9 DEF Index!Keys
  <2>8. QED
    BY <1>8, <2>2, <2>3, <2>5, <2>6, <2>7
<1>10. ASSUME NEW n \in Given, NEW h \in Index!DataHdus(disk[n], v)
       PROVE  <<disk[n].hdus[h], ChanOf(n)>> \in DOMAIN timeMap'
  <2>1. PICK i \in 1 .. m : gpuboxes[i] = n
    BY <1>2
  <2>2. disk[n].hdus[h] \in Index!TimesOf(fs[i], v)
    BY <1>5, <1>6, <1>10, <2>1 DEF Index!TimesOf
  <2>3. <<disk[n].hdus[h], ChanOf(n)>> \in {<<t, fs[i].chan>> : t \in Index!TimesOf(fs[i], v)}
    BY <1>5, <2>1, <2>2
  <2>4. QED
    BY <1>7, <2>3 DEF Index!Keys
<1>11. IsFiniteSet(MapTimes')
  <2> DEFINE G == {Index!TimesOf(fs[i], v) : i \in 1 .. m}
  <2>1. IsFiniteSet(G)
    <3> DEFINE f == [i \in 1 .. m |-> Index!TimesOf(fs[i], v)]
    <3>1. f \in Surjection(1 .. m, G)
      BY DEF Surjection
    <3>2. IsFiniteSet(1 .. m)
      BY <1>2, FS_Interval
    <3>3. QED
      BY <3>1, <3>2, FS_Surjection
  <2>2. ASSUME NEW i \in 1 .. m PROVE IsFiniteSet(Index!TimesOf(fs[i], v))
    <3> DEFINE D == Index!DataHdus(fs[i], v)
               f == [h \in D |-> fs[i].hdus[h]]
    <3>1. D \in SUBSET (1 .. Len(fs[i].hdus)) /\ Len(fs[i].hdus) \in Nat
      BY <1>2, <1>3, <1>5, HdusAreTimes DEF Index!DataHdus
    <3>2. IsFiniteSet(D)
      <4> HIDE DEF D
      <4>1. IsFiniteSet(1 .. Len(fs[i].hdus))
        BY <3>1, FS_Interval
      <4>2. QED
        BY <3>1, <4>1, FS_Subset
    <3>3. f \in Surjection(D, Index!TimesOf(fs[i], v))
      BY DEF Surjection, Index!TimesOf
    <3>4. QED
      BY <3>2, <3>3, FS_Surjection
  <2>3. IsFiniteSet(UNION G)
    BY <2>1, <2>2, FS_UNION
  <2>4. MapTimes' \in SUBSET UNION G
    <3>1. ASSUME NEW k \in DOMAIN timeMap' PROVE k[1] \in UNION G
      BY <1>7 DEF Index!Keys
    <3>2. QED
      BY <3>1 DEF MapTimes
  <2>5. QED
    BY <2>3, <2>4, FS_Subset
<1>12. Format' = v /\ Given' = Given /\ disk' = disk /\ (\A n : ChanOf(n)' = ChanOf(n) /\ BatchOf(n)' = BatchOf(n))
  BY <1>1 DEF Format, Given, ChanOf, BatchOf, v
<1>13. MapInv'
  <2>1. \A k \in DOMAIN timeMap' : LeadsToData(k)'
    BY <1>9, <1>12 DEF LeadsToData
  <2>2. \A n \in Given : HasKeys(n)'
    BY <1>10, <1>12 DEF HasKeys
  <2>3. QED
    BY <1>9, <1>11, <1>12, <2>1, <2>2 DEF MapInv
<1>14. \A n \in Given : PassedIndex(n)'
  BY <1>3, <1>4, <1>8, <1>12 DEF PassedIndex
<1>15. IsListOf(batched', Given)
  BY <1>1, <1>2, SortedIsListOf
<1>16. QED
  BY <1>12, <1>13, <1>14, <1>15 DEF IndexInv, IsListOf

LEMMA IndexNext ==
  ASSUME DiskInv, NamesInv, IndexInv, [Next]_vars
  PROVE  IndexInv'
<1>1. ASSUME UNCHANGED <<mwaVersion, batched, timeMap>>,
             stage' \in {"examine", "validate", "ready"} => stage \in {"examine", "validate", "ready"}
      PROVE  IndexInv'
  <2>1. SUFFICES ASSUME stage \in {"examine", "validate", "ready"}
                 PROVE  IsListOf(batched, Given)' /\ (\A n \in Given : PassedIndex(n))' /\ MapInv'
    BY <1>1 DEF IndexInv
  <2>2. Given' = Given /\ Format' = Format /\ MapTimes' = MapTimes
    BY <1>1, AnyStep DEF Given, Format, MapTimes
  <2>3. IsListOf(batched, Given) /\ (\A n \in Given : PassedIndex(n)) /\ MapInv
    BY <2>1 DEF IndexInv
  <2>4. \A n \in Given : PassedIndex(n)'
    <3>1. SUFFICES ASSUME NEW n \in Given PROVE PassedIndex(n)'
      OBVIOUS
    <3>2. FileStep(n)
      BY AnyStep
    <3>3. disk'[n].opens \/ Changed(n, "vanished")'
      BY <2>3, <3>2 DEF PassedIndex, FileStep
    <3>4. disk'[n].format = "CorrMWAXv2" => disk'[n].corrVer = 2
      BY <2>3, <3>2 DEF PassedIndex, FileStep
    <3>5. (\A h \in Index!DataHdus(disk[n], Format) : disk[n].hdus[h] # NoTime)'
      BY <1>1, <2>3, IndexAfterStep DEF PassedIndex
    <3>6. QED
      BY <3>3, <3>4, <3>5 DEF PassedIndex
  <2>5. ASSUME NEW k \in DOMAIN timeMap PROVE LeadsToData(k)'
    <3>1. PICK n \in Given : /\ ChanOf(n) = k[2] /\ BatchOf(n) = timeMap[k][1]
                             /\ timeMap[k][2] \in Index!Holds(disk[n], Format, k[1])
      BY <2>3 DEF MapInv, LeadsToData
    <3>2. /\ ChanOf(n)' = k[2] /\ BatchOf(n)' = timeMap'[k][1]
          /\ timeMap'[k][2] \in Index!Holds(disk[n], Format, k[1])'
      BY <1>1, <3>1, IndexAfterStep
    <3>3. QED
      BY <2>2, <3>2 DEF LeadsToData
  <2>6. ASSUME NEW n \in Given PROVE HasKeys(n)' \/ Changed(n, "grown")'
    <3>1. FileStep(n)
      BY AnyStep
    <3>2. CASE Changed(n, "grown") \/ disk'[n].hdus # disk[n].hdus
      BY <3>1, <3>2 DEF FileStep
    <3>3. CASE HasKeys(n) /\ disk'[n].hdus = disk[n].hdus
      <4>1. Index!DataHdus(disk[n], Format)' = Index!DataHdus(disk[n], Format)
        BY <2>2, <3>3 DEF Index!DataHdus
      <4>2. ChanOf(n)' = ChanOf(n)
        BY <1>1, IndexAfterStep
      <4>3. QED
        BY <1>1, <3>3, <4>1, <4>2 DEF HasKeys
    <3>4. QED
      BY <2>3, <3>2, <3>3 DEF MapInv
  <2>7. MapInv'
    BY <1>1, <2>2, <2>3, <2>5, <2>6 DEF MapInv
  <2>8. QED
    BY <1>1, <2>2, <2>3, <2>4, <2>7 DEF IsListOf
<1>2. CASE CreateTimeMap
  BY <1>2, IndexMakesMap
<1>3. CASE RefuseNames \/ RefuseToIndex
  BY <1>1, <1>3, Refused DEF Built
<1>4. CASE DetermineBatches
  <2>1. stage' = "index" /\ UNCHANGED <<batched, timeMap>>
    BY <1>4 DEF DetermineBatches
  <2>2. QED
    BY <2>1 DEF IndexInv
<1>5. CASE ExamineFile
  BY <1>1, <1>5 DEF ExamineFile, Built
<1>6. CASE PopulateProvided
  BY <1>1, <1>6 DEF PopulateProvided
<1>7. CASE ValidateFile
  BY <1>1, <1>7 DEF ValidateFile, Built
<1>8. CASE DetermineCommon
  BY <1>1, <1>8 DEF DetermineCommon
<1>9. CASE Read \/ Vanish \/ Grow \/ UNCHANGED vars
  BY <1>1, <1>9 DEF Read, Vanish, Grow, vars, Built
<1>10. QED
  BY <1>2, <1>3, <1>4, <1>5, <1>6, <1>7, <1>8, <1>9 DEF Next, Build

-----------------------------------------------------------------------------
(* The second pass over the files. *)

LEMMA PassedExamineStays ==
  ASSUME DiskInv, [Next]_vars, NEW n \in Given, PassedExamine(n)
  PROVE  PassedExamine(n)'
<1>1. FileStep(n) /\ disk[n] \in FileRecords
  BY AnyStep, GivenFiles
<1>2. 1 \in DOMAIN disk[n].hdus
  BY <1>1, HdusAreTimes DEF PassedExamine
<1>3. disk'[n].hdus # <<>>
  BY <1>1, <1>2 DEF FileStep
<1>4. QED
  BY <1>1, <1>3 DEF PassedExamine, FileStep

LEMMA ExaminedIsPassed ==
  ASSUME DiskInv, NamesInv, IndexInv, stage = "examine", at \in DOMAIN batched,
         ExamineFault(disk[batched[at]]) = "none"
  PROVE  PassedExamine(batched[at])
<1> DEFINE n == batched[at]
           f == disk[n]
<1>1. n \in Given
  BY DEF IndexInv, IsListOf, ToSet
<1>2. /\ f \in FileRecords /\ f.format = mwaVersion
      /\ f.format = "CorrMWAXv2" => f.corrVer = 2
  BY <1>1, GivenFiles DEF DiskInv, NamesInv, IsLater, IndexInv, PassedIndex
<1>3. f.opens \in BOOLEAN /\ f.corrVer \in 0 .. 2 /\ f.obsid \in {"same", "other", "missing"}
  BY <1>2 DEF FileRecords
<1> HIDE DEF f
<1>4. ExamineFault(f) = "none"
  BY DEF f
<1>5. f.opens /\ f.hdus # <<>>
  BY <1>3, <1>4 DEF ExamineFault
<1>6. Size(f.axes) = Size(disk[batched[1]].axes)
  BY <1>3, <1>4, <1>5 DEF ExamineFault
<1>7. VersionFault(f) = "none" /\ ObsidFault(f) = "none"
  BY <1>3, <1>4, <1>5, <1>6 DEF ExamineFault
<1>8. f.obsid = "same"
  BY <1>3, <1>7 DEF ObsidFault
<1>9. f.corrVer = (IF f.format = "CorrMWAXv2" THEN 2 ELSE 0)
  BY <1>2, <1>3, <1>7 DEF VersionFault
<1>10. QED
  BY <1>5, <1>8, <1>9 DEF PassedExamine, f

LEMMA ExaminedNext ==
  ASSUME DiskInv, NamesInv, IndexInv, ExaminedInv, [Next]_vars
  PROVE  ExaminedInv'
<1>1. Given' = Given
  BY AnyStep DEF Given
<1>2. \A n \in Given : PassedExamine(n) => PassedExamine(n)'
  BY PassedExamineStays
<1>3. ASSUME UNCHANGED <<stage, at, batched>> PROVE ExaminedInv'
  <2>1. stage = "examine" => \A i \in DOMAIN batched : batched[i] \in Given
    BY DEF IndexInv, IsListOf, ToSet
  <2>2. QED
    BY <1>1, <1>2, <1>3, <2>1 DEF ExaminedInv
<1>4. ASSUME stage' \in {"batches", "index", "error", "panic"} PROVE ExaminedInv'
  BY <1>4 DEF ExaminedInv
<1>5. ASSUME stage \in {"validate", "ready"}, stage' \in {"validate", "ready"} PROVE ExaminedInv'
  BY <1>1, <1>2, <1>5 DEF ExaminedInv
<1>6. CASE CreateTimeMap
  <2>1. stage = "index" /\ stage' = "examine" /\ at' = at
    BY <1>6 DEF CreateTimeMap
  <2>2. at' = 1 /\ IsListOf(batched, Given)'
    BY <1>6, <2>1, IndexMakesMap DEF NamesInv, IndexInv
  <2>3. ~\E i \in DOMAIN batched' : i < 1
    BY <2>2 DEF IsListOf
  <2>4. QED
    BY <2>1, <2>2, <2>3 DEF ExaminedInv
<1>7. CASE ExamineFile
  <2>1. /\ stage = "examine" /\ at \in DOMAIN batched /\ disk' = disk /\ batched' = batched
        /\ IF ExamineFault(disk[batched[at]]) = "none"
           THEN at' = at + 1 /\ stage' = stage ELSE stage' = "error"
    BY <1>7 DEF ExamineFile, ErrorIn, others, Built
  <2>2. CASE ExamineFault(disk[batched[at]]) = "none"
    <3>1. at' = at + 1 /\ stage' = "examine" /\ at \in Nat \ {0}
      BY <2>1, <2>2 DEF ExaminedInv
    <3>2. /\ \A i \in DOMAIN batched : i \in Nat /\ batched[i] \in Given
          /\ \A i \in DOMAIN batched : i < at => PassedExamine(batched[i])
      BY <2>1 DEF IndexInv, IsListOf, ToSet, ExaminedInv
    <3>3. PassedExamine(batched[at])
      BY <2>1, <2>2, ExaminedIsPassed
    <3>4. \A i \in DOMAIN batched : i < at + 1 => PassedExamine(batched[i])
      BY <3>1, <3>2, <3>3
    <3>5. \A i \in DOMAIN batched' : i < at' => PassedExamine(batched[i])'
      BY <1>2, <2>1, <3>1, <3>2, <3>4
    <3>6. QED
      BY <2>1, <3>1, <3>5 DEF ExaminedInv
  <2>3. QED
    BY <1>4, <2>1, <2>2
<1>8. CASE PopulateProvided
  <2>1. stage = "examine" /\ at \notin DOMAIN batched /\ stage' \in {"validate", "panic"}
    BY <1>8 DEF PopulateProvided
  <2>2. \A n \in Given : PassedExamine(n)
    <3>1. SUFFICES ASSUME NEW n \in Given PROVE PassedExamine(n)
      OBVIOUS
    <3>2. PICK i \in DOMAIN batched : batched[i] = n
      BY <2>1 DEF IndexInv, IsListOf, ToSet
    <3>3. i < at
      BY <2>1 DEF IndexInv, IsListOf, ExaminedInv
    <3>4. QED
      BY <2>1, <3>2, <3>3 DEF ExaminedInv
  <2>3. QED
    BY <1>1, <1>2, <2>1, <2>2 DEF ExaminedInv
<1>9. CASE RefuseNames \/ RefuseToIndex
  BY <1>4, <1>9, Refused
<1>10. CASE DetermineBatches
  BY <1>4, <1>10 DEF DetermineBatches
<1>11. CASE ValidateFile
  <2>1. stage = "validate" /\ stage' \in {"validate", "error"}
    BY <1>11 DEF ValidateFile, ErrorIn
  <2>2. QED
    BY <1>4, <1>5, <2>1
<1>12. CASE DetermineCommon
  BY <1>5, <1>12 DEF DetermineCommon
<1>13. CASE Read \/ Vanish \/ Grow \/ UNCHANGED vars
  BY <1>3, <1>13 DEF Read, Vanish, Grow, vars, Built
<1>14. QED
  BY <1>6, <1>7, <1>8, <1>9, <1>10, <1>11, <1>12, <1>13 DEF Next, Build

-----------------------------------------------------------------------------
(* The third pass, and what is made of the map. *)

LEMMA ValidatedNext ==
  ASSUME DiskInv, NamesInv, ValidatedInv, [Next]_vars
  PROVE  ValidatedInv'
<1>1. Given' = Given /\ offered' = offered
  BY AnyStep DEF Given
<1>2. \A n \in Given : disk'[n].axes = disk[n].axes
  BY AnyStep DEF FileStep
<1>3. \A i \in DOMAIN offered : i \in Nat /\ offered[i] \in Given
  BY GivenFiles
<1>4. mwaVersion' = mwaVersion => MetafitsAxes' = MetafitsAxes
  BY DEF MetafitsAxes
<1>5. ASSUME UNCHANGED <<stage, at, mwaVersion>> PROVE ValidatedInv'
  BY <1>1, <1>2, <1>3, <1>4, <1>5 DEF ValidatedInv
<1>6. ASSUME stage' \notin {"validate", "ready"} PROVE ValidatedInv'
  BY <1>6 DEF ValidatedInv
<1>7. CASE PopulateProvided
  <2>1. stage' \in {"validate", "panic"} /\ at' = 1
    BY <1>7 DEF PopulateProvided
  <2>2. ~\E i \in DOMAIN offered : i < 1
    BY GivenFiles
  <2>3. QED
    BY <1>1, <2>1, <2>2 DEF ValidatedInv
<1>8. CASE ValidateFile
  <2>1. /\ stage = "validate" /\ at \in DOMAIN offered /\ disk' = disk /\ mwaVersion' = mwaVersion
        /\ stage' = "error" \/ (stage' = stage /\ at' = at + 1 /\ disk[offered[at]].axes = MetafitsAxes)
    <3>1. UNCHANGED others /\ UNCHANGED Built
      BY <1>8 DEF ValidateFile
    <3>2. stage' = "error" \/ (stage' = stage /\ at' = at + 1 /\ disk[offered[at]].axes = MetafitsAxes)
      BY <1>8 DEF ValidateFile, ErrorIn
    <3>3. QED
      BY <1>8, <3>1, <3>2 DEF ValidateFile, others, Built
  <2>2. CASE stage' = stage /\ at' = at + 1 /\ disk[offered[at]].axes = MetafitsAxes
    <3>1. at \in Nat \ {0} /\ \A i \in DOMAIN offered : i < at => disk[offered[i]].axes = MetafitsAxes
      BY <2>1 DEF ValidatedInv
    <3>2. \A i \in DOMAIN offered : i < at + 1 => disk[offered[i]].axes = MetafitsAxes
      BY <1>3, <2>2, <3>1
    <3>3. QED
      BY <1>1, <1>4, <2>1, <2>2, <3>1, <3>2 DEF ValidatedInv
  <2>3. QED
    BY <1>6, <2>1, <2>2
<1>9. CASE DetermineCommon
  <2>1. stage = "validate" /\ at \notin DOMAIN offered /\ stage' = "ready" /\ mwaVersion' = mwaVersion
    BY <1>9 DEF DetermineCommon
  <2>2. \A i \in DOMAIN offered : i < at
    BY <2>1, GivenFiles DEF ValidatedInv
  <2>3. \A n \in Given : disk[n].axes = MetafitsAxes
    BY <2>1, <2>2, GivenFiles DEF ValidatedInv
  <2>4. QED
    BY <1>1, <1>2, <1>4, <2>1, <2>3 DEF ValidatedInv
<1>10. CASE RefuseNames \/ RefuseToIndex
  BY <1>6, <1>10, Refused
<1>11. CASE DetermineBatches \/ CreateTimeMap
  BY <1>6, <1>11 DEF DetermineBatches, CreateTimeMap
<1>12. CASE ExamineFile
  <2>1. stage' \in {"examine", "error"}
    BY <1>12 DEF ExamineFile, ErrorIn
  <2>2. QED
    BY <1>6, <2>1
<1>13. CASE Read \/ Vanish \/ Grow \/ UNCHANGED vars
  BY <1>5, <1>13 DEF Read, Vanish, Grow, vars, Built
<1>14. QED
  BY <1>7, <1>8, <1>9, <1>10, <1>11, <1>12, <1>13 DEF Next, Build

LEMMA CommonStays ==
  ASSUME timeMap' = timeMap, NEW from
  PROVE  CommonFrom(from)' = CommonFrom(from)
<1>1. MapTimes' = MapTimes /\ MapChans' = MapChans /\ ChansAt' = ChansAt
  BY DEF MapTimes, MapChans, ChansAt
<1>2. Stretch(from)!CommonTime' = Stretch(from)!CommonTime
  BY <1>1 DEF Stretch!CommonTime, Stretch!ProvidedChans
<1>3. ASSUME NEW s, NEW l
      PROVE  Stretch(from)!IsCommonRange(s, l)' = Stretch(from)!IsCommonRange(s, l)
  BY <1>2 DEF Stretch!IsCommonRange, Stretch!Contiguous
<1>4. QED
  BY <1>1, <1>2, <1>3 DEF CommonFrom

LEMMA BuiltNext ==
  ASSUME BuiltInv, [Next]_vars
  PROVE  BuiltInv'
<1>1. ASSUME UNCHANGED <<mwaVersion, timeMap>>
      PROVE  MapTimes' = MapTimes /\ MapChans' = MapChans /\ CoarseChans' = CoarseChans
  BY <1>1 DEF MapTimes, MapChans, CoarseChans
<1>2. ASSUME UNCHANGED <<stage, mwaVersion, timeMap, timesteps, common, good>> PROVE BuiltInv'
  <2>1. CASE stage = "ready"
    BY <1>1, <1>2, <2>1, CommonStays DEF BuiltInv
  <2>2. CASE stage # "ready"
    BY <1>1, <1>2, <2>2 DEF BuiltInv
  <2>3. QED
    BY <2>1, <2>2
<1>3. ASSUME stage' \notin {"validate", "ready"} PROVE BuiltInv'
  BY <1>3 DEF BuiltInv
<1>4. CASE PopulateProvided
  <2>1. UNCHANGED <<mwaVersion, timeMap>> /\ stage' # "ready"
    BY <1>4 DEF PopulateProvided
  <2>2. stage' = "validate" =>
          /\ MapTimes # {} /\ MapChans \subseteq ToSet(CoarseChans)
          /\ timesteps' = Sorted(Superset(MapTimes, MetaFirst, MetaLast, IntTime))
    BY <1>4 DEF PopulateProvided
  <2>3. QED
    BY <1>1, <2>1, <2>2 DEF BuiltInv
<1>5. CASE ValidateFile
  <2>1. stage = "validate" /\ UNCHANGED <<mwaVersion, timeMap, timesteps>>
    BY <1>5 DEF ValidateFile, Built
  <2>2. stage' \in {"validate", "error"}
    BY <1>5 DEF ValidateFile, ErrorIn
  <2>3. QED
    BY <1>1, <2>1, <2>2 DEF BuiltInv
<1>6. CASE DetermineCommon
  <2>1. /\ stage = "validate" /\ stage' = "ready" /\ UNCHANGED <<mwaVersion, timeMap, timesteps>>
        /\ common' \in CommonFrom(0) /\ good' \in CommonFrom(GoodTime)
    BY <1>6 DEF DetermineCommon
  <2>2. common' \in CommonFrom(0)' /\ good' \in CommonFrom(GoodTime)'
    BY <2>1, CommonStays
  <2>3. QED
    BY <1>1, <2>1, <2>2 DEF BuiltInv
<1>7. CASE RefuseNames \/ RefuseToIndex
  BY <1>3, <1>7, Refused
<1>8. CASE DetermineBatches \/ CreateTimeMap
  BY <1>3, <1>8 DEF DetermineBatches, CreateTimeMap
<1>9. CASE ExamineFile
  <2>1. stage' \in {"examine", "error"}
    BY <1>9 DEF ExamineFile, ErrorIn
  <2>2. QED
    BY <1>3, <2>1
<1>10. CASE Read \/ Vanish \/ Grow \/ UNCHANGED vars
  BY <1>2, <1>10 DEF Read, Vanish, Grow, vars, Built
<1>11. QED
  BY <1>4, <1>5, <1>6, <1>7, <1>8, <1>9, <1>10 DEF Next, Build

LEMMA FilesInit == Init => FilesInv
<1>1. SUFFICES ASSUME Init PROVE FilesInv
  OBVIOUS
<1>2. stage = "batches" /\ at = 1
  BY <1>1 DEF Init
<1>3. QED
  BY <1>1, <1>2, DiskInit
     DEF FilesInv, NamesInv, IndexInv, ExaminedInv, ValidatedInv, BuiltInv

LEMMA FilesNext == FilesInv /\ [Next]_vars => FilesInv'
BY DiskNext, NamesNext, IndexNext, ExaminedNext, ValidatedNext, BuiltNext DEF FilesInv

LEMMA FilesInvariant == Spec => []FilesInv
<1>1. Init => FilesInv
  BY FilesInit
<1>2. FilesInv /\ [Next]_vars => FilesInv'
  BY FilesNext
<1>3. QED
  BY <1>1, <1>2, PTL DEF Spec

\* Though new_inner opens each file three times, in passes that each check a part
\* of it, and others may remove or extend any file between two of them, a context
\* is only ever made of files that pass all the checks.
THEOREM ContextsAreOfSoundFiles == Spec => []AcceptedFilesAreSound
<1>1. ASSUME FilesInv PROVE AcceptedFilesAreSound
  <2>1. SUFFICES ASSUME stage = "ready", NEW n \in Given PROVE SoundFile(n)
    BY DEF AcceptedFilesAreSound, Given
  <2>2. disk[n].format = mwaVersion
    BY <1>1, <2>1 DEF FilesInv, DiskInv, NamesInv, IsLater
  <2>3. disk[n].axes = MetafitsAxes
    BY <1>1, <2>1 DEF FilesInv, ValidatedInv
  <2>4. PassedExamine(n)
    BY <1>1, <2>1 DEF FilesInv, ExaminedInv
  <2>5. PassedIndex(n)
    BY <1>1, <2>1 DEF FilesInv, IndexInv
  <2>6. QED
    BY <2>2, <2>3, <2>4, <2>5 DEF SoundFile, PassedExamine, PassedIndex
<1>2. QED
  BY <1>1, FilesInvariant, PTL

-----------------------------------------------------------------------------
(* Reads. *)

\* What a read finds, one outcome at a time.
Key(i, c) == <<timesteps[i], CoarseChans[c]>>

LEMMA LookupOutcomes ==
  ASSUME FilesInv, stage = "ready", NEW i, NEW c
  PROVE  /\ i \notin DOMAIN timesteps => Lookup(i, c).kind = "InvalidTimeStepIndex"
         /\ i \in DOMAIN timesteps /\ c \notin DOMAIN CoarseChans =>
              Lookup(i, c).kind = "InvalidCoarseChanIndex"
         /\ i \in DOMAIN timesteps /\ c \in DOMAIN CoarseChans =>
              /\ Lookup(i, c).timestep = i /\ Lookup(i, c).chan = c
              /\ Key(i, c) \notin DOMAIN timeMap =>
                   Lookup(i, c).kind = "NoDataForTimeStepCoarseChannel"
              /\ Key(i, c) \in DOMAIN timeMap =>
                   LET n == Lookup(i, c).name
                       h == Lookup(i, c).hdu
                   IN  /\ n \in Given /\ h = timeMap[Key(i, c)][2]
                       /\ ChanOf(n) = CoarseChans[c] /\ BatchOf(n) = timeMap[Key(i, c)][1]
                       /\ Lookup(i, c).kind \in {"data", "Fits"}
                       /\ Lookup(i, c).kind = "Fits" <=> ~disk[n].opens \/ h \notin DOMAIN disk[n].hdus
<1> DEFINE found == Files(timeMap[Key(i, c)][1], Key(i, c)[2])
           name == batched[Least(found)]
           hdu == timeMap[Key(i, c)][2]
<1>1. i \notin DOMAIN timesteps => Lookup(i, c).kind = "InvalidTimeStepIndex"
  BY DEF Lookup, Answer
<1>2. i \in DOMAIN timesteps /\ c \notin DOMAIN CoarseChans =>
        Lookup(i, c).kind = "InvalidCoarseChanIndex"
  BY DEF Lookup, Answer
<1>3. ASSUME i \in DOMAIN timesteps, c \in DOMAIN CoarseChans, Key(i, c) \notin DOMAIN timeMap
      PROVE  Lookup(i, c) = Answer("NoDataForTimeStepCoarseChannel", i, c, NoName, 0)
  BY <1>3 DEF Lookup, Key
<1>4. ASSUME i \in DOMAIN timesteps, c \in DOMAIN CoarseChans, Key(i, c) \in DOMAIN timeMap
      PROVE  /\ name \in Given
             /\ ChanOf(name) = CoarseChans[c] /\ BatchOf(name) = timeMap[Key(i, c)][1]
             /\ Lookup(i, c) = IF ~disk[name].opens \/ hdu \notin DOMAIN disk[name].hdus
                               THEN Answer("Fits", i, c, name, hdu)
                               ELSE Answer("data", i, c, name, hdu)
  <2>1. IsListOf(batched, Given) /\ LeadsToData(Key(i, c))
    BY <1>4 DEF FilesInv, IndexInv, MapInv
  <2>2. Key(i, c)[2] = CoarseChans[c]
    BY DEF Key
  <2>3. PICK n \in Given : ChanOf(n) = CoarseChans[c] /\ BatchOf(n) = timeMap[Key(i, c)][1]
    BY <2>1, <2>2 DEF LeadsToData
  <2>4. PICK j \in DOMAIN batched : batched[j] = n
    BY <2>1 DEF IsListOf, ToSet
  <2>5. j \in found
    BY <2>2, <2>3, <2>4 DEF Files
  <2>6. found \in SUBSET Nat
    BY <2>1 DEF IsListOf, Files
  <2>7. Least(found) \in found
    <3> HIDE DEF found
    <3>1. QED
      BY <2>5, <2>6, LeastExists
  <2>8. /\ name \in Given
        /\ ChanOf(name) = CoarseChans[c] /\ BatchOf(name) = timeMap[Key(i, c)][1]
    BY <2>1, <2>2, <2>7 DEF Files, IsListOf, ToSet
  <2>9. found # {}
    BY <2>5
  <2>10. Lookup(i, c) = IF ~disk[name].opens \/ hdu \notin DOMAIN disk[name].hdus
                        THEN Answer("Fits", i, c, name, hdu)
                        ELSE Answer("data", i, c, name, hdu)
    BY <1>4, <2>9 DEF Lookup, Key
  <2>11. QED
    BY <2>8, <2>10
<1> HIDE DEF name, hdu
<1>5. ASSUME i \in DOMAIN timesteps, c \in DOMAIN CoarseChans, Key(i, c) \in DOMAIN timeMap
      PROVE  /\ Lookup(i, c).timestep = i /\ Lookup(i, c).chan = c
             /\ Lookup(i, c).name = name /\ Lookup(i, c).hdu = hdu
             /\ Lookup(i, c).kind \in {"data", "Fits"}
             /\ Lookup(i, c).kind = "Fits" <=> ~disk[name].opens \/ hdu \notin DOMAIN disk[name].hdus
  <2>1. CASE ~disk[name].opens \/ hdu \notin DOMAIN disk[name].hdus
    BY <1>4, <1>5, <2>1 DEF Answer
  <2>2. CASE ~(~disk[name].opens \/ hdu \notin DOMAIN disk[name].hdus)
    BY <1>4, <1>5, <2>2 DEF Answer
  <2>3. QED
    BY <2>1, <2>2
<1>6. QED
  BY <1>1, <1>2, <1>3, <1>4, <1>5 DEF Answer, hdu

\* Names that differ have different headers.
LEMMA HeadersTell ==
  ASSUME DiskInv, HeadersDiffer, NEW m \in Given, NEW n \in Given,
         BatchOf(m) = BatchOf(n), ChanOf(m) = ChanOf(n)
  PROVE  m = n
<1>1. PICK i \in DOMAIN offered : offered[i] = m
  BY GivenFiles
<1>2. PICK j \in DOMAIN offered : offered[j] = n
  BY GivenFiles
<1>3. QED
  BY <1>1, <1>2 DEF HeadersDiffer

\* An answer is only there once the context is.
ReplyInv ==
  /\ stage # "ready" => reply = NoReply
  /\ reply.kind \in {"data", "Fits"} => reply.name \in Given

HeldAt(n, i) == Index!Holds(disk[n], Format, timesteps[i])

\* The three parts of ReadServesRequested.
ServesData(r) ==
  r.kind = "data" => ChanOf(r.name) = CoarseChans[r.chan] /\ r.hdu \in HeldAt(r.name, r.timestep)
FailsIfGone(r) == r.kind = "Fits" => Changed(r.name, "vanished")
LacksData(r) ==
  r.kind = "NoDataForTimeStepCoarseChannel" =>
    \A n \in Given : ChanOf(n) = CoarseChans[r.chan] /\ ~Changed(n, "grown") => HeldAt(n, r.timestep) = {}

LEMMA LookupServes ==
  ASSUME FilesInv, stage = "ready", HeadersDiffer, NEW i, NEW c
  PROVE  ServesData(Lookup(i, c)) /\ FailsIfGone(Lookup(i, c)) /\ LacksData(Lookup(i, c))
<1> DEFINE r == Lookup(i, c)
<1>1. CASE i \notin DOMAIN timesteps \/ c \notin DOMAIN CoarseChans
  <2>1. r.kind \in {"InvalidTimeStepIndex", "InvalidCoarseChanIndex"}
    BY <1>1, LookupOutcomes
  <2>2. QED
    BY <2>1 DEF ServesData, FailsIfGone, LacksData
<1>2. CASE i \in DOMAIN timesteps /\ c \in DOMAIN CoarseChans /\ Key(i, c) \notin DOMAIN timeMap
  <2>1. r.kind = "NoDataForTimeStepCoarseChannel" /\ r.timestep = i /\ r.chan = c
    BY <1>2, LookupOutcomes
  <2>2. ASSUME NEW n \in Given, ChanOf(n) = CoarseChans[c], ~Changed(n, "grown"),
               NEW h \in HeldAt(n, i)
        PROVE  FALSE
    <3>1. HasKeys(n)
      BY <2>2 DEF FilesInv, IndexInv, MapInv
    <3>2. h \in Index!DataHdus(disk[n], Format) /\ disk[n].hdus[h] = timesteps[i]
      BY <2>2 DEF HeldAt, Index!Holds
    <3>3. Key(i, c) \in DOMAIN timeMap
      BY <2>2, <3>1, <3>2 DEF HasKeys, Key
    <3>4. QED
      BY <1>2, <3>3
  <2>3. QED
    BY <2>1, <2>2 DEF ServesData, FailsIfGone, LacksData
<1>3. CASE i \in DOMAIN timesteps /\ c \in DOMAIN CoarseChans /\ Key(i, c) \in DOMAIN timeMap
  <2> DEFINE n == r.name
             h == r.hdu
  <2>1. /\ r.timestep = i /\ r.chan = c
        /\ n \in Given /\ h = timeMap[Key(i, c)][2]
        /\ ChanOf(n) = CoarseChans[c] /\ BatchOf(n) = timeMap[Key(i, c)][1]
        /\ r.kind \in {"data", "Fits"}
        /\ r.kind = "Fits" => ~disk[n].opens \/ h \notin DOMAIN disk[n].hdus
    BY <1>3, LookupOutcomes
  <2>2. PICK m \in Given : /\ ChanOf(m) = Key(i, c)[2] /\ BatchOf(m) = timeMap[Key(i, c)][1]
                           /\ timeMap[Key(i, c)][2] \in Index!Holds(disk[m], Format, Key(i, c)[1])
    BY <1>3 DEF FilesInv, IndexInv, MapInv, LeadsToData
  <2>3. Key(i, c)[1] = timesteps[i] /\ Key(i, c)[2] = CoarseChans[c]
    BY DEF Key
  <2>4. m = n
    BY <2>1, <2>2, <2>3, HeadersTell DEF FilesInv
  <2>5. h \in HeldAt(n, i)
    BY <2>1, <2>2, <2>3, <2>4 DEF HeldAt
  <2>6. h \in DOMAIN disk[n].hdus
    BY <2>5 DEF HeldAt, Index!Holds, Index!DataHdus
  <2>7. disk[n].opens \/ Changed(n, "vanished")
    BY <2>1 DEF FilesInv, IndexInv, PassedIndex
  <2>8. QED
    BY <2>1, <2>5, <2>6, <2>7 DEF ServesData, FailsIfGone, LacksData
<1>4. QED
  BY <1>1, <1>2, <1>3

\* Every step but a read leaves the answer as it is, and the context with it.
LEMMA ContextStays ==
  ASSUME [Next]_vars, ~Read
  PROVE  /\ reply' = reply
         /\ stage = "ready" => UNCHANGED <<stage, mwaVersion, timesteps, timeMap, batched, common, good>>
<1>1. CASE Vanish \/ Grow \/ UNCHANGED vars
  BY <1>1 DEF Vanish, Grow, vars, Built
<1>2. CASE RefuseNames \/ RefuseToIndex
  BY <1>2, Refused DEF RefuseNames, RefuseToIndex, Built
<1>3. CASE DetermineBatches \/ CreateTimeMap \/ PopulateProvided \/ DetermineCommon
  BY <1>3 DEF DetermineBatches, CreateTimeMap, PopulateProvided, DetermineCommon
<1>4. CASE ExamineFile \/ ValidateFile
  BY <1>4 DEF ExamineFile, ValidateFile, Built
<1>5. QED
  BY <1>1, <1>2, <1>3, <1>4 DEF Next, Build

LEMMA ReplyNext ==
  ASSUME FilesInv, ReplyInv, [Next]_vars
  PROVE  ReplyInv'
<1>1. Given' = Given
  BY AnyStep DEF FilesInv, Given
<1>2. CASE Read
  <2>1. PICK i, c : reply' = Lookup(i, c)
    BY <1>2 DEF Read
  <2>2. stage = "ready" /\ stage' = "ready"
    BY <1>2 DEF Read
  <2>3. reply'.kind \in {"data", "Fits"} => reply'.name \in Given
    BY <2>1, <2>2, LookupOutcomes
  <2>4. QED
    BY <1>1, <2>2, <2>3 DEF ReplyInv
<1>3. CASE ~Read
  BY <1>1, <1>3, ContextStays DEF ReplyInv
<1>4. QED
  BY <1>2, <1>3

LEMMA ServesNext ==
  ASSUME FilesInv, ReplyInv, ReadServesRequested, [Next]_vars
  PROVE  ReadServesRequested'
<1>1. DiskInv /\ Given' = Given /\ offered' = offered
  BY AnyStep DEF FilesInv, Given
<1>2. ASSUME NEW n \in Given PROVE BatchOf(n)' = BatchOf(n) /\ ChanOf(n)' = ChanOf(n)
  BY <1>1, AnyStep DEF FileStep, BatchOf, ChanOf
<1>3. HeadersDiffer' => HeadersDiffer
  BY <1>1, <1>2, GivenFiles DEF HeadersDiffer
<1>4. SUFFICES ASSUME HeadersDiffer'
               PROVE  ServesData(reply)' /\ FailsIfGone(reply)' /\ LacksData(reply)'
  BY DEF ReadServesRequested, ServesData, FailsIfGone, LacksData, HeldAt, Given
<1>5. CASE Read
  <2>1. PICK i, c : reply' = Lookup(i, c)
    BY <1>5 DEF Read
  <2>2. stage = "ready" /\ UNCHANGED <<others, mwaVersion, timesteps>>
    BY <1>5 DEF Read
  <2>3. ServesData(reply') /\ FailsIfGone(reply') /\ LacksData(reply')
    BY <1>3, <1>4, <2>1, <2>2, LookupServes
  <2>4. CoarseChans' = CoarseChans /\ \A n, j : HeldAt(n, j)' = HeldAt(n, j)
    BY <2>2 DEF CoarseChans, HeldAt, others, Format
  <2>5. \A n, kind : Changed(n, kind)' = Changed(n, kind) /\ ChanOf(n)' = ChanOf(n)
    BY <2>2 DEF others, Changed, ChanOf
  <2>6. QED
    BY <1>1, <2>3, <2>4, <2>5 DEF ServesData, FailsIfGone, LacksData
<1>6. CASE ~Read /\ stage # "ready"
  <2>1. reply'.kind = "none"
    BY <1>6, ContextStays DEF ReplyInv, NoReply
  <2>2. QED
    BY <2>1 DEF ServesData, FailsIfGone, LacksData
<1>7. CASE ~Read /\ stage = "ready"
  <2>1. reply' = reply /\ UNCHANGED <<mwaVersion, timesteps>>
    BY <1>7, ContextStays
  <2>2. ServesData(reply) /\ FailsIfGone(reply) /\ LacksData(reply)
    BY <1>3, <1>4 DEF ReadServesRequested, ServesData, FailsIfGone, LacksData, HeldAt, Given
  <2>3. CoarseChans' = CoarseChans
    BY <2>1 DEF CoarseChans
  <2>4. ASSUME NEW n \in Given, NEW j
        PROVE  /\ HeldAt(n, j) \subseteq HeldAt(n, j)'
               /\ ~Changed(n, "grown")' => HeldAt(n, j)' = HeldAt(n, j) /\ ~Changed(n, "grown")
               /\ Changed(n, "vanished") => Changed(n, "vanished")'
    <3>1. FileStep(n)
      BY <1>1, AnyStep
    <3>2. HeldAt(n, j) \subseteq HeldAt(n, j)'
      BY <1>1, <2>1, IndexAfterStep DEF HeldAt
    <3>3. disk'[n].hdus = disk[n].hdus => HeldAt(n, j)' = HeldAt(n, j)
      BY <2>1 DEF HeldAt, Index!Holds, Index!DataHdus, Format
    <3>4. QED
      BY <3>1, <3>2, <3>3 DEF FileStep
  <2>5. ServesData(reply)'
    BY <1>2, <2>1, <2>2, <2>3, <2>4 DEF ServesData, ReplyInv
  <2>6. FailsIfGone(reply)'
    BY <2>1, <2>2, <2>4 DEF FailsIfGone, ReplyInv
  <2>7. LacksData(reply)'
    BY <1>1, <1>2, <2>1, <2>2, <2>3, <2>4 DEF LacksData
  <2>8. QED
    BY <2>5, <2>6, <2>7
<1>8. QED
  BY <1>5, <1>6, <1>7

\* Whatever happens to the files after they were indexed, a read serves an HDU of
\* the channel and time asked for, as long as no two names have equal headers.
THEOREM ReadsServeWhatIsAsked == Spec => []ReadServesRequested
<1>1. Init => ReplyInv /\ ReadServesRequested
  BY DEF Init, ReplyInv, NoReply, ReadServesRequested
<1>2. FilesInv /\ ReplyInv /\ ReadServesRequested /\ [Next]_vars => (ReplyInv /\ ReadServesRequested)'
  BY ReplyNext, ServesNext
<1>3. QED
  BY <1>1, <1>2, FilesInvariant, PTL DEF Spec

-----------------------------------------------------------------------------
(* The vectors of the context, and what their indices select. *)

LEMMA IndicesOfOnce ==
  ASSUME NEW s, NEW n \in Nat, DOMAIN s = 1 .. n, \A i, j \in 1 .. n : s[i] = s[j] => i = j, NEW xs
  PROVE  IndicesOf(s, xs) = {i \in DOMAIN s : s[i] \in xs}
<1>1. ASSUME NEW i \in 1 .. n PROVE IsPosition(i, s, s[i])
  <2>1. \A j \in 1 .. i - 1 : j \in 1 .. n /\ j # i
    OBVIOUS
  <2>2. QED
    BY <2>1 DEF IsPosition
<1>2. \A i \in 1 .. n : (\E x \in xs : IsPosition(i, s, x)) <=> s[i] \in xs
  BY <1>1 DEF IsPosition
<1>3. QED
  BY <1>2 DEF IndicesOf

\* No two receiver channels have the same gpubox number, and the numbers of the
\* legacy files leave none out.
LEMMA GpuboxNumbers ==
  ASSUME NEW R \in SUBSET Nat, IsFiniteSet(R), NEW legacy \in BOOLEAN
  PROVE  /\ \A c, d \in R : GpuboxOf(legacy, R, c) = GpuboxOf(legacy, R, d) => c = d
         /\ legacy => \A g \in 1 .. Cardinality(R) : \E c \in R : GpuboxOf(legacy, R, c) = g
<1> DEFINE Upto(c) == IF c <= 128 THEN {e \in R : e <= c} ELSE {e \in R : e <= 128 \/ e >= c}
           n == Cardinality(R)
<1>1. n \in Nat
  BY FS_CardinalityType
<1>2. ASSUME NEW c \in R PROVE Upto(c) \in SUBSET R /\ c \in Upto(c)
  OBVIOUS
<1>3. ASSUME legacy, NEW c \in R PROVE GpuboxOf(legacy, R, c) = Cardinality(Upto(c))
  BY <1>3 DEF GpuboxOf
<1>4. ASSUME NEW c \in R, NEW d \in R, c < d
      PROVE  \/ Upto(c) \subseteq Upto(d) /\ d \notin Upto(c)
             \/ Upto(d) \subseteq Upto(c) /\ c \notin Upto(d)
  <2>1. CASE d <= 128
    <3>1. c <= 128 /\ \A e \in R : e <= c => e <= d
      BY <1>4, <2>1
    <3>2. Upto(c) = {e \in R : e <= c} /\ Upto(d) = {e \in R : e <= d}
      BY <2>1, <3>1
    <3>3. ~(d <= c)
      BY <1>4
    <3>4. QED
      BY <3>1, <3>2, <3>3, Zenon
  <2>2. CASE c <= 128 /\ ~(d <= 128)
    <3>1. \A e \in R : e <= c => e <= 128
      BY <2>2
    <3>2. Upto(c) = {e \in R : e <= c} /\ Upto(d) = {e \in R : e <= 128 \/ e >= d}
      BY <2>2
    <3>3. ~(d <= c)
      BY <1>4
    <3>4. QED
      BY <3>1, <3>2, <3>3, Zenon
  <2>3. CASE ~(c <= 128)
    <3>1. ~(d <= 128) /\ \A e \in R : e >= d => e >= c
      BY <1>4, <2>3
    <3>2. Upto(c) = {e \in R : e <= 128 \/ e >= c} /\ Upto(d) = {e \in R : e <= 128 \/ e >= d}
      BY <2>3, <3>1
    <3>3. ~(c >= d)
      BY <1>4
    <3>4. QED
      BY <2>3, <3>1, <3>2, <3>3, Zenon
  <2>4. QED
    BY <2>1, <2>2, <2>3
<1>5. ASSUME NEW c \in R PROVE IsFiniteSet(Upto(c)) /\ Cardinality(Upto(c)) \in 1 .. n
  <2>1. Upto(c) \in SUBSET R /\ c \in Upto(c)
    BY <1>2
  <2> HIDE DEF Upto
  <2>2. IsFiniteSet(Upto(c)) /\ Cardinality(Upto(c)) <= n
    BY <2>1, FS_Subset
  <2>3. Cardinality(Upto(c)) \in Nat /\ Cardinality(Upto(c)) # 0
    BY <2>1, <2>2, FS_CardinalityType, FS_EmptySet
  <2>4. QED
    BY <1>1, <2>2, <2>3
<1> HIDE DEF Upto, n
<1>6. ASSUME NEW c \in R, NEW d \in R, c < d PROVE Cardinality(Upto(c)) # Cardinality(Upto(d))
  <2>1. CASE Upto(c) \subseteq Upto(d) /\ d \notin Upto(c)
    BY <1>2, <1>5, <2>1, FS_Subset
  <2>2. CASE Upto(d) \subseteq Upto(c) /\ c \notin Upto(d)
    BY <1>2, <1>5, <2>2, FS_Subset
  <2>3. QED
    BY <1>4, <1>6, <2>1, <2>2
<1>7. ASSUME NEW c \in R, NEW d \in R, Cardinality(Upto(c)) = Cardinality(Upto(d)) PROVE c = d
  <2>1. c < d \/ c = d \/ d < c
    OBVIOUS
  <2>2. QED
    BY <1>6, <1>7, <2>1
<1>8. \A c, d \in R : GpuboxOf(legacy, R, c) = GpuboxOf(legacy, R, d) => c = d
  <2>1. CASE legacy
    <3>1. \A c \in R : GpuboxOf(legacy, R, c) = Cardinality(Upto(c))
      BY <1>3, <2>1
    <3>2. TAKE c, d \in R
    <3>3. HAVE GpuboxOf(legacy, R, c) = GpuboxOf(legacy, R, d)
    <3>4. Cardinality(Upto(c)) = Cardinality(Upto(d))
      BY <3>1, <3>3
    <3>5. QED
      BY <1>7, <3>4
  <2>2. CASE ~legacy
    BY <2>2 DEF GpuboxOf
  <2>3. QED
    BY <2>1, <2>2
<1>9. ASSUME legacy, NEW g \in 1 .. n PROVE \E c \in R : GpuboxOf(legacy, R, c) = g
  <2> DEFINE f == [c \in R |-> Cardinality(Upto(c))]
  <2>1. f \in Injection(R, 1 .. n)
    <3>1. f \in [R -> 1 .. n]
      BY <1>5
    <3>2. \A c, d \in R : f[c] = f[d] => c = d
      BY <1>7
    <3> HIDE DEF f
    <3>3. QED
      BY <3>1, <3>2 DEF Injection, IsInjective
  <2>2. IsFiniteSet(1 .. n) /\ Cardinality(1 .. n) = n
    BY <1>1, FS_Interval
  <2>3. f \in Surjection(R, 1 .. n)
    BY <2>1, <2>2, FS_Injection DEF n
  <2>4. PICK c \in R : f[c] = g
    BY <1>9, <2>3 DEF Surjection
  <2>5. QED
    BY <1>3, <1>9, <2>4
<1>10. QED
  BY <1>8, <1>9 DEF n

LEMMA CoarseChansOnce ==
  /\ Cardinality(RecChans) \in Nat
  /\ DOMAIN CoarseChans = 1 .. Cardinality(RecChans)
  /\ \A i, j \in DOMAIN CoarseChans : CoarseChans[i] = CoarseChans[j] => i = j
  /\ KnownChans \subseteq ToSet(CoarseChans)
<1> DEFINE n == Cardinality(RecChans)
           ascending == Sorted(RecChans)
           legacy == mwaVersion # "CorrMWAXv2"
<1>1. /\ n \in Nat /\ DOMAIN ascending = 1 .. n /\ \A i \in 1 .. n : ascending[i] \in RecChans
      /\ \A x \in RecChans : \E i \in 1 .. n : ascending[i] = x
      /\ \A i, j \in 1 .. n : ascending[i] = ascending[j] => i = j
  BY SortedMembers, ChansAssumption
<1>2. CoarseChans = [i \in 1 .. n |-> GpuboxOf(legacy, RecChans, ascending[i])]
  BY <1>1 DEF CoarseChans
<1>3. /\ legacy \in BOOLEAN
      /\ \A c, d \in RecChans : GpuboxOf(legacy, RecChans, c) = GpuboxOf(legacy, RecChans, d) => c = d
      /\ legacy => \A g \in 1 .. n : \E c \in RecChans : GpuboxOf(legacy, RecChans, c) = g
  <2>1. legacy \in BOOLEAN /\ RecChans \in SUBSET Nat /\ IsFiniteSet(RecChans)
    BY ChansAssumption
  <2> HIDE DEF ascending, legacy
  <2>2. QED
    BY <2>1, GpuboxNumbers DEF n
<1> HIDE DEF ascending, n, legacy
<1>4. \A i, j \in 1 .. n : CoarseChans[i] = CoarseChans[j] => i = j
  BY <1>1, <1>2, <1>3
<1>5. ASSUME NEW g \in KnownChans PROVE g \in ToSet(CoarseChans)
  <2>1. PICK c \in RecChans : GpuboxOf(legacy, RecChans, c) = g
    <3>1. CASE legacy
      BY <1>3, <1>5, <3>1 DEF KnownChans, n, legacy
    <3>2. CASE ~legacy
      BY <1>5, <3>2 DEF KnownChans, GpuboxOf, legacy
    <3>3. QED
      BY <3>1, <3>2
  <2>2. PICK i \in 1 .. n : ascending[i] = c
    BY <1>1
  <2>3. QED
    BY <1>2, <2>1, <2>2 DEF ToSet
<1>6. QED
  BY <1>1, <1>2, <1>4, <1>5 DEF n

LEMMA TimestepsOnce ==
  ASSUME FilesInv, stage = "ready"
  PROVE  /\ \E m \in Nat : DOMAIN timesteps = 1 .. m
         /\ \A i, j \in DOMAIN timesteps : timesteps[i] = timesteps[j] => i = j
         /\ MapTimes \in SUBSET Nat /\ IsFiniteSet(MapTimes) /\ MapTimes # {}
         /\ ToSet(timesteps) = Superset(MapTimes, MetaFirst, MetaLast, IntTime)
         /\ MapTimes \subseteq ToSet(timesteps) /\ ToSet(timesteps) \subseteq Nat
<1>1. MapTimes # {} /\ timesteps = Sorted(Superset(MapTimes, MetaFirst, MetaLast, IntTime))
  BY DEF FilesInv, BuiltInv
<1>2. MapTimes \in SUBSET Nat /\ IsFiniteSet(MapTimes)
  BY FilesAssumption DEF FilesInv, IndexInv, MapInv, MapTimes
<1> DEFINE T == Superset(MapTimes, MetaFirst, MetaLast, IntTime)
<1>3. T \in SUBSET Nat /\ IsFiniteSet(T) /\ MapTimes \subseteq T
  BY <1>1, <1>2, SupersetHasData, IntTimeAssumption, ScheduleAssumption
<1> HIDE DEF T
<1>4. timesteps = Sorted(T)
  BY <1>1 DEF T
<1>5. /\ Cardinality(T) \in Nat /\ DOMAIN timesteps = 1 .. Cardinality(T)
      /\ \A i \in 1 .. Cardinality(T) : timesteps[i] \in T
      /\ \A x \in T : \E i \in 1 .. Cardinality(T) : timesteps[i] = x
      /\ \A i, j \in 1 .. Cardinality(T) : timesteps[i] = timesteps[j] => i = j
  BY <1>3, <1>4, SortedMembers
<1>6. ToSet(timesteps) = T
  BY <1>5 DEF ToSet
<1>7. QED
  BY <1>1, <1>2, <1>3, <1>5, <1>6 DEF T

LEMMA HasDataIsKeyed ==
  ASSUME FilesInv, stage = "ready", NEW i \in DOMAIN timesteps, NEW c \in DOMAIN CoarseChans
  PROVE  HasData(i, c) <=> Key(i, c) \in DOMAIN timeMap
BY LookupOutcomes DEF HasData

LEMMA ProvidedIsReadable ==
  ASSUME FilesInv
  PROVE  ProvidedMeansReadable
<1>1. SUFFICES ASSUME stage = "ready"
               PROVE  /\ ProvidedTimesteps = {i \in DOMAIN timesteps : \E c \in DOMAIN CoarseChans : HasData(i, c)}
                      /\ ProvidedChans = {c \in DOMAIN CoarseChans : \E i \in DOMAIN timesteps : HasData(i, c)}
  BY DEF ProvidedMeansReadable
<1>2. ProvidedTimesteps = {i \in DOMAIN timesteps : timesteps[i] \in MapTimes}
  BY <1>1, TimestepsOnce, IndicesOfOnce DEF ProvidedTimesteps
<1>3. ProvidedChans = {c \in DOMAIN CoarseChans : CoarseChans[c] \in MapChans}
  BY CoarseChansOnce, IndicesOfOnce DEF ProvidedChans
<1>4. \A k \in DOMAIN timeMap : k = <<k[1], k[2]>>
  BY <1>1 DEF FilesInv, IndexInv, MapInv
<1>5. MapChans \subseteq ToSet(CoarseChans) /\ MapTimes \subseteq ToSet(timesteps)
  BY <1>1, TimestepsOnce DEF FilesInv, BuiltInv
<1>6. ASSUME NEW i \in DOMAIN timesteps
      PROVE  timesteps[i] \in MapTimes <=> \E c \in DOMAIN CoarseChans : HasData(i, c)
  <2>1. ASSUME timesteps[i] \in MapTimes PROVE \E c \in DOMAIN CoarseChans : HasData(i, c)
    <3>1. PICK k \in DOMAIN timeMap : k[1] = timesteps[i]
      BY <2>1 DEF MapTimes
    <3>2. k[2] \in ToSet(CoarseChans)
      BY <1>5 DEF MapChans
    <3>3. PICK c \in DOMAIN CoarseChans : CoarseChans[c] = k[2]
      BY <3>2 DEF ToSet
    <3>4. Key(i, c) = k
      BY <1>4, <3>1, <3>3 DEF Key
    <3>5. QED
      BY <1>1, <3>4, HasDataIsKeyed
  <2>2. ASSUME NEW c \in DOMAIN CoarseChans, HasData(i, c) PROVE timesteps[i] \in MapTimes
    <3>1. Key(i, c) \in DOMAIN timeMap /\ Key(i, c)[1] = timesteps[i]
      BY <1>1, <2>2, HasDataIsKeyed DEF Key
    <3>2. QED
      BY <3>1 DEF MapTimes
  <2>3. QED
    BY <2>1, <2>2
<1>7. ASSUME NEW c \in DOMAIN CoarseChans
      PROVE  CoarseChans[c] \in MapChans <=> \E i \in DOMAIN timesteps : HasData(i, c)
  <2>1. ASSUME CoarseChans[c] \in MapChans PROVE \E i \in DOMAIN timesteps : HasData(i, c)
    <3>1. PICK k \in DOMAIN timeMap : k[2] = CoarseChans[c]
      BY <2>1 DEF MapChans
    <3>2. k[1] \in ToSet(timesteps)
      BY <1>5 DEF MapTimes
    <3>3. PICK i \in DOMAIN timesteps : timesteps[i] = k[1]
      BY <3>2 DEF ToSet
    <3>4. Key(i, c) = k
      BY <1>4, <3>1, <3>3 DEF Key
    <3>5. QED
      BY <1>1, <3>4, HasDataIsKeyed
  <2>2. ASSUME NEW i \in DOMAIN timesteps, HasData(i, c) PROVE CoarseChans[c] \in MapChans
    <3>1. Key(i, c) \in DOMAIN timeMap /\ Key(i, c)[2] = CoarseChans[c]
      BY <1>1, <2>2, HasDataIsKeyed DEF Key
    <3>2. QED
      BY <3>1 DEF MapChans
  <2>3. QED
    BY <2>1, <2>2
<1>8. QED
  BY <1>2, <1>3, <1>6, <1>7

-----------------------------------------------------------------------------
(* The common timesteps. *)

\* The times from "from" on at which there are data of all the channels.
Whole(from) == {t \in MapTimes : t >= from /\ \A c \in MapChans : <<t, c>> \in DOMAIN timeMap}

LEMMA CommonTimeIsWhole ==
  ASSUME FilesInv, stage = "ready", NEW from
  PROVE  Stretch(from)!CommonTime = Whole(from)
<1>1. \A k \in DOMAIN timeMap : k = <<k[1], k[2]>>
  BY DEF FilesInv, IndexInv, MapInv
<1>2. /\ DOMAIN ChansAt = MapTimes
      /\ \A t \in MapTimes : \A c : c \in ChansAt[t] <=> c \in MapChans /\ <<t, c>> \in DOMAIN timeMap
  BY DEF ChansAt
<1>3. \A c : c \in Stretch(from)!ProvidedChans <=> c \in MapChans
  <2>1. \A c : c \in Stretch(from)!ProvidedChans <=> \E t \in MapTimes : c \in ChansAt[t]
    BY <1>2 DEF Stretch!ProvidedChans
  <2>2. ASSUME NEW c \in MapChans PROVE \E t \in MapTimes : c \in ChansAt[t]
    <3>1. PICK k \in DOMAIN timeMap : k[2] = c
      BY DEF MapChans
    <3>2. k[1] \in MapTimes /\ <<k[1], c>> \in DOMAIN timeMap
      BY <1>1, <3>1 DEF MapTimes
    <3>3. QED
      BY <1>2, <3>2
  <2>3. QED
    BY <1>2, <2>1, <2>2
<1>4. ASSUME NEW t \in MapTimes
      PROVE  ChansAt[t] = Stretch(from)!ProvidedChans <=> \A c \in MapChans : <<t, c>> \in DOMAIN timeMap
  <2>1. ChansAt[t] = Stretch(from)!ProvidedChans <=>
          \A c : c \in ChansAt[t] <=> c \in Stretch(from)!ProvidedChans
    OBVIOUS
  <2>2. QED
    BY <1>2, <1>3, <2>1
<1>5. QED
  BY <1>2, <1>4 DEF Stretch!CommonTime, Whole

\* A range is from the first whole time to the end of a run without a gap.
IsRun(from, s, l) ==
  /\ s \in Whole(from) /\ \A t \in Whole(from) : s <= t
  /\ l \in Whole(from)
  /\ \A t, u \in Whole(from) : t < u /\ u <= l => t + IntTime \in Whole(from) /\ t + IntTime <= u
  /\ \/ l + IntTime \notin Whole(from)
     \/ \E t \in Whole(from) : l < t /\ t < l + IntTime

LEMMA CommonAnswers ==
  ASSUME FilesInv, stage = "ready", NEW from \in Nat, NEW a \in CommonFrom(from)
  PROVE  \/ Whole(from) = {} /\ a = NoCommon
         \/ /\ a.kind = "some" /\ a.chans = MapChans
            /\ \E s, l \in MapTimes : a.start = s /\ a.end = l + IntTime /\ IsRun(from, s, l)
<1> DEFINE W == Whole(from)
<1>1. Stretch(from)!CommonTime = W
  BY CommonTimeIsWhole
<1>2. MapTimes \in SUBSET Nat /\ W \in SUBSET Nat
  BY TimestepsOnce DEF Whole
<1>3. CASE W = {}
  BY <1>1, <1>3 DEF CommonFrom
<1>4. CASE W # {}
  <2>1. PICK p \in MapTimes \X MapTimes :
          /\ Stretch(from)!IsCommonRange(p[1], p[2])
          /\ a = [kind |-> "some", start |-> p[1], end |-> p[2] + IntTime, chans |-> MapChans]
    BY <1>1, <1>4 DEF CommonFrom
  <2> DEFINE s == p[1]
             l == p[2]
  <2>2. s \in MapTimes /\ l \in MapTimes
    OBVIOUS
  <2> HIDE DEF s, l
  <2>3. /\ s \in W /\ (\A t \in W : s <= t) /\ l \in W
        /\ \A t, u \in {x \in W : x <= l} :
             t < u => t + IntTime \in {x \in W : x <= l} /\ t + IntTime <= u
        /\ \/ l + IntTime \notin W
           \/ \E t \in W : l < t /\ t < l + IntTime
    BY <1>1, <2>1 DEF Stretch!IsCommonRange, Stretch!Contiguous, s, l
  <2>4. ASSUME NEW t \in W, NEW u \in W, t < u, u <= l
        PROVE  t + IntTime \in W /\ t + IntTime <= u
    <3>1. t <= l
      BY <1>2, <2>2, <2>4
    <3>2. QED
      BY <2>3, <2>4, <3>1
  <2>5. IsRun(from, s, l)
    BY <2>3, <2>4 DEF IsRun
  <2>6. QED
    BY <2>1, <2>2, <2>5 DEF s, l
<1>5. QED
  BY <1>3, <1>4

\* On one grid, every timestep from the first to the last of a run is in it.
LEMMA RunIsWhole ==
  ASSUME FilesInv, stage = "ready", OnOneGrid, NEW from \in Nat,
         NEW s \in MapTimes, NEW l \in MapTimes, IsRun(from, s, l),
         NEW x \in ToSet(timesteps), s <= x, x < l + IntTime
  PROVE  x \in Whole(from) /\ x <= l
<1> DEFINE W == Whole(from)
           d == IntTime
<1>1. /\ MapTimes \in SUBSET Nat /\ IsFiniteSet(MapTimes) /\ x \in Nat
      /\ x \in Superset(MapTimes, MetaFirst, MetaLast, IntTime)
  BY TimestepsOnce
<1>2. d \in Nat \ {0} /\ s \in Nat /\ l \in Nat
  BY <1>1, IntTimeAssumption
<1>3. \A u \in MapTimes : Apart(s, u, d)
  BY <1>1, <1>2, ApartByRemainder DEF OnOneGrid
<1>4. Apart(s, x, d)
  BY <1>1, <1>2, <1>3, SupersetOnGrid, ScheduleAssumption
<1>5. W \in SUBSET MapTimes
  BY DEF Whole
<1>6. x <= l
  <2>1. SUFFICES ASSUME l < x PROVE FALSE
    BY <1>1, <1>2
  <2>2. Apart(l, x, d)
    BY <1>1, <1>2, <1>3, <1>4, ApartSym, ApartTrans
  <2>3. l + d <= x
    BY <1>1, <1>2, <2>1, <2>2, ApartByOne
  <2>4. QED
    BY <1>1, <1>2, <2>3
<1> DEFINE B == {t \in W : t <= x}
<1>7. s \in B /\ B \in SUBSET MapTimes
  BY <1>5 DEF IsRun
<1>8. PICK g \in B : \A t \in B : t <= g
  <2> HIDE DEF B
  <2>1. B \in SUBSET Nat /\ IsFiniteSet(B) /\ B # {}
    BY <1>1, <1>7, FS_Subset
  <2>2. QED
    BY <2>1, GreatestExists
<1>9. g \in W /\ g \in Nat /\ g <= x
  BY <1>1, <1>5, <1>8
<1>10. g = x
  <2>1. SUFFICES ASSUME g < x PROVE FALSE
    BY <1>1, <1>9
  <2>2. g < l /\ l \in W
    BY <1>1, <1>2, <1>6, <1>9, <2>1 DEF IsRun
  <2>3. g + d \in W
    BY <1>2, <1>9, <2>2 DEF IsRun
  <2>4. Apart(g, x, d)
    BY <1>1, <1>2, <1>3, <1>4, <1>5, <1>9, ApartSym, ApartTrans
  <2>5. g + d <= x
    BY <1>1, <1>2, <1>9, <2>1, <2>4, ApartByOne
  <2>6. g + d <= g
    BY <1>8, <2>3, <2>5
  <2>7. QED
    BY <1>2, <1>9, <2>6
<1>11. QED
  BY <1>6, <1>9, <1>10

\* What such an answer selects can be read.
LEMMA SelectedIsReadable ==
  ASSUME FilesInv, stage = "ready", OnOneGrid, NEW from \in Nat, NEW a \in CommonFrom(from)
  PROVE  /\ Readable(Selected(a), IndicesOf(CoarseChans, a.chans))
         /\ Selected(a) # {} => IndicesOf(CoarseChans, a.chans) = ProvidedChans
<1>1. \A i \in DOMAIN timesteps : timesteps[i] \in ToSet(timesteps) /\ timesteps[i] \in Nat
  BY TimestepsOnce DEF ToSet
<1>2. CASE a = NoCommon
  <2>1. Selected(a) = {}
    BY <1>1, <1>2 DEF Selected, NoCommon
  <2>2. QED
    BY <2>1 DEF Readable
<1>3. CASE a # NoCommon
  <2>1. PICK s \in MapTimes, l \in MapTimes :
          /\ a.chans = MapChans /\ a.start = s /\ a.end = l + IntTime /\ IsRun(from, s, l)
    BY <1>3, CommonAnswers
  <2>2. IndicesOf(CoarseChans, MapChans) = {c \in DOMAIN CoarseChans : CoarseChans[c] \in MapChans}
    BY CoarseChansOnce, IndicesOfOnce
  <2>3. ASSUME NEW i \in Selected(a), NEW c \in IndicesOf(CoarseChans, a.chans) PROVE HasData(i, c)
    <3>1. i \in DOMAIN timesteps /\ s <= timesteps[i] /\ timesteps[i] < l + IntTime
      BY <2>1, <2>3 DEF Selected
    <3>2. timesteps[i] \in Whole(from)
      BY <1>1, <2>1, <3>1, RunIsWhole
    <3>3. c \in DOMAIN CoarseChans /\ CoarseChans[c] \in MapChans
      BY <2>1, <2>2, <2>3
    <3>4. Key(i, c) \in DOMAIN timeMap
      BY <3>2, <3>3 DEF Whole, Key
    <3>5. QED
      BY <3>1, <3>3, <3>4, HasDataIsKeyed
  <2>4. QED
    BY <2>1, <2>3 DEF Readable, ProvidedChans
<1>4. QED
  BY <1>2, <1>3

LEMMA ListedIsReadable ==
  ASSUME FilesInv
  PROVE  ContextIsReadable
<1>1. SUFFICES ASSUME stage = "ready", OnOneGrid
               PROVE  /\ Readable(CommonTimesteps, CommonChans) /\ Readable(GoodTimesteps, GoodChans)
                      /\ CommonTimesteps # {} => CommonChans = ProvidedChans
                      /\ GoodTimesteps # {} => GoodChans = ProvidedChans
  BY ProvidedIsReadable DEF ContextIsReadable, CommonIsReadable
<1>2. common \in CommonFrom(0) /\ good \in CommonFrom(GoodTime) /\ 0 \in Nat /\ GoodTime \in Nat
  BY <1>1, ScheduleAssumption DEF FilesInv, BuiltInv
<1>3. QED
  BY <1>1, <1>2, SelectedIsReadable DEF CommonTimesteps, CommonChans, GoodTimesteps, GoodChans

\* Every timestep the context lists as provided has data for some channel, and, if
\* the data are on one grid, every common one for every channel: the fill of the
\* timesteps and the end of the common range never promise what is not there.
THEOREM ListsAreServed == Spec => []ContextIsReadable
BY ListedIsReadable, FilesInvariant, PTL

LEMMA GoodIsRestOfCommon ==
  ASSUME FilesInv
  PROVE  GoodAreCommonAfterQuack
<1>1. SUFFICES ASSUME stage = "ready", OnOneGrid, common.kind = "some", NoGap
               PROVE  GoodTimesteps = {i \in CommonTimesteps : timesteps[i] >= GoodTime}
  BY DEF GoodAreCommonAfterQuack
<1> DEFINE W == Whole(0)
           V == Whole(GoodTime)
           d == IntTime
<1>2. common \in CommonFrom(0) /\ good \in CommonFrom(GoodTime) /\ 0 \in Nat /\ GoodTime \in Nat
  BY <1>1, ScheduleAssumption DEF FilesInv, BuiltInv
<1>3. MapTimes \in SUBSET Nat /\ d \in Nat \ {0} /\ W \subseteq MapTimes
  BY <1>1, TimestepsOnce, IntTimeAssumption DEF Whole
<1>4. \A t, u \in W : t < u => t + d \in W /\ t + d <= u
  BY <1>1, CommonTimeIsWhole DEF NoGap, Stretch!Contiguous
<1>5. V = {t \in W : t >= GoodTime}
  <2>1. \A t \in MapTimes : t >= 0
    BY <1>3
  <2>2. QED
    BY <2>1 DEF Whole
<1>6. PICK s \in MapTimes, l \in MapTimes :
        common.start = s /\ common.end = l + d /\ IsRun(0, s, l)
  BY <1>1, <1>2, CommonAnswers DEF NoCommon
<1>7. \A i \in DOMAIN timesteps : timesteps[i] \in ToSet(timesteps) /\ timesteps[i] \in Nat
  BY <1>1, TimestepsOnce DEF ToSet
\* Without a gap a run ends at the last of all.
<1>8. ASSUME NEW t \in W PROVE t <= l
  <2>0. t \in Nat /\ l \in Nat /\ d \in Nat /\ W \subseteq Nat
    BY <1>3
  <2>1. SUFFICES ASSUME l < t PROVE FALSE
    BY <2>0
  <2>2. l \in W /\ l + d \in W /\ l + d <= t
    BY <1>4, <1>6, <2>1 DEF IsRun
  <2>3. PICK u \in W : l < u /\ u < l + d
    BY <1>6, <2>2 DEF IsRun
  <2>4. l + d <= u
    BY <1>4, <2>2, <2>3
  <2>5. u \in Nat
    BY <2>0
  <2>6. QED
    BY <2>0, <2>3, <2>4, <2>5
<1>9. ASSUME NEW i \in DOMAIN timesteps
      PROVE  i \in CommonTimesteps <=> timesteps[i] \in W
  <2>1. i \in CommonTimesteps <=> s <= timesteps[i] /\ timesteps[i] < l + d
    BY <1>6 DEF CommonTimesteps, Selected
  <2>2. s <= timesteps[i] /\ timesteps[i] < l + d => timesteps[i] \in W
    BY <1>1, <1>6, <1>7, RunIsWhole
  <2>3. ASSUME timesteps[i] \in W PROVE s <= timesteps[i] /\ timesteps[i] < l + d
    <3>1. s <= timesteps[i] /\ timesteps[i] <= l
      BY <1>6, <1>8, <2>3 DEF IsRun
    <3>2. QED
      BY <1>3, <1>7, <3>1
  <2>4. QED
    BY <2>1, <2>2, <2>3
<1>10. CASE V = {}
  <2>1. good = NoCommon
    BY <1>1, <1>2, <1>10, CommonAnswers DEF IsRun
  <2>2. GoodTimesteps = {}
    BY <1>7, <2>1 DEF GoodTimesteps, Selected, NoCommon
  <2>3. ~\E i \in CommonTimesteps : timesteps[i] >= GoodTime
    BY <1>5, <1>9, <1>10 DEF CommonTimesteps, Selected
  <2>4. QED
    BY <2>2, <2>3
<1>11. CASE V # {}
  <2>1. PICK b \in MapTimes, e \in MapTimes :
          good.start = b /\ good.end = e + d /\ IsRun(GoodTime, b, e)
    BY <1>1, <1>2, <1>11, CommonAnswers
  <2>2. ASSUME NEW t \in V PROVE t <= e
    <3>0. t \in Nat /\ e \in Nat /\ d \in Nat /\ W \subseteq Nat
      BY <1>3, <1>5
    <3>1. SUFFICES ASSUME e < t PROVE FALSE
      BY <3>0
    <3>2. e \in V /\ e \in W /\ t \in W /\ e >= GoodTime
      BY <1>5, <2>1 DEF IsRun
    <3>3. e + d \in W /\ e + d <= t
      BY <1>4, <3>1, <3>2
    <3>4. e + d \in V
      BY <1>2, <1>3, <1>5, <3>2, <3>3
    <3>5. PICK u \in V : e < u /\ u < e + d
      BY <2>1, <3>4 DEF IsRun
    <3>6. e + d <= u
      BY <1>4, <1>5, <3>2, <3>5
    <3>7. u \in Nat
      BY <1>5, <3>0
    <3>8. QED
      BY <3>0, <3>5, <3>6, <3>7
  <2>3. ASSUME NEW i \in DOMAIN timesteps
        PROVE  i \in GoodTimesteps <=> timesteps[i] \in V
    <3>1. i \in GoodTimesteps <=> b <= timesteps[i] /\ timesteps[i] < e + d
      BY <2>1 DEF GoodTimesteps, Selected
    <3>2. b <= timesteps[i] /\ timesteps[i] < e + d => timesteps[i] \in V
      BY <1>1, <1>2, <1>7, <2>1, RunIsWhole
    <3>3. ASSUME timesteps[i] \in V PROVE b <= timesteps[i] /\ timesteps[i] < e + d
      <4>1. b <= timesteps[i] /\ timesteps[i] <= e
        BY <2>1, <2>2, <3>3 DEF IsRun
      <4>2. QED
        BY <1>3, <1>7, <4>1
    <3>4. QED
      BY <3>1, <3>2, <3>3
  <2>4. GoodTimesteps \subseteq DOMAIN timesteps /\ CommonTimesteps \subseteq DOMAIN timesteps
    BY DEF GoodTimesteps, CommonTimesteps, Selected
  <2>5. QED
    BY <1>5, <1>9, <2>3, <2>4
<1>12. QED
  BY <1>10, <1>11

\* The two calls of determine_common_obs_times_and_chans agree: with the good time
\* given, the answer is the rest of the other one from that time on.
THEOREM GoodIsCommonAfterQuack == Spec => []GoodAreCommonAfterQuack
BY GoodIsRestOfCommon, FilesInvariant, PTL

-----------------------------------------------------------------------------
(* The reasons of the constructor. *)

\* The error is true of the file, as it was or as it is.
IsTrueOfFile(e, n) == IsTrueOf(e, Contents[n]) \/ IsTrueOf(e, disk[n])

LEMMA TrueStays ==
  ASSUME DiskInv, [Next]_vars, mwaVersion' = mwaVersion, NEW e, NEW n \in Given, IsTrueOfFile(e, n)
  PROVE  IsTrueOfFile(e, n)'
<1>1. /\ FileStep(n) /\ IsLater(n) /\ offered' = offered /\ Given' = Given
      /\ disk[n] \in FileRecords /\ disk'[n] \in FileRecords /\ Contents[n] \in FileRecords
  BY AnyStep, GivenFiles DEF DiskInv, Given
<1>2. \A m \in ToSet(offered) : disk'[m].format = disk[m].format /\ disk'[m].axes = disk[m].axes
  BY AnyStep DEF FileStep, Given
<1>3. MetafitsAxes' = MetafitsAxes
  BY DEF MetafitsAxes
<1>4. ASSUME NEW f, IsTrueOf(e, f) PROVE IsTrueOf(e, f)'
  <2>1. e = "Mixture" => \E m \in ToSet(offered) : disk'[m].format # f.format
    BY <1>2, <1>4 DEF IsTrueOf
  <2>2. e = "UnequalHduSizes" => \E m \in ToSet(offered) : Size(disk'[m].axes) # Size(f.axes)
    BY <1>2, <1>4 DEF IsTrueOf
  <2>3. QED
    BY <1>1, <1>3, <1>4, <2>1, <2>2 DEF IsTrueOf
<1>5. CASE IsTrueOf(e, Contents[n])
  BY <1>4, <1>5 DEF IsTrueOfFile
<1>6. CASE IsTrueOf(e, disk[n])
  <2>1. CASE e = "NoDataHDUsInGpuboxFile"
    <3>1. disk[n].hdus = <<>>
      BY <1>6, <2>1 DEF IsTrueOf
    <3>2. ~\E h \in DOMAIN Contents[n].hdus : TRUE
      BY <1>1, <3>1 DEF IsLater
    <3>3. Contents[n].hdus = <<>>
      BY <1>1, <3>2, HdusAreTimes
    <3>4. QED
      BY <2>1, <3>3 DEF IsTrueOfFile, IsTrueOf
  <2>2. CASE e = "Fits"
    <3>1. \/ ~disk[n].opens \/ NoTime \in ToSet(disk[n].hdus)
          \/ disk[n].format = "CorrMWAXv2" /\ disk[n].corrVer = 0
      BY <1>6, <2>2 DEF IsTrueOf
    <3>2. NoTime \in ToSet(disk[n].hdus) => NoTime \in ToSet(disk'[n].hdus)
      BY <1>1 DEF FileStep, ToSet
    <3>3. \/ ~disk'[n].opens \/ NoTime \in ToSet(disk'[n].hdus)
          \/ disk'[n].format = "CorrMWAXv2" /\ disk'[n].corrVer = 0
      BY <1>1, <3>1, <3>2 DEF FileStep
    <3>4. QED
      BY <2>2, <3>3 DEF IsTrueOfFile, IsTrueOf
  <2>3. CASE e # "NoDataHDUsInGpuboxFile" /\ e # "Fits"
    <3>1. PICK f : f = disk[n]
      OBVIOUS
    <3>2. IsTrueOf(e, f)'
      BY <1>4, <1>6, <3>1
    <3>3. /\ disk'[n].format = f.format /\ disk'[n].obsid = f.obsid /\ disk'[n].axes = f.axes
          /\ disk'[n].corrVer = f.corrVer
      BY <1>1, <3>1 DEF FileStep
    <3>4. IsTrueOf(e, disk[n])'
      BY <2>3, <3>2, <3>3 DEF IsTrueOf
    <3>5. QED
      BY <3>4 DEF IsTrueOfFile
  <2>4. QED
    BY <2>1, <2>2, <2>3
<1>7. QED
  BY <1>5, <1>6 DEF IsTrueOfFile

LEMMA RefusalIsTrue ==
  ASSUME FilesInv, RefuseNames \/ RefuseToIndex
  PROVE  \/ why' = "NoGpuboxes" /\ offered = <<>>
         \/ \E n \in Given : IsTrueOfFile(why', n)
<1>1. CASE RefuseNames
  <2>1. CASE offered = <<>> /\ ErrorIn("NoGpuboxes")
    BY <2>1 DEF ErrorIn
  <2>2. CASE \E i \in DOMAIN offered :
               /\ BadName(i) /\ \A j \in 1 .. i - 1 : ~BadName(j)
               /\ ErrorIn(IF disk[offered[i]].format = "none" THEN "Unrecognised" ELSE "Mixture")
    <3>1. PICK i \in DOMAIN offered :
            /\ BadName(i)
            /\ why' = IF disk[offered[i]].format = "none" THEN "Unrecognised" ELSE "Mixture"
      BY <2>2 DEF ErrorIn
    <3> DEFINE n == offered[i]
    <3>2. n \in Given /\ offered[1] \in Given
      BY GivenFiles DEF FilesInv
    <3>3. CASE disk[n].format = "none"
      <4>1. IsTrueOf("Unrecognised", disk[n])
        BY <3>3 DEF IsTrueOf
      <4>2. QED
        BY <3>1, <3>2, <3>3, <4>1 DEF IsTrueOfFile
    <3>4. CASE disk[n].format # "none"
      <4>1. disk[n].format # disk[offered[1]].format
        BY <3>1, <3>4 DEF BadName
      <4>2. IsTrueOf("Mixture", disk[n])
        BY <3>2, <4>1 DEF IsTrueOf, Given
      <4>3. QED
        BY <3>1, <3>2, <3>4, <4>2 DEF IsTrueOfFile
    <3>5. QED
      BY <3>3, <3>4
  <2>3. QED
    BY <1>1, <2>1, <2>2 DEF RefuseNames
<1>2. CASE RefuseToIndex
  <2>1. PICK i \in DOMAIN gpuboxes :
          /\ Index!Fault(disk[gpuboxes[i]], Format) # "none"
          /\ why' = IF Index!Fault(disk[gpuboxes[i]], Format) = "version"
                    THEN "MwaxCorrVerMismatch" ELSE "Fits"
    BY <1>2 DEF RefuseToIndex, ErrorIn
  <2> DEFINE n == gpuboxes[i]
             f == disk[n]
  <2>2. stage = "index"
    BY <1>2 DEF RefuseToIndex
  <2>3. n \in Given
    BY <2>2 DEF FilesInv, NamesInv, IsListOf, ToSet
  <2>4. f \in FileRecords /\ f.format = mwaVersion
    BY <2>2, <2>3, GivenFiles DEF FilesInv, DiskInv, NamesInv, IsLater
  <2>5. Format = "mwax" <=> f.format = "CorrMWAXv2"
    BY <2>4 DEF Format
  <2>6. f.opens \in BOOLEAN /\ f.corrVer \in 0 .. 2
    BY <2>4 DEF FileRecords
  <2>7. Index!Fault(f, Format) # "none"
    BY <2>1
  <2>8. why' = IF Index!Fault(f, Format) = "version" THEN "MwaxCorrVerMismatch" ELSE "Fits"
    BY <2>1
  <2> HIDE DEF f
  <2>9. CASE ~f.opens
    <3>1. Index!Fault(f, Format) = "fits"
      BY <2>9 DEF Index!Fault, Index!OpenFault
    <3>2. IsTrueOf("Fits", f)
      BY <2>9 DEF IsTrueOf
    <3>3. QED
      BY <2>3, <2>8, <3>1, <3>2 DEF IsTrueOfFile, f
  <2>10. CASE f.opens /\ Format = "mwax" /\ f.corrVer = 0
    <3>1. Index!Fault(f, Format) = "fits"
      BY <2>10 DEF Index!Fault, Index!OpenFault
    <3>2. IsTrueOf("Fits", f)
      BY <2>5, <2>10 DEF IsTrueOf
    <3>3. QED
      BY <2>3, <2>8, <3>1, <3>2 DEF IsTrueOfFile, f
  <2>11. CASE f.opens /\ Format = "mwax" /\ f.corrVer = 1
    <3>1. Index!Fault(f, Format) = "version"
      BY <2>11 DEF Index!Fault, Index!OpenFault
    <3>2. IsTrueOf("MwaxCorrVerMismatch", f)
      BY <2>5, <2>11 DEF IsTrueOf
    <3>3. QED
      BY <2>3, <2>8, <3>1, <3>2 DEF IsTrueOfFile, f
  <2>12. CASE f.opens /\ ~(Format = "mwax" /\ f.corrVer \in {0, 1})
    <3>1. Index!OpenFault(f, Format) = "none"
      BY <2>12 DEF Index!OpenFault
    <3>2. PICK h \in Index!DataHdus(f, Format) : f.hdus[h] = NoTime
      BY <2>7, <3>1 DEF Index!Fault
    <3>3. Index!Fault(f, Format) = "fits"
      BY <3>1, <3>2 DEF Index!Fault
    <3>4. NoTime \in ToSet(f.hdus)
      BY <3>2 DEF Index!DataHdus, ToSet
    <3>5. IsTrueOf("Fits", f)
      BY <3>4 DEF IsTrueOf
    <3>6. QED
      BY <2>3, <2>8, <3>3, <3>5 DEF IsTrueOfFile, f
  <2>13. QED
    BY <2>6, <2>9, <2>10, <2>11, <2>12
<1>3. QED
  BY <1>1, <1>2

LEMMA ExamineFaultIsTrue ==
  ASSUME FilesInv, stage = "examine", at \in DOMAIN batched, ExamineFault(disk[batched[at]]) # "none"
  PROVE  \E n \in Given : IsTrueOfFile(ExamineFault(disk[batched[at]]), n)
<1> DEFINE n == batched[at]
           f == disk[n]
<1>1. n \in Given /\ batched[1] \in Given
  BY DEF FilesInv, IndexInv, IsListOf, ToSet
<1>2. /\ f \in FileRecords
      /\ f.format = "CorrMWAXv2" <=> mwaVersion = "CorrMWAXv2"
      /\ f.format = "CorrMWAXv2" => f.corrVer = 2
  BY <1>1, GivenFiles DEF FilesInv, DiskInv, NamesInv, IsLater, IndexInv, PassedIndex
<1>3. f.opens \in BOOLEAN /\ f.corrVer \in 0 .. 2 /\ f.obsid \in {"same", "other", "missing"}
  BY <1>2 DEF FileRecords
<1> HIDE DEF f
<1>4. SUFFICES IsTrueOf(ExamineFault(f), f)
  BY <1>1 DEF IsTrueOfFile, f
<1>5. ExamineFault(f) # "none"
  BY DEF f
<1>6. CASE ~f.opens
  BY <1>6 DEF ExamineFault, IsTrueOf
<1>7. CASE f.opens /\ f.hdus = <<>>
  BY <1>7 DEF ExamineFault, IsTrueOf
<1>8. CASE f.opens /\ f.hdus # <<>> /\ Size(f.axes) # Size(disk[batched[1]].axes)
  <2>1. ExamineFault(f) = "UnequalHduSizes"
    BY <1>8 DEF ExamineFault
  <2>2. IsTrueOf("UnequalHduSizes", f)
    BY <1>1, <1>8 DEF IsTrueOf, Given
  <2>3. QED
    BY <2>1, <2>2
<1>9. CASE f.opens /\ f.hdus # <<>> /\ Size(f.axes) = Size(disk[batched[1]].axes)
  <2>1. ExamineFault(f) = IF VersionFault(f) # "none" THEN VersionFault(f) ELSE ObsidFault(f)
    BY <1>9 DEF ExamineFault
  <2>2. CASE mwaVersion # "CorrMWAXv2" /\ f.corrVer # 0
    <3>1. ExamineFault(f) = "CorrVerMismatch"
      BY <2>1, <2>2 DEF VersionFault
    <3>2. QED
      BY <1>2, <2>2, <3>1 DEF IsTrueOf
  <2>3. CASE ~(mwaVersion # "CorrMWAXv2" /\ f.corrVer # 0)
    <3>1. VersionFault(f) = "none"
      BY <1>2, <2>3 DEF VersionFault
    <3>2. ExamineFault(f) = ObsidFault(f)
      BY <2>1, <3>1
    <3>3. CASE f.obsid = "missing"
      BY <3>2, <3>3 DEF ObsidFault, IsTrueOf
    <3>4. CASE f.obsid = "other"
      BY <3>2, <3>4 DEF ObsidFault, IsTrueOf
    <3>5. f.obsid # "same"
      BY <1>5, <3>2 DEF ObsidFault
    <3>6. QED
      BY <1>3, <3>3, <3>4, <3>5
  <2>4. QED
    BY <2>2, <2>3
<1>10. QED
  BY <1>3, <1>6, <1>7, <1>8, <1>9

LEMMA AllExamined ==
  ASSUME FilesInv, stage = "examine", at \notin DOMAIN batched
  PROVE  \A n \in Given : PassedExamine(n)
<1>1. SUFFICES ASSUME NEW n \in Given PROVE PassedExamine(n)
  OBVIOUS
<1>2. PICK i \in DOMAIN batched : batched[i] = n
  BY DEF FilesInv, IndexInv, IsListOf, ToSet
<1>3. i < at
  BY DEF FilesInv, IndexInv, IsListOf, ExaminedInv
<1>4. QED
  BY <1>2, <1>3 DEF FilesInv, ExaminedInv

\* The unwraps of the constructor.
PanicIsExplained ==
  \/ \E n \in Given : ChanOf(n) \notin KnownChans
  \/ MapTimes = {} /\ \E n \in Given : Changed(n, "grown")

LEMMA UnwrapsExplained ==
  ASSUME FilesInv, PopulateProvided, stage' = "panic"
  PROVE  PanicIsExplained
<1>1. stage = "examine" /\ at \notin DOMAIN batched
  BY DEF PopulateProvided
<1>2. MapInv /\ \A n \in Given : PassedExamine(n) /\ PassedIndex(n)
  BY <1>1, AllExamined DEF FilesInv, IndexInv
<1>3. CASE MapTimes = {}
  <2>1. PICK n \in Given : TRUE
    BY <1>1, GivenFiles DEF FilesInv, DiskInv, NamesInv
  <2>2. 1 \in DOMAIN disk[n].hdus
    <3>1. disk[n] \in FileRecords /\ disk[n].hdus # <<>>
      BY <1>2, <2>1, GivenFiles DEF PassedExamine, FilesInv
    <3>2. QED
      BY <3>1, HdusAreTimes
  <2>3. 1 \in Index!DataHdus(disk[n], Format)
    BY <2>2 DEF Index!DataHdus
  <2>4. ~HasKeys(n)
    <3>1. SUFFICES ASSUME HasKeys(n) PROVE FALSE
      OBVIOUS
    <3>2. <<disk[n].hdus[1], ChanOf(n)>> \in DOMAIN timeMap
      BY <2>3, <3>1 DEF HasKeys
    <3>3. <<disk[n].hdus[1], ChanOf(n)>>[1] \in MapTimes
      BY <3>2 DEF MapTimes
    <3>4. QED
      BY <1>3, <3>3
  <2>5. Changed(n, "grown")
    BY <1>2, <2>4 DEF MapInv
  <2>6. QED
    BY <1>3, <2>5 DEF PanicIsExplained
<1>4. CASE MapTimes # {}
  <2>1. ~(MapChans \subseteq ToSet(CoarseChans))
    BY <1>4 DEF PopulateProvided
  <2>2. PICK k \in DOMAIN timeMap : k[2] \notin ToSet(CoarseChans)
    BY <2>1 DEF MapChans
  <2>3. PICK n \in Given : ChanOf(n) = k[2]
    BY <1>2 DEF MapInv, LeadsToData
  <2>4. ChanOf(n) \notin KnownChans
    BY <2>2, <2>3, CoarseChansOnce
  <2>5. QED
    BY <2>4 DEF PanicIsExplained
<1>5. QED
  BY <1>3, <1>4

ErrorIsTrue == (why = "NoGpuboxes" /\ offered = <<>>) \/ \E n \in Given : IsTrueOfFile(why, n)

LEMMA ReasonNext ==
  ASSUME FilesInv, DecidesForAReason, [Next]_vars
  PROVE  DecidesForAReason'
<1>1. /\ DecidesForAReason <=> (stage = "error" => ErrorIsTrue) /\ (stage = "panic" => PanicIsExplained)
      /\ DecidesForAReason' <=> (stage' = "error" => ErrorIsTrue') /\ (stage' = "panic" => PanicIsExplained')
  BY DEF DecidesForAReason, ErrorIsTrue, PanicIsExplained, IsTrueOfFile, Given
<1>2. DiskInv /\ offered' = offered /\ Given' = Given
  BY AnyStep DEF FilesInv, Given
<1>3. ASSUME mwaVersion' = mwaVersion, NEW e, e = why', \E n \in Given : IsTrueOfFile(e, n)
      PROVE  ErrorIsTrue'
  BY <1>2, <1>3, TrueStays DEF ErrorIsTrue
<1>4. ASSUME mwaVersion' = mwaVersion, timeMap' = timeMap, PanicIsExplained
      PROVE  PanicIsExplained'
  <2>1. MapTimes' = MapTimes /\ KnownChans' = KnownChans
    BY <1>4 DEF MapTimes, KnownChans
  <2>2. \A n \in Given : /\ ChanOf(n)' = ChanOf(n)
                         /\ Changed(n, "grown") => Changed(n, "grown")'
    BY <1>2, AnyStep DEF FileStep, ChanOf
  <2>3. QED
    BY <1>2, <1>4, <2>1, <2>2 DEF PanicIsExplained
<1>5. ASSUME UNCHANGED <<stage, why, mwaVersion, timeMap>> PROVE DecidesForAReason'
  <2>1. CASE stage = "error"
    <3>1. ErrorIsTrue
      BY <1>1, <2>1
    <3>2. CASE why = "NoGpuboxes" /\ offered = <<>>
      BY <1>1, <1>2, <1>5, <2>1, <3>2 DEF ErrorIsTrue
    <3>3. CASE \E n \in Given : IsTrueOfFile(why, n)
      <4>1. PICK e : e = why
        OBVIOUS
      <4>2. ErrorIsTrue'
        BY <1>3, <1>5, <3>3, <4>1
      <4>3. QED
        BY <1>1, <1>5, <2>1, <4>2
    <3>4. QED
      BY <3>1, <3>2, <3>3 DEF ErrorIsTrue
  <2>2. CASE stage = "panic"
    BY <1>1, <1>4, <1>5, <2>2
  <2>3. CASE stage \notin {"error", "panic"}
    BY <1>1, <1>5, <2>3
  <2>4. QED
    BY <2>1, <2>2, <2>3
<1>6. ASSUME stage' \notin {"error", "panic"} PROVE DecidesForAReason'
  BY <1>1, <1>6
<1>7. CASE RefuseNames \/ RefuseToIndex
  <2>1. stage' = "error" /\ mwaVersion' = mwaVersion
    BY <1>7, Refused DEF Built
  <2>2. CASE why' = "NoGpuboxes" /\ offered = <<>>
    BY <1>1, <1>2, <2>1, <2>2 DEF ErrorIsTrue
  <2>3. CASE \E n \in Given : IsTrueOfFile(why', n)
    <3>1. PICK e : e = why'
      OBVIOUS
    <3>2. ErrorIsTrue'
      BY <1>3, <2>1, <2>3, <3>1
    <3>3. QED
      BY <1>1, <2>1, <3>2
  <2>4. QED
    BY <1>7, <2>2, <2>3, RefusalIsTrue
<1>8. CASE ExamineFile
  <2>1. PICK e : e = ExamineFault(disk[batched[at]])
    OBVIOUS
  <2>2. /\ stage = "examine" /\ at \in DOMAIN batched /\ mwaVersion' = mwaVersion
        /\ e = "none" => stage' = stage
        /\ e # "none" => stage' = "error" /\ why' = e
    <3>1. UNCHANGED Built
      BY <1>8 DEF ExamineFile
    <3>2. QED
      BY <1>8, <2>1, <3>1 DEF ExamineFile, ErrorIn, Built
  <2>3. CASE e = "none"
    BY <1>6, <2>2, <2>3
  <2>4. CASE e # "none"
    <3>1. \E n \in Given : IsTrueOfFile(e, n)
      BY <2>1, <2>2, <2>4, ExamineFaultIsTrue
    <3>2. ErrorIsTrue'
      BY <1>3, <2>2, <2>4, <3>1
    <3>3. QED
      BY <1>1, <2>2, <2>4, <3>2
  <2>5. QED
    BY <2>3, <2>4
<1>9. CASE ValidateFile
  <2> DEFINE n == offered[at]
  <2>1. /\ stage = "validate" /\ at \in DOMAIN offered /\ UNCHANGED Built
        /\ \/ stage' = stage
           \/ stage' = "error" /\ why' = "Fits" /\ ~disk[n].opens
           \/ stage' = "error" /\ why' = "NaxisMismatch" /\ disk[n].axes # MetafitsAxes
    BY <1>9 DEF ValidateFile, ErrorIn
  <2>2. n \in Given /\ mwaVersion' = mwaVersion
    BY <1>2, <2>1, GivenFiles DEF Built
  <2>3. CASE stage' = stage
    BY <1>6, <2>1, <2>3
  <2>4. CASE stage' = "error" /\ why' = "Fits" /\ ~disk[n].opens
    <3>1. IsTrueOfFile("Fits", n)
      BY <2>4 DEF IsTrueOfFile, IsTrueOf
    <3>2. ErrorIsTrue'
      BY <1>3, <2>2, <2>4, <3>1
    <3>3. QED
      BY <1>1, <2>4, <3>2
  <2>5. CASE stage' = "error" /\ why' = "NaxisMismatch" /\ disk[n].axes # MetafitsAxes
    <3>1. IsTrueOfFile("NaxisMismatch", n)
      BY <2>5 DEF IsTrueOfFile, IsTrueOf
    <3>2. ErrorIsTrue'
      BY <1>3, <2>2, <2>5, <3>1
    <3>3. QED
      BY <1>1, <2>5, <3>2
  <2>6. QED
    BY <2>1, <2>3, <2>4, <2>5
<1>10. CASE PopulateProvided
  <2>1. stage' \in {"validate", "panic"} /\ UNCHANGED <<mwaVersion, timeMap>>
    BY <1>10 DEF PopulateProvided
  <2>2. CASE stage' = "panic"
    BY <1>1, <1>4, <1>10, <2>1, <2>2, UnwrapsExplained
  <2>3. QED
    BY <1>6, <2>1, <2>2
<1>11. CASE DetermineBatches \/ CreateTimeMap \/ DetermineCommon
  BY <1>6, <1>11 DEF DetermineBatches, CreateTimeMap, DetermineCommon
<1>12. CASE Read \/ Vanish \/ Grow \/ UNCHANGED vars
  BY <1>5, <1>12 DEF Read, Vanish, Grow, vars, Built
<1>13. QED
  BY <1>7, <1>8, <1>9, <1>10, <1>11, <1>12 DEF Next, Build

\* An error names what is wrong with one of the files, and an unwrap panics only
\* for a file of a channel the metafits lacks or for files given data meanwhile,
\* however many files there are and whatever others do to them.
THEOREM RefusalsAreTrue == Spec => []DecidesForAReason
<1>1. Init => DecidesForAReason
  BY DEF Init, DecidesForAReason
<1>2. FilesInv /\ DecidesForAReason /\ [Next]_vars => DecidesForAReason'
  BY ReasonNext
<1>3. QED
  BY <1>1, <1>2, FilesInvariant, PTL DEF Spec

-----------------------------------------------------------------------------
(* The loop that numbers the channels: CoarseChannels.                     *)

\* As many as there are numbers up to n.
LEMMA UpTo ==
  ASSUME NEW n \in Nat
  PROVE  IsFiniteSet(1 .. n) /\ Cardinality(1 .. n) = n
<1>1. (1 > n => n = 0) /\ n \in Int /\ 1 \in Int /\ n - 1 + 1 = n
  OBVIOUS
<1>2. /\ IsFiniteSet(1 .. n)
      /\ Cardinality(1 .. n) = IF 1 > n THEN 0 ELSE n - 1 + 1
  BY <1>1, FS_Interval
<1>3. (IF 1 > n THEN 0 ELSE n - 1 + 1) = n
  BY <1>1
<1>4. QED
  BY <1>2, <1>3

\* Number and index of the j-th channel of a list; where the first over 128 is.
First(s) == CHOOSE f \in DOMAIN s : s[f] > 128 /\ \A j \in 1 .. f - 1 : s[j] <= 128
Corr(v, s, j) ==
  IF v \in Legacy /\ s[j] > 128 THEN Len(s) - 1 - (j - First(s)) ELSE j - 1
Number(v, s, g, w, j) ==
  IF v \in Legacy /\ (g.given \/ (~w.given /\ v \in LegacyCorr))
    THEN Corr(v, s, j) + 1 ELSE s[j]

\* The channels kept of the first n of a list.
Kept(v, s, g, w, j) ==
  /\ g.given => Number(v, s, g, w, j) \in g.chans
  /\ w.given => Number(v, s, g, w, j) \in w.chans
Channel(v, s, g, w, j) == CoarseChannel(Corr(v, s, j), s[j], Number(v, s, g, w, j))
ChannelsKept(v, s, g, w, n) == {Channel(v, s, g, w, j) : j \in {k \in 1 .. n : Kept(v, s, g, w, k)}}

\* The first channel over 128, when there is one.
LEMMA FirstIsFirst ==
  ASSUME NEW s \in Seq(Nat), NEW j \in DOMAIN s, s[j] > 128
  PROVE  /\ First(s) \in 1 .. j /\ s[First(s)] > 128
         /\ \A k \in 1 .. First(s) - 1 : s[k] <= 128
         /\ \A f \in DOMAIN s : s[f] > 128 /\ (\A k \in 1 .. f - 1 : s[k] <= 128) => f = First(s)
<1> DEFINE Over == {k \in 1 .. Len(s) : s[k] > 128}
<1>1. Over \in SUBSET Nat /\ Over # {} /\ \A k \in 1 .. Len(s) : s[k] \in Nat
  OBVIOUS
<1>2. PICK f \in Over : \A k \in Over : f <= k
  BY <1>1, LeastExists
<1>3. f \in DOMAIN s /\ s[f] > 128 /\ \A k \in 1 .. f - 1 : s[k] <= 128
  <2>1. f \in 1 .. Len(s) /\ s[f] > 128
    BY <1>2
  <2>2. ASSUME NEW k \in 1 .. f - 1 PROVE s[k] <= 128
    <3>1. k \in 1 .. Len(s) /\ ~(f <= k)
      BY <2>1
    <3>2. k \notin Over /\ s[k] \in Nat
      BY <1>1, <1>2, <3>1
    <3>3. ~(s[k] > 128)
      BY <3>1, <3>2
    <3>4. QED
      BY <3>2, <3>3
  <2>3. QED
    BY <2>1, <2>2
<1>4. \A g \in DOMAIN s : s[g] > 128 /\ (\A k \in 1 .. g - 1 : s[k] <= 128) => g = f
  <2>1. TAKE g \in DOMAIN s
  <2>2. SUFFICES ASSUME s[g] > 128, \A k \in 1 .. g - 1 : s[k] <= 128 PROVE g = f
    OBVIOUS
  <2>3. g \in Over /\ f <= g
    BY <1>2, <2>2
  <2>4. g \in Nat /\ f \in Nat /\ f >= 1 /\ s[f] \in Nat /\ s[f] > 128
    BY <1>1, <1>3
  <2>5. ~(f < g)
    <3>1. f < g => f \in 1 .. g - 1
      BY <2>4
    <3>2. f < g => s[f] <= 128
      BY <2>2, <3>1
    <3>3. QED
      BY <2>4, <3>2
  <2>6. QED
    BY <2>3, <2>4, <2>5
<1> HIDE DEF Over
<1>5. First(s) = f
  BY <1>3, <1>4 DEF First
<1>6. f <= j
  BY <1>2 DEF Over
<1>7. QED
  BY <1>3, <1>4, <1>5, <1>6

\* As many channels as places.
LEMMA Counted ==
  ASSUME NEW s \in Seq(Nat), Ascending(s), NEW J \in SUBSET DOMAIN s
  PROVE  /\ IsFiniteSet(J)
         /\ Cardinality({s[k] : k \in J}) = Cardinality(J)
<1> DEFINE T == {s[k] : k \in J}
           f == [k \in J |-> s[k]]
<1>1. IsFiniteSet(J)
  <2>1. IsFiniteSet(1 .. Len(s))
    BY FS_Interval
  <2>2. J \in SUBSET (1 .. Len(s))
    OBVIOUS
  <2>3. QED
    BY <2>1, <2>2, FS_Subset
<1>2. \A j, k \in J : s[j] = s[k] => j = k
  <2>1. TAKE j \in J, k \in J
  <2>2. j \in 1 .. Len(s) /\ k \in 1 .. Len(s) /\ s[j] \in Nat /\ s[k] \in Nat
    OBVIOUS
  <2>3. (j < k => s[j] < s[k]) /\ (k < j => s[k] < s[j])
    BY DEF Ascending
  <2>4. QED
    BY <2>2, <2>3
<1>3. f \in Surjection(J, T) /\ f \in Injection(J, T)
  BY <1>2 DEF Surjection, Injection, IsInjective
<1> HIDE DEF T, f
<1>4. Cardinality(T) = Cardinality(J)
  BY <1>1, <1>3, FS_Surjection
<1>5. QED
  BY <1>1, <1>4 DEF T

\* An ascending list is numbered as the legacy correlator does.
LEMMA LegacyNumbers ==
  ASSUME NEW s \in Seq(Nat), Ascending(s), NEW j \in DOMAIN s, NEW v \in Legacy
  PROVE  GpuboxOf(TRUE, Range(s), s[j]) = Corr(v, s, j) + 1
<1> DEFINE n == Len(s)
<1>1. n \in Nat /\ j \in 1 .. n /\ DOMAIN s = 1 .. n /\ \A k \in 1 .. n : s[k] \in Nat
  OBVIOUS
<1>2. \A k, l \in 1 .. n : k < l <=> s[k] < s[l]
  <2>1. TAKE k \in 1 .. n, l \in 1 .. n
  <2>2. (k < l => s[k] < s[l]) /\ (l < k => s[l] < s[k]) /\ s[k] \in Nat /\ s[l] \in Nat
    BY <1>1 DEF Ascending
  <2>3. QED
    BY <2>2
<1>3. CASE s[j] <= 128
  <2>1. {d \in Range(s) : d <= s[j]} = {s[k] : k \in 1 .. j}
    <3>1. \A k \in 1 .. n : s[k] <= s[j] <=> k \in 1 .. j
      BY <1>1, <1>2
    <3>2. QED
      BY <1>1, <3>1 DEF Range
  <2>2. 1 .. j \in SUBSET DOMAIN s
    BY <1>1
  <2>3. Cardinality({s[k] : k \in 1 .. j}) = Cardinality(1 .. j)
    BY <2>2, Counted
  <2>4. Cardinality(1 .. j) = j
    BY <1>1, UpTo
  <2>5. Corr(v, s, j) = j - 1
    BY <1>1, <1>3 DEF Corr
  <2>6. GpuboxOf(TRUE, Range(s), s[j]) = Cardinality({d \in Range(s) : d <= s[j]})
    BY <1>3 DEF GpuboxOf
  <2>7. j = (j - 1) + 1
    BY <1>1
  <2>8. QED
    BY <2>1, <2>3, <2>4, <2>5, <2>6, <2>7
<1>4. CASE s[j] > 128
  <2> DEFINE f == First(s)
             A == 1 .. f - 1
             B == j .. n
  <2>1. f \in 1 .. j /\ s[f] > 128 /\ \A k \in 1 .. f - 1 : s[k] <= 128
    BY <1>4, FirstIsFirst
  <2> HIDE DEF f
  <2>2. {d \in Range(s) : d <= 128 \/ d >= s[j]} = {s[k] : k \in A \cup B}
    <3>1. \A k \in 1 .. n : s[k] <= 128 <=> k \in A
      BY <1>1, <1>2, <2>1
    <3>2. \A k \in 1 .. n : s[k] >= s[j] <=> k \in B
      BY <1>1, <1>2
    <3>3. A \cup B \subseteq 1 .. n
      BY <1>1, <2>1
    <3> HIDE DEF A, B
    <3>4. QED
      BY <1>1, <3>1, <3>2, <3>3 DEF Range
  <2>3. A \cup B \in SUBSET DOMAIN s
    BY <1>1, <2>1
  <2>4. Cardinality(A \cup B) = n - j + f
    <3>1. IsFiniteSet(A) /\ Cardinality(A) = f - 1
      <4>1. f - 1 \in Nat
        BY <1>1, <2>1
      <4>2. QED
        BY <4>1, UpTo
    <3>2. IsFiniteSet(B) /\ Cardinality(B) = n - j + 1
      <4>1. n \in Int /\ j \in Int /\ ~(j > n)
        BY <1>1
      <4>2. QED
        BY <4>1, FS_Interval
    <3>3. Cardinality(A \cap B) = 0
      <4>1. A \cap B = {}
        BY <1>1, <2>1
      <4>2. QED
        BY <4>1, FS_EmptySet
    <3> HIDE DEF A, B
    <3>4. Cardinality(A \cup B) = Cardinality(A) + Cardinality(B) - Cardinality(A \cap B)
      BY <3>1, <3>2, FS_Union
    <3>5. QED
      BY <1>1, <2>1, <3>1, <3>2, <3>3, <3>4
  <2>5. Corr(v, s, j) = n - 1 - (j - f)
    BY <1>4 DEF Corr, f
  <2> HIDE DEF A, B
  <2>6. Cardinality({s[k] : k \in A \cup B}) = n - j + f
    BY <2>3, <2>4, Counted
  <2>7. ~(s[j] <= 128) /\ f \in Nat
    BY <1>1, <1>4, <2>1
  <2>8. GpuboxOf(TRUE, Range(s), s[j])
          = Cardinality({d \in Range(s) : d <= 128 \/ d >= s[j]})
    BY <2>7 DEF GpuboxOf
  <2>9. n - j + f = (n - 1 - (j - f)) + 1
    BY <1>1, <2>7
  <2>10. QED
    BY <2>2, <2>5, <2>6, <2>8, <2>9
<1>5. s[j] <= 128 \/ s[j] > 128
  <2>1. s[j] \in Nat
    BY <1>1
  <2>2. QED
    BY <2>1
<1>6. QED
  BY <1>3, <1>4, <1>5

\* A channel that is kept is the last of a longer list.
LEMMA AppendAdds ==
  ASSUME NEW S, NEW s \in Seq(S), NEW e \in S
  PROVE  /\ Append(s, e) \in Seq(S) /\ Len(Append(s, e)) = Len(s) + 1
         /\ Range(Append(s, e)) = Range(s) \cup {e}
<1>1. DOMAIN s = 1 .. Len(s) /\ Len(s) \in Nat
  OBVIOUS
<1>2. /\ Append(s, e) \in Seq(S) /\ Len(Append(s, e)) = Len(s) + 1
      /\ DOMAIN Append(s, e) = 1 .. Len(s) + 1
      /\ \A k \in 1 .. Len(s) : Append(s, e)[k] = s[k]
      /\ Append(s, e)[Len(s) + 1] = e
  OBVIOUS
<1> DEFINE t == Append(s, e)
           n == Len(s)
<1> HIDE DEF t, n
<1>3. {t[k] : k \in 1 .. n + 1} = {s[k] : k \in 1 .. n} \cup {e}
  <2>1. \A k \in 1 .. n + 1 : k \in 1 .. n \/ k = n + 1
    BY <1>1 DEF n
  <2>2. \A k \in 1 .. n : k \in 1 .. n + 1
    BY <1>1 DEF n
  <2>3. n + 1 \in 1 .. n + 1
    BY <1>1 DEF n
  <2>4. (\A k \in 1 .. n : t[k] = s[k]) /\ t[n + 1] = e
    BY <1>2 DEF t, n
  <2>5. QED
    BY <2>1, <2>2, <2>3, <2>4
<1>4. QED
  BY <1>1, <1>2, <1>3 DEF Range, t, n

\* The channels kept of one more of a list.
LEMMA OneMore ==
  ASSUME NEW v, NEW s, NEW g, NEW w, NEW n \in Nat
  PROVE  ChannelsKept(v, s, g, w, n + 1)
           = ChannelsKept(v, s, g, w, n)
               \cup (IF Kept(v, s, g, w, n + 1) THEN {Channel(v, s, g, w, n + 1)} ELSE {})
<1>1. 1 .. n + 1 = (1 .. n) \cup {n + 1}
  OBVIOUS
<1> DEFINE A == 1 .. n
           B == 1 .. n + 1
           last == n + 1
<1>2. B = A \cup {last}
  BY <1>1
<1> HIDE DEF A, B, last
<1>3. {Channel(v, s, g, w, j) : j \in {k \in B : Kept(v, s, g, w, k)}}
        = {Channel(v, s, g, w, j) : j \in {k \in A : Kept(v, s, g, w, k)}}
            \cup (IF Kept(v, s, g, w, last) THEN {Channel(v, s, g, w, last)} ELSE {})
  BY <1>2
<1>4. QED
  BY <1>3 DEF ChannelsKept, A, B, last

maps == <<version, recs, gpuboxMap, voltageMap>>

\* All channels of the list; what the loop has kept of those it has looked at.
Listed == {Channel(version, recs, gpuboxMap, voltageMap, j) : j \in DOMAIN recs}
SoFar == ChannelsKept(version, recs, gpuboxMap, voltageMap, element - 1)

LoopInv ==
  /\ recs \in Seq(Nat) /\ version \in MwaVersions
  /\ pc \in {"loop", "ok", "err"} /\ element \in 1 .. Len(recs) + 1
  /\ coarse \in Seq(Listed) /\ Range(coarse) = SoFar
  /\ ~voltageMap.given /\ ~gpuboxMap.given => Len(coarse) = element - 1
  /\ voltageMap.given /\ gpuboxMap.given => coarse = <<>>
  /\ version \in Legacy =>
       firstOver = IF \E j \in 1 .. element - 1 : recs[j] > 128 THEN First(recs) ELSE 0
  /\ pc = "ok" =>
       /\ element = Len(recs) + 1 /\ ~(gpuboxMap.given /\ voltageMap.given)
       /\ \A j, k \in DOMAIN coarse : j < k => coarse[j].rec < coarse[k].rec

LEMMA LoopInit == InitSelect => LoopInv
<1> SUFFICES ASSUME InitSelect PROVE LoopInv
  OBVIOUS
<1>1. recs \in Seq(Nat) /\ version \in MwaVersions
  <2>1. recs \in UNION {[1 .. m -> ReceiverChans] : m \in 0 .. MaxChans} /\ version \in MwaVersions
    BY DEF InitSelect, RecLists, BoundedSeq, SeqOf
  <2>2. MaxChans \in Nat
    BY ReceiverAssumption
  <2>3. PICK m \in 0 .. MaxChans : recs \in [1 .. m -> ReceiverChans]
    BY <2>1
  <2>4. m \in Nat
    BY <2>2
  <2>5. ReceiverChans \subseteq Nat
    BY ReceiverAssumption
  <2>6. recs \in [1 .. m -> Nat]
    BY <2>3, <2>5
  <2>7. QED
    BY <2>1, <2>4, <2>6
<1>2. element = 1 /\ firstOver = 0 /\ coarse = <<>> /\ pc = "loop"
  BY DEF InitSelect
<1>3. SoFar = {}
  <2>1. {k \in 1 .. element - 1 : Kept(version, recs, gpuboxMap, voltageMap, k)} = {}
    BY <1>2
  <2>2. QED
    BY <2>1 DEF SoFar, ChannelsKept
<1>4. coarse \in Seq(Listed) /\ Range(coarse) = {} /\ Len(coarse) = 0
  BY <1>2 DEF Range
<1>5. element \in 1 .. Len(recs) + 1 /\ ~\E j \in 1 .. element - 1 : recs[j] > 128
  <2>1. Len(recs) \in Nat
    BY <1>1
  <2>2. QED
    BY <1>2, <2>1
<1>6. QED
  BY <1>1, <1>2, <1>3, <1>4, <1>5 DEF LoopInv

\* What a step keeps is the channel that it looks at, if the map has it.
LEMMA KeepsChannel ==
  ASSUME LoopInv, pc = "loop", element \in DOMAIN recs,
         NEW corr, corr = Corr(version, recs, element),
         NEW inGpubox, NEW inMetafits, Keep(corr, recs[element], inGpubox, inMetafits),
         gpuboxMap.given => inGpubox = Number(version, recs, gpuboxMap, voltageMap, element),
         ~gpuboxMap.given /\ voltageMap.given =>
           recs[element] = Number(version, recs, gpuboxMap, voltageMap, element),
         ~gpuboxMap.given /\ ~voltageMap.given =>
           inMetafits = Number(version, recs, gpuboxMap, voltageMap, element)
  PROVE  /\ coarse' \in Seq(Listed)
         /\ Range(coarse') = ChannelsKept(version, recs, gpuboxMap, voltageMap, element)
         /\ ~voltageMap.given /\ ~gpuboxMap.given => Len(coarse') = element
<1> DEFINE kept == Kept(version, recs, gpuboxMap, voltageMap, element)
           channel == Channel(version, recs, gpuboxMap, voltageMap, element)
           number == Number(version, recs, gpuboxMap, voltageMap, element)
<1>1. coarse' = IF kept THEN Append(coarse, channel) ELSE coarse
  <2>1. number = IF gpuboxMap.given THEN inGpubox
                 ELSE IF voltageMap.given THEN recs[element] ELSE inMetafits
    OBVIOUS
  <2> HIDE DEF number
  <2>2. coarse' = IF /\ gpuboxMap.given => number \in gpuboxMap.chans
                     /\ voltageMap.given => number \in voltageMap.chans
                    THEN Append(coarse, CoarseChannel(corr, recs[element], number))
                    ELSE coarse
    BY <2>1 DEF Keep
  <2>3. QED
    BY <2>2 DEF number, Kept, Channel
<1>2. channel \in Listed
  BY DEF Listed
<1>3. coarse \in Seq(Listed) /\ Range(coarse) = SoFar
  BY DEF LoopInv
<1>4. element \in Nat /\ element - 1 \in Nat /\ (element - 1) + 1 = element
  BY DEF LoopInv
<1>5. ChannelsKept(version, recs, gpuboxMap, voltageMap, element)
        = SoFar \cup (IF kept THEN {channel} ELSE {})
  <2> DEFINE before == element - 1
  <2>1. before \in Nat /\ before + 1 = element
    BY <1>4
  <2> HIDE DEF before
  <2>2. ChannelsKept(version, recs, gpuboxMap, voltageMap, before + 1)
          = ChannelsKept(version, recs, gpuboxMap, voltageMap, before)
              \cup (IF Kept(version, recs, gpuboxMap, voltageMap, before + 1)
                      THEN {Channel(version, recs, gpuboxMap, voltageMap, before + 1)} ELSE {})
    BY <2>1, OneMore
  <2>3. QED
    BY <2>1, <2>2 DEF SoFar, before
<1>6. ~voltageMap.given /\ ~gpuboxMap.given => kept /\ Len(coarse) + 1 = element
  BY <1>4 DEF LoopInv, Kept
<1> HIDE DEF kept, channel
<1>7. CASE kept
  BY <1>1, <1>2, <1>3, <1>5, <1>6, <1>7, AppendAdds
<1>8. CASE ~kept
  BY <1>1, <1>3, <1>5, <1>6, <1>8
<1>9. QED
  BY <1>7, <1>8

\* The index a legacy step gives is the one counted from the first over 128.
LEMMA LegacyIndex ==
  ASSUME LoopInv, version \in Legacy, element \in DOMAIN recs,
         NEW over, over = IF recs[element] > 128 /\ firstOver = 0 THEN element ELSE firstOver
  PROVE  /\ (IF recs[element] > 128 THEN Reversed(over) ELSE element - 1)
              = Corr(version, recs, element)
         /\ over = IF \E j \in 1 .. element : recs[j] > 128 THEN First(recs) ELSE 0
<1>1. /\ recs \in Seq(Nat) /\ element \in 1 .. Len(recs) /\ DOMAIN recs = 1 .. Len(recs)
      /\ \A j \in 1 .. Len(recs) : recs[j] \in Nat
  <2>1. recs \in Seq(Nat)
    BY DEF LoopInv
  <2>2. QED
    BY <2>1
<1>2. firstOver = IF \E j \in 1 .. element - 1 : recs[j] > 128 THEN First(recs) ELSE 0
  BY DEF LoopInv
<1>3. CASE \E j \in 1 .. element - 1 : recs[j] > 128
  <2>1. PICK j \in 1 .. element - 1 : recs[j] > 128
    BY <1>3
  <2>2. j \in DOMAIN recs /\ j \in 1 .. element
    BY <1>1
  <2>3. First(recs) \in 1 .. j
    BY <1>1, <2>1, <2>2, FirstIsFirst
  <2>4. over = First(recs)
    BY <1>2, <1>3, <2>3
  <2>5. QED
    BY <2>1, <2>2, <2>4 DEF Reversed, Corr
<1>4. CASE ~(\E j \in 1 .. element - 1 : recs[j] > 128) /\ recs[element] > 128
  <2>1. over = element
    BY <1>2, <1>4
  <2>2. \A k \in 1 .. element - 1 : recs[k] <= 128
    <3>1. TAKE k \in 1 .. element - 1
    <3>2. recs[k] \in Nat /\ ~(recs[k] > 128)
      BY <1>1, <1>4
    <3>3. QED
      BY <3>2
  <2>3. element = First(recs)
    BY <1>1, <1>4, <2>2, FirstIsFirst
  <2>4. element \in 1 .. element
    BY <1>1
  <2>5. QED
    BY <1>4, <2>1, <2>3, <2>4 DEF Reversed, Corr
<1>5. CASE ~(\E j \in 1 .. element - 1 : recs[j] > 128) /\ ~(recs[element] > 128)
  <2>1. over = 0
    BY <1>2, <1>5
  <2>2. ~\E j \in 1 .. element : recs[j] > 128
    BY <1>1, <1>5
  <2>3. QED
    BY <1>5, <2>1, <2>2 DEF Corr
<1>6. QED
  BY <1>3, <1>4, <1>5

\* What only changes the place in the list, or the result, keeps the rest.
\* A step of the loop leaves it at the next element.
LEMMA LoopStep ==
  ASSUME LoopInv, pc = "loop", element \in DOMAIN recs,
         ~(gpuboxMap.given /\ voltageMap.given),
         UNCHANGED <<version, recs, gpuboxMap, voltageMap, pc>>, element' = element + 1,
         coarse' \in Seq(Listed),
         Range(coarse') = ChannelsKept(version, recs, gpuboxMap, voltageMap, element),
         ~voltageMap.given /\ ~gpuboxMap.given => Len(coarse') = element,
         version \in Legacy =>
           firstOver' = IF \E j \in 1 .. element : recs[j] > 128 THEN First(recs) ELSE 0
  PROVE  LoopInv'
<1>1. /\ version' = version /\ recs' = recs /\ gpuboxMap' = gpuboxMap
      /\ voltageMap' = voltageMap /\ pc' = "loop"
  OBVIOUS
<1>2. /\ recs \in Seq(Nat) /\ version \in MwaVersions /\ Len(recs) \in Nat
      /\ element \in 1 .. Len(recs)
  BY DEF LoopInv
<1>3. element' \in 1 .. Len(recs) + 1 /\ element' - 1 = element
  BY <1>2
<1>4. Listed' = Listed
  BY <1>1 DEF Listed
<1>5. SoFar' = ChannelsKept(version, recs, gpuboxMap, voltageMap, element)
  BY <1>1, <1>3 DEF SoFar
<1>6. QED
  BY <1>1, <1>2, <1>3, <1>4, <1>5 DEF LoopInv

LEMMA LoopNext == LoopInv /\ [NextSelect]_selectVars => LoopInv'
<1> SUFFICES ASSUME LoopInv, [NextSelect]_selectVars PROVE LoopInv'
  OBVIOUS
<1>1. /\ recs \in Seq(Nat) /\ version \in MwaVersions /\ Len(recs) \in Nat
      /\ DOMAIN recs = 1 .. Len(recs) /\ element \in 1 .. Len(recs) + 1
      /\ element \in Nat /\ element - 1 \in Nat /\ (element + 1) - 1 = element
      /\ coarse \in Seq(Listed) /\ Range(coarse) = SoFar
  BY DEF LoopInv
<1>2. CASE BothMaps
  BY <1>2 DEF BothMaps, inputs, LoopInv, SoFar, Listed
<1>3. CASE StepLegacy
  <2> DEFINE corr == IF recs[element] > 128 THEN Reversed(firstOver') ELSE element - 1
  <2>1. /\ pc = "loop" /\ element \in DOMAIN recs /\ version \in Legacy
        /\ ~(gpuboxMap.given /\ voltageMap.given)
        /\ firstOver' = IF recs[element] > 128 /\ firstOver = 0 THEN element ELSE firstOver
        /\ Keep(corr, recs[element], corr + 1,
                     IF version \in LegacyCorr THEN corr + 1 ELSE recs[element])
        /\ element' = element + 1
        /\ UNCHANGED <<version, recs, gpuboxMap, voltageMap, pc>>
    BY <1>3 DEF StepLegacy, Looping, inputs
  <2>2. /\ corr = Corr(version, recs, element)
        /\ firstOver' = IF \E j \in 1 .. element : recs[j] > 128 THEN First(recs) ELSE 0
    BY <2>1, LegacyIndex
  <2> HIDE DEF corr
  <2> DEFINE inMetafits == IF version \in LegacyCorr THEN corr + 1 ELSE recs[element]
             number == Number(version, recs, gpuboxMap, voltageMap, element)
  <2>3. /\ gpuboxMap.given => corr + 1 = number
        /\ ~gpuboxMap.given /\ voltageMap.given => recs[element] = number
        /\ ~gpuboxMap.given /\ ~voltageMap.given => inMetafits = number
    BY <2>1, <2>2 DEF Number
  <2>4. Keep(corr, recs[element], corr + 1, inMetafits)
    BY <2>1
  <2> HIDE DEF inMetafits, number
  <2>5. /\ coarse' \in Seq(Listed)
        /\ Range(coarse') = ChannelsKept(version, recs, gpuboxMap, voltageMap, element)
        /\ ~voltageMap.given /\ ~gpuboxMap.given => Len(coarse') = element
    BY <2>1, <2>2, <2>3, <2>4, KeepsChannel DEF number
  <2>6. QED
    BY <2>1, <2>2, <2>5, LoopStep
<1>4. CASE StepMwax
  <2>1. /\ pc = "loop" /\ element \in DOMAIN recs /\ version \notin Legacy
        /\ ~(gpuboxMap.given /\ voltageMap.given)
        /\ Keep(element - 1, recs[element], recs[element], recs[element])
        /\ element' = element + 1
        /\ UNCHANGED <<version, recs, gpuboxMap, voltageMap, pc, firstOver>>
    BY <1>4 DEF StepMwax, Looping, inputs
  <2>2. /\ element - 1 = Corr(version, recs, element)
        /\ recs[element] = Number(version, recs, gpuboxMap, voltageMap, element)
    BY <2>1 DEF Corr, Number
  <2>3. /\ coarse' \in Seq(Listed)
        /\ Range(coarse') = ChannelsKept(version, recs, gpuboxMap, voltageMap, element)
        /\ ~voltageMap.given /\ ~gpuboxMap.given => Len(coarse') = element
    BY <2>1, <2>2, KeepsChannel
  <2>4. QED
    BY <2>1, <2>3, LoopStep
<1>5. CASE Sort
  <2>1. /\ pc = "loop" /\ element \notin DOMAIN recs /\ pc' = "ok"
        /\ ~(gpuboxMap.given /\ voltageMap.given)
        /\ UNCHANGED <<version, recs, gpuboxMap, voltageMap, element, firstOver>>
    BY <1>5 DEF Sort, inputs
  <2> DEFINE D == DOMAIN coarse
  <2>2. PICK p \in Bijection(D, D) :
          /\ coarse' = [k \in D |-> coarse[p[k]]]
          /\ \A j, k \in D : j < k => BySky(coarse'[j], coarse'[k])
    BY <1>5 DEF Sort
  <2>3. p \in [D -> D] /\ \A t \in D : \E k \in D : p[k] = t
    BY <2>2 DEF Bijection, Injection, Surjection
  <2>4. D = 1 .. Len(coarse) /\ Len(coarse) \in Nat /\ \A k \in D : coarse[k] \in Listed
    BY <1>1
  <2>5. DOMAIN coarse' = D /\ coarse' \in [D -> Listed]
    BY <2>2, <2>3, <2>4
  <2>6. coarse' \in Seq(Listed) /\ Len(coarse') = Len(coarse)
    BY <2>4, <2>5
  <2>7. Range(coarse') = Range(coarse)
    BY <2>2, <2>3, <2>5 DEF Range
  <2>8. \A j, k \in DOMAIN coarse' : j < k => coarse'[j].rec < coarse'[k].rec
    BY <2>2, <2>5 DEF BySky
  <2>9. element = Len(recs) + 1
    BY <1>1, <2>1
  <2> HIDE DEF D
  <2>10. QED
    BY <1>1, <2>1, <2>6, <2>7, <2>8, <2>9 DEF LoopInv, SoFar, Listed
<1>6. CASE UNCHANGED selectVars
  BY <1>6 DEF selectVars, LoopInv, SoFar, Listed
<1>7. QED
  BY <1>2, <1>3, <1>4, <1>5, <1>6 DEF NextSelect

LEMMA LoopInvariant == SpecSelect => []LoopInv
<1>1. QED
  BY LoopInit, LoopNext, PTL DEF SpecSelect

\* The number of a channel of an ascending list is the one its files carry.
LEMMA NumberOfFiles ==
  ASSUME NEW s \in Seq(Nat), Ascending(s), NEW j \in DOMAIN s, NEW v \in MwaVersions,
         NEW g, NEW w
  PROVE  Number(v, s, g, w, j)
           = IF v \in Legacy /\ (g.given \/ (~w.given /\ v \in LegacyCorr))
               THEN GpuboxOf(TRUE, Range(s), s[j])
               ELSE GpuboxOf(FALSE, Range(s), s[j])
<1>1. CASE v \in Legacy /\ (g.given \/ (~w.given /\ v \in LegacyCorr))
  <2>1. GpuboxOf(TRUE, Range(s), s[j]) = Corr(v, s, j) + 1
    BY <1>1, LegacyNumbers
  <2>2. QED
    BY <1>1, <2>1 DEF Number
<1>2. CASE ~(v \in Legacy /\ (g.given \/ (~w.given /\ v \in LegacyCorr)))
  BY <1>2 DEF Number, GpuboxOf
<1>3. QED
  BY <1>1, <1>2

\* Whatever the channels and the map, each channel the loop has kept of an
\* ascending list goes by the number that the files of its format carry.
THEOREM NumberingAgrees == SpecSelect => []NumberedAsTheFiles
<1>1. LoopInv => NumberedAsTheFiles
  <2> SUFFICES ASSUME LoopInv, Ascending(recs), NEW c \in Range(coarse)
               PROVE  c.gpubox =
                        GpuboxOf(/\ version \in Legacy /\ ~voltageMap.given
                                      /\ (gpuboxMap.given \/ version \in LegacyCorr),
                                      Range(recs), c.rec)
    BY DEF NumberedAsTheFiles
  <2>1. /\ recs \in Seq(Nat) /\ version \in MwaVersions /\ element \in 1 .. Len(recs) + 1
        /\ c \in SoFar /\ coarse # <<>>
    BY DEF LoopInv, Range
  <2>2. ~(voltageMap.given /\ gpuboxMap.given)
    BY <2>1 DEF LoopInv
  <2>3. PICK j \in 1 .. element - 1 : c = Channel(version, recs, gpuboxMap, voltageMap, j)
    BY <2>1 DEF SoFar, ChannelsKept
  <2>4. j \in DOMAIN recs
    BY <2>1
  <2>5. /\ c.rec = recs[j]
        /\ c.gpubox = Number(version, recs, gpuboxMap, voltageMap, j)
    BY <2>3 DEF Channel, CoarseChannel
  <2> DEFINE legacy == /\ version \in Legacy
                       /\ (gpuboxMap.given \/ (~voltageMap.given /\ version \in LegacyCorr))
  <2>6. c.gpubox = IF legacy THEN GpuboxOf(TRUE, Range(recs), recs[j])
                   ELSE GpuboxOf(FALSE, Range(recs), recs[j])
    BY <2>1, <2>4, <2>5, NumberOfFiles
  <2>7. c.gpubox = GpuboxOf(legacy, Range(recs), c.rec)
    BY <2>5, <2>6 DEF GpuboxOf
  <2>8. QED
    BY <2>2, <2>7 DEF GpuboxOf
<1>2. QED
  BY <1>1, LoopInvariant, PTL

\* When the loop is done the map has been searched for every channel, and the
\* answer is those of the list that it has, ascending, without loss or repeat.
THEOREM SelectionIsComplete == SpecSelect => [](pc = "ok" => SelectsAsAsked)
<1>1. LoopInv => (pc = "ok" => SelectsAsAsked)
  <2> SUFFICES ASSUME LoopInv, pc = "ok" PROVE SelectsAsAsked
    OBVIOUS
  <2> DEFINE J == {k \in DOMAIN recs : Kept(version, recs, gpuboxMap, voltageMap, k)}
             N(k) == Number(version, recs, gpuboxMap, voltageMap, k)
  <2>1. /\ recs \in Seq(Nat) /\ version \in MwaVersions
        /\ ~(gpuboxMap.given /\ voltageMap.given)
        /\ \A j, k \in DOMAIN coarse : j < k => coarse[j].rec < coarse[k].rec
        /\ element - 1 = Len(recs)
        /\ ~voltageMap.given /\ ~gpuboxMap.given => Len(coarse) = Len(recs)
    BY DEF LoopInv
  <2>2. /\ Range(coarse) = {Channel(version, recs, gpuboxMap, voltageMap, j) : j \in J}
        /\ Range(recs) = {recs[j] : j \in DOMAIN recs}
    <3>1. {k \in 1 .. element - 1 : Kept(version, recs, gpuboxMap, voltageMap, k)} = J
      BY <2>1
    <3>2. Range(coarse) = SoFar
      BY DEF LoopInv
    <3> HIDE DEF J
    <3>3. QED
      BY <3>1, <3>2 DEF SoFar, ChannelsKept, Range
  <2>3. \A j \in J : /\ Channel(version, recs, gpuboxMap, voltageMap, j).rec = recs[j]
                     /\ Channel(version, recs, gpuboxMap, voltageMap, j).gpubox = N(j)
    BY DEF Channel, CoarseChannel
  <2>4. voltageMap.given =>
          {c.rec : c \in Range(coarse)} = Range(recs) \cap voltageMap.chans
    <3> SUFFICES ASSUME voltageMap.given
                 PROVE  {c.rec : c \in Range(coarse)} = Range(recs) \cap voltageMap.chans
      OBVIOUS
    <3>1. \A j \in DOMAIN recs : N(j) = recs[j] /\ (j \in J <=> recs[j] \in voltageMap.chans)
      BY <2>1 DEF Number, Kept
    <3> HIDE DEF J, N
    <3>2. {c.rec : c \in Range(coarse)} = {recs[j] : j \in J}
      BY <2>2, <2>3
    <3>3. J \subseteq DOMAIN recs
      BY DEF J
    <3>4. QED
      BY <2>2, <3>1, <3>2, <3>3
  <2>5. gpuboxMap.given /\ Ascending(recs) =>
          {c.gpubox : c \in Range(coarse)} =
            gpuboxMap.chans \cap {GpuboxOf(version \in Legacy, Range(recs), r) :
                                    r \in Range(recs)}
    <3> DEFINE G(r) == GpuboxOf(version \in Legacy, Range(recs), r)
    <3> SUFFICES ASSUME gpuboxMap.given, Ascending(recs)
                 PROVE  {c.gpubox : c \in Range(coarse)} =
                          gpuboxMap.chans \cap {G(r) : r \in Range(recs)}
      OBVIOUS
    <3>1. Ascending(recs)
      BY DEF Ascending, Ascending
    <3>2. \A j \in DOMAIN recs : N(j) = G(recs[j])
      <4>1. TAKE j \in DOMAIN recs
      <4>2. N(j) = IF version \in Legacy
                     THEN GpuboxOf(TRUE, Range(recs), recs[j])
                     ELSE GpuboxOf(FALSE, Range(recs), recs[j])
        BY <2>1, <3>1, NumberOfFiles
      <4>3. QED
        BY <4>2 DEF GpuboxOf
    <3>3. \A j \in DOMAIN recs : j \in J <=> N(j) \in gpuboxMap.chans
      BY <2>1 DEF Kept
    <3>4. J \subseteq DOMAIN recs
      OBVIOUS
    <3> HIDE DEF J, N, G
    <3>5. {c.gpubox : c \in Range(coarse)} = {N(j) : j \in J}
      BY <2>2, <2>3
    <3>6. {G(r) : r \in Range(recs)} = {N(j) : j \in DOMAIN recs}
      BY <2>2, <3>2
    <3>7. QED
      BY <3>3, <3>4, <3>5, <3>6
  <2>6. QED
    BY <2>1, <2>4, <2>5 DEF SelectsAsAsked
<1>2. QED
  BY <1>1, LoopInvariant, PTL
=============================================================================
