---------------------------- MODULE BaselinesProofs ---------------------------
(***************************************************************************)
(* Proofs about Baselines, for every number of antennas up to the bound    *)
(* of f32: the vector of baselines is the upper triangle, and the counting *)
(* lookups and the quadratic equation agree with it.  All rests on where a *)
(* row starts, a (2 N + 1 - a) / 2, and on numbers growing along the rows. *)
(***************************************************************************)
EXTENDS Baselines, TLAPS

RowStart(N, a) == (a * (2 * N + 1 - a)) \div 2
Number(N, a, b) == RowStart(N, a) + b - a
IsPair(N, a, b) == a \in Nat /\ b \in Nat /\ a <= b /\ b < N

-----------------------------------------------------------------------------
\* Arithmetic.

LEMMA HalfOfDouble ==
    ASSUME NEW x \in Int
    PROVE  (2 * x) \div 2 = x
  OBVIOUS

LEMMA TriangleIsWhole ==
    ASSUME NEW k \in Nat
    PROVE  /\ (k * k + k) \div 2 \in Nat
           /\ 2 * ((k * k + k) \div 2) = k * k + k
<1>1. PICK q \in Nat : k = 2 * q \/ k = 2 * q + 1
  <2>1. k \div 2 \in Nat /\ (k = 2 * (k \div 2) \/ k = 2 * (k \div 2) + 1)
    OBVIOUS
  <2> QED
    BY <2>1
<1>2. PICK x \in Nat : k * k + k = 2 * x
  <2>1. CASE k = 2 * q
    <3>1. q * k + q \in Nat
      BY <1>1
    <3>2. k * k + k = 2 * (q * k + q)
      BY <2>1
    <3> QED
      BY <3>1, <3>2
  <2>2. CASE k = 2 * q + 1
    <3>1. k * q + k \in Nat
      BY <1>1
    <3>2. k * k + k = 2 * (k * q + k)
      BY <2>2
    <3> QED
      BY <3>1, <3>2
  <2> QED
    BY <1>1, <2>1, <2>2
<1> QED
  BY <1>2

LEMMA RowStartIs ==
    ASSUME NEW N \in Nat, NEW a \in 0 .. N
    PROVE  /\ RowStart(N, a) \in Nat
           /\ 2 * RowStart(N, a) = a * (2 * N + 1 - a)
           /\ RowStart(N, a) = a * N + a - ((a * a + a) \div 2)
<1> DEFINE t == (a * a + a) \div 2
           x == a * N + a - t
<1>1. a \in Nat /\ t \in Nat /\ 2 * t = a * a + a
  BY TriangleIsWhole
<1>2. x \in Int
  BY <1>1
<1>3. a * (2 * N + 1 - a) = 2 * x
  <2>1. a * (2 * N + 1 - a) = 2 * (a * N) + 2 * a - (a * a + a)
    OBVIOUS
  <2> QED
    BY <1>1, <2>1
<1>4. a * (2 * N + 1 - a) >= 0
  <2>1. 2 * N + 1 - a \in Nat
    OBVIOUS
  <2> QED
    BY <2>1
<1> HIDE DEF x
<1>5. RowStart(N, a) = x
  BY <1>2, <1>3, HalfOfDouble DEF RowStart
<1> QED
  BY <1>2, <1>3, <1>4, <1>5 DEF x

\* A row above ends before the row below starts.
LEMMA RowsGrow ==
    ASSUME NEW N \in Nat, NEW a \in 0 .. N, NEW c \in 0 .. N, a < c
    PROVE  RowStart(N, a) + (N - a) <= RowStart(N, c)
<1>1. c - a - 1 \in Nat /\ 2 * N - a - c \in Nat
  OBVIOUS
<1>2. (c - a - 1) * (2 * N - a - c) \in Nat
  BY <1>1
<1>3. c * (2 * N + 1 - c) - a * (2 * N + 1 - a) - 2 * (N - a) = (c - a - 1) * (2 * N - a - c)
  OBVIOUS
<1>4. 2 * RowStart(N, a) = a * (2 * N + 1 - a) /\ 2 * RowStart(N, c) = c * (2 * N + 1 - c)
  BY RowStartIs
<1>5. RowStart(N, a) \in Nat /\ RowStart(N, c) \in Nat
  BY RowStartIs
<1> QED
  BY <1>2, <1>3, <1>4, <1>5

LEMMA RowsFollow ==
    ASSUME NEW N \in Nat, NEW a \in 0 .. N - 1
    PROVE  RowStart(N, a + 1) = RowStart(N, a) + (N - a)
<1>1. (a + 1) * (2 * N + 1 - (a + 1)) = a * (2 * N + 1 - a) + 2 * (N - a)
  OBVIOUS
<1>2. a \in 0 .. N /\ a + 1 \in 0 .. N
  OBVIOUS
<1>3. /\ 2 * RowStart(N, a) = a * (2 * N + 1 - a)
      /\ 2 * RowStart(N, a + 1) = (a + 1) * (2 * N + 1 - (a + 1))
      /\ RowStart(N, a) \in Nat /\ RowStart(N, a + 1) \in Nat
  BY <1>2, RowStartIs
<1> QED
  BY <1>1, <1>3

LEMMA RowsStartAndEnd ==
    ASSUME NEW N \in Nat
    PROVE  /\ RowStart(N, 0) = 0
           /\ RowStart(N, N) = get_baseline_count(N)
           /\ 2 * get_baseline_count(N) = N * N + N
           /\ get_baseline_count(N) \in Nat
<1>1. RowStart(N, 0) = 0
  BY DEF RowStart
<1>2. N * (2 * N + 1 - N) = N * (N + 1)
  OBVIOUS
<1>3. RowStart(N, N) = get_baseline_count(N)
  BY <1>2 DEF RowStart, get_baseline_count
<1>4. N * (N + 1) = N * N + N
  OBVIOUS
<1> QED
  BY <1>1, <1>3, <1>4, TriangleIsWhole DEF get_baseline_count

\* Numbers grow along the rows, and stay below the count.
LEMMA NumbersGrow ==
    ASSUME NEW N \in Nat, NEW a, NEW b, NEW c, NEW d, IsPair(N, a, b), IsPair(N, c, d)
    PROVE  /\ Number(N, a, b) \in Nat
           /\ Number(N, a, b) < get_baseline_count(N)
           /\ a < c => Number(N, a, b) < Number(N, c, d)
           /\ a = c => (b < d <=> Number(N, a, b) < Number(N, c, d))
<1>1. a \in 0 .. N /\ c \in 0 .. N /\ N \in 0 .. N
  BY DEF IsPair
<1>2. RowStart(N, a) \in Nat /\ RowStart(N, c) \in Nat /\ RowStart(N, N) \in Nat
  BY <1>1, RowStartIs
<1>3. RowStart(N, a) + (N - a) <= RowStart(N, N)
  BY <1>1, RowsGrow DEF IsPair
<1>4. a < c => RowStart(N, a) + (N - a) <= RowStart(N, c)
  BY <1>1, RowsGrow
<1>5. RowStart(N, N) = get_baseline_count(N)
  BY RowsStartAndEnd
<1> QED
  BY <1>2, <1>3, <1>4, <1>5 DEF Number, IsPair

\* Numbers tell pairs apart, in their order.
LEMMA NumbersTellApart ==
    ASSUME NEW N \in Nat, NEW a, NEW b, NEW c, NEW d, IsPair(N, a, b), IsPair(N, c, d)
    PROVE  /\ Number(N, a, b) = Number(N, c, d) => a = c /\ b = d
           /\ Number(N, a, b) < Number(N, c, d) => a < c \/ (a = c /\ b < d)
<1>1. a < c \/ a = c \/ c < a
  BY DEF IsPair
<1>2. Number(N, a, b) \in Nat /\ Number(N, c, d) \in Nat
  BY NumbersGrow
<1>3. a < c => Number(N, a, b) < Number(N, c, d)
  BY NumbersGrow
<1>4. c < a => Number(N, c, d) < Number(N, a, b)
  BY NumbersGrow
<1>5. a = c => /\ b < d <=> Number(N, a, b) < Number(N, c, d)
               /\ d < b <=> Number(N, c, d) < Number(N, a, b)
  BY NumbersGrow
<1> QED
  BY <1>1, <1>2, <1>3, <1>4, <1>5 DEF IsPair
-----------------------------------------------------------------------------
\* The inductive invariant.

States == {"populate", "ready", "search", "no such tile", "unreachable", "overflow"}

TypeOK ==
    /\ n \in Arrays
    /\ pc \in States
    /\ ant1 \in 0 .. n /\ ant2 \in 0 .. n /\ bl_index \in Nat
    /\ bls \in [0 .. get_baseline_count(n) - 1 -> (0 .. n) \X (0 .. n)]

\* The counters stand on a pair, or past the last, and bl_index is its number.
CountersOK ==
    /\ IsPair(n, ant1, ant2) \/ (ant1 = n /\ ant2 = n)
    /\ bl_index = Number(n, ant1, ant2)

\* The vector holds each pair under its number, up to the counter or all of it.
HoldsPair(b) == \E a, c : IsPair(n, a, c) /\ bls[b] = <<a, c>> /\ Number(n, a, c) = b
FilledOK ==
    \A b \in DOMAIN bls : pc # "populate" \/ b < bl_index => HoldsPair(b)

\* The pair that is searched for is not above the counter.
SearchOK ==
    /\ pc = "populate" => asked = NONE
    /\ pc = "search" =>
        /\ asked.by # "baseline" /\ answer = NONE
        /\ \E a, c \in 0 .. n :
            /\ asked.of = <<a, c>>
            /\ IsPair(n, a, c) => Number(n, a, c) >= bl_index

IInv == TypeOK /\ CountersOK /\ FilledOK /\ SearchOK /\ LookupsAgree

LEMMA ArraysAreNat == ASSUME IInv PROVE n \in Nat /\ n > 0
<1>1. n \in Arrays
  BY DEF IInv, TypeOK
<1> QED
  BY <1>1, ArraysAssumption

LEMMA PairsAre ==
    ASSUME n \in Nat, NEW p
    PROVE  p \in Pairs <=> \E a, c : p = <<a, c>> /\ IsPair(n, a, c)
  BY DEF Pairs, IsPair

\* The number past the last pair is the count.
LEMMA PastTheLast ==
    ASSUME NEW N \in Nat
    PROVE  Number(N, N, N) = get_baseline_count(N)
  BY RowsStartAndEnd DEF Number

LEMMA InitEstablishes == Init => IInv
<1> SUFFICES ASSUME Init PROVE IInv
  OBVIOUS
<1>1. n \in Nat /\ n > 0
  BY ArraysAssumption DEF Init
<1>2. Number(n, 0, 0) = 0
  BY <1>1, RowsStartAndEnd DEF Number
<1>3. TypeOK
  BY <1>1 DEF Init, TypeOK, States
<1>4. CountersOK
  BY <1>1, <1>2 DEF Init, CountersOK, IsPair
<1>5. FilledOK
  <2>1. \A b \in DOMAIN bls : ~(b < 0)
    BY <1>1 DEF Init
  <2> QED
    BY <2>1 DEF Init, FilledOK
<1>6. SearchOK /\ LookupsAgree
  BY DEF Init, SearchOK, LookupsAgree
<1> QED
  BY <1>3, <1>4, <1>5, <1>6 DEF IInv

\* The counters go from a pair to the next number.
LEMMA NextPairCounts ==
    ASSUME IInv, ant1 < n, NextPair
    PROVE  /\ ant1' \in 0 .. n /\ ant2' \in 0 .. n /\ bl_index' = bl_index + 1
           /\ IsPair(n, ant1', ant2') \/ (ant1' = n /\ ant2' = n)
           /\ bl_index' = Number(n, ant1', ant2')
<1>1. n \in Nat /\ IsPair(n, ant1, ant2) /\ bl_index = Number(n, ant1, ant2) /\ bl_index \in Nat
  BY ArraysAreNat DEF IInv, CountersOK, TypeOK
<1>2. ant1 \in 0 .. n - 1 /\ ant1 \in 0 .. n
  BY <1>1 DEF IsPair
<1>3. RowStart(n, ant1 + 1) = RowStart(n, ant1) + (n - ant1)
  BY <1>1, <1>2, RowsFollow
<1>4. RowStart(n, ant1) \in Nat
  BY <1>1, <1>2, RowStartIs
<1>5. CASE ant2 = n - 1
  BY <1>1, <1>3, <1>4, <1>5 DEF NextPair, Number, IsPair
<1>6. CASE ant2 # n - 1
  BY <1>1, <1>4, <1>6 DEF NextPair, Number, IsPair
<1> QED
  BY <1>5, <1>6

LEMMA PopulatePreserves ==
    ASSUME IInv, Populate
    PROVE  IInv'
<1> USE DEF Populate
<1>1. n \in Nat /\ IsPair(n, ant1, ant2) /\ bl_index = Number(n, ant1, ant2) /\ bl_index \in Nat
  BY ArraysAreNat DEF IInv, CountersOK, TypeOK
<1>2. /\ ant1' \in 0 .. n /\ ant2' \in 0 .. n /\ bl_index' = bl_index + 1
      /\ IsPair(n, ant1', ant2') \/ (ant1' = n /\ ant2' = n)
      /\ bl_index' = Number(n, ant1', ant2')
  BY NextPairCounts
<1>3. /\ DOMAIN bls' = DOMAIN bls
      /\ \A b \in DOMAIN bls : bls'[b] = IF b = bl_index THEN <<ant1, ant2>> ELSE bls[b]
  BY DEF IInv, TypeOK
<1>4. TypeOK'
  <2>1. bls' \in [0 .. get_baseline_count(n) - 1 -> (0 .. n) \X (0 .. n)]
    BY DEF IInv, TypeOK
  <2>2. bl_index + 1 \in Nat /\ n' = n /\ pc' = pc
    BY <1>1
  <2> QED
    BY <1>2, <2>1, <2>2 DEF IInv, TypeOK, get_baseline_count
<1>5. CountersOK'
  BY <1>2 DEF CountersOK, IsPair, Number, RowStart
<1>6. FilledOK'
  <2> SUFFICES ASSUME NEW b \in DOMAIN bls, b < bl_index + 1
               PROVE  \E a, c : IsPair(n, a, c) /\ bls'[b] = <<a, c>> /\ Number(n, a, c) = b
    BY <1>2, <1>3 DEF FilledOK, HoldsPair, IsPair, Number, RowStart
  <2>0. b \in Int
    BY <1>1, RowsStartAndEnd DEF IInv, TypeOK
  <2>1. CASE b = bl_index
    BY <1>1, <1>3, <2>1
  <2>2. CASE b # bl_index
    <3>1. HoldsPair(b)
      BY <1>1, <2>0, <2>2 DEF IInv, FilledOK
    <3> QED
      BY <1>3, <2>2, <3>1 DEF HoldsPair
  <2> QED
    BY <2>1, <2>2
<1>7. SearchOK' /\ LookupsAgree'
  BY DEF IInv, SearchOK, LookupsAgree
<1> QED
  BY <1>4, <1>5, <1>6, <1>7 DEF IInv

\* The counters and the vector of a step that leaves both alone.
LEMMA StandingStill ==
    ASSUME IInv, pc # "populate", UNCHANGED <<n, bls, counters>>, pc' \in States \ {"populate"}
    PROVE  TypeOK' /\ CountersOK' /\ FilledOK'
<1>1. TypeOK'
  BY DEF IInv, TypeOK, counters
<1>2. CountersOK'
  BY DEF IInv, CountersOK, counters, IsPair, Number, RowStart
<1>3. FilledOK'
  BY DEF IInv, FilledOK, counters, HoldsPair, IsPair, Number, RowStart
<1> QED
  BY <1>1, <1>2, <1>3

LEMMA PopulatedPreserves ==
    ASSUME IInv, Populated
    PROVE  IInv'
<1> USE DEF Populated
<1>1. n \in Nat /\ ant1 = n /\ ant2 = n /\ bl_index = get_baseline_count(n)
  BY ArraysAreNat, PastTheLast DEF IInv, CountersOK, IsPair
<1>2. TypeOK' /\ CountersOK'
  BY DEF IInv, TypeOK, CountersOK, counters, States, IsPair, Number, RowStart
<1>3. FilledOK'
  <2>1. \A b \in DOMAIN bls : b < bl_index
    BY <1>1, RowsStartAndEnd DEF IInv, TypeOK
  <2>2. \A b \in DOMAIN bls : HoldsPair(b)
    BY <2>1 DEF IInv, FilledOK
  <2> QED
    BY <2>2 DEF FilledOK, HoldsPair, IsPair, Number, RowStart
<1>4. SearchOK'
  BY DEF SearchOK
<1>5. LookupsAgree'
  BY DEF IInv, SearchOK, LookupsAgree
<1> QED
  BY <1>2, <1>3, <1>4, <1>5 DEF IInv

LEMMA SearchPreserves ==
    ASSUME IInv, pc = "ready", NEW by \in {"antennas", "names"},
           NEW a \in 0 .. n, NEW c \in 0 .. n, Search(by, <<a, c>>),
           UNCHANGED <<n, tiles, bls>>
    PROVE  IInv'
<1> USE DEF Search
<1>1. n \in Nat /\ n > 0 /\ Number(n, 0, 0) = 0
  BY ArraysAreNat, RowsStartAndEnd DEF Number
<1>2. TypeOK'
  BY <1>1 DEF IInv, TypeOK, States
<1>3. CountersOK'
  BY <1>1 DEF CountersOK, IsPair, Number, RowStart
<1>4. FilledOK'
  BY DEF IInv, FilledOK, HoldsPair, IsPair, Number, RowStart
<1>5. SearchOK'
  <2>1. asked'.by # "baseline" /\ answer' = NONE /\ asked'.of = <<a, c>>
    OBVIOUS
  <2>2. IsPair(n, a, c) => Number(n, a, c) >= 0
    BY <1>1, NumbersGrow
  <2> QED
    BY <2>1, <2>2 DEF SearchOK, IsPair, Number, RowStart
<1>6. LookupsAgree'
  BY DEF LookupsAgree
<1> QED
  BY <1>2, <1>3, <1>4, <1>5, <1>6 DEF IInv

LEMMA FromAntennasPreserves ==
    ASSUME IInv, get_baseline_from_antennas
    PROVE  IInv'
  BY SearchPreserves DEF get_baseline_from_antennas

LEMMA FromNamesPreserves ==
    ASSUME IInv, get_baseline_from_antenna_names
    PROVE  IInv'
<1>1. n \in Nat /\ pc = "ready" /\ UNCHANGED <<n, tiles, bls>>
  BY ArraysAreNat DEF get_baseline_from_antenna_names
<1>2. \/ pc' = "no such tile" /\ UNCHANGED <<counters, asked, answer>>
      \/ \E a, c \in 0 .. n - 1 : Search("names", <<a, c>>)
  BY DEF get_baseline_from_antenna_names
<1>3. CASE pc' = "no such tile" /\ UNCHANGED <<counters, asked, answer>>
  <2>1. TypeOK' /\ CountersOK' /\ FilledOK'
    BY <1>1, <1>3, StandingStill DEF States
  <2>2. SearchOK' /\ LookupsAgree'
    BY <1>3 DEF SearchOK, LookupsAgree
  <2> QED
    BY <2>1, <2>2 DEF IInv
<1>4. CASE \E a, c \in 0 .. n - 1 : Search("names", <<a, c>>)
  <2>1. PICK a \in 0 .. n - 1, c \in 0 .. n - 1 : Search("names", <<a, c>>)
    BY <1>4
  <2>2. a \in 0 .. n /\ c \in 0 .. n
    BY <1>1
  <2> QED
    BY <1>1, <2>1, <2>2, SearchPreserves
<1> QED
  BY <1>2, <1>3, <1>4

LEMMA CountPreserves ==
    ASSUME IInv, Count
    PROVE  IInv'
<1> USE DEF Count
<1>1. n \in Nat /\ IsPair(n, ant1, ant2) /\ bl_index = Number(n, ant1, ant2) /\ bl_index \in Nat
  BY ArraysAreNat DEF IInv, CountersOK, TypeOK
<1>2. /\ ant1' \in 0 .. n /\ ant2' \in 0 .. n /\ bl_index' = bl_index + 1
      /\ IsPair(n, ant1', ant2') \/ (ant1' = n /\ ant2' = n)
      /\ bl_index' = Number(n, ant1', ant2')
  BY NextPairCounts
<1>3. TypeOK'
  <2>1. n' = n /\ pc' = pc /\ bls' = bls
    OBVIOUS
  <2>2. bl_index' \in Nat
    BY <1>1, <1>2
  <2>3. n \in Arrays /\ pc \in States /\ bls \in [0 .. get_baseline_count(n) - 1 -> (0 .. n) \X (0 .. n)]
    BY DEF IInv, TypeOK
  <2>4. get_baseline_count(n)' = get_baseline_count(n)
    BY <2>1 DEF get_baseline_count
  <2> HIDE DEF Count
  <2> QED
    BY <1>2, <2>1, <2>2, <2>3, <2>4 DEF TypeOK
<1>4. CountersOK'
  BY <1>2 DEF CountersOK, IsPair, Number, RowStart
<1>5. FilledOK'
  BY DEF IInv, FilledOK, HoldsPair, IsPair, Number, RowStart
<1>6. SearchOK'
  <2>1. PICK a \in 0 .. n, c \in 0 .. n :
          asked.of = <<a, c>> /\ (IsPair(n, a, c) => Number(n, a, c) >= bl_index)
    BY DEF IInv, SearchOK
  <2>2. IsPair(n, a, c) => Number(n, a, c) >= bl_index + 1
    <3> SUFFICES ASSUME IsPair(n, a, c) PROVE Number(n, a, c) >= bl_index + 1
      OBVIOUS
    <3>1. Number(n, a, c) \in Nat
      BY <1>1, NumbersGrow
    <3>2. Number(n, a, c) # bl_index
      BY <1>1, <2>1, NumbersTellApart
    <3> QED
      BY <1>1, <2>1, <3>1, <3>2
  <2> QED
    BY <1>2, <2>1, <2>2 DEF IInv, SearchOK, IsPair, Number, RowStart
<1>7. LookupsAgree'
  BY DEF LookupsAgree
<1> QED
  BY <1>3, <1>4, <1>5, <1>6, <1>7 DEF IInv

LEMMA NumbersAreIndices ==
    ASSUME IInv, n \in Nat, NEW a, NEW c, IsPair(n, a, c)
    PROVE  Number(n, a, c) \in DOMAIN bls
<1>1. Number(n, a, c) \in Nat /\ Number(n, a, c) < get_baseline_count(n)
  BY NumbersGrow
<1>2. get_baseline_count(n) \in Nat
  BY RowsStartAndEnd
<1>3. DOMAIN bls = 0 .. get_baseline_count(n) - 1
  BY DEF IInv, TypeOK
<1> QED
  BY <1>1, <1>2, <1>3

\* When the vector is full it has every pair under its number.
LEMMA VectorHasPairs ==
    ASSUME IInv, pc # "populate", NEW a, NEW c, IsPair(n, a, c)
    PROVE  Number(n, a, c) \in DOMAIN bls /\ bls[Number(n, a, c)] = <<a, c>>
<1>1. n \in Nat
  BY ArraysAreNat
<1>2. Number(n, a, c) \in DOMAIN bls
  BY <1>1, NumbersAreIndices
<1>3. PICK d, e : IsPair(n, d, e) /\ bls[Number(n, a, c)] = <<d, e>>
                  /\ Number(n, d, e) = Number(n, a, c)
  BY <1>2 DEF IInv, FilledOK, HoldsPair
<1>4. d = a /\ e = c
  BY <1>1, <1>3, NumbersTellApart
<1> QED
  BY <1>2, <1>3, <1>4

LEMMA FoundPreserves ==
    ASSUME IInv, Found
    PROVE  IInv'
<1> USE DEF Found
<1>1. n \in Nat /\ IsPair(n, ant1, ant2) /\ bl_index = Number(n, ant1, ant2)
  BY ArraysAreNat DEF IInv, CountersOK, TypeOK
<1>2. TypeOK' /\ CountersOK' /\ FilledOK'
  BY StandingStill DEF States
<1>3. SearchOK'
  BY DEF SearchOK
<1>4. bl_index \in DOMAIN bls /\ bls[bl_index] = <<ant1, ant2>>
  BY <1>1, VectorHasPairs
<1>5. asked.of \in Pairs
  BY <1>1, PairsAre
<1>6. asked.by # "baseline"
  BY DEF IInv, SearchOK
<1>7. LookupsAgree'
  BY <1>4, <1>5, <1>6 DEF LookupsAgree, Pairs
<1> QED
  BY <1>2, <1>3, <1>7 DEF IInv

LEMMA NotFoundPreserves ==
    ASSUME IInv, NotFound
    PROVE  IInv'
<1> USE DEF NotFound
<1>1. n \in Nat /\ ant1 = n /\ ant2 = n /\ bl_index = get_baseline_count(n)
  BY ArraysAreNat, PastTheLast DEF IInv, CountersOK, IsPair
<1>2. TypeOK' /\ CountersOK' /\ FilledOK'
  BY StandingStill DEF States
<1>3. SearchOK'
  BY DEF SearchOK
<1>4. asked.of \notin Pairs
  <2>1. PICK a \in 0 .. n, c \in 0 .. n :
          asked.of = <<a, c>> /\ (IsPair(n, a, c) => Number(n, a, c) >= bl_index)
    BY DEF IInv, SearchOK
  <2>2. ~IsPair(n, a, c)
    BY <1>1, <2>1, NumbersGrow, RowsStartAndEnd
  <2>3. ~\E d, e : <<a, c>> = <<d, e>> /\ IsPair(n, d, e)
    BY <2>2
  <2> QED
    BY <1>1, <2>1, <2>3, PairsAre
<1>5. asked.by # "baseline" /\ answer = NONE
  BY DEF IInv, SearchOK
<1>6. LookupsAgree'
  BY <1>4, <1>5 DEF LookupsAgree, Pairs
<1> QED
  BY <1>2, <1>3, <1>6 DEF IInv

-----------------------------------------------------------------------------
\* The quadratic equation.

\* The discriminant of b is above the square of a row's odd number if and only if
\* the row starts after b.
LEMMA DiscriminantComparesRows ==
    ASSUME n \in Nat, NEW b \in Nat, NEW c \in 0 .. n
    PROVE  Discriminant(b) <= Square(2 * n + 1 - 2 * c) <=> RowStart(n, c) <= b
<1> DEFINE D == 4 * n * n + 4 * n
           x == c * (2 * n + 1 - c)
<1>1. RowStart(n, c) \in Nat /\ 2 * RowStart(n, c) = x
  BY RowStartIs
<1>2. Square(2 * n + 1 - 2 * c) = D + 1 - 4 * x
  BY DEF Square
<1>3. D \in Int /\ x \in Int /\ Discriminant(b) = D - 8 * b + 1
  BY DEF Discriminant
<1> HIDE DEF D, x
<1> QED
  BY <1>1, <1>2, <1>3

\* A row that starts at or before b, the next one after it, is the one found.
LEMMA RowIs ==
    ASSUME n \in Nat, NEW b \in Nat, NEW a \in 0 .. n, RowStart(n, a) <= b,
           \A c \in 0 .. n : RowStart(n, c) <= b => c <= a
    PROVE  Row(b) = a
<1> DEFINE Fits(c) == RowStart(n, c) <= b
<1>1. \A c \in 0 .. n : Discriminant(b) <= Square(2 * n + 1 - 2 * c) <=> Fits(c)
  BY DiscriminantComparesRows
<1> DEFINE Best(c) == /\ Discriminant(b) <= Square(2 * n + 1 - 2 * c)
                      /\ \A d \in 0 .. n : Discriminant(b) <= Square(2 * n + 1 - 2 * d) => d <= c
<1>2. Best(a)
  BY <1>1
<1>3. \A c \in 0 .. n : Best(c) => c = a
  BY <1>1, <1>2
<1> HIDE DEF Best
<1>4. (CHOOSE c \in 0 .. n : Best(c)) = a
  BY <1>2, <1>3
<1> QED
  BY <1>4 DEF Row, Best

LEMMA EquationFindsPair ==
    ASSUME n \in Nat, NEW a, NEW c, IsPair(n, a, c)
    PROVE  Row(Number(n, a, c)) = a /\ Column(a, Number(n, a, c)) = c
<1> DEFINE b == Number(n, a, c)
<1>1. a \in 0 .. n /\ b \in Nat
  BY NumbersGrow DEF IsPair
<1>2. RowStart(n, a) \in Nat /\ RowStart(n, a) = a * n + a - ((a * a + a) \div 2)
  BY <1>1, RowStartIs
<1>3. \A d \in 0 .. n : RowStart(n, d) <= b => d <= a
  <2> SUFFICES ASSUME NEW d \in 0 .. n, d > a PROVE RowStart(n, d) > b
    BY <1>1, RowStartIs
  <2>1. RowStart(n, a) + (n - a) <= RowStart(n, d) /\ RowStart(n, d) \in Nat
    BY <1>1, RowsGrow, RowStartIs
  <2> QED
    BY <1>2, <2>1 DEF Number, IsPair
<1>4. RowStart(n, a) <= b
  BY <1>2 DEF Number, IsPair
<1>5. Row(b) = a
  BY <1>1, <1>3, <1>4, RowIs
<1>6. Column(a, b) = c
  <2>1. a * n \in Int /\ (a * a + a) \div 2 \in Int
    BY <1>1, TriangleIsWhole
  <2> QED
    BY <1>2, <2>1 DEF Column, Number, IsPair
<1> QED
  BY <1>5, <1>6

\* The number after the last gives a row past the array.
LEMMA EquationEnds ==
    ASSUME n \in Nat
    PROVE  Row(get_baseline_count(n)) = n
<1>1. n \in 0 .. n /\ RowStart(n, n) = get_baseline_count(n) /\ get_baseline_count(n) \in Nat
  BY RowsStartAndEnd
<1> QED
  BY <1>1, RowIs

LEMMA FromBaselinePreserves ==
    ASSUME IInv, get_antennas_from_baseline
    PROVE  IInv'
<1> USE DEF get_antennas_from_baseline
<1>1. n \in Nat /\ n > 0
  BY ArraysAreNat
<1>2. pc' \in States \ {"populate", "search"}
  BY DEF States
<1>3. TypeOK' /\ CountersOK' /\ FilledOK'
  BY <1>2, StandingStill
<1>4. SearchOK'
  BY <1>2 DEF SearchOK
<1>5. LookupsAgree'
  <2>1. PICK b \in 0 .. get_baseline_count(n) + 2 :
          /\ asked' = [by |-> "baseline", of |-> b]
          /\ \/ /\ 8 * b <= 4 * n * n + 4 * n /\ pc' = "ready"
                /\ answer' = InArray(Row(b), Column(Row(b), b))
             \/ /\ 8 * b > 4 * n * n + 4 * n /\ pc' = "ready"
                /\ answer' = InArray(0, b)
             \/ /\ 8 * b > 4 * n * n + 4 * n /\ pc' = "overflow"
                /\ answer' = NONE
    OBVIOUS
  <2>2. get_baseline_count(n) \in Nat /\ 2 * get_baseline_count(n) = n * n + n
    BY <1>1, RowsStartAndEnd
  <2>3. DOMAIN bls = 0 .. get_baseline_count(n) - 1
    BY DEF IInv, TypeOK
  <2>4. 8 * b <= 4 * n * n + 4 * n <=> b <= get_baseline_count(n)
    <3>1. 4 * n * n + 4 * n = 4 * (n * n + n) /\ n * n + n \in Nat
      BY <1>1
    <3> QED
      BY <2>2, <3>1
  <2>5. asked'.by = "baseline" /\ asked'.of = b /\ bls' = bls
    BY <2>1
  <2>6. CASE b < get_baseline_count(n)
    <3>1. PICK a, c : IsPair(n, a, c) /\ bls[b] = <<a, c>> /\ Number(n, a, c) = b
      BY <2>2, <2>3, <2>6 DEF IInv, FilledOK, HoldsPair
    <3>2. Row(b) = a /\ Column(a, b) = c
      BY <1>1, <3>1, EquationFindsPair
    <3>3. answer' = InArray(a, c) /\ pc' = "ready"
      <4>1. 8 * b <= 4 * n * n + 4 * n
        BY <2>2, <2>4, <2>6
      <4>2. 4 * n * n + 4 * n \in Int
        BY <1>1
      <4>3. ~(8 * b > 4 * n * n + 4 * n)
        BY <2>2, <4>1, <4>2
      <4> QED
        BY <2>1, <3>2, <4>3
    <3>4. answer' = <<a, c>>
      BY <1>1, <3>1, <3>3 DEF InArray, IsPair
    <3>5. b \in DOMAIN bls
      BY <2>2, <2>3, <2>6
    <3> QED
      BY <2>5, <3>1, <3>3, <3>4, <3>5 DEF LookupsAgree
  <2>7. CASE b >= get_baseline_count(n)
    <3>1. answer' = NONE
      <4>1. CASE b = get_baseline_count(n)
        BY <1>1, <2>1, <2>2, <2>4, <4>1, EquationEnds DEF InArray
      <4>2. CASE b > get_baseline_count(n)
        <5>1. get_baseline_count(n) >= n
          <6>1. n * n >= n
            BY <1>1
          <6> QED
            BY <1>1, <2>2, <6>1
        <5> QED
          BY <1>1, <2>1, <2>2, <2>4, <4>2, <5>1 DEF InArray
      <4> QED
        BY <2>2, <2>7, <4>1, <4>2
    <3>2. b \notin DOMAIN bls
      BY <2>2, <2>3, <2>7
    <3>3. pc' \in {"ready", "overflow"}
      BY <2>1
    <3> QED
      BY <2>5, <3>1, <3>2, <3>3 DEF LookupsAgree
  <2> QED
    BY <2>2, <2>6, <2>7
<1> QED
  BY <1>3, <1>4, <1>5 DEF IInv

-----------------------------------------------------------------------------
\* The theorems.

LEMMA StepPreserves == IInv /\ [Next]_vars => IInv'
<1> SUFFICES ASSUME IInv, [Next]_vars PROVE IInv'
  OBVIOUS
<1>1. CASE UNCHANGED vars
  BY <1>1 DEF vars, IInv, TypeOK, CountersOK, FilledOK, SearchOK, LookupsAgree, Pairs,
     HoldsPair, IsPair, Number, RowStart
<1>2. CASE Next
  BY <1>2, PopulatePreserves, PopulatedPreserves, FromAntennasPreserves, FromNamesPreserves,
     CountPreserves, FoundPreserves, NotFoundPreserves, FromBaselinePreserves DEF Next
<1> QED
  BY <1>1, <1>2

LEMMA Inductive == Spec => []IInv
<1> QED
  BY InitEstablishes, StepPreserves, PTL DEF Spec

\* For any number of antennas the vector of populate_baselines has room for the
\* loop, and is the upper triangle row by row.
THEOREM VectorsAreTriangles == Spec => []VectorIsTheTriangle
<1>1. ASSUME IInv PROVE VectorIsTheTriangle
  <2>1. n \in Nat
    BY <1>1, ArraysAreNat
  <2>2. pc = "populate" /\ ant1 < n => bl_index \in DOMAIN bls
    <3> SUFFICES ASSUME ant1 < n PROVE bl_index \in DOMAIN bls
      OBVIOUS
    <3>1. IsPair(n, ant1, ant2) /\ bl_index = Number(n, ant1, ant2)
      BY <1>1, <2>1 DEF IInv, CountersOK, TypeOK
    <3> QED
      BY <1>1, <2>1, <3>1, NumbersAreIndices
  <2>3. ASSUME pc # "populate", NEW p \in Pairs
        PROVE  \E b \in DOMAIN bls : bls[b] = p
    <3>1. PICK a, c : p = <<a, c>> /\ IsPair(n, a, c)
      BY <2>1, PairsAre
    <3> QED
      BY <1>1, <2>3, <3>1, VectorHasPairs
  <2>4. ASSUME pc # "populate", NEW b \in DOMAIN bls, NEW c \in DOMAIN bls, b < c
        PROVE  bls[b][1] < bls[c][1] \/ (bls[b][1] = bls[c][1] /\ bls[b][2] < bls[c][2])
    <3>1. HoldsPair(b) /\ HoldsPair(c)
      BY <1>1, <2>4 DEF IInv, FilledOK
    <3>2. PICK d, e : IsPair(n, d, e) /\ bls[b] = <<d, e>> /\ Number(n, d, e) = b
      BY <3>1 DEF HoldsPair
    <3>3. PICK f, g : IsPair(n, f, g) /\ bls[c] = <<f, g>> /\ Number(n, f, g) = c
      BY <3>1 DEF HoldsPair
    <3>4. d < f \/ (d = f /\ e < g)
      BY <2>1, <2>4, <3>2, <3>3, NumbersTellApart
    <3> QED
      BY <3>2, <3>3, <3>4
  <2> QED
    BY <2>2, <2>3, <2>4 DEF VectorIsTheTriangle
<1>2. IInv => VectorIsTheTriangle
  BY <1>1
<1> QED
  BY <1>2, Inductive, PTL

\* For any number of antennas the counting lookups and the quadratic equation
\* agree with the vector, numbers and pairs out of range included.
THEOREM LookupsAgreeWithVector == Spec => []LookupsAgree
<1>1. IInv => LookupsAgree
  BY DEF IInv
<1> QED
  BY <1>1, Inductive, PTL

=============================================================================
