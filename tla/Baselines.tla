------------------------------- MODULE Baselines ------------------------------
(***************************************************************************)
(* The numbering of baselines.  Four functions each have it in their own   *)
(* way: populate_baselines fills a vector, get_baseline_from_antennas and  *)
(* get_baseline_from_antenna_names count until they meet the pair, and     *)
(* get_antennas_from_baseline solves a quadratic equation.                 *)
(*                                                                         *)
(* The equation is in f32, exact below 2^24: up to 2047 antennas.  The     *)
(* usize subtraction in it panics if overflow is checked; otherwise it     *)
(* wraps to a number whose root makes antenna1 saturate at 0.              *)
(***************************************************************************)
EXTENDS Integers

CONSTANTS
    Arrays,   \* numbers of antennas
    Names,    \* names of tiles
    NONE      \* an Option without a value

ASSUME ArraysAssumption == Arrays \subseteq 1 .. 2047
ASSUME NoneAssumption == NONE \notin Nat /\ NONE \notin Nat \X Nat

VARIABLES
    n,          \* the number of antennas
    tiles,      \* their names
    bls,        \* the vector of baselines
    pc,         \* what is going on, or how it ended
    ant1, ant2, bl_index,   \* the loops' counters
    asked,      \* the pair or the baseline of the lookup
    answer      \* what the lookup returned

vars == <<n, tiles, bls, pc, ant1, ant2, bl_index, asked, answer>>
counters == <<ant1, ant2, bl_index>>

get_baseline_count(antennas) == (antennas * (antennas + 1)) \div 2

Init ==
    /\ n \in Arrays
    /\ tiles \in [0 .. n - 1 -> Names]
    /\ bls = [b \in 0 .. get_baseline_count(n) - 1 |-> <<0, 0>>]
    /\ pc = "populate"
    /\ ant1 = 0 /\ ant2 = 0 /\ bl_index = 0
    /\ asked = NONE /\ answer = NONE

-----------------------------------------------------------------------------
\* The loops: ant1 in 0 .. n - 1, ant2 in ant1 .. n - 1.

\* Mutant: each row starts at the first antenna.
NextPairFromZero ==
    /\ ant1' = IF ant2 = n - 1 THEN ant1 + 1 ELSE ant1
    /\ ant2' = IF ant2 = n - 1 THEN 0 ELSE ant2 + 1
    /\ bl_index' = bl_index + 1

NextPair ==
    /\ ant1' = IF ant2 = n - 1 THEN ant1 + 1 ELSE ant1
    /\ ant2' = IF ant2 = n - 1 THEN ant1 + 1 ELSE ant2 + 1
    /\ bl_index' = bl_index + 1

Populate ==
    /\ pc = "populate" /\ ant1 < n
    /\ bls' = [bls EXCEPT ![bl_index] = <<ant1, ant2>>]
    /\ NextPair
    /\ UNCHANGED <<n, tiles, pc, asked, answer>>

Populated ==
    /\ pc = "populate" /\ ant1 = n
    /\ pc' = "ready"
    /\ UNCHANGED <<n, tiles, bls, counters, asked, answer>>

-----------------------------------------------------------------------------
\* Lookups.

Search(by, pair) ==
    /\ pc' = "search" /\ asked' = [by |-> by, of |-> pair] /\ answer' = NONE
    /\ ant1' = 0 /\ ant2' = 0 /\ bl_index' = 0

get_baseline_from_antennas ==
    /\ pc = "ready"
    /\ \E a1, a2 \in 0 .. n : Search("antennas", <<a1, a2>>)
    /\ UNCHANGED <<n, tiles, bls>>

\* The first antenna of a name.
Positions(name) == {a \in 0 .. n - 1 : tiles[a] = name}
IsPosition(a, name) == a \in Positions(name) /\ \A b \in Positions(name) : a <= b

\* A name that no tile has is an unwrap of None.
get_baseline_from_antenna_names ==
    /\ pc = "ready"
    /\ \E name1, name2 \in Names :
        \/ /\ Positions(name1) = {} \/ Positions(name2) = {}
           /\ pc' = "no such tile" /\ UNCHANGED <<counters, asked, answer>>
        \/ \E a1, a2 \in 0 .. n - 1 :
            /\ IsPosition(a1, name1) /\ IsPosition(a2, name2)
            /\ Search("names", <<a1, a2>>)
    /\ UNCHANGED <<n, tiles, bls>>

Count ==
    /\ pc = "search" /\ ant1 < n /\ asked.of # <<ant1, ant2>>
    /\ NextPair
    /\ UNCHANGED <<n, tiles, bls, pc, asked, answer>>

Found ==
    /\ pc = "search" /\ ant1 < n /\ asked.of = <<ant1, ant2>>
    /\ pc' = "ready" /\ answer' = bl_index
    /\ UNCHANGED <<n, tiles, bls, counters, asked>>

\* The loops end: the first lookup returns None, the second is "unreachable".
NotFound ==
    /\ pc = "search" /\ ant1 = n
    /\ pc' = IF asked.by = "antennas" THEN "ready" ELSE "unreachable"
    /\ UNCHANGED <<n, tiles, bls, counters, asked, answer>>

\* 4 N^2 + 4 N - 8 b + 1 and the whole part of N + 1/2 - sqrt(D) / 2.
Square(x) == x * x
Discriminant(b) == 4 * n * n + 4 * n - 8 * b + 1

\* Mutant: the number is rounded up.
RowAbove(b) ==
    CHOOSE a \in 0 .. n :
        /\ Discriminant(b) >= Square(2 * n + 1 - 2 * a)
        /\ \A c \in 0 .. n : Discriminant(b) >= Square(2 * n + 1 - 2 * c) => a <= c

Row(b) ==
    CHOOSE a \in 0 .. n :
        /\ Discriminant(b) <= Square(2 * n + 1 - 2 * a)
        /\ \A c \in 0 .. n : Discriminant(b) <= Square(2 * n + 1 - 2 * c) => c <= a

Column(a, b) == b - (a * n - (a * a + a) \div 2)
InArray(a1, a2) == IF a1 > n - 1 \/ a2 > n - 1 THEN NONE ELSE <<a1, a2>>

get_antennas_from_baseline ==
    /\ pc = "ready"
    /\ \E b \in 0 .. get_baseline_count(n) + 2 :
        /\ asked' = [by |-> "baseline", of |-> b]
        /\ \/ /\ 8 * b <= 4 * n * n + 4 * n
              /\ answer' = InArray(Row(b), Column(Row(b), b)) /\ UNCHANGED pc
           \/ /\ 8 * b > 4 * n * n + 4 * n
              /\ answer' = InArray(0, b) /\ UNCHANGED pc
           \/ /\ 8 * b > 4 * n * n + 4 * n
              /\ answer' = NONE /\ pc' = "overflow"
    /\ UNCHANGED <<n, tiles, bls, counters>>

Next ==
    \/ Populate \/ Populated
    \/ get_baseline_from_antennas \/ get_baseline_from_antenna_names
    \/ Count \/ Found \/ NotFound
    \/ get_antennas_from_baseline

Spec == Init /\ [][Next]_vars

-----------------------------------------------------------------------------
\* Properties.

Pairs == {p \in (0 .. n - 1) \X (0 .. n - 1) : p[1] <= p[2]}

\* populate_baselines has room for exactly the pairs of the upper triangle, and
\* each stands in the vector, the rows one after the other.
VectorIsTheTriangle ==
    /\ pc = "populate" /\ ant1 < n => bl_index \in DOMAIN bls
    /\ pc # "populate" =>
        /\ \A p \in Pairs : \E b \in DOMAIN bls : bls[b] = p
        /\ \A b, c \in DOMAIN bls : b < c =>
            bls[b][1] < bls[c][1] \/ (bls[b][1] = bls[c][1] /\ bls[b][2] < bls[c][2])

\* The lookups know the numbers of the vector: the baseline of two antennas, and
\* of two names, is where the vector has the pair, and the antennas of a baseline
\* are those the vector has there; what the vector does not have is None.  The
\* unreachable!() is only reached for a pair that is not in the vector, and the
\* subtraction under the root only overflows past its end.
LookupsAgree ==
    /\ pc = "ready" /\ asked # NONE =>
        IF asked.by = "baseline"
        THEN answer = IF asked.of \in DOMAIN bls THEN bls[asked.of] ELSE NONE
        ELSE IF asked.of \in Pairs
        THEN answer \in DOMAIN bls /\ bls[answer] = asked.of
        ELSE answer = NONE
    /\ pc = "unreachable" => asked.of \notin Pairs
    /\ pc = "overflow" => asked.of \notin DOMAIN bls
=============================================================================
