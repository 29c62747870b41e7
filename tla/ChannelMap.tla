----------------------------- MODULE ChannelMap ----------------------------
(***************************************************************************)
(* The number in the name of the gpubox file of a receiver channel, as the *)
(* formats define it, and how an index of coarse channels is looked up.    *)
(* CoarseChannels shows that the loop of populate_coarse_channels computes *)
(* it; CorrelatorContext uses it.                                          *)
(***************************************************************************)
EXTENDS Integers, FiniteSets, Sequences

\* MWAX files carry the receiver channel.  The legacy correlator numbers the
\* coarse channels from 1, those up to 128 by ascending frequency, then those
\* over 128 by descending frequency.
GpuboxOf(legacy, recs, c) ==
  IF ~legacy THEN c
  ELSE IF c <= 128 THEN Cardinality({d \in recs : d <= c})
  ELSE Cardinality({d \in recs : d <= 128 \/ d >= c})

\* Receiver channels by ascending frequency.
Ascending(s) == \A i, j \in DOMAIN s : i < j => s[i] < s[j]

\* The members of a set of numbers by ascending size.
Sorted(S) ==
  [i \in 1 .. Cardinality(S) |-> CHOOSE x \in S : Cardinality({y \in S : y <= x}) = i]

\* position(): the first index at which a predicate holds, if there is one.
IsPosition(i, s, x) == s[i] = x /\ \A j \in 1 .. i - 1 : s[j] # x
IndicesOf(s, xs) == {i \in DOMAIN s : \E x \in xs : IsPosition(i, s, x)}
=============================================================================
