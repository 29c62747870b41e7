---------------------------- MODULE TimestepGrid ---------------------------
(***************************************************************************)
(* The timesteps of an observation, as a set: what the three loops of      *)
(* TimestepSuperset compute, and what the correlator context works with.   *)
(***************************************************************************)
EXTENDS Integers

Least(S)    == CHOOSE t \in S : \A u \in S : t <= u
Greatest(S) == CHOOSE t \in S : \A u \in S : u <= t

\* The times of lo .. hi a multiple of d from the time t.
OnGrid(t, lo, hi, d) == {u \in lo .. hi : (u - t) % d = 0}

\* The data, extended to the first and last time of the schedule on the grids
\* of the first and of the last data timestep.
Extended(provided, first, last, d) ==
  provided \cup OnGrid(Least(provided), first, Least(provided), d)
           \cup OnGrid(Greatest(provided), Greatest(provided), last, d)

\* ... and with the gaps filled on the grid of the first timestep of all.
Superset(provided, first, last, d) ==
  LET ext == Extended(provided, first, last, d)
  IN  ext \cup OnGrid(Least(ext), Least(ext), Greatest(ext), d)
=============================================================================
