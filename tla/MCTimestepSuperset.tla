------------------------ MODULE MCTimestepSuperset -------------------------
(***************************************************************************)
(* TimestepSuperset on every set of data times and every schedule within a *)
(* window of eight times, on the grid of the schedule or off it.           *)
(***************************************************************************)
EXTENDS TimestepSuperset

MCTimes    == 2 .. 9
MCDuration == 2
=============================================================================
