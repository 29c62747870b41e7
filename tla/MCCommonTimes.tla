--------------------------- MODULE MCCommonTimes ---------------------------
(***************************************************************************)
(* CommonTimes on every map of five times and two channels, an integration  *)
(* of two: runs, gaps, quack time, and times off the integration grid.     *)
(***************************************************************************)
EXTENDS CommonTimes

MCChannels == {1, 2}
MCTimes    == 1 .. 5
MCIntTime  == 2
=============================================================================
