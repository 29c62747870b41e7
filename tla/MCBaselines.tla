------------------------------ MODULE MCBaselines -----------------------------
(***************************************************************************)
(* Instance of Baselines: arrays of one to four antennas with any of       *)
(* three names, one name for several tiles included.                       *)
(***************************************************************************)
EXTENDS Baselines

MCArrays == 1 .. 4
=============================================================================
