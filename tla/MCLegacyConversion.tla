-------------------------- MODULE MCLegacyConversion --------------------------
(***************************************************************************)
(* Instance of LegacyConversion: 16 inputs in two groups of four rows of   *)
(* two, so that the PFB's transposition is not its own inverse, and tiles  *)
(* in rotated and reversed orders with either polarisation first.  The     *)
(* parametrised reorderings are the bit operations of the code at the      *)
(* code's own size, and each undoes the other.                             *)
(***************************************************************************)
EXTENDS LegacyConversion, Bitwise

Order(shift, back, flips) ==
    [i \in 0 .. 15 |->
        LET place == IF back THEN 15 - i ELSE i
            tile == ((place \div 2) + shift) % 8
        IN  2 * tile + (IF tile \in flips THEN 1 - (i % 2) ELSE i % 2)]

MCOrders == {Order(shift, back, flips) :
                shift \in 0 .. 7, back \in BOOLEAN, flips \in {{}, {0, 2, 3, 7}, 0 .. 7}}

Real == INSTANCE InputOrder WITH Lanes <- 4, PerLane <- 16

ASSUME \A i \in 0 .. 255 :
    /\ Real!fine_pfb_reorder(i) = (i & 192) + ((i & 3) * 16) + ((i & 60) \div 4)
    /\ Real!get_vcs_order(i) = (i & 192) + ((i & 48) \div 16) + ((i & 15) * 4)
    /\ Real!fine_pfb_reorder(Real!get_vcs_order(i)) = i
=============================================================================
