------------------------------ MODULE InputOrder ------------------------------
(***************************************************************************)
(* The two orders in which a legacy receiver numbers its inputs: the lower *)
(* six bits of an index rotated by two, one way in convert/mod.rs and the  *)
(* other way in rfinput/mod.rs.  Within each group this transposes a table *)
(* of PerLane rows of Lanes, 16 rows of 4 in the code.                     *)
(***************************************************************************)
EXTENDS Integers

CONSTANTS Lanes, PerLane  \* 4 and 16

ASSUME LanesAssumption == Lanes \in Nat \ {0} /\ PerLane \in Nat \ {0}

\* vcs_order of an input: the place at which the PFB puts it out.
get_vcs_order(input) ==
    LET low == input % (Lanes * PerLane)
    IN  input - low + (low \div PerLane) + (low % PerLane) * Lanes

\* The input at a place of the PFB's output.
fine_pfb_reorder(input) ==
    LET low == input % (Lanes * PerLane)
    IN  input - low + (low % Lanes) * PerLane + (low \div Lanes)
=============================================================================
