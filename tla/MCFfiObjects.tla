----------------------------- MODULE MCFfiObjects -----------------------------
(***************************************************************************)
(* Instance of FfiObjects: three objects; contexts of one tile, of none    *)
(* with some vectors empty and its two numbers of fine channels different, *)
(* of four rows of which two pair, of three rows that pair twice, and with *)
(* a coordinate that is not a number; messages of two and three bytes, the *)
(* latter with a character of two bytes; every length of a buffer from     *)
(* null to ample.                                                          *)
(***************************************************************************)
EXTENDS FfiObjects, TLC

SymmetricIds == Permutations(Ids)

MCShapes ==
    {[antennas |-> 1, inputs |-> 2, empty |-> {}, corr_fine |-> 2, volt_fine |-> 2, nan |-> FALSE],
     [antennas |-> 0, inputs |-> 0, corr_fine |-> 1, volt_fine |-> 2, nan |-> FALSE,
      empty |-> {"antennas", "rf_inputs", "baselines", "metafits_timesteps", "timesteps",
                 "common_timestep_indices", "common_good_timestep_indices"}],
     [antennas |-> 1, inputs |-> 4, empty |-> {}, corr_fine |-> 1, volt_fine |-> 1, nan |-> FALSE],
     [antennas |-> 2, inputs |-> 3, empty |-> {}, corr_fine |-> 1, volt_fine |-> 1, nan |-> FALSE],
     [antennas |-> 1, inputs |-> 2, corr_fine |-> 1, volt_fine |-> 1, nan |-> TRUE,
      empty |-> {"common_good_timestep_indices", "digital_gains"}]}

MCMessages == {[len |-> 2, cuts |-> {0, 1, 2}], [len |-> 3, cuts |-> {0, 2, 3}]}

MCBuffers == {NullBuffer} \cup 0 .. 4
=============================================================================
