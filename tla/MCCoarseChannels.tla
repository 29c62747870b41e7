-------------------------- MODULE MCCoarseChannels -------------------------
(***************************************************************************)
(* CoarseChannels on every list of up to three channels, two on either     *)
(* side of the limit of 128, in any order.                                 *)
(***************************************************************************)
EXTENDS CoarseChannels

MCReceiverChans == {127, 128, 129, 130}
MCMaxChans == 3
=============================================================================
