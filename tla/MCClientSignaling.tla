------------------------- MODULE MCClientSignaling -------------------------
(***************************************************************************)
(* Instances of ClientSignaling for TLC.                                   *)
(***************************************************************************)
EXTENDS ClientSignaling, TLC
=============================================================================
