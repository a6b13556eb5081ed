-------------------------- MODULE MCClassicClient --------------------------
(***************************************************************************)
(* Instances of ClassicClient for TLC.                                     *)
(***************************************************************************)
EXTENDS ClassicClient, TLC
=============================================================================
