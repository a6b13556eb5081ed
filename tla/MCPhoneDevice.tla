--------------------------- MODULE MCPhoneDevice ---------------------------
(***************************************************************************)
(* Instances of PhoneDevice for TLC.                                       *)
(***************************************************************************)
EXTENDS PhoneDevice, TLC

Symmetry == Permutations(Threads)

=============================================================================
