--------------------------- MODULE MCClientHislog ---------------------------
(***************************************************************************)
(* Instances of ClientHislog for TLC.                                      *)
(***************************************************************************)
EXTENDS ClientHislog

MCInterval == {<<3000, 7000>>}
=============================================================================
