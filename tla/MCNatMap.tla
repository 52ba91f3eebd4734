------------------------------- MODULE MCNatMap -------------------------------
(* NatMap for TLC.                                                         *)
EXTENDS NatMap
=============================================================================
