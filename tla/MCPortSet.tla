------------------------------ MODULE MCPortSet ------------------------------
(* PortSet for TLC.                                                        *)
EXTENDS PortSet
=============================================================================
