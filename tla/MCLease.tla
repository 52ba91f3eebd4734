------------------------------- MODULE MCLease -------------------------------
(* Lease for TLC.                                                          *)
EXTENDS Lease
==============================================================================
