------------------------------ MODULE MCRingBuf ------------------------------
(* RingBuf for TLC.                                                        *)
EXTENDS RingBuf
=============================================================================
