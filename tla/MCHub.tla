-------------------------------- MODULE MCHub --------------------------------
(* Hub for TLC.                                                            *)
EXTENDS Hub
==============================================================================
