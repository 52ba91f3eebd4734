------------------------------- MODULE MCRelay -------------------------------
(* One visitor, one service, with a chunk or two on each channel. *)
EXTENDS Relay

=============================================================================
