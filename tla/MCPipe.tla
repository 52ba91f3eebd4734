------------------------------- MODULE MCPipe -------------------------------
(* One Pipe between two peers over TCP connections. *)
EXTENDS Pipe

=============================================================================
