----------------------------- MODULE ByteChannels -----------------------------
(***************************************************************************)
(* What lies between the program's ends: byte streams, one each way of a   *)
(* connection.  A channel is a FIFO of at most Window chunks, kept as the  *)
(* number of chunks written to it and taken from it.  fin: its writer has  *)
(* ended it; shut: its reader has gone, what is in it is lost and writing  *)
(* to it may fail.  Pipe copies between four of them; Relay has six, and   *)
(* two Pipes that share two.                                               *)
(***************************************************************************)
EXTENDS Integers

CONSTANTS
  Window,        \* chunks a channel holds
  MaxChunks      \* bound: chunks a peer sends

ASSUME ChannelsAssumption == Window \in Nat \ {0} /\ MaxChunks \in Nat

VARIABLES
  wrote, took,   \* chunks written to and taken from each channel
  fin, shut

channelVars == <<wrote, took, fin, shut>>

HasRoom(c) == wrote[c] - took[c] < Window
IsEmpty(c) == wrote[c] = took[c]

Write(c) == wrote' = [wrote EXCEPT ![c] = @ + 1]
Take(c)  == took' = [took EXCEPT ![c] = @ + 1]

InitChannels(C) ==
  /\ wrote = [c \in C |-> 0] /\ took = [c \in C |-> 0]
  /\ fin = [c \in C |-> FALSE] /\ shut = [c \in C |-> FALSE]

(* What the variables are for a set of channels C.                         *)
ChannelsOK(C) ==
  /\ wrote \in [C -> Nat] /\ took \in [C -> Nat]
  /\ fin \in [C -> BOOLEAN] /\ shut \in [C -> BOOLEAN]

=============================================================================
