--------------------------------- MODULE Fifo ---------------------------------
(***************************************************************************)
(* What a bounded buffer of bytes promises its caller: bytes leave in the  *)
(* order in which they came, a call says how many it took or gave, and     *)
(* nothing is dropped but what Discard and Reset are asked to drop and     *)
(* what is in hand when a sink fails.  The buffer has no lock: one caller, *)
(* one call at a time.                                                     *)
(***************************************************************************)
EXTENDS Integers, Sequences

CONSTANTS
  Byte,
  Capacity,
  Chunk,    \* the most that moves in one round of WriteTo and ReadFrom
  MaxLen    \* bound: the longest slice a caller passes

VARIABLES
  queue,    \* the bytes held, the oldest first
  at,       \* the call that is going round its loop, or "idle"
  out       \* the last answer: a count, the bytes handed on, and an error

vars == <<queue, at, out>>

Slices == UNION {[1..n -> Byte] : n \in 0..MaxLen}
Least(m, n) == IF m <= n THEN m ELSE n
Room == Capacity - Len(queue)
First(n) == SubSeq(queue, 1, n)
Rest(n) == SubSeq(queue, n + 1, Len(queue))
Answer(n, bytes, err) == out' = [n |-> n, bytes |-> bytes, err |-> err]

Init == queue = <<>> /\ at = "idle" /\ out = [n |-> 0, bytes |-> <<>>, err |-> "none"]

Write(p) ==
  LET n == Least(Len(p), Room) IN
  /\ at = "idle" /\ UNCHANGED at
  /\ queue' = queue \o SubSeq(p, 1, n)
  /\ Answer(n, <<>>, IF n < Len(p) THEN "full" ELSE "none")

Read(k) ==
  LET n == Least(k, Len(queue)) IN
  /\ at = "idle" /\ UNCHANGED at
  /\ queue' = Rest(n)
  /\ Answer(n, First(n), IF k > 0 /\ queue = <<>> THEN "eof" ELSE "none")

Peek(k) ==
  LET n == Least(k, Len(queue)) IN
  /\ at = "idle" /\ UNCHANGED <<queue, at>>
  /\ Answer(n, First(n), "none")

Discard(k) ==
  LET n == Least(k, Len(queue)) IN
  /\ at = "idle" /\ UNCHANGED at
  /\ queue' = Rest(n)
  /\ Answer(n, <<>>, "none")

Reset ==
  /\ at = "idle" /\ UNCHANGED at
  /\ queue' = <<>> /\ Answer(0, <<>>, "none")

(* WriteTo and ReadFrom go round their loops.                              *)
Begin(call) ==
  /\ at = "idle" /\ at' = call
  /\ UNCHANGED queue /\ Answer(0, <<>>, "none")

(* A sink takes what it is given, or fails, and only then is something     *)
(* lost: what it was given and did not take.                               *)
SinkTakes ==
  /\ at = "writeTo" /\ UNCHANGED at
  /\ \E n \in 1..Least(Chunk, Len(queue)) :
       queue' = Rest(n) /\ Answer(n, First(n), "none")

SinkFails ==
  /\ at = "writeTo" /\ at' = "idle"
  /\ \E n \in 1..Least(Chunk, Len(queue)) : \E d \in 0..n :
       queue' = Rest(n) /\ Answer(d, First(d), "sink")

Drained ==
  /\ at = "writeTo" /\ at' = "idle"
  /\ queue = <<>> /\ UNCHANGED queue
  /\ Answer(0, <<>>, "none")

(* Whatever is taken from a source is held; what is not held stays there.  *)
SourceGives(n) ==
  /\ at = "readFrom"
  /\ \E s \in [1..n -> Byte] :
       /\ queue' = queue \o s
       /\ \/ n > 0 /\ UNCHANGED at /\ Answer(n, s, "none")
          \/ at' = "idle" /\ \E err \in {"none", "source"} : Answer(n, s, err)

Filled ==
  /\ at = "readFrom" /\ at' = "idle"
  /\ Room = 0 /\ UNCHANGED queue
  /\ Answer(0, <<>>, "none")

Next ==
  \/ \E p \in Slices : Write(p)
  \/ \E k \in 0..MaxLen : Read(k) \/ Peek(k) \/ Discard(k)
  \/ Reset
  \/ \E call \in {"writeTo", "readFrom"} : Begin(call)
  \/ SinkTakes \/ SinkFails \/ Drained
  \/ \E n \in 0..Least(Chunk, Room) : SourceGives(n)
  \/ Filled

Spec == Init /\ [][Next]_vars
=============================================================================
