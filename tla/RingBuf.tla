------------------------------- MODULE RingBuf -------------------------------
(***************************************************************************)
(* The ring buffer of internal/ringbuf: an array with two positions.  They *)
(* are the same when it is empty and when it is full; full tells the two   *)
(* apart.  The loops that move a byte at a time are given by what they do  *)
(* to the whole stretch, those of WriteTo and ReadFrom one round at a time.*)
(***************************************************************************)
EXTENDS Integers, Sequences

CONSTANTS
  Byte,
  Capacity,
  Chunk,    \* the 512 bytes of tmp in WriteTo and ReadFrom
  MaxLen    \* bound: the longest slice a caller passes

(* New turns a capacity below 1 into 4096; make fills the array with zeros.*)
ASSUME SizesAssumption ==
  Capacity \in Nat \ {0} /\ Chunk \in Nat \ {0} /\ MaxLen \in Nat /\ Byte # {}

VARIABLES
  buf, r, w, size, full,   \* the fields of Buffer
  at,                      \* the call that is going round its loop
  out                      \* what the last call or round returned

ring == <<buf, r, w, size, full>>
vars == <<ring, at, out>>

Slices == UNION {[1..n -> Byte] : n \in 0..MaxLen}
Least(m, n) == IF m <= n THEN m ELSE n

Length == IF full THEN Capacity
          ELSE IF w >= r THEN w - r
          ELSE Capacity - r + w
Free == Capacity - Length
Empty == ~full /\ r = w

(* A position that reaches the end of the array goes back to its start.    *)
Wrap(i) == IF i < Capacity THEN i ELSE i - Capacity
From(p, i) == IF i >= p THEN i - p ELSE i - p + Capacity
Oldest(n) == [i \in 1..n |-> buf[Wrap(r + i - 1)]]

Init ==
  /\ \E zero \in Byte : buf = [i \in 0..Capacity-1 |-> zero]
  /\ r = 0 /\ w = 0 /\ size = 0 /\ full = FALSE
  /\ at = "idle" /\ out = [n |-> 0, bytes |-> <<>>, err |-> "none"]

Answer(n, bytes, err) == out' = [n |-> n, bytes |-> bytes, err |-> err]

(* A mistake: the flag stays as it was when the last free byte is used.    *)
PutUnflagged(p, n) ==
  IF n = 0 THEN UNCHANGED ring
  ELSE /\ buf' = [i \in 0..Capacity-1 |-> IF From(w, i) < n THEN p[From(w, i) + 1] ELSE buf[i]]
       /\ w' = Wrap(w + n)
       /\ UNCHANGED <<r, full>> /\ size' = Length'

(* The loop of Write, for the first n bytes of p, which fit.               *)
Put(p, n) ==
  IF n = 0 THEN UNCHANGED ring
  ELSE /\ buf' = [i \in 0..Capacity-1 |-> IF From(w, i) < n THEN p[From(w, i) + 1] ELSE buf[i]]
       /\ w' = Wrap(w + n) /\ full' = (w' = r)
       /\ UNCHANGED r /\ size' = Length'

(* The loop of Read, over the n oldest bytes.                              *)
Take(n) ==
  IF n = 0 THEN UNCHANGED ring
  ELSE /\ r' = Wrap(r + n) /\ full' = FALSE
       /\ UNCHANGED <<buf, w>> /\ size' = Length'

-----------------------------------------------------------------------------
Write(p) ==
  LET n == Least(Len(p), Free) IN
  /\ at = "idle" /\ UNCHANGED at
  /\ Put(p, n)
  /\ Answer(n, <<>>, IF n < Len(p) THEN "full" ELSE "none")

Read(k) ==
  LET n == Least(k, Length) IN
  /\ at = "idle" /\ UNCHANGED at
  /\ Take(n)
  /\ Answer(n, Oldest(n), IF k > 0 /\ Empty THEN "eof" ELSE "none")

Peek(k) ==
  LET n == Least(k, Length) IN
  /\ at = "idle" /\ UNCHANGED <<ring, at>>
  /\ Answer(n, Oldest(n), "none")

(* A mistake: the flag of a full buffer survives its Discard.              *)
DiscardFlagged(k) ==
  LET n == Least(k, Length) IN
  /\ at = "idle" /\ UNCHANGED <<buf, w, full, at>>
  /\ r' = (r + n) % Capacity /\ size' = Length'
  /\ Answer(n, <<>>, "none")

(* Discard moves both positions to the start when nothing is left.         *)
Discard(k) ==
  LET n == Least(k, Length)
      next == (r + n) % Capacity
  IN
  /\ at = "idle" /\ UNCHANGED <<buf, at>>
  /\ IF n = 0 THEN UNCHANGED ring
     ELSE /\ full' = FALSE
          /\ IF next = w THEN r' = 0 /\ w' = 0 ELSE r' = next /\ UNCHANGED w
          /\ size' = Length'
  /\ Answer(n, <<>>, "none")

Reset ==
  /\ at = "idle" /\ UNCHANGED <<buf, at>>
  /\ r' = 0 /\ w' = 0 /\ full' = FALSE /\ size' = 0
  /\ Answer(0, <<>>, "none")

Begin(call) ==
  /\ at = "idle" /\ at' = call
  /\ UNCHANGED ring /\ Answer(0, <<>>, "none")

(* A round of WriteTo takes a chunk out of the buffer and hands it to the  *)
(* sink, which takes d bytes of it; a sink that fails gets no other call.  *)
WriteToRound ==
  LET n == Least(Chunk, Length) IN
  /\ at = "writeTo" /\ ~Empty
  /\ Take(n)
  /\ \/ UNCHANGED at /\ Answer(n, Oldest(n), "none")
     \/ at' = "idle" /\ \E d \in 0..n : Answer(d, Oldest(d), "sink")

WriteToReturns ==
  /\ at = "writeTo" /\ Empty /\ at' = "idle"
  /\ UNCHANGED ring /\ Answer(0, <<>>, "none")

(* A round of ReadFrom asks the source for no more than fits; s is what it *)
(* gives, perhaps with its end or an error.  A source that gives nothing   *)
(* ends the loop as its end does.                                          *)
ReadFromRound(n) ==
  /\ at = "readFrom" /\ Free > 0 /\ n <= Least(Chunk, Free)
  /\ \E s \in [1..n -> Byte] :
       /\ Put(s, Least(n, Free))
       /\ \/ n > 0 /\ UNCHANGED at /\ Answer(n, s, "none")
          \/ at' = "idle" /\ \E err \in {"none", "source"} : Answer(n, s, err)

ReadFromReturns ==
  /\ at = "readFrom" /\ Free = 0 /\ at' = "idle"
  /\ UNCHANGED ring /\ Answer(0, <<>>, "none")

Next ==
  \/ \E p \in Slices : Write(p)
  \/ \E k \in 0..MaxLen : Read(k) \/ Peek(k) \/ Discard(k)
  \/ Reset
  \/ \E call \in {"writeTo", "readFrom"} : Begin(call)
  \/ WriteToRound \/ WriteToReturns
  \/ \E n \in 0..Chunk : ReadFromRound(n)
  \/ ReadFromReturns

Spec == Init /\ [][Next]_vars

-----------------------------------------------------------------------------
(* What the buffer holds, the oldest byte first.                           *)
Contents == Oldest(Length)

(* The positions are inside the array, full is set only where the two      *)
(* positions meet, and the recorded size is the number of bytes held,      *)
(* whichever of Write, Read, Discard, Reset and the two loops ran last.    *)
RingOK ==
  /\ buf \in [0..Capacity-1 -> Byte]
  /\ r \in 0..Capacity-1 /\ w \in 0..Capacity-1
  /\ full \in BOOLEAN /\ (full => r = w)
  /\ size = Length
  /\ at \in {"idle", "writeTo", "readFrom"}

(* Every call of the ring buffer does and answers what a bounded queue     *)
(* does: order, counts, ErrFull and EOF, no byte lost in ReadFrom, and in  *)
(* WriteTo none but those of the chunk at which the sink failed.           *)
F == INSTANCE Fifo WITH queue <- Contents
ImplementsFifo == F!Spec
=============================================================================
