---------------------------- MODULE RingBufProofs ----------------------------
(***************************************************************************)
(* The ring buffer is a bounded queue, for every capacity, chunk and byte. *)
(***************************************************************************)
EXTENDS RingBuf, TLAPS

(* A slice is a sequence of bytes.                                         *)
LEMMA SliceType == ASSUME NEW p \in Slices
                   PROVE  p \in Seq(Byte) /\ Len(p) \in Nat
<1>1. PICK n \in 0..MaxLen : p \in [1..n -> Byte]
  BY DEF Slices
<1>2. QED BY <1>1, SizesAssumption

(* The number of bytes held lies between none and the capacity.            *)
LEMMA LengthBounds ==
  ASSUME RingOK
  PROVE  Length \in 0..Capacity /\ (Length = 0 <=> Empty) /\ Free \in 0..Capacity
BY SizesAssumption DEF RingOK, Length, Free, Empty

(* The remainder in Discard is one turn of the array.                      *)
LEMMA ModuloIsWrap ==
  ASSUME NEW i \in 0..Capacity-1, NEW n \in 0..Capacity
  PROVE  (i + n) % Capacity = Wrap(i + n)
BY SizesAssumption, SMTT(60) DEF Wrap

(* The loop of Write keeps the buffer in order.                            *)
LEMMA PutKeepsRing ==
  ASSUME RingOK, NEW p \in Seq(Byte), NEW n \in 0..Free, n <= Len(p), Put(p, n),
         at' \in {"idle", "writeTo", "readFrom"}
  PROVE  RingOK'
<1>1. CASE n = 0
  BY <1>1 DEF Put, ring, RingOK, Length
<1>2. CASE n # 0
  <2>1. buf' \in [0..Capacity-1 -> Byte]
    <3>1. \A i \in 0..Capacity-1 : From(w, i) \in Nat
      BY SizesAssumption DEF From, RingOK
    <3>2. \A i \in 0..Capacity-1 : From(w, i) < n => p[From(w, i) + 1] \in Byte
      BY <3>1, LengthBounds
    <3>3. QED BY <3>2, <1>2 DEF Put, RingOK
  <2>2. w' \in 0..Capacity-1 /\ r' \in 0..Capacity-1
    BY <1>2, LengthBounds, SizesAssumption DEF Put, Wrap, RingOK
  <2>3. full' \in BOOLEAN /\ (full' => r' = w') /\ size' = Length'
    BY <1>2 DEF Put
  <2>4. QED BY <2>1, <2>2, <2>3 DEF RingOK
<1>3. QED BY <1>1, <1>2

(* So does the loop of Read.                                               *)
LEMMA TakeKeepsRing ==
  ASSUME RingOK, NEW n \in 0..Length, Take(n), at' \in {"idle", "writeTo", "readFrom"}
  PROVE  RingOK'
<1>1. CASE n = 0
  BY <1>1 DEF Take, ring, RingOK, Length
<1>2. CASE n # 0
  <2>1. buf' \in [0..Capacity-1 -> Byte] /\ w' \in 0..Capacity-1
    BY <1>2 DEF Take, RingOK
  <2>2. r' \in 0..Capacity-1
    BY <1>2, LengthBounds, SizesAssumption DEF Take, Wrap, RingOK
  <2>3. full' = FALSE /\ size' = Length'
    BY <1>2 DEF Take
  <2>4. QED BY <2>1, <2>2, <2>3 DEF RingOK
<1>3. QED BY <1>1, <1>2

(* Discard, with its return to the start of the array.                     *)
LEMMA DiscardKeepsRing == ASSUME RingOK, NEW k \in 0..MaxLen, Discard(k)
                          PROVE  RingOK'
<1> DEFINE n == Least(k, Length)
<1>1. n \in 0..Length
  BY LengthBounds, SizesAssumption DEF Least
<1>2. at' \in {"idle", "writeTo", "readFrom"} /\ buf' = buf
  BY DEF Discard, RingOK
<1>3. CASE n = 0
  BY <1>2, <1>3 DEF Discard, ring, RingOK, Length
<1>4. CASE n # 0
  <2>1. (r + n) % Capacity = Wrap(r + n)
    <3>1. r \in 0..Capacity-1 /\ n \in 0..Capacity
      BY <1>1, LengthBounds, SizesAssumption DEF RingOK
    <3> HIDE DEF n
    <3>2. QED BY <3>1, ModuloIsWrap
  <2>2. Wrap(r + n) \in 0..Capacity-1
    BY <1>1, LengthBounds, SizesAssumption DEF Wrap, RingOK
  <2>3. full' = FALSE /\ size' = Length'
    BY <1>4 DEF Discard
  <2>4. r' \in 0..Capacity-1 /\ w' \in 0..Capacity-1
    BY <1>4, <2>1, <2>2, SizesAssumption DEF Discard, RingOK
  <2>5. QED BY <1>2, <2>3, <2>4 DEF RingOK
<1>5. QED BY <1>3, <1>4

(* Every call and every round keeps the positions, the flag and the size   *)
(* in order.                                                               *)
LEMMA StepKeepsRing == RingOK /\ [Next]_vars => RingOK'
<1> SUFFICES ASSUME RingOK, [Next]_vars PROVE RingOK'
  OBVIOUS
<1>1. ASSUME NEW p \in Slices, Write(p) PROVE RingOK'
  <2>1. Least(Len(p), Free) \in 0..Free /\ Least(Len(p), Free) <= Len(p)
    BY SliceType, LengthBounds, SizesAssumption DEF Least
  <2>2. Put(p, Least(Len(p), Free)) /\ at' \in {"idle", "writeTo", "readFrom"}
    BY <1>1 DEF Write, RingOK
  <2>3. QED BY <2>1, <2>2, SliceType, PutKeepsRing
<1>2. ASSUME NEW k \in 0..MaxLen, Read(k) PROVE RingOK'
  <2>1. Least(k, Length) \in 0..Length
    BY LengthBounds, SizesAssumption DEF Least
  <2>2. Take(Least(k, Length)) /\ at' \in {"idle", "writeTo", "readFrom"}
    BY <1>2 DEF Read, RingOK
  <2>3. QED BY <2>1, <2>2, TakeKeepsRing
<1>3. ASSUME NEW k \in 0..MaxLen, Peek(k) PROVE RingOK'
  BY <1>3 DEF Peek, ring, RingOK, Length
<1>4. ASSUME NEW k \in 0..MaxLen, Discard(k) PROVE RingOK'
  BY <1>4, DiscardKeepsRing
<1>5. ASSUME Reset PROVE RingOK'
  BY <1>5, SizesAssumption DEF Reset, RingOK, Length
<1>6. ASSUME NEW call \in {"writeTo", "readFrom"}, Begin(call) PROVE RingOK'
  BY <1>6 DEF Begin, ring, RingOK, Length
<1>7. ASSUME WriteToRound PROVE RingOK'
  <2>1. Least(Chunk, Length) \in 0..Length
    BY LengthBounds, SizesAssumption DEF Least
  <2>2. Take(Least(Chunk, Length)) /\ at' \in {"idle", "writeTo", "readFrom"}
    BY <1>7 DEF WriteToRound, RingOK
  <2>3. QED BY <2>1, <2>2, TakeKeepsRing
<1>8. ASSUME WriteToReturns PROVE RingOK'
  BY <1>8 DEF WriteToReturns, ring, RingOK, Length
<1>9. ASSUME NEW n \in 0..Chunk, ReadFromRound(n) PROVE RingOK'
  <2>1. n \in 0..Free /\ Least(n, Free) = n
    BY <1>9, LengthBounds, SizesAssumption DEF ReadFromRound, Least
  <2>2. PICK s \in [1..n -> Byte] : Put(s, n)
    BY <1>9, <2>1 DEF ReadFromRound
  <2>3. s \in Seq(Byte) /\ Len(s) = n
    BY <2>1, SizesAssumption
  <2>4. at' \in {"idle", "writeTo", "readFrom"}
    BY <1>9 DEF ReadFromRound
  <2>5. QED BY <2>1, <2>2, <2>3, <2>4, PutKeepsRing
<1>10. ASSUME ReadFromReturns PROVE RingOK'
  BY <1>10 DEF ReadFromReturns, ring, RingOK, Length
<1>11. ASSUME UNCHANGED vars PROVE RingOK'
  BY <1>11 DEF vars, ring, RingOK, Length
<1>12. QED
  BY <1>1, <1>2, <1>3, <1>4, <1>5, <1>6, <1>7, <1>8, <1>9, <1>10, <1>11 DEF Next

(* RingOK: whatever calls are made in whatever order, the positions stay   *)
(* inside the array, the flag is set only where they meet, and the         *)
(* recorded size is the number of bytes held.                              *)
THEOREM RingCorrect == Spec => []RingOK
<1>1. Init => RingOK
  BY SizesAssumption DEF Init, RingOK, Length
<1>2. QED BY <1>1, StepKeepsRing, PTL DEF Spec

-----------------------------------------------------------------------------
(* The contents are a sequence, as long as Len says.                       *)
LEMMA ContentsType == ASSUME RingOK
                      PROVE  Contents \in Seq(Byte) /\ Len(Contents) = Length
<1>1. \A i \in 1..Length : Wrap(r + i - 1) \in 0..Capacity-1
  BY LengthBounds, SizesAssumption DEF Wrap, RingOK
<1>2. Contents \in [1..Length -> Byte]
  BY <1>1 DEF Contents, Oldest, RingOK
<1>3. QED BY <1>2, LengthBounds, SizesAssumption

(* The n oldest bytes are the first n of the contents.                     *)
LEMMA OldestIsFirst == ASSUME RingOK, NEW n \in 0..Length
                       PROVE  Oldest(n) = SubSeq(Contents, 1, n)
<1>1. Length \in Nat /\ n <= Length
  BY LengthBounds, SizesAssumption
<1>2. Contents = [i \in 1..Length |-> buf[Wrap(r + i - 1)]] /\ Contents \in Seq(Byte)
  BY ContentsType DEF Contents, Oldest
<1>3. SubSeq(Contents, 1, n) = [i \in 1..n |-> Contents[i]]
  BY <1>1, <1>2
<1>4. \A i \in 1..n : Contents[i] = buf[Wrap(r + i - 1)]
  BY <1>1, <1>2
<1>5. QED BY <1>3, <1>4 DEF Oldest

(* Where a position lies as seen from w: the bytes held come last.         *)
LEMMA SeenFromW ==
  ASSUME RingOK, NEW j \in 0..Capacity-1
  PROVE  /\ Wrap(r + j) \in 0..Capacity-1
         /\ From(w, Wrap(r + j)) = IF j < Length THEN j - Length + Capacity ELSE j - Length
BY SizesAssumption DEF Wrap, From, RingOK, Length

(* The loop of Write appends.                                              *)
LEMMA PutAppends ==
  ASSUME RingOK, NEW p \in Seq(Byte), NEW n \in 0..Free, n <= Len(p), Put(p, n)
  PROVE  Contents' = Contents \o SubSeq(p, 1, n)
<1>1. CASE n = 0
  <2>1. Contents' = Contents
    BY <1>1 DEF Put, ring, Contents, Oldest, Length
  <2>2. QED BY <1>1, <2>1, ContentsType
<1>2. CASE n # 0
  <2>1. Length' = Length + n
    <3>1. /\ r \in 0..Capacity-1 /\ w \in 0..Capacity-1
          /\ full \in BOOLEAN /\ (full => r = w)
      BY DEF RingOK
    <3>2. ~full /\ n \in 1..Capacity - Length
      BY <1>2, <3>1, SizesAssumption DEF Free, Length
    <3>3. w' = Wrap(w + n) /\ r' = r /\ (full' <=> w' = r)
      BY <1>2 DEF Put
    <3>4. CASE w' = r
      BY <3>1, <3>2, <3>3, <3>4, SizesAssumption DEF Length, Wrap
    <3>5. CASE w' # r
      BY <3>1, <3>2, <3>3, <3>5, SizesAssumption DEF Length, Wrap
    <3>6. QED BY <3>4, <3>5
  <2>2. Length \in Nat /\ n \in Nat /\ Length + n <= Capacity
    BY LengthBounds, SizesAssumption DEF Free
  <2>3. ASSUME NEW i \in 1..Length + n
        PROVE  buf'[Wrap(r + i - 1)]
                 = IF i <= Length THEN buf[Wrap(r + i - 1)] ELSE p[i - Length]
    <3>1. i - 1 \in 0..Capacity-1 /\ r + (i - 1) = r + i - 1
      BY <2>2, SizesAssumption DEF RingOK
    <3>2. /\ Wrap(r + i - 1) \in 0..Capacity-1
          /\ From(w, Wrap(r + i - 1))
               = IF i - 1 < Length THEN i - 1 - Length + Capacity ELSE i - 1 - Length
      BY <3>1, SeenFromW
    <3>3. buf'[Wrap(r + i - 1)] = IF From(w, Wrap(r + i - 1)) < n
                                  THEN p[From(w, Wrap(r + i - 1)) + 1]
                                  ELSE buf[Wrap(r + i - 1)]
      BY <1>2, <3>2 DEF Put
    <3>4. QED BY <2>2, <3>2, <3>3, SizesAssumption
  <2>4. Contents' = [i \in 1..Length + n |-> buf'[Wrap(r + i - 1)]]
    BY <1>2, <2>1 DEF Contents, Oldest, Put, Wrap
  <2>5. Contents' = [i \in 1..Length + n |->
                       IF i <= Length THEN buf[Wrap(r + i - 1)] ELSE p[i - Length]]
    BY <2>3, <2>4
  <2>6. \A i \in 1..Length : Contents[i] = buf[Wrap(r + i - 1)]
    BY DEF Contents, Oldest
  <2>7. /\ SubSeq(p, 1, n) \in Seq(Byte) /\ Len(SubSeq(p, 1, n)) = n
        /\ \A i \in 1..n : SubSeq(p, 1, n)[i] = p[i]
    BY <2>2
  <2>8. Contents \o SubSeq(p, 1, n)
          = [i \in 1..Length + n |-> IF i <= Length THEN Contents[i]
                                                     ELSE SubSeq(p, 1, n)[i - Length]]
    BY <2>2, <2>7, ContentsType
  <2>9. \A i \in 1..Length + n :
          (IF i <= Length THEN buf[Wrap(r + i - 1)] ELSE p[i - Length])
            = IF i <= Length THEN Contents[i] ELSE SubSeq(p, 1, n)[i - Length]
    BY <2>2, <2>6, <2>7
  <2>10. QED BY <2>5, <2>8, <2>9
<1>3. QED BY <1>1, <1>2

(* Moving r forward by n drops the n oldest bytes.                         *)
LEMMA AdvanceDrops ==
  ASSUME RingOK, NEW n \in 1..Length, r' = Wrap(r + n), full' = FALSE, w' = w, buf' = buf
  PROVE  Contents' = SubSeq(Contents, n + 1, Len(Contents))
<1>1. Length \in Nat /\ n \in Nat /\ n <= Length /\ Length <= Capacity
  BY LengthBounds, SizesAssumption
<1>2. Length' = Length - n
  BY <1>1, SizesAssumption DEF Length, Wrap, RingOK
<1>3. Contents' = [i \in 1..Length - n |-> buf[Wrap(Wrap(r + n) + i - 1)]]
  BY <1>2 DEF Contents, Oldest, Wrap
<1>4. \A i \in 1..Length - n : Wrap(Wrap(r + n) + i - 1) = Wrap(r + (i + n) - 1)
  BY <1>1, SizesAssumption DEF Wrap, RingOK
<1>5. \A i \in 1..Length - n : Contents[i + n] = buf[Wrap(r + (i + n) - 1)]
  BY <1>1 DEF Contents, Oldest
<1>6. SubSeq(Contents, n + 1, Len(Contents)) = [i \in 1..Length - n |-> Contents[i + n]]
  <2>1. SubSeq(Contents, n + 1, Len(Contents))
          = [i \in 1..Length - (n + 1) + 1 |-> Contents[i + (n + 1) - 1]]
    BY <1>1, ContentsType
  <2>2. Length - (n + 1) + 1 = Length - n /\ \A i \in Int : i + (n + 1) - 1 = i + n
    BY <1>1
  <2>3. QED BY <2>1, <2>2, <1>1
<1>7. QED BY <1>3, <1>4, <1>5, <1>6

(* The loop of Read drops what it has read.                                *)
LEMMA TakeDrops ==
  ASSUME RingOK, NEW n \in 0..Length, Take(n)
  PROVE  Contents' = SubSeq(Contents, n + 1, Len(Contents))
<1>1. CASE n = 0
  <2>1. Contents' = Contents
    BY <1>1 DEF Take, ring, Contents, Oldest, Length
  <2>2. QED BY <1>1, <2>1, ContentsType
<1>2. CASE n # 0
  <2>1. n \in 1..Length
    BY <1>2, LengthBounds, SizesAssumption
  <2>2. QED BY <1>2, <2>1, AdvanceDrops DEF Take
<1>3. QED BY <1>1, <1>2

(* Discard drops, and starts again at 0 exactly when nothing is left.      *)
LEMMA DiscardDrops ==
  ASSUME RingOK, NEW k \in 0..MaxLen, Discard(k)
  PROVE  Contents' = SubSeq(Contents, Least(k, Length) + 1, Len(Contents))
<1> DEFINE n == Least(k, Length)
<1>1. n \in 0..Length /\ Length \in 0..Capacity
  BY LengthBounds, SizesAssumption DEF Least
<1>2. CASE n = 0
  <2>1. Contents' = Contents
    BY <1>2 DEF Discard, ring, Contents, Oldest, Length
  <2>2. SubSeq(Contents, 1, Len(Contents)) = Contents
    BY ContentsType
  <2>3. QED BY <1>2, <2>1, <2>2
<1>3. CASE n # 0
  <2>1. (r + n) % Capacity = Wrap(r + n)
    <3>1. r \in 0..Capacity-1 /\ n \in 0..Capacity
      BY <1>1, SizesAssumption DEF RingOK
    <3> HIDE DEF n
    <3>2. QED BY <3>1, ModuloIsWrap
  <2>2. CASE Wrap(r + n) = w
    <3>1. n = Length
      <4>1. r \in 0..Capacity-1 /\ w \in 0..Capacity-1 /\ full \in BOOLEAN /\ (full => r = w)
        BY DEF RingOK
      <4> HIDE DEF n
      <4>2. QED BY <1>1, <1>3, <2>2, <4>1, SizesAssumption DEF Length, Wrap
    <3>2. Length' = 0
      BY <1>3, <2>1, <2>2 DEF Discard, Length
    <3>3. Contents' = <<>>
      BY <3>2 DEF Contents, Oldest
    <3>4. SubSeq(Contents, Length + 1, Len(Contents)) = <<>>
      BY <1>1, ContentsType
    <3>5. QED BY <3>1, <3>3, <3>4
  <2>3. CASE Wrap(r + n) # w
    <3>1. r' = Wrap(r + n) /\ full' = FALSE /\ w' = w /\ buf' = buf
      BY <1>3, <2>1, <2>3 DEF Discard
    <3>2. n \in 1..Length
      BY <1>1, <1>3
    <3> HIDE DEF n
    <3>3. Contents' = SubSeq(Contents, n + 1, Len(Contents))
      BY <3>1, <3>2, AdvanceDrops
    <3>4. QED BY <3>3 DEF n
  <2>4. QED BY <2>2, <2>3
<1>4. QED BY <1>2, <1>3

(* An unchanged ring holds what it held.                                   *)
LEMMA RingKeeps == UNCHANGED ring => UNCHANGED Contents
BY DEF ring, Contents, Oldest, Length

(* Every step of the ring buffer is one of the queue, or changes nothing   *)
(* that the queue shows.                                                   *)
LEMMA StepIsFifoStep == RingOK /\ [Next]_vars => [F!Next]_(F!vars)
<1> SUFFICES ASSUME RingOK, [Next]_vars PROVE [F!Next]_(F!vars)
  OBVIOUS
<1>0. /\ Length \in 0..Capacity /\ Len(Contents) = Length
      /\ Contents \in Seq(Byte) /\ F!Room = Free /\ Free \in 0..Capacity
      /\ (Empty <=> Contents = <<>>)
  BY LengthBounds, ContentsType DEF F!Room, Free
<1>1. ASSUME NEW p \in Slices, Write(p) PROVE F!Next
  <2>1. Least(Len(p), Free) \in 0..Free /\ Least(Len(p), Free) <= Len(p)
    BY SliceType, <1>0, SizesAssumption DEF Least
  <2>2. Contents' = Contents \o SubSeq(p, 1, Least(Len(p), Free))
    BY <1>1, <2>1, SliceType, PutAppends DEF Write
  <2>3. F!Write(p)
    BY <1>0, <1>1, <2>2 DEF Write, F!Write, Answer, F!Answer, Least, F!Least
  <2>4. p \in F!Slices
    BY DEF Slices, F!Slices
  <2>5. QED BY <2>3, <2>4 DEF F!Next
<1>2. ASSUME NEW k \in 0..MaxLen, Read(k) PROVE F!Next
  <2>1. Least(k, Length) \in 0..Length
    BY <1>0, SizesAssumption DEF Least
  <2>2. Contents' = SubSeq(Contents, Least(k, Length) + 1, Len(Contents))
    BY <1>2, <2>1, TakeDrops DEF Read
  <2>3. Oldest(Least(k, Length)) = SubSeq(Contents, 1, Least(k, Length))
    BY <2>1, OldestIsFirst
  <2>4. F!Read(k)
    BY <1>0, <1>2, <2>2, <2>3 DEF Read, F!Read, Answer, F!Answer, Least, F!Least, F!First, F!Rest
  <2>5. QED BY <2>4 DEF F!Next
<1>3. ASSUME NEW k \in 0..MaxLen, Peek(k) PROVE F!Next
  <2>1. Least(k, Length) \in 0..Length
    BY <1>0, SizesAssumption DEF Least
  <2>2. Oldest(Least(k, Length)) = SubSeq(Contents, 1, Least(k, Length))
    BY <2>1, OldestIsFirst
  <2>3. F!Peek(k)
    BY <1>0, <1>3, <2>2, RingKeeps DEF Peek, F!Peek, Answer, F!Answer, Least, F!Least, F!First
  <2>4. QED BY <2>3 DEF F!Next
<1>4. ASSUME NEW k \in 0..MaxLen, Discard(k) PROVE F!Next
  <2>1. Contents' = SubSeq(Contents, Least(k, Length) + 1, Len(Contents))
    BY <1>4, DiscardDrops
  <2>2. F!Discard(k)
    BY <1>0, <1>4, <2>1 DEF Discard, F!Discard, Answer, F!Answer, Least, F!Least, F!Rest
  <2>3. QED BY <2>2 DEF F!Next
<1>5. ASSUME Reset PROVE F!Next
  <2>1. Length' = 0
    BY <1>5 DEF Reset, Length
  <2>2. Contents' = <<>>
    BY <2>1 DEF Contents, Oldest
  <2>3. F!Reset
    BY <1>5, <2>2 DEF Reset, F!Reset, Answer, F!Answer
  <2>4. QED BY <2>3 DEF F!Next
<1>6. ASSUME NEW call \in {"writeTo", "readFrom"}, Begin(call) PROVE F!Next
  <2>1. F!Begin(call)
    BY <1>6, RingKeeps DEF Begin, F!Begin, Answer, F!Answer
  <2>2. QED BY <2>1 DEF F!Next
<1>7. ASSUME WriteToRound PROVE F!Next
  <2> DEFINE n == Least(Chunk, Length)
  <2>1. n \in 0..Length /\ n \in 1..F!Least(Chunk, Len(Contents))
    <3>1. Length # 0
      BY <1>7, LengthBounds DEF WriteToRound
    <3>2. QED BY <1>0, <3>1, SizesAssumption DEF Least, F!Least
  <2>2. Contents' = SubSeq(Contents, n + 1, Len(Contents))
    BY <1>7, <2>1, TakeDrops DEF WriteToRound
  <2>3. Oldest(n) = SubSeq(Contents, 1, n)
    BY <2>1, OldestIsFirst
  <2>4. at = "writeTo"
    BY <1>7 DEF WriteToRound
  <2>5. ASSUME UNCHANGED at, Answer(n, Oldest(n), "none") PROVE F!SinkTakes
    BY <2>1, <2>2, <2>3, <2>4, <2>5 DEF F!SinkTakes, Answer, F!Answer, F!First, F!Rest
  <2>6. ASSUME at' = "idle", NEW d \in 0..n, Answer(d, Oldest(d), "sink") PROVE F!SinkFails
    <3>1. d \in 0..Length
      BY <1>0, <2>1
    <3>2. Oldest(d) = SubSeq(Contents, 1, d)
      BY <3>1, OldestIsFirst
    <3>3. QED
      BY <2>1, <2>2, <2>4, <2>6, <3>2 DEF F!SinkFails, Answer, F!Answer, F!First, F!Rest
  <2>7. QED BY <1>7, <2>5, <2>6 DEF WriteToRound, F!Next
<1>8. ASSUME WriteToReturns PROVE F!Next
  <2>1. F!Drained
    BY <1>0, <1>8, RingKeeps DEF WriteToReturns, F!Drained, Answer, F!Answer
  <2>2. QED BY <2>1 DEF F!Next
<1>9. ASSUME NEW n \in 0..Chunk, ReadFromRound(n) PROVE F!Next
  <2>1. n \in 0..Free /\ Least(n, Free) = n /\ n \in 0..F!Least(Chunk, F!Room)
    BY <1>0, <1>9, SizesAssumption DEF ReadFromRound, Least, F!Least
  <2>2. PICK s \in [1..n -> Byte] :
          /\ Put(s, n)
          /\ \/ n > 0 /\ UNCHANGED at /\ Answer(n, s, "none")
             \/ at' = "idle" /\ \E err \in {"none", "source"} : Answer(n, s, err)
    BY <1>9, <2>1 DEF ReadFromRound
  <2>3. s \in Seq(Byte) /\ Len(s) = n /\ SubSeq(s, 1, n) = s
    BY <2>1, SizesAssumption
  <2>4. Contents' = Contents \o s
    BY <2>1, <2>2, <2>3, PutAppends
  <2>5. F!SourceGives(n)
    BY <1>9, <2>2, <2>4 DEF ReadFromRound, F!SourceGives, Answer, F!Answer
  <2>6. QED BY <2>1, <2>5 DEF F!Next
<1>10. ASSUME ReadFromReturns PROVE F!Next
  <2>1. F!Filled
    BY <1>0, <1>10, RingKeeps DEF ReadFromReturns, F!Filled, Answer, F!Answer
  <2>2. QED BY <2>1 DEF F!Next
<1>11. ASSUME UNCHANGED vars PROVE UNCHANGED F!vars
  BY <1>11, RingKeeps DEF vars, F!vars
<1>12. QED
  BY <1>1, <1>2, <1>3, <1>4, <1>5, <1>6, <1>7, <1>8, <1>9, <1>10, <1>11 DEF Next

(* ImplementsFifo: the ring buffer does and answers what a bounded queue   *)
(* of its capacity does, in every sequence of calls, with every behaviour  *)
(* of the source of ReadFrom and of the sink of WriteTo.                   *)
THEOREM RingImplementsFifo == Spec => ImplementsFifo
<1>1. Init => F!Init
  <2> SUFFICES ASSUME Init PROVE F!Init
    OBVIOUS
  <2>1. Length = 0
    BY DEF Init, Length
  <2>2. Contents = <<>>
    BY <2>1 DEF Contents, Oldest
  <2>3. QED BY <2>2 DEF Init, F!Init
<1>2. QED
  BY <1>1, RingCorrect, StepIsFifoStep, PTL DEF Spec, ImplementsFifo, F!Spec
=============================================================================
