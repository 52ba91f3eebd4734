------------------------------ MODULE PipeProofs ------------------------------
(***************************************************************************)
(* Proofs about Pipe, for any window, any number of chunks, and either     *)
(* kind of connection on each side; and about Relay, two Pipes with a      *)
(* yamux stream between them.                                              *)
(***************************************************************************)
EXTENDS Pipe, Relay, TLAPS

USE DEF ChannelsOK, CallOK

CallInv == TypeOK /\ Balance /\ ClosedWhenSelected

-----------------------------------------------------------------------------
(* Which channel is which.                                                 *)
LEMMA Routes ==
  /\ \A d \in Dirs : From[d] \in Chans /\ To[d] \in Chans /\ Dst[d] \in Ends /\ To[d] = Out[Dst[d]]
  /\ \A d, e \in Dirs : From[d] # To[e] /\ (To[d] = To[e] => d = e) /\ (From[d] = From[e] => d = e)
  /\ \A x \in Ends : In[x] \in Chans /\ Out[x] \in Chans
  /\ \A x \in Ends, y \in Ends : In[x] # Out[y]
  /\ \A d \in Dirs : \E x \in Ends : From[d] = In[x]
<1>1. InA # OutA /\ InB # OutB /\ InA # InB /\ InA # OutB /\ OutA # InB /\ OutA # OutB
  BY PipeAssumption
<1>2. /\ From["up"] = InA /\ From["down"] = InB /\ To["up"] = OutB /\ To["down"] = OutA
      /\ In["a"] = InA /\ In["b"] = InB /\ Out["a"] = OutA /\ Out["b"] = OutB
      /\ Dst["up"] = "b" /\ Dst["down"] = "a"
  BY DEF From, To, Dst, In, Out
<1>3. \A d \in Dirs : d = "up" \/ d = "down"
  BY DEF Dirs
<1>4. \A x \in Ends : x = "a" \/ x = "b"
  BY DEF Ends
<1>5. "up" \in Dirs /\ "down" \in Dirs /\ "a" \in Ends /\ "b" \in Ends
  BY DEF Dirs, Ends
<1>6. \A d, e \in Dirs : From[d] # To[e] /\ (To[d] = To[e] => d = e) /\ (From[d] = From[e] => d = e)
  BY <1>1, <1>2, <1>3
<1>7. \A x \in Ends, y \in Ends : In[x] # Out[y]
  BY <1>1, <1>2, <1>4
<1>8. \A d \in Dirs : From[d] \in Chans /\ To[d] \in Chans /\ Dst[d] \in Ends /\ To[d] = Out[Dst[d]]
  BY <1>2, <1>3, <1>5 DEF Chans
<1>9. \A x \in Ends : In[x] \in Chans /\ Out[x] \in Chans
  BY <1>2, <1>4 DEF Chans
<1>10. \A d \in Dirs : \E x \in Ends : From[d] = In[x]
  BY <1>2, <1>3, <1>5
<1> QED BY <1>6, <1>7, <1>8, <1>9, <1>10

(* What closing some ends does.                                            *)
LEMMA Closing ==
  ASSUME TypeOK, NEW E \in SUBSET Ends, CloseEnds(E)
  PROVE  /\ fin' \in [Chans -> BOOLEAN] /\ shut' \in [Chans -> BOOLEAN]
         /\ \A c \in Chans : (fin[c] => fin'[c]) /\ (shut[c] => shut'[c])
         /\ \A x \in E : fin'[Out[x]] /\ (x \notin HalfClosing => shut'[In[x]])
         /\ wrote' = wrote /\ took' = took
  BY Routes DEF CloseEnds, TypeOK

(* Nothing that has been ended or left is open again.                      *)
LEMMA ChannelsOnlyClose ==
  ASSUME TypeOK, [Next]_vars
  PROVE  \A c \in Chans : (fin[c] => fin'[c]) /\ (shut[c] => shut'[c])
<1>1. ASSUME UNCHANGED <<fin, shut>> PROVE \A c \in Chans : (fin[c] => fin'[c]) /\ (shut[c] => shut'[c])
  BY <1>1
<1>2. ASSUME \/ \E d \in Dirs : ReadChunk(d) \/ ReadEnds(d) \/ WriteChunk(d) \/ WriteFails(d)
             \/ \E x \in Ends : PeerSends(x) \/ PeerReads(x)
             \/ Drain \/ Cancel \/ UNCHANGED vars
      PROVE  UNCHANGED <<fin, shut>>
  BY <1>2 DEF ReadChunk, ReadEnds, WriteChunk, WriteFails, PeerSends, PeerReads, Drain, Cancel,
              vars, channelVars
<1>3. ASSUME NEW d \in Dirs, Finish(d) PROVE \A c \in Chans : (fin[c] => fin'[c]) /\ (shut[c] => shut'[c])
  BY <1>3, Closing, Routes DEF Finish
<1>4. ASSUME SelectDone \/ SelectResult PROVE \A c \in Chans : (fin[c] => fin'[c]) /\ (shut[c] => shut'[c])
  BY <1>4, Closing DEF SelectDone, SelectResult
<1>5. ASSUME NEW x \in Ends, PeerEnds(x) \/ PeerLeaves(x)
      PROVE  \A c \in Chans : (fin[c] => fin'[c]) /\ (shut[c] => shut'[c])
  BY <1>5, Routes DEF PeerEnds, PeerLeaves, TypeOK
<1> QED
  BY <1>1, <1>2, <1>3, <1>4, <1>5 DEF Next, PipeStep, MainStep, CopierStep, PeerStep

-----------------------------------------------------------------------------
LEMMA CallInitial == Init => CallInv
<1> SUFFICES ASSUME Init PROVE CallInv
  OBVIOUS
<1>1. TypeOK
  <2>1. /\ fin = [c \in Chans |-> FALSE] /\ shut = [c \in Chans |-> FALSE]
        /\ wrote = [c \in Chans |-> 0] /\ took = [c \in Chans |-> 0]
    BY DEF Init, InitChannels
  <2>2. fin \in [Chans -> BOOLEAN] /\ shut \in [Chans -> BOOLEAN]
    BY <2>1, Zenon
  <2>3. wrote \in [Chans -> Nat] /\ took \in [Chans -> Nat]
    BY <2>1
  <2>4. copier \in [Dirs -> {"read", "write", "ended", "done"}] /\ counter \in [Dirs -> Nat]
    BY DEF Init, InitPipe
  <2>5. cancelled \in BOOLEAN /\ main = "select" /\ errCh = 0 /\ need = 0
    BY DEF Init, InitPipe
  <2> QED BY <2>2, <2>3, <2>4, <2>5 DEF TypeOK
<1>2. Results = 0
  BY DEF Init, InitPipe, Results, Dirs
<1>3. main = "select" /\ need = 0 /\ errCh = 0
  BY DEF Init, InitPipe
<1> QED BY <1>1, <1>2, <1>3 DEF CallInv, Balance, ClosedWhenSelected

(* One more result, or none.                                               *)
LEMMA CopierMoves ==
  ASSUME TypeOK, NEW d \in Dirs, NEW s \in {"read", "write", "ended", "done"},
         copier' = [copier EXCEPT ![d] = s], copier[d] # "done"
  PROVE  /\ copier' \in [Dirs -> {"read", "write", "ended", "done"}]
         /\ Results' = IF s = "done" THEN Results + 1 ELSE Results
         /\ Results \in 0..1
  BY DEF TypeOK, Results, Dirs

LEMMA TypePreserved ==
  ASSUME TypeOK, Balance, [Next]_vars
  PROVE  TypeOK' /\ Balance'
<1>1. ASSUME NEW d \in Dirs, ReadChunk(d) PROVE TypeOK' /\ Balance'
  <2>1. Results' = Results /\ copier' \in [Dirs -> {"read", "write", "ended", "done"}]
    BY <1>1, CopierMoves DEF ReadChunk
  <2>2. took' \in [Chans -> Nat]
    BY <1>1, Routes DEF ReadChunk, Take, TypeOK
  <2> QED BY <1>1, <2>1, <2>2 DEF ReadChunk, TypeOK, Balance
<1>2. ASSUME NEW d \in Dirs, ReadEnds(d) PROVE TypeOK' /\ Balance'
  BY <1>2, CopierMoves DEF ReadEnds, channelVars, TypeOK, Balance
<1>3. ASSUME NEW d \in Dirs, WriteChunk(d) PROVE TypeOK' /\ Balance'
  <2>1. Results' = Results /\ copier' \in [Dirs -> {"read", "write", "ended", "done"}]
    BY <1>3, CopierMoves DEF WriteChunk
  <2>2. wrote' \in [Chans -> Nat]
    BY <1>3, Routes DEF WriteChunk, Write, TypeOK
  <2> QED BY <1>3, <2>1, <2>2 DEF WriteChunk, TypeOK, Balance
<1>4. ASSUME NEW d \in Dirs, WriteFails(d) PROVE TypeOK' /\ Balance'
  BY <1>4, CopierMoves DEF WriteFails, channelVars, TypeOK, Balance
<1>5. ASSUME NEW d \in Dirs, Finish(d) PROVE TypeOK' /\ Balance'
  <2>1. /\ copier' \in [Dirs -> {"read", "write", "ended", "done"}]
        /\ Results' = Results + 1 /\ Results \in 0..1
    BY <1>5, CopierMoves DEF Finish
  <2>2. /\ fin' \in [Chans -> BOOLEAN] /\ shut' \in [Chans -> BOOLEAN]
        /\ wrote' = wrote /\ took' = took
    BY <1>5, Closing, Routes DEF Finish
  <2>3. counter' \in [Dirs -> Nat]
    BY <1>5, Routes DEF Finish, TypeOK
  <2>4. /\ errCh' = errCh + 1
        /\ main' = main /\ need' = need /\ cancelled' = cancelled
    BY <1>5 DEF Finish
  <2>5. errCh' \in 0..2
    BY <2>1, <2>4 DEF TypeOK, Balance
  <2>6. TypeOK'
    BY <2>1, <2>2, <2>3, <2>4, <2>5 DEF TypeOK
  <2>7. Balance'
    BY <2>1, <2>4 DEF TypeOK, Balance
  <2> QED BY <2>6, <2>7
<1>6. ASSUME SelectDone \/ SelectResult PROVE TypeOK' /\ Balance'
  <2>1. /\ fin' \in [Chans -> BOOLEAN] /\ shut' \in [Chans -> BOOLEAN]
        /\ wrote' = wrote /\ took' = took
    BY <1>6, Closing DEF SelectDone, SelectResult
  <2>2. Results' = Results
    BY <1>6 DEF SelectDone, SelectResult, Results
  <2> QED BY <1>6, <2>1, <2>2 DEF SelectDone, SelectResult, TypeOK, Balance
<1>7. ASSUME Drain PROVE TypeOK' /\ Balance'
  <2>1. Results' = Results /\ Results <= 2
    BY <1>7 DEF Drain, Results
  <2> QED BY <1>7, <2>1 DEF Drain, channelVars, TypeOK, Balance
<1>8. ASSUME NEW x \in Ends, PeerStep(x) PROVE TypeOK' /\ Balance'
  <2>1. UNCHANGED <<cancelled, pipeVars>>
    BY <1>8 DEF PeerStep, PeerSends, PeerReads, PeerEnds, PeerLeaves
  <2>2. wrote' \in [Chans -> Nat] /\ took' \in [Chans -> Nat]
    BY <1>8, Routes DEF PeerStep, PeerSends, PeerReads, PeerEnds, PeerLeaves, Write, Take, TypeOK
  <2>3. fin' \in [Chans -> BOOLEAN] /\ shut' \in [Chans -> BOOLEAN]
    BY <1>8, Routes DEF PeerStep, PeerSends, PeerReads, PeerEnds, PeerLeaves, TypeOK
  <2> QED BY <2>1, <2>2, <2>3 DEF pipeVars, TypeOK, Balance, Results
<1>9. ASSUME Cancel \/ UNCHANGED vars PROVE TypeOK' /\ Balance'
  BY <1>9 DEF Cancel, vars, channelVars, pipeVars, TypeOK, Balance, Results
<1> QED
  BY <1>1, <1>2, <1>3, <1>4, <1>5, <1>6, <1>7, <1>8, <1>9
  DEF Next, PipeStep, MainStep, CopierStep

(* Whichever arm select takes, it closes both ends.                        *)
LEMMA ClosedPreserved ==
  ASSUME TypeOK, ClosedWhenSelected, [Next]_vars
  PROVE  ClosedWhenSelected'
<1>1. CASE main # "select"
  BY <1>1, ChannelsOnlyClose, Routes DEF ClosedWhenSelected
<1>2. CASE SelectDone \/ SelectResult
  BY <1>2, Closing DEF SelectDone, SelectResult, ClosedWhenSelected
<1>3. ASSUME main = "select", ~(SelectDone \/ SelectResult) PROVE main' = "select"
  BY <1>3 DEF Next, PipeStep, MainStep, CopierStep, ReadChunk, ReadEnds, WriteChunk, WriteFails,
              Finish, Drain, Cancel, PeerStep, PeerSends, PeerReads, PeerEnds, PeerLeaves,
              vars, pipeVars
<1> QED BY <1>1, <1>2, <1>3 DEF ClosedWhenSelected

LEMMA CallHolds == Spec => []CallInv
<1>1. CallInv /\ [Next]_vars => CallInv'
  BY TypePreserved, ClosedPreserved DEF CallInv
<1> QED BY <1>1, CallInitial, PTL DEF Spec

-----------------------------------------------------------------------------
(* What is written to a destination, its own goroutine wrote.              *)
LEMMA OnlyCopierWrites ==
  ASSUME TypeOK, [Next]_vars, NEW d \in Dirs
  PROVE  \/ wrote'[To[d]] = wrote[To[d]]
         \/ WriteChunk(d) /\ wrote'[To[d]] = wrote[To[d]] + 1
<1>1. ASSUME NEW e \in Dirs, WriteChunk(e), e # d PROVE wrote'[To[d]] = wrote[To[d]]
  BY <1>1, Routes DEF WriteChunk, Write, TypeOK
<1>2. CASE WriteChunk(d)
  BY <1>2, Routes DEF WriteChunk, Write, TypeOK
<1>3. ASSUME NEW x \in Ends, PeerSends(x) PROVE wrote'[To[d]] = wrote[To[d]]
  BY <1>3, Routes DEF PeerSends, Write, TypeOK
<1>4. ASSUME \/ \E e \in Dirs : ReadChunk(e) \/ ReadEnds(e) \/ WriteFails(e) \/ Finish(e)
             \/ \E x \in Ends : PeerReads(x) \/ PeerEnds(x) \/ PeerLeaves(x)
             \/ MainStep \/ Cancel \/ UNCHANGED vars
      PROVE  wrote' = wrote
  BY <1>4 DEF ReadChunk, ReadEnds, WriteFails, Finish, CloseEnds, PeerReads, PeerEnds, PeerLeaves,
              MainStep, SelectDone, SelectResult, Drain, Cancel, vars, channelVars
<1> QED
  BY <1>1, <1>2, <1>3, <1>4 DEF Next, PipeStep, CopierStep, PeerStep

LEMMA CountsPreserved ==
  ASSUME TypeOK, Counts, [Next]_vars
  PROVE  Counts'
<1> SUFFICES ASSUME NEW d \in Dirs
             PROVE  counter'[d] = IF Counted /\ copier'[d] = "done" THEN wrote'[To[d]] ELSE 0
  BY DEF Counts
<1>1. CASE Finish(d)
  <2>1. wrote' = wrote
    BY <1>1 DEF Finish, CloseEnds
  <2> QED BY <1>1, <2>1, Routes DEF Finish, Counts, TypeOK
<1>2. CASE ReadChunk(d) \/ ReadEnds(d) \/ WriteChunk(d) \/ WriteFails(d)
  BY <1>2 DEF ReadChunk, ReadEnds, WriteChunk, WriteFails, Counts, TypeOK
<1>3. ASSUME NEW e \in Dirs, e # d, CopierStep(e)
      PROVE  counter'[d] = counter[d] /\ copier'[d] = copier[d]
  BY <1>3 DEF CopierStep, ReadChunk, ReadEnds, WriteChunk, WriteFails, Finish, TypeOK
<1>4. ASSUME MainStep \/ Cancel \/ (\E x \in Ends : PeerStep(x)) \/ UNCHANGED vars
      PROVE  counter'[d] = counter[d] /\ copier'[d] = copier[d]
  BY <1>4 DEF MainStep, SelectDone, SelectResult, Drain, Cancel, PeerStep, PeerSends, PeerReads,
              PeerEnds, PeerLeaves, vars, pipeVars
<1>5. ASSUME counter'[d] = counter[d], copier'[d] = copier[d]
      PROVE  counter'[d] = IF Counted /\ copier'[d] = "done" THEN wrote'[To[d]] ELSE 0
  BY <1>5, OnlyCopierWrites DEF Counts, WriteChunk
<1> QED BY <1>1, <1>2, <1>3, <1>4, <1>5 DEF Next, PipeStep, CopierStep

(* ReturnedMeansOver: when Pipe has returned both goroutines are past      *)
(* their last step, both connections are closed, and the counters hold     *)
(* what was written.                                                       *)
THEOREM ReturnCorrect == Spec => []ReturnedMeansOver
<1>1. Init => Counts
  BY Routes DEF Init, InitChannels, InitPipe, Counts
<1>2. CallInv /\ Counts /\ [Next]_vars => Counts'
  BY CountsPreserved DEF CallInv
<1>3. CallInv /\ Counts => ReturnedMeansOver
  BY DEF CallInv, TypeOK, Balance, Results, ClosedWhenSelected, Counts, ReturnedMeansOver, Dirs
<1> QED BY <1>1, <1>2, <1>3, CallHolds, PTL DEF Spec

-----------------------------------------------------------------------------
(* The first direction to end.  While none has ended both connections are  *)
(* open on this side, so that one can only end at the end of its data; and *)
(* a direction that is complete stays so.                                  *)
NoneEnded ==
  /\ main = "select"
  /\ \A x \in Ends : ~fin[Out[x]] /\ ~shut[In[x]]
  /\ \A d \in Dirs : copier[d] # "done" /\ (copier[d] = "ended" => Complete(d))

OneComplete == \E d \in Dirs : EndedWhole(d)

FirstEnd == Undisturbed => NoneEnded \/ OneComplete

(* Only the goroutine that reads a channel takes from it.                  *)
LEMMA OnlyCopierTakes ==
  ASSUME TypeOK, [Next]_vars, NEW d \in Dirs
  PROVE  \/ took'[From[d]] = took[From[d]]
         \/ ReadChunk(d) /\ took'[From[d]] = took[From[d]] + 1
<1>1. ASSUME NEW e \in Dirs, ReadChunk(e), e # d PROVE took'[From[d]] = took[From[d]]
  BY <1>1, Routes DEF ReadChunk, Take, TypeOK
<1>2. CASE ReadChunk(d)
  BY <1>2, Routes DEF ReadChunk, Take, TypeOK
<1>3. ASSUME NEW x \in Ends, PeerReads(x) PROVE took'[From[d]] = took[From[d]]
  <2>1. \A y \in Ends : In[y] # Out[x]
    BY Routes
  <2>2. From[d] # Out[x] /\ From[d] \in Chans /\ Out[x] \in Chans
    BY Routes
  <2> QED BY <1>3, <2>2 DEF PeerReads, Take, TypeOK
<1>4. ASSUME \/ \E e \in Dirs : ReadEnds(e) \/ WriteChunk(e) \/ WriteFails(e) \/ Finish(e)
             \/ \E x \in Ends : PeerSends(x) \/ PeerEnds(x) \/ PeerLeaves(x)
             \/ MainStep \/ Cancel \/ UNCHANGED vars
      PROVE  took' = took
  BY <1>4 DEF ReadEnds, WriteChunk, WriteFails, Finish, CloseEnds, PeerSends, PeerEnds, PeerLeaves,
              MainStep, SelectDone, SelectResult, Drain, Cancel, vars, channelVars
<1> QED
  BY <1>1, <1>2, <1>3, <1>4 DEF Next, PipeStep, CopierStep, PeerStep

(* Where a goroutine is, only its own steps change.                        *)
LEMMA CopierByItself ==
  ASSUME TypeOK, [Next]_vars, NEW d \in Dirs
  PROVE  copier'[d] = copier[d] \/ CopierStep(d)
<1>1. ASSUME NEW e \in Dirs, CopierStep(e), e # d PROVE copier'[d] = copier[d]
  BY <1>1 DEF CopierStep, ReadChunk, ReadEnds, WriteChunk, WriteFails, Finish, TypeOK
<1>2. ASSUME MainStep \/ Cancel \/ (\E x \in Ends : PeerStep(x)) \/ UNCHANGED vars
      PROVE  copier' = copier
  BY <1>2 DEF MainStep, SelectDone, SelectResult, Drain, Cancel, PeerStep, PeerSends, PeerReads,
              PeerEnds, PeerLeaves, vars, pipeVars
<1> QED BY <1>1, <1>2 DEF Next, PipeStep

LEMMA PassedPreserved ==
  ASSUME TypeOK, Passed, [Next]_vars
  PROVE  Passed'
<1> SUFFICES ASSUME NEW d \in Dirs
             PROVE  /\ copier'[d] = "read" => wrote'[To[d]] = took'[From[d]]
                    /\ copier'[d] = "write" => wrote'[To[d]] + 1 = took'[From[d]]
  BY DEF Passed
<1> wrote[To[d]] \in Nat /\ took[From[d]] \in Nat
  BY Routes DEF TypeOK
<1>1. ReadChunk(d) => copier[d] = "read" /\ copier'[d] = "write" /\ wrote' = wrote
  BY DEF ReadChunk, TypeOK
<1>2. WriteChunk(d) => copier[d] = "write" /\ copier'[d] = "read" /\ took' = took
  BY DEF WriteChunk, TypeOK
<1>3. ReadEnds(d) \/ WriteFails(d) \/ Finish(d) => copier'[d] \in {"ended", "done"}
  BY DEF ReadEnds, WriteFails, Finish, TypeOK
<1>4. CASE ReadChunk(d)
  <2>1. took'[From[d]] = took[From[d]] + 1
    BY <1>4, Routes DEF ReadChunk, Take, TypeOK
  <2> QED BY <1>1, <1>4, <2>1 DEF Passed
<1>5. CASE WriteChunk(d)
  <2>1. wrote'[To[d]] = wrote[To[d]] + 1
    BY <1>5, Routes DEF WriteChunk, Write, TypeOK
  <2> QED BY <1>2, <1>5, <2>1 DEF Passed
<1>6. CASE ~ReadChunk(d) /\ ~WriteChunk(d)
  <2>1. wrote'[To[d]] = wrote[To[d]] /\ took'[From[d]] = took[From[d]]
    BY <1>6, OnlyCopierTakes, OnlyCopierWrites
  <2> QED BY <1>3, <1>6, <2>1, CopierByItself DEF CopierStep, Passed
<1> QED BY <1>4, <1>5, <1>6

(* What a peer has ended it sends nothing on.                              *)
LEMMA CompleteStays ==
  ASSUME TypeOK, [Next]_vars, NEW d \in Dirs, Complete(d), copier[d] \in {"ended", "done"}
  PROVE  Complete(d)' /\ copier'[d] \in {"ended", "done"}
<1>1. copier'[d] \in {"ended", "done"}
  BY CopierByItself DEF CopierStep, ReadChunk, ReadEnds, WriteChunk, WriteFails, Finish, TypeOK
<1>2. wrote'[To[d]] = wrote[To[d]]
  BY OnlyCopierWrites DEF WriteChunk
<1>3. fin'[From[d]]
  BY ChannelsOnlyClose, Routes DEF Complete
<1>4. wrote'[From[d]] = wrote[From[d]]
  <2>1. ASSUME NEW e \in Dirs, WriteChunk(e) PROVE wrote'[From[d]] = wrote[From[d]]
    BY <2>1, Routes DEF WriteChunk, Write, TypeOK
  <2>2. ASSUME NEW x \in Ends, PeerSends(x) PROVE wrote'[From[d]] = wrote[From[d]]
    <3>1. In[x] # From[d] /\ In[x] \in Chans
      BY <2>2, Routes DEF PeerSends, Complete
    <3> QED BY <2>2, <3>1, Routes DEF PeerSends, Write, TypeOK
  <2>3. ASSUME \/ \E e \in Dirs : ReadChunk(e) \/ ReadEnds(e) \/ WriteFails(e) \/ Finish(e)
               \/ \E x \in Ends : PeerReads(x) \/ PeerEnds(x) \/ PeerLeaves(x)
               \/ MainStep \/ Cancel \/ UNCHANGED vars
        PROVE  wrote' = wrote
    BY <2>3 DEF ReadChunk, ReadEnds, WriteFails, Finish, CloseEnds, PeerReads, PeerEnds, PeerLeaves,
                MainStep, SelectDone, SelectResult, Drain, Cancel, vars, channelVars
  <2> QED BY <2>1, <2>2, <2>3 DEF Next, PipeStep, CopierStep, PeerStep
<1> QED BY <1>1, <1>2, <1>3, <1>4 DEF Complete

(* A direction that ends while the others run ends with the data.          *)
LEMMA FirstEndPreserved ==
  ASSUME CallInv, Passed, FirstEnd, TypeOK', [Next]_vars
  PROVE  FirstEnd'
<1> SUFFICES ASSUME Undisturbed' PROVE NoneEnded' \/ OneComplete'
  BY DEF FirstEnd
<1> USE DEF CallInv
<1>1. Undisturbed
  <2>1. cancelled' = FALSE => cancelled = FALSE
    BY DEF Next, PipeStep, MainStep, CopierStep, ReadChunk, ReadEnds, WriteChunk, WriteFails, Finish,
           SelectDone, SelectResult, Drain, Cancel, PeerStep, PeerSends, PeerReads, PeerEnds,
           PeerLeaves, vars, TypeOK
  <2>2. \A x \in Ends : ~shut[Out[x]]
    BY ChannelsOnlyClose, Routes DEF Undisturbed
  <2> QED BY <2>1, <2>2 DEF Undisturbed, TypeOK
<1>2. CASE OneComplete
  BY <1>2, CompleteStays DEF OneComplete, EndedWhole
<1>3. CASE NoneEnded
  <2> USE <1>3 DEF NoneEnded
  <2>1. ASSUME NEW d \in Dirs, Finish(d) PROVE OneComplete'
    <3>1. copier[d] = "ended" /\ Complete(d)
      BY <2>1 DEF Finish
    <3> QED BY <3>1, CompleteStays DEF OneComplete, EndedWhole
  <2>2. ASSUME SelectDone \/ SelectResult \/ Drain PROVE FALSE
    <3>1. Results = 0
      BY DEF Results, Dirs
    <3> QED BY <2>2, <3>1, <1>1 DEF SelectDone, SelectResult, Drain, Balance, Undisturbed
  <2>3. ASSUME NEW d \in Dirs, ReadChunk(d) \/ WriteChunk(d) PROVE NoneEnded'
    <3>1. UNCHANGED <<main, fin, shut>>
      BY <2>3 DEF ReadChunk, WriteChunk
    <3>2. copier'[d] \in {"read", "write"} /\ \A e \in Dirs : e # d => copier'[e] = copier[e]
      BY <2>3 DEF ReadChunk, WriteChunk, TypeOK
    <3>3. \A e \in Dirs : copier[e] = "ended" => Complete(e)'
      BY CompleteStays
    <3> QED BY <3>1, <3>2, <3>3
  <2>4. ASSUME NEW d \in Dirs, ReadEnds(d) PROVE NoneEnded'
    <3>1. UNCHANGED <<main, fin, shut, wrote, took>>
      BY <2>4 DEF ReadEnds, channelVars
    <3>2. copier'[d] = "ended" /\ \A e \in Dirs : e # d => copier'[e] = copier[e]
      BY <2>4 DEF ReadEnds, TypeOK
    <3>3. fin[From[d]] /\ IsEmpty(From[d])
      BY <2>4, Routes DEF ReadEnds
    <3>4. Complete(d)
      BY <2>4, <3>3, Routes DEF ReadEnds, Passed, IsEmpty, Complete, TypeOK
    <3>5. \A e \in Dirs : (Complete(e))' = Complete(e)
      BY <3>1 DEF Complete
    <3> QED BY <3>1, <3>2, <3>4, <3>5
  <2>5. ASSUME NEW d \in Dirs, WriteFails(d) PROVE FALSE
    BY <2>5, <1>1, Routes DEF WriteFails, Undisturbed
  <2>6. ASSUME NEW x \in Ends, PeerStep(x) PROVE NoneEnded'
    <3>1. copier' = copier /\ main' = main
      BY <2>6 DEF PeerStep, PeerSends, PeerReads, PeerEnds, PeerLeaves, pipeVars
    <3>2. \A y \in Ends : ~fin'[Out[y]] /\ ~shut'[In[y]]
      BY <2>6, Routes DEF PeerStep, PeerSends, PeerReads, PeerEnds, PeerLeaves, TypeOK
    <3>3. \A e \in Dirs : copier[e] = "ended" => Complete(e)'
      BY CompleteStays
    <3> QED BY <3>1, <3>2, <3>3
  <2>7. ASSUME Cancel \/ UNCHANGED vars PROVE NoneEnded'
    BY <2>7 DEF Cancel, vars, channelVars, pipeVars, Complete
  <2> QED
    BY <2>1, <2>2, <2>3, <2>4, <2>5, <2>6, <2>7 DEF Next, PipeStep, MainStep, CopierStep
<1> QED BY <1>1, <1>2, <1>3 DEF FirstEnd

(* FirstToEndIsComplete: unless a peer goes away or somebody cancels, what *)
(* one of the peers sent and ended has been passed on when Pipe returns.   *)
THEOREM FirstEndCorrect == Spec => []FirstToEndIsComplete
<1>1. Init => Passed /\ FirstEnd
  BY Routes DEF Init, InitChannels, InitPipe, Passed, FirstEnd, NoneEnded
<1>2. CallInv /\ Passed /\ FirstEnd /\ TypeOK' /\ [Next]_vars => Passed' /\ FirstEnd'
  BY PassedPreserved, FirstEndPreserved DEF CallInv
<1>3. FirstEnd => FirstToEndIsComplete
  BY DEF FirstEnd, NoneEnded, OneComplete, EndedWhole, FirstToEndIsComplete
<1>4. CallInv => TypeOK
  BY DEF CallInv
<1> QED BY <1>1, <1>2, <1>3, <1>4, CallHolds, PTL DEF Spec
-----------------------------------------------------------------------------
(* The path of a visitor: what the steps of the server's Pipe do to its    *)
(* channels and to itself.                                                 *)
LEMMA ServerRoutes ==
  /\ Server!Dirs = {"up", "down"} /\ Server!Ends = {"a", "b"}
  /\ Server!From["up"] = "v>s" /\ Server!To["up"] = "s>c"
  /\ Server!From["down"] = "c>s" /\ Server!To["down"] = "s>v"
  /\ Server!Dst["up"] = "b" /\ Server!Dst["down"] = "a"
  /\ Server!In["a"] = "v>s" /\ Server!Out["a"] = "s>v"
  /\ Server!In["b"] = "c>s" /\ Server!Out["b"] = "s>c"
  /\ Server!Opposite["up"] = "down" /\ Server!Opposite["down"] = "up"
  BY DEF Server!Dirs, Server!Ends, Server!From, Server!To, Server!Dst, Server!In, Server!Out,
         Server!Opposite

LEMMA ServerCloses ==
  ASSUME ChannelsOK(Channels), NEW E \in SUBSET {"a", "b"}, Server!CloseEnds(E)
  PROVE  /\ ChannelsOK(Channels)' /\ wrote' = wrote /\ took' = took
         /\ \A c \in Channels : (fin[c] => fin'[c]) /\ (shut[c] => shut'[c])
         /\ \A c \in Channels \ {"s>c", "s>v"} : fin'[c] = fin[c]
         /\ \A c \in Channels \ {"v>s"} : shut'[c] = shut[c]
<1>1. /\ fin' = [c \in DOMAIN fin |-> fin[c] \/ \E x \in E : c = Server!Out[x]]
      /\ shut' = [c \in DOMAIN shut |-> shut[c] \/ \E x \in E \ {"b"} : c = Server!In[x]]
      /\ wrote' = wrote /\ took' = took
  BY DEF Server!CloseEnds
<1>2. DOMAIN fin = Channels /\ DOMAIN shut = Channels
  OBVIOUS
<1>3. \A x \in E : (x = "a" \/ x = "b") /\ Server!Out[x] \in {"s>c", "s>v"}
  BY ServerRoutes
<1>4. \A x \in E \ {"b"} : Server!In[x] = "v>s"
  BY ServerRoutes
<1>5. fin' \in [Channels -> BOOLEAN] /\ shut' \in [Channels -> BOOLEAN]
  BY <1>1, <1>2
<1>6. \A c \in Channels : (fin[c] => fin'[c]) /\ (c \notin {"s>c", "s>v"} => fin'[c] = fin[c])
  BY <1>1, <1>2, <1>3, <1>5
<1>7. \A c \in Channels : (shut[c] => shut'[c]) /\ (c # "v>s" => shut'[c] = shut[c])
  BY <1>1, <1>2, <1>4, <1>5
<1> QED BY <1>1, <1>5, <1>6, <1>7

LEMMA ServerFrame ==
  ASSUME ChannelsOK(Channels), Server!CallOK, Server!PipeStep
  PROVE  /\ ChannelsOK(Channels)' /\ sCancelled' = sCancelled
         /\ \A c \in Channels : (fin[c] => fin'[c]) /\ (shut[c] => shut'[c])
         /\ \A c \in Channels \ {"s>c", "s>v"} : wrote'[c] = wrote[c] /\ fin'[c] = fin[c]
         /\ \A c \in Channels \ {"v>s", "c>s"} : took'[c] = took[c]
         /\ \A c \in Channels \ {"v>s"} : shut'[c] = shut[c]
         /\ \A c \in Channels : fin[c] => wrote'[c] = wrote[c]
<1> USE DEF Channels
<1>1. ASSUME NEW d \in {"up", "down"}, Server!ReadChunk(d)
      PROVE  /\ UNCHANGED <<wrote, fin, shut, sCancelled>>
             /\ took' = [took EXCEPT ![Server!From[d]] = @ + 1]
             /\ Server!From[d] \in {"v>s", "c>s"}
  BY <1>1, ServerRoutes DEF Server!ReadChunk, Server!Take
<1>2. ASSUME NEW d \in {"up", "down"}, Server!WriteChunk(d)
      PROVE  /\ UNCHANGED <<took, fin, shut, sCancelled>>
             /\ wrote' = [wrote EXCEPT ![Server!To[d]] = @ + 1]
             /\ Server!To[d] \in {"s>c", "s>v"} /\ ~fin[Server!To[d]]
  BY <1>2, ServerRoutes DEF Server!WriteChunk, Server!Write
<1>3. ASSUME NEW d \in {"up", "down"}, Server!ReadEnds(d) \/ Server!WriteFails(d)
      PROVE  UNCHANGED <<wrote, took, fin, shut, sCancelled>>
  BY <1>3 DEF Server!ReadEnds, Server!WriteFails, Server!channelVars
<1>4. ASSUME Server!Drain PROVE UNCHANGED <<wrote, took, fin, shut, sCancelled>>
  BY <1>4 DEF Server!Drain, Server!channelVars
<1>5. ASSUME NEW d \in {"up", "down"}, Server!Finish(d)
      PROVE  sCancelled' = sCancelled /\ \E E \in SUBSET {"a", "b"} : Server!CloseEnds(E)
  BY <1>5, ServerRoutes DEF Server!Finish
<1>6. ASSUME Server!SelectDone \/ Server!SelectResult
      PROVE  sCancelled' = sCancelled /\ \E E \in SUBSET {"a", "b"} : Server!CloseEnds(E)
  BY <1>6, ServerRoutes DEF Server!SelectDone, Server!SelectResult
<1>7. \/ UNCHANGED <<wrote, took, fin, shut, sCancelled>>
      \/ \E d \in {"up", "down"} : Server!ReadChunk(d) \/ Server!WriteChunk(d)
      \/ sCancelled' = sCancelled /\ \E E \in SUBSET {"a", "b"} : Server!CloseEnds(E)
  BY <1>3, <1>4, <1>5, <1>6, ServerRoutes DEF Server!PipeStep, Server!MainStep, Server!CopierStep
<1>8. CASE UNCHANGED <<wrote, took, fin, shut, sCancelled>>
  BY <1>8
<1>9. ASSUME NEW d \in {"up", "down"}, Server!ReadChunk(d) PROVE
         /\ took' \in [Channels -> Nat]
         /\ \A c \in Channels \ {"v>s", "c>s"} : took'[c] = took[c]
  BY <1>1, <1>9
<1>10. ASSUME NEW d \in {"up", "down"}, Server!WriteChunk(d) PROVE
         /\ wrote' \in [Channels -> Nat]
         /\ \A c \in Channels \ {"s>c", "s>v"} : wrote'[c] = wrote[c]
         /\ \A c \in Channels : fin[c] => wrote'[c] = wrote[c]
  BY <1>2, <1>10
<1>11. CASE \E d \in {"up", "down"} : Server!ReadChunk(d)
  BY <1>1, <1>9, <1>11
<1>12. CASE \E d \in {"up", "down"} : Server!WriteChunk(d)
  BY <1>2, <1>10, <1>12
<1>13. CASE sCancelled' = sCancelled /\ \E E \in SUBSET {"a", "b"} : Server!CloseEnds(E)
  BY <1>13, ServerCloses
<1> QED BY <1>7, <1>8, <1>11, <1>12, <1>13

LEMMA ServerMoves ==
  ASSUME Server!CallOK, NEW d \in {"up", "down"}, NEW s \in {"read", "write", "ended", "done"},
         sCopier' = [sCopier EXCEPT ![d] = s], sCopier[d] # "done"
  PROVE  /\ sCopier' \in [{"up", "down"} -> {"read", "write", "ended", "done"}]
         /\ sCopier'[d] = s /\ \A e \in {"up", "down"} : e # d => sCopier'[e] = sCopier[e]
         /\ Server!Results' = IF s = "done" THEN Server!Results + 1 ELSE Server!Results
         /\ Server!Results \in 0..1
  BY ServerRoutes DEF Server!CallOK, Server!Results

LEMMA ServerCall ==
  ASSUME ChannelsOK(Channels), Server!CallOK, Server!Balance, Server!PipeStep
  PROVE  Server!CallOK' /\ Server!Balance'
<1> USE ServerRoutes DEF Server!CallOK
<1>1. ASSUME NEW d \in {"up", "down"}, Server!ReadChunk(d) \/ Server!WriteChunk(d)
                                      \/ Server!ReadEnds(d) \/ Server!WriteFails(d)
      PROVE  Server!CallOK' /\ Server!Balance'
  <2>1. \E s \in {"read", "write", "ended"} :
           sCopier' = [sCopier EXCEPT ![d] = s] /\ sCopier[d] # "done"
    BY <1>1 DEF Server!ReadChunk, Server!WriteChunk, Server!ReadEnds, Server!WriteFails
  <2>2. UNCHANGED <<sCancelled, sCounter, sMain, sErrCh, sNeed>>
    BY <1>1 DEF Server!ReadChunk, Server!WriteChunk, Server!ReadEnds, Server!WriteFails
  <2>3. /\ Server!Results' = Server!Results
        /\ sCopier' \in [{"up", "down"} -> {"read", "write", "ended", "done"}]
    BY <2>1, ServerMoves
  <2> QED BY <2>2, <2>3 DEF Server!Balance
<1>2. ASSUME NEW d \in {"up", "down"}, Server!Finish(d) PROVE Server!CallOK' /\ Server!Balance'
  <2>1. /\ sCopier' = [sCopier EXCEPT ![d] = "done"] /\ sCopier[d] # "done"
        /\ sErrCh' = sErrCh + 1 /\ UNCHANGED <<sCancelled, sMain, sNeed>>
    BY <1>2 DEF Server!Finish
  <2>2. /\ Server!Results' = Server!Results + 1 /\ Server!Results \in 0..1
        /\ sCopier' \in [{"up", "down"} -> {"read", "write", "ended", "done"}]
    BY <2>1, ServerMoves
  <2>3. sCounter' \in [{"up", "down"} -> Nat]
    <3>1. Server!To[d] \in Channels
      BY DEF Channels
    <3>2. wrote[Server!To[d]] \in Nat
      BY <3>1
    <3> QED BY <1>2, <3>2 DEF Server!Finish
  <2>4. sErrCh' \in 0..2
    BY <2>1, <2>2 DEF Server!Balance
  <2>5. Server!Balance'
    BY <2>1, <2>2 DEF Server!Balance
  <2> QED BY <2>1, <2>2, <2>3, <2>4, <2>5
<1>3. ASSUME Server!MainStep PROVE Server!CallOK' /\ Server!Balance'
  <2>1. UNCHANGED <<sCancelled, sCopier, sCounter>>
    BY <1>3 DEF Server!MainStep, Server!SelectDone, Server!SelectResult, Server!Drain
  <2>2. Server!Results' = Server!Results /\ Server!Results \in 0..2
    BY <2>1 DEF Server!Results
  <2> QED BY <1>3, <2>1, <2>2 DEF Server!MainStep, Server!SelectDone, Server!SelectResult,
                                  Server!Drain, Server!Balance
<1> QED BY <1>1, <1>2, <1>3 DEF Server!PipeStep, Server!CopierStep

LEMMA ServerPassed ==
  ASSUME ChannelsOK(Channels), Server!CallOK, Server!Passed, Server!PipeStep
  PROVE  Server!Passed'
<1> USE ServerRoutes DEF Server!CallOK
<1> SUFFICES ASSUME NEW d \in {"up", "down"}
             PROVE  /\ sCopier'[d] = "read" => wrote'[Server!To[d]] = took'[Server!From[d]]
                    /\ sCopier'[d] = "write" => wrote'[Server!To[d]] + 1 = took'[Server!From[d]]
  BY DEF Server!Passed
<1>1. /\ wrote[Server!To[d]] \in Nat /\ took[Server!From[d]] \in Nat
      /\ Server!To[d] \in Channels /\ Server!From[d] \in Channels
  BY DEF Channels
<1>2. /\ sCopier[d] = "read" => wrote[Server!To[d]] = took[Server!From[d]]
      /\ sCopier[d] = "write" => wrote[Server!To[d]] + 1 = took[Server!From[d]]
  BY DEF Server!Passed
<1>3. CASE Server!ReadChunk(d)
  <2>1. /\ took'[Server!From[d]] = took[Server!From[d]] + 1 /\ wrote' = wrote
        /\ sCopier[d] = "read" /\ sCopier'[d] = "write"
    BY <1>1, <1>3 DEF Server!ReadChunk, Server!Take
  <2> QED BY <1>1, <1>2, <2>1
<1>4. CASE Server!WriteChunk(d)
  <2>1. /\ wrote'[Server!To[d]] = wrote[Server!To[d]] + 1 /\ took' = took
        /\ sCopier[d] = "write" /\ sCopier'[d] = "read"
    BY <1>1, <1>4 DEF Server!WriteChunk, Server!Write
  <2> QED BY <1>1, <1>2, <2>1
<1>5. CASE Server!ReadEnds(d) \/ Server!WriteFails(d) \/ Server!Finish(d)
  <2>1. sCopier'[d] \in {"ended", "done"}
    BY <1>5 DEF Server!ReadEnds, Server!WriteFails, Server!Finish
  <2> QED BY <2>1
<1>6. ASSUME NEW e \in {"up", "down"}, e # d, Server!CopierStep(e)
      PROVE  /\ sCopier'[d] = sCopier[d] /\ wrote'[Server!To[d]] = wrote[Server!To[d]]
             /\ took'[Server!From[d]] = took[Server!From[d]]
  <2>1. Server!To[e] # Server!To[d] /\ Server!From[e] # Server!From[d]
    BY <1>6
  <2>2. sCopier'[d] = sCopier[d]
    BY <1>6 DEF Server!CopierStep, Server!ReadChunk, Server!ReadEnds, Server!WriteChunk,
                Server!WriteFails, Server!Finish
  <2>3. wrote'[Server!To[d]] = wrote[Server!To[d]]
    BY <1>1, <1>6, <2>1 DEF Server!CopierStep, Server!ReadChunk, Server!ReadEnds, Server!WriteChunk,
                Server!WriteFails, Server!Finish, Server!CloseEnds, Server!Write, Server!channelVars
  <2>4. took'[Server!From[d]] = took[Server!From[d]]
    BY <1>1, <1>6, <2>1 DEF Server!CopierStep, Server!ReadChunk, Server!ReadEnds, Server!WriteChunk,
                Server!WriteFails, Server!Finish, Server!CloseEnds, Server!Take, Server!channelVars
  <2> QED BY <2>2, <2>3, <2>4
<1>7. ASSUME Server!MainStep PROVE UNCHANGED <<sCopier, wrote, took>>
  BY <1>7 DEF Server!MainStep, Server!SelectDone, Server!SelectResult, Server!Drain,
              Server!CloseEnds, Server!channelVars
<1> QED BY <1>2, <1>3, <1>4, <1>5, <1>6, <1>7 DEF Server!PipeStep, Server!CopierStep

(* What has been copied whole stays so, as long as nothing is added to its *)
(* source.                                                                 *)
LEMMA ServerStaysWhole ==
  ASSUME ChannelsOK(Channels), Server!CallOK, Server!PipeStep,
         NEW d \in {"up", "down"}, Server!EndedWhole(d)
  PROVE  Server!EndedWhole(d)'
<1> USE ServerRoutes DEF Server!CallOK
<1>1. sCopier[d] \in {"ended", "done"} /\ Server!Complete(d)
  BY DEF Server!EndedWhole
<1>2. sCopier'[d] \in {"ended", "done"}
  BY <1>1 DEF Server!PipeStep, Server!MainStep, Server!SelectDone, Server!SelectResult,
              Server!Drain, Server!CopierStep, Server!ReadChunk, Server!ReadEnds,
              Server!WriteChunk, Server!WriteFails, Server!Finish
<1>3. fin'[Server!From[d]] /\ wrote'[Server!From[d]] = wrote[Server!From[d]]
  <2>1. Server!From[d] \in Channels \ {"s>c", "s>v"}
    BY DEF Channels
  <2> QED BY <1>1, <2>1, ServerFrame DEF Server!Complete
<1>4. wrote'[Server!To[d]] = wrote[Server!To[d]]
  <2>1. ASSUME NEW e \in {"up", "down"}, Server!WriteChunk(e)
        PROVE  wrote'[Server!To[d]] = wrote[Server!To[d]]
    <3>1. e # d
      BY <1>1, <2>1 DEF Server!WriteChunk
    <3>2. Server!To[e] # Server!To[d] /\ Server!To[d] \in Channels
      BY <3>1 DEF Channels
    <3> QED BY <2>1, <3>2 DEF Server!WriteChunk, Server!Write
  <2>2. ASSUME NEW e \in {"up", "down"}, Server!ReadChunk(e) \/ Server!ReadEnds(e)
                                        \/ Server!WriteFails(e) \/ Server!Finish(e)
        PROVE  wrote' = wrote
    BY <2>2 DEF Server!ReadChunk, Server!ReadEnds, Server!WriteFails, Server!Finish,
                Server!CloseEnds, Server!channelVars
  <2>3. ASSUME Server!MainStep PROVE wrote' = wrote
    BY <2>3 DEF Server!MainStep, Server!SelectDone, Server!SelectResult, Server!Drain,
                Server!CloseEnds, Server!channelVars
  <2> QED BY <2>1, <2>2, <2>3 DEF Server!PipeStep, Server!CopierStep
<1> QED BY <1>1, <1>2, <1>3, <1>4 DEF Server!EndedWhole, Server!Complete

(* While both goroutines are at work, the next thing to happen is that the *)
(* one of d ends, with all there is.                                       *)
LEMMA ServerRuns ==
  ASSUME ChannelsOK(Channels), Server!CallOK, Server!Passed, Server!PipeStep,
         NEW d \in {"up", "down"}, Server!Running(d)
  PROVE  \/ Server!Running(d)'
         \/ Server!EndedWhole(d)' /\ Server!Complete(d)
<1> USE ServerRoutes DEF Server!CallOK
<1> DEFINE o == Server!Opposite[d]
<1>1. /\ sMain = "select" /\ sErrCh = 0 /\ ~sCancelled
      /\ \A e \in {"up", "down"} : ~fin[Server!To[e]] /\ ~shut[Server!To[e]] /\ ~shut[Server!From[e]]
      /\ ~fin[Server!From[o]] /\ sCopier[o] \in {"read", "write"}
      /\ sCopier[d] \in {"read", "write"} \/ (sCopier[d] = "ended" /\ Server!Complete(d))
  BY DEF Server!Running
<1>2. o \in {"up", "down"} /\ o # d /\ \A e \in {"up", "down"} : e = o \/ e = d
  OBVIOUS
<1> HIDE DEF o
<1>3. CASE Server!Finish(d)
  <2>1. sCopier[d] = "ended"
    BY <1>3 DEF Server!Finish
  <2>2. Server!EndedWhole(d) /\ Server!Complete(d)
    BY <1>1, <2>1 DEF Server!EndedWhole
  <2> QED BY <2>2, ServerStaysWhole
<1>4. ASSUME \/ Server!MainStep
             \/ Server!Finish(o) \/ Server!ReadEnds(o)
             \/ \E e \in {"up", "down"} : Server!WriteFails(e)
      PROVE  FALSE
  BY <1>1, <1>2, <1>4 DEF Server!MainStep, Server!SelectDone, Server!SelectResult, Server!Drain,
                   Server!Finish, Server!ReadEnds, Server!WriteFails
<1>5. CASE Server!ReadEnds(d)
  <2>1. sCopier[d] = "read" /\ fin[Server!From[d]] /\ wrote[Server!From[d]] = took[Server!From[d]]
    BY <1>1, <1>5 DEF Server!ReadEnds, Server!IsEmpty
  <2>2. wrote[Server!To[d]] = took[Server!From[d]]
    BY <2>1 DEF Server!Passed
  <2>3. Server!Complete(d)
    BY <2>1, <2>2 DEF Server!Complete
  <2>4. /\ sCopier' = [sCopier EXCEPT ![d] = "ended"]
        /\ UNCHANGED <<wrote, took, fin, shut, sCancelled, sMain, sErrCh>>
    BY <1>5 DEF Server!ReadEnds, Server!channelVars
  <2>5. Server!Complete(d)'
    BY <2>3, <2>4 DEF Server!Complete
  <2>6. sCopier'[d] = "ended" /\ sCopier'[o] = sCopier[o]
    BY <1>2, <2>4
  <2> QED BY <1>1, <2>4, <2>5, <2>6 DEF Server!Running, o
<1>6. ASSUME NEW e \in {"up", "down"}, Server!ReadChunk(e) \/ Server!WriteChunk(e)
      PROVE  Server!Running(d)'
  <2>1. /\ UNCHANGED <<fin, shut, sCancelled, sMain, sErrCh>>
        /\ sCopier'[e] \in {"read", "write"} /\ sCopier[e] # "ended"
        /\ \A f \in {"up", "down"} : f # e => sCopier'[f] = sCopier[f]
    BY <1>6 DEF Server!ReadChunk, Server!WriteChunk
  <2>2. sCopier'[o] \in {"read", "write"}
    BY <1>1, <1>2, <2>1
  <2>3. sCopier'[d] \in {"read", "write"} \/ (sCopier'[d] = "ended" /\ Server!Complete(d)')
    <3>1. CASE sCopier[d] \in {"read", "write"}
      BY <2>1, <3>1
    <3>2. CASE sCopier[d] = "ended" /\ Server!Complete(d)
      BY <2>1, <3>2, ServerStaysWhole DEF Server!EndedWhole
    <3> QED BY <1>1, <3>1, <3>2
  <2> QED BY <1>1, <2>1, <2>2, <2>3 DEF Server!Running, o
<1> QED BY <1>2, <1>3, <1>4, <1>5, <1>6 DEF Server!PipeStep, Server!CopierStep

-----------------------------------------------------------------------------
(* The same for the Pipe of the agent, whose stream is at its other end.   *)
LEMMA AgentRoutes ==
  /\ Agent!Dirs = {"up", "down"} /\ Agent!Ends = {"a", "b"}
  /\ Agent!From["up"] = "s>c" /\ Agent!To["up"] = "c>l"
  /\ Agent!From["down"] = "l>c" /\ Agent!To["down"] = "c>s"
  /\ Agent!Dst["up"] = "b" /\ Agent!Dst["down"] = "a"
  /\ Agent!In["a"] = "s>c" /\ Agent!Out["a"] = "c>s"
  /\ Agent!In["b"] = "l>c" /\ Agent!Out["b"] = "c>l"
  /\ Agent!Opposite["up"] = "down" /\ Agent!Opposite["down"] = "up"
  BY DEF Agent!Dirs, Agent!Ends, Agent!From, Agent!To, Agent!Dst, Agent!In, Agent!Out,
         Agent!Opposite

LEMMA AgentCloses ==
  ASSUME ChannelsOK(Channels), NEW E \in SUBSET {"a", "b"}, Agent!CloseEnds(E)
  PROVE  /\ ChannelsOK(Channels)' /\ wrote' = wrote /\ took' = took
         /\ \A c \in Channels : (fin[c] => fin'[c]) /\ (shut[c] => shut'[c])
         /\ \A c \in Channels \ {"c>l", "c>s"} : fin'[c] = fin[c]
         /\ \A c \in Channels \ {"l>c"} : shut'[c] = shut[c]
<1>1. /\ fin' = [c \in DOMAIN fin |-> fin[c] \/ \E x \in E : c = Agent!Out[x]]
      /\ shut' = [c \in DOMAIN shut |-> shut[c] \/ \E x \in E \ {"a"} : c = Agent!In[x]]
      /\ wrote' = wrote /\ took' = took
  BY DEF Agent!CloseEnds
<1>2. DOMAIN fin = Channels /\ DOMAIN shut = Channels
  OBVIOUS
<1>3. \A x \in E : (x = "a" \/ x = "b") /\ Agent!Out[x] \in {"c>l", "c>s"}
  BY AgentRoutes
<1>4. \A x \in E \ {"a"} : Agent!In[x] = "l>c"
  BY AgentRoutes
<1>5. fin' \in [Channels -> BOOLEAN] /\ shut' \in [Channels -> BOOLEAN]
  BY <1>1, <1>2
<1>6. \A c \in Channels : (fin[c] => fin'[c]) /\ (c \notin {"c>l", "c>s"} => fin'[c] = fin[c])
  BY <1>1, <1>2, <1>3, <1>5
<1>7. \A c \in Channels : (shut[c] => shut'[c]) /\ (c # "l>c" => shut'[c] = shut[c])
  BY <1>1, <1>2, <1>4, <1>5
<1> QED BY <1>1, <1>5, <1>6, <1>7

LEMMA AgentFrame ==
  ASSUME ChannelsOK(Channels), Agent!CallOK, Agent!PipeStep
  PROVE  /\ ChannelsOK(Channels)' /\ aCancelled' = aCancelled
         /\ \A c \in Channels : (fin[c] => fin'[c]) /\ (shut[c] => shut'[c])
         /\ \A c \in Channels \ {"c>l", "c>s"} : wrote'[c] = wrote[c] /\ fin'[c] = fin[c]
         /\ \A c \in Channels \ {"s>c", "l>c"} : took'[c] = took[c]
         /\ \A c \in Channels \ {"l>c"} : shut'[c] = shut[c]
         /\ \A c \in Channels : fin[c] => wrote'[c] = wrote[c]
<1> USE DEF Channels
<1>1. ASSUME NEW d \in {"up", "down"}, Agent!ReadChunk(d)
      PROVE  /\ UNCHANGED <<wrote, fin, shut, aCancelled>>
             /\ took' = [took EXCEPT ![Agent!From[d]] = @ + 1]
             /\ Agent!From[d] \in {"s>c", "l>c"}
  BY <1>1, AgentRoutes DEF Agent!ReadChunk, Agent!Take
<1>2. ASSUME NEW d \in {"up", "down"}, Agent!WriteChunk(d)
      PROVE  /\ UNCHANGED <<took, fin, shut, aCancelled>>
             /\ wrote' = [wrote EXCEPT ![Agent!To[d]] = @ + 1]
             /\ Agent!To[d] \in {"c>l", "c>s"} /\ ~fin[Agent!To[d]]
  BY <1>2, AgentRoutes DEF Agent!WriteChunk, Agent!Write
<1>3. ASSUME NEW d \in {"up", "down"}, Agent!ReadEnds(d) \/ Agent!WriteFails(d)
      PROVE  UNCHANGED <<wrote, took, fin, shut, aCancelled>>
  BY <1>3 DEF Agent!ReadEnds, Agent!WriteFails, Agent!channelVars
<1>4. ASSUME Agent!Drain PROVE UNCHANGED <<wrote, took, fin, shut, aCancelled>>
  BY <1>4 DEF Agent!Drain, Agent!channelVars
<1>5. ASSUME NEW d \in {"up", "down"}, Agent!Finish(d)
      PROVE  aCancelled' = aCancelled /\ \E E \in SUBSET {"a", "b"} : Agent!CloseEnds(E)
  BY <1>5, AgentRoutes DEF Agent!Finish
<1>6. ASSUME Agent!SelectDone \/ Agent!SelectResult
      PROVE  aCancelled' = aCancelled /\ \E E \in SUBSET {"a", "b"} : Agent!CloseEnds(E)
  BY <1>6, AgentRoutes DEF Agent!SelectDone, Agent!SelectResult
<1>7. \/ UNCHANGED <<wrote, took, fin, shut, aCancelled>>
      \/ \E d \in {"up", "down"} : Agent!ReadChunk(d) \/ Agent!WriteChunk(d)
      \/ aCancelled' = aCancelled /\ \E E \in SUBSET {"a", "b"} : Agent!CloseEnds(E)
  BY <1>3, <1>4, <1>5, <1>6, AgentRoutes DEF Agent!PipeStep, Agent!MainStep, Agent!CopierStep
<1>8. CASE UNCHANGED <<wrote, took, fin, shut, aCancelled>>
  BY <1>8
<1>9. ASSUME NEW d \in {"up", "down"}, Agent!ReadChunk(d) PROVE
         /\ took' \in [Channels -> Nat]
         /\ \A c \in Channels \ {"s>c", "l>c"} : took'[c] = took[c]
  BY <1>1, <1>9
<1>10. ASSUME NEW d \in {"up", "down"}, Agent!WriteChunk(d) PROVE
         /\ wrote' \in [Channels -> Nat]
         /\ \A c \in Channels \ {"c>l", "c>s"} : wrote'[c] = wrote[c]
         /\ \A c \in Channels : fin[c] => wrote'[c] = wrote[c]
  BY <1>2, <1>10
<1>11. CASE \E d \in {"up", "down"} : Agent!ReadChunk(d)
  BY <1>1, <1>9, <1>11
<1>12. CASE \E d \in {"up", "down"} : Agent!WriteChunk(d)
  BY <1>2, <1>10, <1>12
<1>13. CASE aCancelled' = aCancelled /\ \E E \in SUBSET {"a", "b"} : Agent!CloseEnds(E)
  BY <1>13, AgentCloses
<1> QED BY <1>7, <1>8, <1>11, <1>12, <1>13

LEMMA AgentMoves ==
  ASSUME Agent!CallOK, NEW d \in {"up", "down"}, NEW s \in {"read", "write", "ended", "done"},
         aCopier' = [aCopier EXCEPT ![d] = s], aCopier[d] # "done"
  PROVE  /\ aCopier' \in [{"up", "down"} -> {"read", "write", "ended", "done"}]
         /\ aCopier'[d] = s /\ \A e \in {"up", "down"} : e # d => aCopier'[e] = aCopier[e]
         /\ Agent!Results' = IF s = "done" THEN Agent!Results + 1 ELSE Agent!Results
         /\ Agent!Results \in 0..1
  BY AgentRoutes DEF Agent!CallOK, Agent!Results

LEMMA AgentCall ==
  ASSUME ChannelsOK(Channels), Agent!CallOK, Agent!Balance, Agent!PipeStep
  PROVE  Agent!CallOK' /\ Agent!Balance'
<1> USE AgentRoutes DEF Agent!CallOK
<1>1. ASSUME NEW d \in {"up", "down"}, Agent!ReadChunk(d) \/ Agent!WriteChunk(d)
                                      \/ Agent!ReadEnds(d) \/ Agent!WriteFails(d)
      PROVE  Agent!CallOK' /\ Agent!Balance'
  <2>1. \E s \in {"read", "write", "ended"} :
           aCopier' = [aCopier EXCEPT ![d] = s] /\ aCopier[d] # "done"
    BY <1>1 DEF Agent!ReadChunk, Agent!WriteChunk, Agent!ReadEnds, Agent!WriteFails
  <2>2. UNCHANGED <<aCancelled, aCounter, aMain, aErrCh, aNeed>>
    BY <1>1 DEF Agent!ReadChunk, Agent!WriteChunk, Agent!ReadEnds, Agent!WriteFails
  <2>3. /\ Agent!Results' = Agent!Results
        /\ aCopier' \in [{"up", "down"} -> {"read", "write", "ended", "done"}]
    BY <2>1, AgentMoves
  <2> QED BY <2>2, <2>3 DEF Agent!Balance
<1>2. ASSUME NEW d \in {"up", "down"}, Agent!Finish(d) PROVE Agent!CallOK' /\ Agent!Balance'
  <2>1. /\ aCopier' = [aCopier EXCEPT ![d] = "done"] /\ aCopier[d] # "done"
        /\ aErrCh' = aErrCh + 1 /\ UNCHANGED <<aCancelled, aMain, aNeed>>
    BY <1>2 DEF Agent!Finish
  <2>2. /\ Agent!Results' = Agent!Results + 1 /\ Agent!Results \in 0..1
        /\ aCopier' \in [{"up", "down"} -> {"read", "write", "ended", "done"}]
    BY <2>1, AgentMoves
  <2>3. aCounter' \in [{"up", "down"} -> Nat]
    <3>1. Agent!To[d] \in Channels
      BY DEF Channels
    <3>2. wrote[Agent!To[d]] \in Nat
      BY <3>1
    <3> QED BY <1>2, <3>2 DEF Agent!Finish
  <2>4. aErrCh' \in 0..2
    BY <2>1, <2>2 DEF Agent!Balance
  <2>5. Agent!Balance'
    BY <2>1, <2>2 DEF Agent!Balance
  <2> QED BY <2>1, <2>2, <2>3, <2>4, <2>5
<1>3. ASSUME Agent!MainStep PROVE Agent!CallOK' /\ Agent!Balance'
  <2>1. UNCHANGED <<aCancelled, aCopier, aCounter>>
    BY <1>3 DEF Agent!MainStep, Agent!SelectDone, Agent!SelectResult, Agent!Drain
  <2>2. Agent!Results' = Agent!Results /\ Agent!Results \in 0..2
    BY <2>1 DEF Agent!Results
  <2> QED BY <1>3, <2>1, <2>2 DEF Agent!MainStep, Agent!SelectDone, Agent!SelectResult,
                                  Agent!Drain, Agent!Balance
<1> QED BY <1>1, <1>2, <1>3 DEF Agent!PipeStep, Agent!CopierStep

LEMMA AgentPassed ==
  ASSUME ChannelsOK(Channels), Agent!CallOK, Agent!Passed, Agent!PipeStep
  PROVE  Agent!Passed'
<1> USE AgentRoutes DEF Agent!CallOK
<1> SUFFICES ASSUME NEW d \in {"up", "down"}
             PROVE  /\ aCopier'[d] = "read" => wrote'[Agent!To[d]] = took'[Agent!From[d]]
                    /\ aCopier'[d] = "write" => wrote'[Agent!To[d]] + 1 = took'[Agent!From[d]]
  BY DEF Agent!Passed
<1>1. /\ wrote[Agent!To[d]] \in Nat /\ took[Agent!From[d]] \in Nat
      /\ Agent!To[d] \in Channels /\ Agent!From[d] \in Channels
  BY DEF Channels
<1>2. /\ aCopier[d] = "read" => wrote[Agent!To[d]] = took[Agent!From[d]]
      /\ aCopier[d] = "write" => wrote[Agent!To[d]] + 1 = took[Agent!From[d]]
  BY DEF Agent!Passed
<1>3. CASE Agent!ReadChunk(d)
  <2>1. /\ took'[Agent!From[d]] = took[Agent!From[d]] + 1 /\ wrote' = wrote
        /\ aCopier[d] = "read" /\ aCopier'[d] = "write"
    BY <1>1, <1>3 DEF Agent!ReadChunk, Agent!Take
  <2> QED BY <1>1, <1>2, <2>1
<1>4. CASE Agent!WriteChunk(d)
  <2>1. /\ wrote'[Agent!To[d]] = wrote[Agent!To[d]] + 1 /\ took' = took
        /\ aCopier[d] = "write" /\ aCopier'[d] = "read"
    BY <1>1, <1>4 DEF Agent!WriteChunk, Agent!Write
  <2> QED BY <1>1, <1>2, <2>1
<1>5. CASE Agent!ReadEnds(d) \/ Agent!WriteFails(d) \/ Agent!Finish(d)
  <2>1. aCopier'[d] \in {"ended", "done"}
    BY <1>5 DEF Agent!ReadEnds, Agent!WriteFails, Agent!Finish
  <2> QED BY <2>1
<1>6. ASSUME NEW e \in {"up", "down"}, e # d, Agent!CopierStep(e)
      PROVE  /\ aCopier'[d] = aCopier[d] /\ wrote'[Agent!To[d]] = wrote[Agent!To[d]]
             /\ took'[Agent!From[d]] = took[Agent!From[d]]
  <2>1. Agent!To[e] # Agent!To[d] /\ Agent!From[e] # Agent!From[d]
    BY <1>6
  <2>2. aCopier'[d] = aCopier[d]
    BY <1>6 DEF Agent!CopierStep, Agent!ReadChunk, Agent!ReadEnds, Agent!WriteChunk,
                Agent!WriteFails, Agent!Finish
  <2>3. wrote'[Agent!To[d]] = wrote[Agent!To[d]]
    BY <1>1, <1>6, <2>1 DEF Agent!CopierStep, Agent!ReadChunk, Agent!ReadEnds, Agent!WriteChunk,
                Agent!WriteFails, Agent!Finish, Agent!CloseEnds, Agent!Write, Agent!channelVars
  <2>4. took'[Agent!From[d]] = took[Agent!From[d]]
    BY <1>1, <1>6, <2>1 DEF Agent!CopierStep, Agent!ReadChunk, Agent!ReadEnds, Agent!WriteChunk,
                Agent!WriteFails, Agent!Finish, Agent!CloseEnds, Agent!Take, Agent!channelVars
  <2> QED BY <2>2, <2>3, <2>4
<1>7. ASSUME Agent!MainStep PROVE UNCHANGED <<aCopier, wrote, took>>
  BY <1>7 DEF Agent!MainStep, Agent!SelectDone, Agent!SelectResult, Agent!Drain,
              Agent!CloseEnds, Agent!channelVars
<1> QED BY <1>2, <1>3, <1>4, <1>5, <1>6, <1>7 DEF Agent!PipeStep, Agent!CopierStep

(* What has been copied whole stays so, as long as nothing is added to its *)
(* source.                                                                 *)
LEMMA AgentStaysWhole ==
  ASSUME ChannelsOK(Channels), Agent!CallOK, Agent!PipeStep,
         NEW d \in {"up", "down"}, Agent!EndedWhole(d)
  PROVE  Agent!EndedWhole(d)'
<1> USE AgentRoutes DEF Agent!CallOK
<1>1. aCopier[d] \in {"ended", "done"} /\ Agent!Complete(d)
  BY DEF Agent!EndedWhole
<1>2. aCopier'[d] \in {"ended", "done"}
  BY <1>1 DEF Agent!PipeStep, Agent!MainStep, Agent!SelectDone, Agent!SelectResult,
              Agent!Drain, Agent!CopierStep, Agent!ReadChunk, Agent!ReadEnds,
              Agent!WriteChunk, Agent!WriteFails, Agent!Finish
<1>3. fin'[Agent!From[d]] /\ wrote'[Agent!From[d]] = wrote[Agent!From[d]]
  <2>1. Agent!From[d] \in Channels \ {"c>l", "c>s"}
    BY DEF Channels
  <2> QED BY <1>1, <2>1, AgentFrame DEF Agent!Complete
<1>4. wrote'[Agent!To[d]] = wrote[Agent!To[d]]
  <2>1. ASSUME NEW e \in {"up", "down"}, Agent!WriteChunk(e)
        PROVE  wrote'[Agent!To[d]] = wrote[Agent!To[d]]
    <3>1. e # d
      BY <1>1, <2>1 DEF Agent!WriteChunk
    <3>2. Agent!To[e] # Agent!To[d] /\ Agent!To[d] \in Channels
      BY <3>1 DEF Channels
    <3> QED BY <2>1, <3>2 DEF Agent!WriteChunk, Agent!Write
  <2>2. ASSUME NEW e \in {"up", "down"}, Agent!ReadChunk(e) \/ Agent!ReadEnds(e)
                                        \/ Agent!WriteFails(e) \/ Agent!Finish(e)
        PROVE  wrote' = wrote
    BY <2>2 DEF Agent!ReadChunk, Agent!ReadEnds, Agent!WriteFails, Agent!Finish,
                Agent!CloseEnds, Agent!channelVars
  <2>3. ASSUME Agent!MainStep PROVE wrote' = wrote
    BY <2>3 DEF Agent!MainStep, Agent!SelectDone, Agent!SelectResult, Agent!Drain,
                Agent!CloseEnds, Agent!channelVars
  <2> QED BY <2>1, <2>2, <2>3 DEF Agent!PipeStep, Agent!CopierStep
<1> QED BY <1>1, <1>2, <1>3, <1>4 DEF Agent!EndedWhole, Agent!Complete

(* While both goroutines are at work, the next thing to happen is that the *)
(* one of d ends, with all there is.                                       *)
LEMMA AgentRuns ==
  ASSUME ChannelsOK(Channels), Agent!CallOK, Agent!Passed, Agent!PipeStep,
         NEW d \in {"up", "down"}, Agent!Running(d)
  PROVE  \/ Agent!Running(d)'
         \/ Agent!EndedWhole(d)' /\ Agent!Complete(d)
<1> USE AgentRoutes DEF Agent!CallOK
<1> DEFINE o == Agent!Opposite[d]
<1>1. /\ aMain = "select" /\ aErrCh = 0 /\ ~aCancelled
      /\ \A e \in {"up", "down"} : ~fin[Agent!To[e]] /\ ~shut[Agent!To[e]] /\ ~shut[Agent!From[e]]
      /\ ~fin[Agent!From[o]] /\ aCopier[o] \in {"read", "write"}
      /\ aCopier[d] \in {"read", "write"} \/ (aCopier[d] = "ended" /\ Agent!Complete(d))
  BY DEF Agent!Running
<1>2. o \in {"up", "down"} /\ o # d /\ \A e \in {"up", "down"} : e = o \/ e = d
  OBVIOUS
<1> HIDE DEF o
<1>3. CASE Agent!Finish(d)
  <2>1. aCopier[d] = "ended"
    BY <1>3 DEF Agent!Finish
  <2>2. Agent!EndedWhole(d) /\ Agent!Complete(d)
    BY <1>1, <2>1 DEF Agent!EndedWhole
  <2> QED BY <2>2, AgentStaysWhole
<1>4. ASSUME \/ Agent!MainStep
             \/ Agent!Finish(o) \/ Agent!ReadEnds(o)
             \/ \E e \in {"up", "down"} : Agent!WriteFails(e)
      PROVE  FALSE
  BY <1>1, <1>2, <1>4 DEF Agent!MainStep, Agent!SelectDone, Agent!SelectResult, Agent!Drain,
                   Agent!Finish, Agent!ReadEnds, Agent!WriteFails
<1>5. CASE Agent!ReadEnds(d)
  <2>1. aCopier[d] = "read" /\ fin[Agent!From[d]] /\ wrote[Agent!From[d]] = took[Agent!From[d]]
    BY <1>1, <1>5 DEF Agent!ReadEnds, Agent!IsEmpty
  <2>2. wrote[Agent!To[d]] = took[Agent!From[d]]
    BY <2>1 DEF Agent!Passed
  <2>3. Agent!Complete(d)
    BY <2>1, <2>2 DEF Agent!Complete
  <2>4. /\ aCopier' = [aCopier EXCEPT ![d] = "ended"]
        /\ UNCHANGED <<wrote, took, fin, shut, aCancelled, aMain, aErrCh>>
    BY <1>5 DEF Agent!ReadEnds, Agent!channelVars
  <2>5. Agent!Complete(d)'
    BY <2>3, <2>4 DEF Agent!Complete
  <2>6. aCopier'[d] = "ended" /\ aCopier'[o] = aCopier[o]
    BY <1>2, <2>4
  <2> QED BY <1>1, <2>4, <2>5, <2>6 DEF Agent!Running, o
<1>6. ASSUME NEW e \in {"up", "down"}, Agent!ReadChunk(e) \/ Agent!WriteChunk(e)
      PROVE  Agent!Running(d)'
  <2>1. /\ UNCHANGED <<fin, shut, aCancelled, aMain, aErrCh>>
        /\ aCopier'[e] \in {"read", "write"} /\ aCopier[e] # "ended"
        /\ \A f \in {"up", "down"} : f # e => aCopier'[f] = aCopier[f]
    BY <1>6 DEF Agent!ReadChunk, Agent!WriteChunk
  <2>2. aCopier'[o] \in {"read", "write"}
    BY <1>1, <1>2, <2>1
  <2>3. aCopier'[d] \in {"read", "write"} \/ (aCopier'[d] = "ended" /\ Agent!Complete(d)')
    <3>1. CASE aCopier[d] \in {"read", "write"}
      BY <2>1, <3>1
    <3>2. CASE aCopier[d] = "ended" /\ Agent!Complete(d)
      BY <2>1, <3>2, AgentStaysWhole DEF Agent!EndedWhole
    <3> QED BY <1>1, <3>1, <3>2
  <2> QED BY <1>1, <2>1, <2>2, <2>3 DEF Agent!Running, o
<1> QED BY <1>2, <1>3, <1>4, <1>5, <1>6 DEF Agent!PipeStep, Agent!CopierStep

-----------------------------------------------------------------------------
(* What goes on around the Pipe, as the Pipe of the server sees it.        *)
LEMMA ServerAside ==
  ASSUME ChannelsOK(Channels), Server!CallOK,
         UNCHANGED <<sCopier, sMain, sErrCh>>,
         \A c \in Channels : (fin[c] => fin'[c]) /\ (fin[c] => wrote'[c] = wrote[c]),
         \A c \in {"s>c", "s>v"} : wrote'[c] = wrote[c],
         \A c \in {"v>s", "c>s"} : took'[c] = took[c]
  PROVE  /\ Server!Passed => Server!Passed'
         /\ \A d \in {"up", "down"} :
              /\ Server!EndedWhole(d) => Server!EndedWhole(d)'
              /\ /\ Server!Running(d) /\ ~sCancelled'
                 /\ \A e \in {"up", "down"} : ~fin'[Server!To[e]] /\ ~shut'[Server!To[e]] /\ ~shut'[Server!From[e]]
                 /\ ~fin'[Server!From[Server!Opposite[d]]]
                 => Server!Running(d)'
<1> USE ServerRoutes DEF Channels
<1>1. \A d \in {"up", "down"} : /\ wrote'[Server!To[d]] = wrote[Server!To[d]]
                               /\ took'[Server!From[d]] = took[Server!From[d]]
                               /\ Server!From[d] \in Channels
  OBVIOUS
<1>2. \A d \in {"up", "down"} : Server!Complete(d) => Server!Complete(d)'
  BY <1>1 DEF Server!Complete
<1>3. Server!Passed => Server!Passed'
  BY <1>1 DEF Server!Passed
<1>4. \A d \in {"up", "down"} : Server!EndedWhole(d) => Server!EndedWhole(d)'
  BY <1>2 DEF Server!EndedWhole
<1>5. ASSUME NEW d \in {"up", "down"}, Server!Running(d), ~sCancelled',
             \A e \in {"up", "down"} : ~fin'[Server!To[e]] /\ ~shut'[Server!To[e]] /\ ~shut'[Server!From[e]],
             ~fin'[Server!From[Server!Opposite[d]]]
      PROVE  Server!Running(d)'
  BY <1>2, <1>5 DEF Server!Running
<1> QED BY <1>3, <1>4, <1>5

LEMMA AgentAside ==
  ASSUME ChannelsOK(Channels), Agent!CallOK,
         UNCHANGED <<aCopier, aMain, aErrCh>>,
         \A c \in Channels : (fin[c] => fin'[c]) /\ (fin[c] => wrote'[c] = wrote[c]),
         \A c \in {"c>l", "c>s"} : wrote'[c] = wrote[c],
         \A c \in {"s>c", "l>c"} : took'[c] = took[c]
  PROVE  /\ Agent!Passed => Agent!Passed'
         /\ \A d \in {"up", "down"} :
              /\ Agent!EndedWhole(d) => Agent!EndedWhole(d)'
              /\ /\ Agent!Running(d) /\ ~aCancelled'
                 /\ \A e \in {"up", "down"} : ~fin'[Agent!To[e]] /\ ~shut'[Agent!To[e]] /\ ~shut'[Agent!From[e]]
                 /\ ~fin'[Agent!From[Agent!Opposite[d]]]
                 => Agent!Running(d)'
<1> USE AgentRoutes DEF Channels
<1>1. \A d \in {"up", "down"} : /\ wrote'[Agent!To[d]] = wrote[Agent!To[d]]
                               /\ took'[Agent!From[d]] = took[Agent!From[d]]
                               /\ Agent!From[d] \in Channels
  OBVIOUS
<1>2. \A d \in {"up", "down"} : Agent!Complete(d) => Agent!Complete(d)'
  BY <1>1 DEF Agent!Complete
<1>3. Agent!Passed => Agent!Passed'
  BY <1>1 DEF Agent!Passed
<1>4. \A d \in {"up", "down"} : Agent!EndedWhole(d) => Agent!EndedWhole(d)'
  BY <1>2 DEF Agent!EndedWhole
<1>5. ASSUME NEW d \in {"up", "down"}, Agent!Running(d), ~aCancelled',
             \A e \in {"up", "down"} : ~fin'[Agent!To[e]] /\ ~shut'[Agent!To[e]] /\ ~shut'[Agent!From[e]],
             ~fin'[Agent!From[Agent!Opposite[d]]]
      PROVE  Agent!Running(d)'
  BY <1>2, <1>5 DEF Agent!Running
<1> QED BY <1>3, <1>4, <1>5

-----------------------------------------------------------------------------
(* The whole path.                                                         *)
Around == AgentGets \/ AgentRefused \/ Visitor \/ Service
            \/ StreamDies \/ CancelServer \/ CancelAgent \/ UNCHANGED pathVars

(* What the others leave to the two Pipes.                                 *)
LEMMA AroundFrame ==
  ASSUME PathTypeOK, Around
  PROVE  /\ ChannelsOK(Channels)' /\ sCancelled' \in BOOLEAN /\ aCancelled' \in BOOLEAN
         /\ agent' \in {"get", "pipe", "refused"} /\ alive' \in BOOLEAN
         /\ UNCHANGED <<sCopier, sCounter, sMain, sErrCh, sNeed, aCopier, aCounter, aMain, aErrCh, aNeed>>
         /\ \A c \in Channels : (fin[c] => fin'[c]) /\ (fin[c] => wrote'[c] = wrote[c])
         /\ \A c \in {"s>c", "s>v", "c>l", "c>s"} : wrote'[c] = wrote[c]
         /\ \A c \in {"v>s", "c>s", "s>c", "l>c"} : took'[c] = took[c]
         /\ Steady' => /\ Steady /\ shut' = shut
                       /\ \A c \in {"s>c", "s>v", "c>l", "c>s"} : fin'[c] = fin[c]
<1> USE DEF PathTypeOK
<1>1. CASE Visitor
  <2>1. Server!PeerStep("a") /\ UNCHANGED <<agentVars, agent, alive>>
    BY <1>1 DEF Visitor
  <2>2. CASE Server!PeerSends("a")
    <3>1. /\ ~fin["v>s"] /\ wrote' = [wrote EXCEPT !["v>s"] = @ + 1]
          /\ UNCHANGED <<took, fin, shut, serverVars>>
      BY <2>2, ServerRoutes DEF Server!PeerSends, Server!Write, Server!pipeVars, serverVars
    <3> QED BY <2>1, <3>1 DEF serverVars, agentVars, Server!CallOK, Agent!CallOK, Channels, Steady
  <2>3. CASE Server!PeerReads("a")
    <3>1. /\ took' = [took EXCEPT !["s>v"] = @ + 1] /\ UNCHANGED <<wrote, fin, shut, serverVars>>
      BY <2>3, ServerRoutes DEF Server!PeerReads, Server!Take, Server!pipeVars, serverVars
    <3> QED BY <2>1, <3>1 DEF serverVars, agentVars, Server!CallOK, Agent!CallOK, Channels, Steady
  <2>4. CASE Server!PeerEnds("a")
    <3>1. fin' = [fin EXCEPT !["v>s"] = TRUE] /\ UNCHANGED <<wrote, took, shut, serverVars>>
      BY <2>4, ServerRoutes DEF Server!PeerEnds, Server!pipeVars, serverVars
    <3> QED BY <2>1, <3>1 DEF serverVars, agentVars, Server!CallOK, Agent!CallOK, Channels, Steady
  <2>5. CASE Server!PeerLeaves("a")
    <3>1. /\ fin' = [fin EXCEPT !["v>s"] = TRUE] /\ shut' = [shut EXCEPT !["s>v"] = TRUE]
          /\ UNCHANGED <<wrote, took, serverVars>>
      BY <2>5, ServerRoutes DEF Server!PeerLeaves, Server!pipeVars, serverVars
    <3> QED BY <2>1, <3>1 DEF serverVars, agentVars, Server!CallOK, Agent!CallOK, Channels, Steady
  <2> QED BY <2>1, <2>2, <2>3, <2>4, <2>5 DEF Server!PeerStep
<1>2. CASE Service
  <2>1. Agent!PeerStep("b") /\ UNCHANGED <<serverVars, agent, alive>>
    BY <1>2 DEF Service
  <2>2. CASE Agent!PeerSends("b")
    <3>1. /\ ~fin["l>c"] /\ wrote' = [wrote EXCEPT !["l>c"] = @ + 1]
          /\ UNCHANGED <<took, fin, shut, agentVars>>
      BY <2>2, AgentRoutes DEF Agent!PeerSends, Agent!Write, Agent!pipeVars, agentVars
    <3> QED BY <2>1, <3>1 DEF serverVars, agentVars, Server!CallOK, Agent!CallOK, Channels, Steady
  <2>3. CASE Agent!PeerReads("b")
    <3>1. /\ took' = [took EXCEPT !["c>l"] = @ + 1] /\ UNCHANGED <<wrote, fin, shut, agentVars>>
      BY <2>3, AgentRoutes DEF Agent!PeerReads, Agent!Take, Agent!pipeVars, agentVars
    <3> QED BY <2>1, <3>1 DEF serverVars, agentVars, Server!CallOK, Agent!CallOK, Channels, Steady
  <2>4. CASE Agent!PeerEnds("b")
    <3>1. fin' = [fin EXCEPT !["l>c"] = TRUE] /\ UNCHANGED <<wrote, took, shut, agentVars>>
      BY <2>4, AgentRoutes DEF Agent!PeerEnds, Agent!pipeVars, agentVars
    <3> QED BY <2>1, <3>1 DEF serverVars, agentVars, Server!CallOK, Agent!CallOK, Channels, Steady
  <2>5. CASE Agent!PeerLeaves("b")
    <3>1. /\ fin' = [fin EXCEPT !["l>c"] = TRUE] /\ shut' = [shut EXCEPT !["c>l"] = TRUE]
          /\ UNCHANGED <<wrote, took, agentVars>>
      BY <2>5, AgentRoutes DEF Agent!PeerLeaves, Agent!pipeVars, agentVars
    <3> QED BY <2>1, <3>1 DEF serverVars, agentVars, Server!CallOK, Agent!CallOK, Channels, Steady
  <2> QED BY <2>1, <2>2, <2>3, <2>4, <2>5 DEF Agent!PeerStep
<1>3. CASE StreamDies
  <2>1. /\ fin' = [fin EXCEPT !["s>c"] = TRUE, !["c>s"] = TRUE]
        /\ shut' = [shut EXCEPT !["s>c"] = TRUE, !["c>s"] = TRUE]
        /\ alive' = FALSE /\ UNCHANGED <<wrote, took, serverVars, agentVars, agent>>
    BY <1>3 DEF StreamDies
  <2> QED BY <2>1 DEF serverVars, agentVars, Server!CallOK, Agent!CallOK, Channels, Steady
<1>4. CASE AgentRefused
  <2>1. Agent!CloseEnds({"a"}) /\ agent' = "refused" /\ UNCHANGED <<serverVars, agentVars, alive>>
    BY <1>4 DEF AgentRefused
  <2> QED BY <2>1, AgentCloses DEF serverVars, agentVars, Server!CallOK, Agent!CallOK, Channels, Steady
<1>5. CASE AgentGets
  BY <1>5 DEF AgentGets, channelVars, serverVars, agentVars, Server!CallOK, Agent!CallOK, Channels, Steady
<1>6. CASE CancelServer
  BY <1>6 DEF CancelServer, Server!Cancel, Server!channelVars, Server!pipeVars, agentVars,
              Server!CallOK, Agent!CallOK, Channels, Steady
<1>7. CASE CancelAgent
  BY <1>7 DEF CancelAgent, Agent!Cancel, Agent!channelVars, Agent!pipeVars, serverVars,
              Server!CallOK, Agent!CallOK, Channels, Steady
<1>8. CASE UNCHANGED pathVars
  BY <1>8 DEF pathVars, channelVars, serverVars, agentVars, Server!CallOK, Agent!CallOK, Channels, Steady
<1> QED BY <1>1, <1>2, <1>3, <1>4, <1>5, <1>6, <1>7, <1>8 DEF Around

PathCalls == Server!Balance /\ Agent!Balance /\ Server!Passed /\ Agent!Passed
PathInv   == PathTypeOK /\ PathCalls

LEMMA PathInitial == InitPath => PathInv /\ RequestInOrder /\ ResponseInOrder
<1> SUFFICES ASSUME InitPath PROVE PathInv /\ RequestInOrder /\ ResponseInOrder
  OBVIOUS
<1> USE ServerRoutes, AgentRoutes
<1>1. /\ wrote = [c \in Channels |-> 0] /\ took = [c \in Channels |-> 0]
      /\ fin = [c \in Channels |-> FALSE] /\ shut = [c \in Channels |-> FALSE]
  BY DEF InitPath, InitChannels
<1>2. fin \in [Channels -> BOOLEAN] /\ shut \in [Channels -> BOOLEAN]
  BY <1>1, Zenon
<1>3. ChannelsOK(Channels)
  BY <1>1, <1>2
<1>4. \A c \in Channels : wrote[c] = 0 /\ took[c] = 0 /\ ~fin[c] /\ ~shut[c]
  BY <1>1
<1>5. /\ sCopier = [d \in {"up", "down"} |-> "read"] /\ sCounter = [d \in {"up", "down"} |-> 0]
      /\ sMain = "select" /\ sErrCh = 0 /\ sNeed = 0 /\ sCancelled = FALSE
  BY DEF InitPath, Server!InitPipe
<1>6. /\ aCopier = [d \in {"up", "down"} |-> "read"] /\ aCounter = [d \in {"up", "down"} |-> 0]
      /\ aMain = "select" /\ aErrCh = 0 /\ aNeed = 0 /\ aCancelled = FALSE
  BY DEF InitPath, Agent!InitPipe
<1>7. Server!CallOK /\ Server!Balance
  <2>1. /\ sCopier \in [{"up", "down"} -> {"read", "write", "ended", "done"}]
        /\ sCounter \in [{"up", "down"} -> Nat]
        /\ sCopier["up"] = "read" /\ sCopier["down"] = "read"
    BY <1>5
  <2>2. Server!Results = 0
    BY <2>1 DEF Server!Results
  <2>3. /\ sCancelled \in BOOLEAN /\ sMain = "select" /\ sErrCh = 0 /\ sNeed = 0
    BY <1>5
  <2>4. Server!CallOK
    BY <2>1, <2>3 DEF Server!CallOK
  <2>5. Server!Balance
    BY <2>2, <2>3 DEF Server!Balance
  <2> QED BY <2>4, <2>5
<1>8. Agent!CallOK /\ Agent!Balance
  <2>1. /\ aCopier \in [{"up", "down"} -> {"read", "write", "ended", "done"}]
        /\ aCounter \in [{"up", "down"} -> Nat]
        /\ aCopier["up"] = "read" /\ aCopier["down"] = "read"
    BY <1>6
  <2>2. Agent!Results = 0
    BY <2>1 DEF Agent!Results
  <2>3. /\ aCancelled \in BOOLEAN /\ aMain = "select" /\ aErrCh = 0 /\ aNeed = 0
    BY <1>6
  <2>4. Agent!CallOK
    BY <2>1, <2>3 DEF Agent!CallOK
  <2>5. Agent!Balance
    BY <2>2, <2>3 DEF Agent!Balance
  <2> QED BY <2>4, <2>5
<1>9. PathTypeOK
  BY <1>3, <1>7, <1>8 DEF PathTypeOK, InitPath
<1>10. Server!Passed /\ Agent!Passed
  BY <1>4, <1>5, <1>6 DEF Server!Passed, Agent!Passed, Channels
<1>11. \A d \in {"up", "down"} : Server!Running(d) /\ Agent!Running(d)
  BY <1>4, <1>5, <1>6 DEF Server!Running, Agent!Running, Channels
<1> QED BY <1>7, <1>8, <1>9, <1>10, <1>11 DEF PathInv, PathCalls, RequestInOrder, ResponseInOrder

LEMMA PathMoves ==
  ASSUME [NextPath]_pathVars
  PROVE  \/ Around
         \/ Server!PipeStep /\ UNCHANGED <<agentVars, agent, alive>>
         \/ Agent!PipeStep /\ UNCHANGED <<serverVars, agent, alive>>
  BY DEF NextPath, Around, ServerPipe, AgentPipe

LEMMA PathPreserved ==
  ASSUME PathInv, [NextPath]_pathVars
  PROVE  PathInv'
<1> USE DEF PathInv, PathTypeOK, PathCalls
<1>1. CASE Around
  <2>1. Server!CallOK' /\ Agent!CallOK'
    BY <1>1, AroundFrame DEF Server!CallOK, Agent!CallOK
  <2>2. Server!Balance' /\ Agent!Balance'
    BY <1>1, AroundFrame DEF Server!Balance, Agent!Balance, Server!Results, Agent!Results
  <2>3. Server!Passed'
    BY <1>1, AroundFrame, ServerAside
  <2>4. Agent!Passed'
    BY <1>1, AroundFrame, AgentAside
  <2> QED BY <1>1, AroundFrame, <2>1, <2>2, <2>3, <2>4
<1>2. CASE Server!PipeStep /\ UNCHANGED <<agentVars, agent, alive>>
  <2>1. UNCHANGED <<aCancelled, aCopier, aCounter, aMain, aErrCh, aNeed, agent, alive>>
    BY <1>2 DEF agentVars
  <2>2. ChannelsOK(Channels)' /\ Server!CallOK' /\ Server!Balance' /\ Server!Passed'
    BY <1>2, ServerFrame, ServerCall, ServerPassed
  <2>3. Agent!CallOK' /\ Agent!Balance'
    BY <2>1 DEF Agent!CallOK, Agent!Balance, Agent!Results
  <2>4. Agent!Passed'
    BY <1>2, <2>1, ServerFrame, AgentAside DEF Channels
  <2> QED BY <2>1, <2>2, <2>3, <2>4
<1>3. CASE Agent!PipeStep /\ UNCHANGED <<serverVars, agent, alive>>
  <2>1. UNCHANGED <<sCancelled, sCopier, sCounter, sMain, sErrCh, sNeed, agent, alive>>
    BY <1>3 DEF serverVars
  <2>2. ChannelsOK(Channels)' /\ Agent!CallOK' /\ Agent!Balance' /\ Agent!Passed'
    BY <1>3, AgentFrame, AgentCall, AgentPassed
  <2>3. Server!CallOK' /\ Server!Balance'
    BY <2>1 DEF Server!CallOK, Server!Balance, Server!Results
  <2>4. Server!Passed'
    BY <1>3, <2>1, AgentFrame, ServerAside DEF Channels
  <2> QED BY <2>1, <2>2, <2>3, <2>4
<1> QED BY <1>1, <1>2, <1>3, PathMoves

LEMMA StaysSteady ==
  ASSUME PathInv, [NextPath]_pathVars, Steady'
  PROVE  /\ Steady /\ \A c \in Channels : fin[c] => fin'[c]
<1> USE DEF PathInv, PathTypeOK
<1>1. CASE Around
  BY <1>1, AroundFrame
<1>2. CASE Server!PipeStep /\ UNCHANGED <<agentVars, agent, alive>>
  BY <1>2, ServerFrame DEF Steady, agentVars, Channels
<1>3. CASE Agent!PipeStep /\ UNCHANGED <<serverVars, agent, alive>>
  BY <1>3, AgentFrame DEF Steady, serverVars, Channels
<1> QED BY <1>1, <1>2, <1>3, PathMoves

(* Each step leaves the Pipes where they are in the order, or takes the    *)
(* next of them to its end.  The other Pipe sees only what has been        *)
(* written for it, and the end behind it.                                  *)
LEMMA RequestPreserved ==
  ASSUME PathInv, RequestInOrder, [NextPath]_pathVars
  PROVE  RequestInOrder'
<1> USE ServerRoutes, AgentRoutes DEF PathInv, PathTypeOK, PathCalls
<1> SUFFICES ASSUME Steady', ~fin'["l>c"]
             PROVE  \/ Server!Running("up")' /\ Agent!Running("up")'
                    \/ Server!EndedWhole("up")' /\ Agent!Running("up")'
                    \/ Server!EndedWhole("up")' /\ Agent!EndedWhole("up")'
  BY DEF RequestInOrder
<1>1. Steady /\ ~fin["l>c"] /\ ~sCancelled' /\ ~aCancelled'
  BY StaysSteady DEF Steady, Channels
<1>2. \/ Server!Running("up") /\ Agent!Running("up")
      \/ Server!EndedWhole("up") /\ Agent!Running("up")
      \/ Server!EndedWhole("up") /\ Agent!EndedWhole("up")
  BY <1>1 DEF RequestInOrder
<1>3. /\ Server!Running("up") => /\ ~fin["s>c"] /\ ~shut["s>c"] /\ ~shut["v>s"]
                                 /\ ~fin["s>v"] /\ ~shut["s>v"] /\ ~shut["c>s"] /\ ~fin["c>s"]
      /\ Agent!Running("up") => /\ ~fin["c>l"] /\ ~shut["c>l"] /\ ~shut["s>c"]
                                /\ ~fin["c>s"] /\ ~shut["c>s"] /\ ~shut["l>c"] /\ ~fin["l>c"]
  BY DEF Server!Running, Agent!Running
<1>4. CASE Around
  <2>1. Server!EndedWhole("up") => Server!EndedWhole("up")'
    BY <1>4, AroundFrame, ServerAside
  <2>2. Agent!EndedWhole("up") => Agent!EndedWhole("up")'
    BY <1>4, AroundFrame, AgentAside
  <2>3. /\ shut' = shut /\ \A c \in {"s>c", "s>v", "c>l", "c>s"} : fin'[c] = fin[c]
    BY <1>4, AroundFrame
  <2>4. Server!Running("up") => Server!Running("up")'
    BY <1>1, <1>3, <1>4, <2>3, AroundFrame, ServerAside
  <2>5. Agent!Running("up") => Agent!Running("up")'
    BY <1>1, <1>3, <1>4, <2>3, AroundFrame, AgentAside
  <2> QED BY <1>2, <2>1, <2>2, <2>4, <2>5
<1>5. CASE Server!PipeStep /\ UNCHANGED <<agentVars, agent, alive>>
  <2>1. Server!EndedWhole("up") => Server!EndedWhole("up")'
    BY <1>5, ServerStaysWhole
  <2>2. Server!Running("up") => Server!Running("up")' \/ Server!EndedWhole("up")'
    BY <1>5, ServerRuns
  <2>3. Agent!EndedWhole("up") => Agent!EndedWhole("up")'
    BY <1>5, ServerFrame, AgentAside DEF agentVars, Channels
  <2>4. Agent!Running("up") => Agent!Running("up")'
    BY <1>1, <1>3, <1>5, ServerFrame, AgentAside DEF agentVars, Channels
  <2> QED BY <1>2, <2>1, <2>2, <2>3, <2>4
<1>6. CASE Agent!PipeStep /\ UNCHANGED <<serverVars, agent, alive>>
  <2>1. Agent!EndedWhole("up") => Agent!EndedWhole("up")'
    BY <1>6, AgentStaysWhole
  <2>2. Agent!Running("up") => Agent!Running("up")' \/ (Agent!EndedWhole("up")' /\ fin["s>c"])
    BY <1>6, AgentRuns DEF Agent!Complete
  <2>3. Server!EndedWhole("up") => Server!EndedWhole("up")'
    BY <1>6, AgentFrame, ServerAside DEF serverVars, Channels
  <2>4. Server!Running("up") /\ Agent!Running("up") => Server!Running("up")' /\ Agent!Running("up")'
    <3> SUFFICES ASSUME Server!Running("up"), Agent!Running("up")
                 PROVE  Server!Running("up")' /\ Agent!Running("up")'
      OBVIOUS
    <3>1. Agent!Running("up")'
      BY <1>3, <2>2
    <3>2. ~fin'["c>s"] /\ ~shut'["c>s"]
      BY <3>1 DEF Agent!Running
    <3>3. Server!Running("up")'
      BY <1>1, <1>3, <1>6, <3>2, AgentFrame, ServerAside DEF serverVars, Channels
    <3> QED BY <3>1, <3>3
  <2> QED BY <1>2, <2>1, <2>2, <2>3, <2>4
<1> QED BY <1>4, <1>5, <1>6, PathMoves

(* The mirror image: the Pipe of the agent ends first.                     *)
LEMMA ResponsePreserved ==
  ASSUME PathInv, ResponseInOrder, [NextPath]_pathVars
  PROVE  ResponseInOrder'
<1> USE AgentRoutes, ServerRoutes DEF PathInv, PathTypeOK, PathCalls
<1> SUFFICES ASSUME Steady', ~fin'["v>s"]
             PROVE  \/ Agent!Running("down")' /\ Server!Running("down")'
                    \/ Agent!EndedWhole("down")' /\ Server!Running("down")'
                    \/ Agent!EndedWhole("down")' /\ Server!EndedWhole("down")'
  BY DEF ResponseInOrder
<1>1. Steady /\ ~fin["v>s"] /\ ~sCancelled' /\ ~aCancelled'
  BY StaysSteady DEF Steady, Channels
<1>2. \/ Agent!Running("down") /\ Server!Running("down")
      \/ Agent!EndedWhole("down") /\ Server!Running("down")
      \/ Agent!EndedWhole("down") /\ Server!EndedWhole("down")
  BY <1>1 DEF ResponseInOrder
<1>3. /\ Agent!Running("down") => /\ ~fin["c>s"] /\ ~shut["c>s"] /\ ~shut["l>c"]
                                 /\ ~fin["c>l"] /\ ~shut["c>l"] /\ ~shut["s>c"] /\ ~fin["s>c"]
      /\ Server!Running("down") => /\ ~fin["s>v"] /\ ~shut["s>v"] /\ ~shut["c>s"]
                                /\ ~fin["s>c"] /\ ~shut["s>c"] /\ ~shut["v>s"] /\ ~fin["v>s"]
  BY DEF Agent!Running, Server!Running
<1>4. CASE Around
  <2>1. Agent!EndedWhole("down") => Agent!EndedWhole("down")'
    BY <1>4, AroundFrame, AgentAside
  <2>2. Server!EndedWhole("down") => Server!EndedWhole("down")'
    BY <1>4, AroundFrame, ServerAside
  <2>3. /\ shut' = shut /\ \A c \in {"c>s", "c>l", "s>v", "s>c"} : fin'[c] = fin[c]
    BY <1>4, AroundFrame
  <2>4. Agent!Running("down") => Agent!Running("down")'
    BY <1>1, <1>3, <1>4, <2>3, AroundFrame, AgentAside
  <2>5. Server!Running("down") => Server!Running("down")'
    BY <1>1, <1>3, <1>4, <2>3, AroundFrame, ServerAside
  <2> QED BY <1>2, <2>1, <2>2, <2>4, <2>5
<1>5. CASE Agent!PipeStep /\ UNCHANGED <<serverVars, agent, alive>>
  <2>1. Agent!EndedWhole("down") => Agent!EndedWhole("down")'
    BY <1>5, AgentStaysWhole
  <2>2. Agent!Running("down") => Agent!Running("down")' \/ Agent!EndedWhole("down")'
    BY <1>5, AgentRuns
  <2>3. Server!EndedWhole("down") => Server!EndedWhole("down")'
    BY <1>5, AgentFrame, ServerAside DEF serverVars, Channels
  <2>4. Server!Running("down") => Server!Running("down")'
    BY <1>1, <1>3, <1>5, AgentFrame, ServerAside DEF serverVars, Channels
  <2> QED BY <1>2, <2>1, <2>2, <2>3, <2>4
<1>6. CASE Server!PipeStep /\ UNCHANGED <<agentVars, agent, alive>>
  <2>1. Server!EndedWhole("down") => Server!EndedWhole("down")'
    BY <1>6, ServerStaysWhole
  <2>2. Server!Running("down") => Server!Running("down")' \/ (Server!EndedWhole("down")' /\ fin["c>s"])
    BY <1>6, ServerRuns DEF Server!Complete
  <2>3. Agent!EndedWhole("down") => Agent!EndedWhole("down")'
    BY <1>6, ServerFrame, AgentAside DEF agentVars, Channels
  <2>4. Agent!Running("down") /\ Server!Running("down") => Agent!Running("down")' /\ Server!Running("down")'
    <3> SUFFICES ASSUME Agent!Running("down"), Server!Running("down")
                 PROVE  Agent!Running("down")' /\ Server!Running("down")'
      OBVIOUS
    <3>1. Server!Running("down")'
      BY <1>3, <2>2
    <3>2. ~fin'["s>c"] /\ ~shut'["s>c"]
      BY <3>1 DEF Server!Running
    <3>3. Agent!Running("down")'
      BY <1>1, <1>3, <1>6, <3>2, ServerFrame, AgentAside DEF agentVars, Channels
    <3> QED BY <3>1, <3>3
  <2> QED BY <1>2, <2>1, <2>2, <2>3, <2>4
<1> QED BY <1>4, <1>5, <1>6, PathMoves

LEMMA PathHolds == PathSpec => [](PathInv /\ RequestInOrder /\ ResponseInOrder)
<1>1. /\ PathInv /\ RequestInOrder /\ ResponseInOrder /\ [NextPath]_pathVars
      => PathInv' /\ RequestInOrder' /\ ResponseInOrder'
  BY PathPreserved, RequestPreserved, ResponsePreserved
<1> QED BY <1>1, PathInitial, PTL DEF PathSpec

(* The types of the path: whatever happens along it, both errCh have room  *)
(* for the results (forward.go:24), so that no goroutine is left blocked   *)
(* on one.  What the channels hold is the subject of FlowCorrect.          *)
THEOREM PathTypes == PathSpec => []PathTypeOK
<1>1. PathInv => PathTypeOK
  BY DEF PathInv
<1> QED BY <1>1, PathHolds, PTL

(* RequestHeard: what a visitor sends and ends reaches, unless somebody    *)
(* interferes, the service to the last chunk, though each of the two Pipes *)
(* closes both its connections as soon as one direction has ended.         *)
THEOREM RequestCorrect == PathSpec => []RequestHeard
<1>1. RequestInOrder => RequestHeard
  <2> SUFFICES ASSUME RequestInOrder, Over, Uninterrupted, fin["v>s"], ~fin["l>c"]
               PROVE  wrote["c>l"] = wrote["v>s"]
    BY DEF RequestHeard
  <2>1. sMain = "returned" /\ aMain = "returned" /\ Steady
    BY DEF Over, AgentOver, Uninterrupted, Steady
  <2>2. Server!EndedWhole("up") /\ Agent!EndedWhole("up")
    BY <2>1 DEF RequestInOrder, Server!Running, Agent!Running
  <2> QED BY <2>2, ServerRoutes, AgentRoutes
          DEF Server!EndedWhole, Agent!EndedWhole, Server!Complete, Agent!Complete
<1> QED BY <1>1, PathHolds, PTL

(* ResponseHeard: the same for what the service answers and closes.        *)
THEOREM ResponseCorrect == PathSpec => []ResponseHeard
<1>1. ResponseInOrder => ResponseHeard
  <2> SUFFICES ASSUME ResponseInOrder, Over, Uninterrupted, fin["l>c"], ~fin["v>s"]
               PROVE  wrote["s>v"] = wrote["l>c"]
    BY DEF ResponseHeard
  <2>1. sMain = "returned" /\ aMain = "returned" /\ Steady
    BY DEF Over, AgentOver, Uninterrupted, Steady
  <2>2. Server!EndedWhole("down") /\ Agent!EndedWhole("down")
    BY <2>1 DEF ResponseInOrder, Server!Running, Agent!Running
  <2> QED BY <2>2, ServerRoutes, AgentRoutes
          DEF Server!EndedWhole, Agent!EndedWhole, Server!Complete, Agent!Complete
<1> QED BY <1>1, PathHolds, PTL

-----------------------------------------------------------------------------
(* How the two Pipes of a path end: each with both its connections closed  *)
(* and its counters settled, whatever the other and the world have done.   *)
LEMMA ServerClosed ==
  ASSUME ChannelsOK(Channels), Server!CallOK, Server!ClosedWhenSelected, Server!PipeStep
  PROVE  Server!ClosedWhenSelected'
<1> USE ServerRoutes
<1> DEFINE Both == fin["s>v"] /\ fin["s>c"] /\ shut["v>s"]
<1>1. CASE sMain # "select"
  <2>1. Both
    BY <1>1 DEF Server!ClosedWhenSelected
  <2>2. Both'
    BY <2>1, ServerFrame DEF Channels
  <2> QED BY <2>2 DEF Server!ClosedWhenSelected
<1>2. CASE Server!SelectDone \/ Server!SelectResult
  <2>1. /\ fin' = [c \in DOMAIN fin |-> fin[c] \/ \E x \in {"a", "b"} : c = Server!Out[x]]
        /\ shut' = [c \in DOMAIN shut |-> shut[c] \/ \E x \in {"a", "b"} \ {"b"} : c = Server!In[x]]
    BY <1>2 DEF Server!SelectDone, Server!SelectResult, Server!CloseEnds
  <2>2. DOMAIN fin = Channels /\ DOMAIN shut = Channels
    OBVIOUS
  <2>3. fin'["s>v"] /\ fin'["s>c"]
    BY <2>1, <2>2 DEF Channels
  <2>4. shut'["v>s"]
    BY <2>1, <2>2 DEF Channels
  <2> QED BY <2>3, <2>4 DEF Server!ClosedWhenSelected
<1>3. ASSUME sMain = "select", ~(Server!SelectDone \/ Server!SelectResult) PROVE sMain' = "select"
  BY <1>3 DEF Server!PipeStep, Server!MainStep, Server!Drain, Server!CopierStep, Server!ReadChunk, Server!ReadEnds,
              Server!WriteChunk, Server!WriteFails, Server!Finish
<1> QED BY <1>1, <1>2, <1>3 DEF Server!ClosedWhenSelected

LEMMA ServerCounts ==
  ASSUME ChannelsOK(Channels), Server!CallOK, Server!Counts, Server!PipeStep
  PROVE  Server!Counts'
<1> USE ServerRoutes DEF Server!CallOK
<1> SUFFICES ASSUME NEW d \in {"up", "down"}
             PROVE  sCounter'[d] = IF sCopier'[d] = "done" THEN wrote'[Server!To[d]] ELSE 0
  BY DEF Server!Counts
<1>1. sCounter[d] = IF sCopier[d] = "done" THEN wrote[Server!To[d]] ELSE 0
  BY DEF Server!Counts
<1>2. CASE Server!Finish(d)
  <2>1. wrote' = wrote /\ sCopier'[d] = "done" /\ sCopier[d] = "ended"
    BY <1>2 DEF Server!Finish, Server!CloseEnds
  <2>2. sCounter'[d] = sCounter[d] + wrote[Server!To[d]]
    BY <1>2 DEF Server!Finish
  <2>3. wrote[Server!To[d]] \in Nat
    BY DEF Channels
  <2> QED BY <1>1, <2>1, <2>2, <2>3
<1>3. CASE Server!ReadChunk(d) \/ Server!ReadEnds(d) \/ Server!WriteChunk(d) \/ Server!WriteFails(d)
  <2>1. sCounter' = sCounter /\ sCopier[d] # "done" /\ sCopier'[d] # "done"
    BY <1>3 DEF Server!ReadChunk, Server!ReadEnds, Server!WriteChunk, Server!WriteFails
  <2> QED BY <1>1, <2>1
<1>4. ASSUME NEW e \in {"up", "down"}, e # d, Server!CopierStep(e)
      PROVE  /\ sCounter'[d] = sCounter[d] /\ sCopier'[d] = sCopier[d]
             /\ wrote'[Server!To[d]] = wrote[Server!To[d]]
  <2>1. Server!To[e] # Server!To[d] /\ Server!To[d] \in Channels
    BY <1>4 DEF Channels
  <2>2. sCounter'[d] = sCounter[d] /\ sCopier'[d] = sCopier[d]
    BY <1>4 DEF Server!CopierStep, Server!ReadChunk, Server!ReadEnds, Server!WriteChunk, Server!WriteFails, Server!Finish
  <2>3. wrote'[Server!To[d]] = wrote[Server!To[d]]
    BY <1>4, <2>1 DEF Server!CopierStep, Server!ReadChunk, Server!ReadEnds, Server!WriteChunk,
                Server!WriteFails, Server!Finish, Server!CloseEnds, Server!Write, Server!channelVars
  <2> QED BY <2>2, <2>3
<1>5. ASSUME Server!MainStep PROVE UNCHANGED <<sCopier, sCounter, wrote>>
  BY <1>5 DEF Server!MainStep, Server!SelectDone, Server!SelectResult, Server!Drain, Server!CloseEnds, Server!channelVars
<1> QED BY <1>1, <1>2, <1>3, <1>4, <1>5 DEF Server!PipeStep, Server!CopierStep

LEMMA AgentClosed ==
  ASSUME ChannelsOK(Channels), Agent!CallOK, Agent!ClosedWhenSelected, Agent!PipeStep
  PROVE  Agent!ClosedWhenSelected'
<1> USE AgentRoutes
<1> DEFINE Both == fin["c>s"] /\ fin["c>l"] /\ shut["l>c"]
<1>1. CASE aMain # "select"
  <2>1. Both
    BY <1>1 DEF Agent!ClosedWhenSelected
  <2>2. Both'
    BY <2>1, AgentFrame DEF Channels
  <2> QED BY <2>2 DEF Agent!ClosedWhenSelected
<1>2. CASE Agent!SelectDone \/ Agent!SelectResult
  <2>1. /\ fin' = [c \in DOMAIN fin |-> fin[c] \/ \E x \in {"a", "b"} : c = Agent!Out[x]]
        /\ shut' = [c \in DOMAIN shut |-> shut[c] \/ \E x \in {"a", "b"} \ {"a"} : c = Agent!In[x]]
    BY <1>2 DEF Agent!SelectDone, Agent!SelectResult, Agent!CloseEnds
  <2>2. DOMAIN fin = Channels /\ DOMAIN shut = Channels
    OBVIOUS
  <2>3. fin'["c>s"] /\ fin'["c>l"]
    BY <2>1, <2>2 DEF Channels
  <2>4. shut'["l>c"]
    BY <2>1, <2>2 DEF Channels
  <2> QED BY <2>3, <2>4 DEF Agent!ClosedWhenSelected
<1>3. ASSUME aMain = "select", ~(Agent!SelectDone \/ Agent!SelectResult) PROVE aMain' = "select"
  BY <1>3 DEF Agent!PipeStep, Agent!MainStep, Agent!Drain, Agent!CopierStep, Agent!ReadChunk, Agent!ReadEnds,
              Agent!WriteChunk, Agent!WriteFails, Agent!Finish
<1> QED BY <1>1, <1>2, <1>3 DEF Agent!ClosedWhenSelected

(* The agent's Pipe has nil for its counters (client.go:160).              *)
LEMMA AgentCounts ==
  ASSUME Agent!Counts, Agent!PipeStep
  PROVE  Agent!Counts'
<1>1. aCounter' = aCounter
  BY DEF Agent!PipeStep, Agent!CopierStep, Agent!MainStep, Agent!ReadChunk, Agent!ReadEnds,
         Agent!WriteChunk, Agent!WriteFails, Agent!Finish, Agent!SelectDone, Agent!SelectResult,
         Agent!Drain
<1> QED BY <1>1 DEF Agent!Counts

LEMMA ServerUntouched ==
  ASSUME UNCHANGED <<sCopier, sCounter, sMain>>,
         \A c \in Channels : (fin[c] => fin'[c]) /\ (shut[c] => shut'[c]),
         \A c \in {"s>c", "s>v"} : wrote'[c] = wrote[c]
  PROVE  /\ Server!ClosedWhenSelected => Server!ClosedWhenSelected'
         /\ Server!Counts => Server!Counts'
<1> USE ServerRoutes
<1>1. Server!ClosedWhenSelected => Server!ClosedWhenSelected'
  BY DEF Channels, Server!ClosedWhenSelected
<1>2. Server!Counts => Server!Counts'
  BY DEF Server!Counts
<1> QED BY <1>1, <1>2

LEMMA AgentUntouched ==
  ASSUME UNCHANGED <<aCopier, aCounter, aMain>>,
         \A c \in Channels : (fin[c] => fin'[c]) /\ (shut[c] => shut'[c]),
         \A c \in {"c>l", "c>s"} : wrote'[c] = wrote[c]
  PROVE  /\ Agent!ClosedWhenSelected => Agent!ClosedWhenSelected'
         /\ Agent!Counts => Agent!Counts'
<1> USE AgentRoutes
<1>1. Agent!ClosedWhenSelected => Agent!ClosedWhenSelected'
  BY DEF Channels, Agent!ClosedWhenSelected
<1>2. Agent!Counts => Agent!Counts'
  BY DEF Agent!Counts
<1> QED BY <1>1, <1>2

PathEnds == /\ Server!ClosedWhenSelected /\ Agent!ClosedWhenSelected
            /\ Server!Counts /\ Agent!Counts

LEMMA AroundCloses ==
  ASSUME PathTypeOK, Around
  PROVE  \A c \in Channels : shut[c] => shut'[c]
<1> USE ServerRoutes, AgentRoutes DEF PathTypeOK
<1>1. \/ shut' = shut
      \/ \E c \in Channels : shut' = [shut EXCEPT ![c] = TRUE]
      \/ shut' = [shut EXCEPT !["s>c"] = TRUE, !["c>s"] = TRUE]
      \/ Agent!CloseEnds({"a"})
  BY DEF Around, AgentGets, AgentRefused, Visitor, Service, StreamDies, CancelServer, CancelAgent,
         Server!Cancel, Agent!Cancel, Server!PeerStep, Agent!PeerStep, Server!PeerSends, Agent!PeerSends,
         Server!PeerReads, Agent!PeerReads, Server!PeerEnds, Agent!PeerEnds, Server!PeerLeaves, Agent!PeerLeaves,
         Server!channelVars, Agent!channelVars, channelVars, pathVars, Channels
<1>2. CASE Agent!CloseEnds({"a"})
  BY <1>2, AgentCloses
<1> QED BY <1>1, <1>2

LEMMA EndsPreserved ==
  ASSUME PathInv, PathEnds, [NextPath]_pathVars
  PROVE  PathEnds'
<1> USE DEF PathInv, PathTypeOK, PathEnds
<1>1. CASE Around
  BY <1>1, AroundFrame, AroundCloses, ServerUntouched, AgentUntouched
<1>2. CASE Server!PipeStep /\ UNCHANGED <<agentVars, agent, alive>>
  <2>1. Server!ClosedWhenSelected' /\ Server!Counts'
    BY <1>2, ServerClosed, ServerCounts
  <2>2. Agent!ClosedWhenSelected' /\ Agent!Counts'
    BY <1>2, ServerFrame, AgentUntouched DEF agentVars, Channels
  <2> QED BY <2>1, <2>2
<1>3. CASE Agent!PipeStep /\ UNCHANGED <<serverVars, agent, alive>>
  <2>1. Agent!ClosedWhenSelected' /\ Agent!Counts'
    BY <1>3, AgentClosed, AgentCounts
  <2>2. Server!ClosedWhenSelected' /\ Server!Counts'
    BY <1>3, AgentFrame, ServerUntouched DEF serverVars, Channels
  <2> QED BY <2>1, <2>2
<1> QED BY <1>1, <1>2, <1>3, PathMoves

(* The safety half of PathIsTornDown: a Pipe of the path that has returned *)
(* has stopped both its goroutines, closed both its connections and        *)
(* counted exactly what it wrote, though the other Pipe, the session, the  *)
(* visitor and the service go on (server.go:173-178, client.go:160-163).   *)
THEOREM PathReturns == PathSpec => [](Server!ReturnedMeansOver /\ Agent!ReturnedMeansOver)
<1>1. InitPath => PathEnds
  <2> SUFFICES ASSUME InitPath PROVE PathEnds
    OBVIOUS
  <2>1. sMain = "select" /\ aMain = "select"
    BY DEF InitPath, Server!InitPipe, Agent!InitPipe
  <2>2. /\ sCopier = [d \in {"up", "down"} |-> "read"] /\ sCounter = [d \in {"up", "down"} |-> 0]
        /\ aCopier = [d \in {"up", "down"} |-> "read"] /\ aCounter = [d \in {"up", "down"} |-> 0]
    BY ServerRoutes, AgentRoutes DEF InitPath, Server!InitPipe, Agent!InitPipe
  <2> QED BY <2>1, <2>2, ServerRoutes, AgentRoutes
          DEF PathEnds, Server!ClosedWhenSelected, Agent!ClosedWhenSelected, Server!Counts, Agent!Counts
<1>2. PathInv /\ PathEnds => Server!ReturnedMeansOver /\ Agent!ReturnedMeansOver
  <2> SUFFICES ASSUME PathInv, PathEnds PROVE Server!ReturnedMeansOver /\ Agent!ReturnedMeansOver
    OBVIOUS
  <2>1. Server!ReturnedMeansOver
    BY ServerRoutes DEF PathInv, PathTypeOK, PathCalls, PathEnds, Server!CallOK, Server!Balance, Server!Results,
       Server!ClosedWhenSelected, Server!Counts, Server!ReturnedMeansOver
  <2>2. Agent!ReturnedMeansOver
    BY AgentRoutes DEF PathInv, PathTypeOK, PathCalls, PathEnds, Agent!CallOK, Agent!Balance, Agent!Results,
       Agent!ClosedWhenSelected, Agent!Counts, Agent!ReturnedMeansOver
  <2> QED BY <2>1, <2>2
<1>3. PathInv /\ PathEnds /\ [NextPath]_pathVars => PathEnds'
  BY EndsPreserved
<1> QED BY <1>1, <1>2, <1>3, PathHolds, PTL DEF PathSpec

-----------------------------------------------------------------------------
(* PathHoldsLittle: what a step takes from a channel or puts on one.       *)
Stands == wrote' = wrote /\ took' = took
Puts(c) == /\ wrote[c] - took[c] < Window /\ took' = took
           /\ wrote' = [wrote EXCEPT ![c] = @ + 1]
Gets(c) == /\ wrote[c] # took[c] /\ wrote' = wrote
           /\ took' = [took EXCEPT ![c] = @ + 1]

(* No channel is emptied below nothing or filled above its window.         *)
LEMMA WindowsKept ==
  ASSUME ChannelsOK(Channels), WindowsHold,
         Stands \/ \E c \in Channels : Puts(c) \/ Gets(c)
  PROVE  WindowsHold'
<1> SUFFICES ASSUME NEW c \in Channels
             PROVE  took'[c] <= wrote'[c] /\ wrote'[c] <= took'[c] + Window
  BY DEF WindowsHold
<1>1. /\ wrote[c] \in Nat /\ took[c] \in Nat /\ Window \in Nat
      /\ took[c] <= wrote[c] /\ wrote[c] <= took[c] + Window
  BY ChannelsAssumption DEF WindowsHold, ChannelsOK
<1>2. CASE Stands
  BY <1>1, <1>2 DEF Stands
<1>3. ASSUME NEW d \in Channels, Puts(d)
      PROVE  took'[c] <= wrote'[c] /\ wrote'[c] <= took'[c] + Window
  <2>1. wrote'[c] = IF c = d THEN wrote[c] + 1 ELSE wrote[c]
    BY <1>3 DEF Puts, ChannelsOK
  <2> QED BY <1>1, <1>3, <2>1 DEF Puts
<1>4. ASSUME NEW d \in Channels, Gets(d)
      PROVE  took'[c] <= wrote'[c] /\ wrote'[c] <= took'[c] + Window
  <2>1. took'[c] = IF c = d THEN took[c] + 1 ELSE took[c]
    BY <1>4 DEF Gets, ChannelsOK
  <2> QED BY <1>1, <1>4, <2>1 DEF Gets
<1> QED BY <1>2, <1>3, <1>4

(* The two ends of the path put and get one chunk at a time.               *)
LEMMA AroundTraffic ==
  ASSUME Around
  PROVE  Stands \/ \E c \in Channels : Puts(c) \/ Gets(c)
<1>1. CASE Visitor
  <2>1. CASE Server!PeerSends("a")
    BY <2>1, ServerRoutes DEF Server!PeerSends, Server!HasRoom, Server!Write, Puts, Channels
  <2>2. CASE Server!PeerReads("a")
    BY <2>2, ServerRoutes DEF Server!PeerReads, Server!IsEmpty, Server!Take, Gets, Channels
  <2>3. CASE Server!PeerEnds("a") \/ Server!PeerLeaves("a")
    BY <2>3 DEF Server!PeerEnds, Server!PeerLeaves, Stands
  <2> QED BY <1>1, <2>1, <2>2, <2>3 DEF Visitor, Server!PeerStep
<1>2. CASE Service
  <2>1. CASE Agent!PeerSends("b")
    BY <2>1, AgentRoutes DEF Agent!PeerSends, Agent!HasRoom, Agent!Write, Puts, Channels
  <2>2. CASE Agent!PeerReads("b")
    BY <2>2, AgentRoutes DEF Agent!PeerReads, Agent!IsEmpty, Agent!Take, Gets, Channels
  <2>3. CASE Agent!PeerEnds("b") \/ Agent!PeerLeaves("b")
    BY <2>3 DEF Agent!PeerEnds, Agent!PeerLeaves, Stands
  <2> QED BY <1>2, <2>1, <2>2, <2>3 DEF Service, Agent!PeerStep
<1>3. CASE AgentGets \/ AgentRefused \/ StreamDies \/ CancelServer \/ CancelAgent \/ UNCHANGED pathVars
  BY <1>3 DEF AgentGets, AgentRefused, StreamDies, CancelServer, CancelAgent, pathVars, channelVars,
     Agent!CloseEnds, Server!Cancel, Agent!Cancel, Server!channelVars, Agent!channelVars, Stands
<1> QED BY <1>1, <1>2, <1>3 DEF Around

(* A goroutine reads with nothing in hand and writes the one chunk it has. *)
LEMMA ServerTraffic ==
  ASSUME Server!PipeStep
  PROVE  \/ Stands
         \/ \E d \in {"up", "down"} :
              \/ sCopier[d] = "read" /\ Gets(Server!From[d])
              \/ sCopier[d] = "write" /\ Puts(Server!To[d])
<1>1. ASSUME NEW d \in {"up", "down"}, Server!CopierStep(d)
      PROVE  \/ Stands
             \/ sCopier[d] = "read" /\ Gets(Server!From[d])
             \/ sCopier[d] = "write" /\ Puts(Server!To[d])
  <2>1. CASE Server!ReadChunk(d)
    BY <2>1 DEF Server!ReadChunk, Server!IsEmpty, Server!Take, Gets
  <2>2. CASE Server!WriteChunk(d)
    BY <2>2 DEF Server!WriteChunk, Server!HasRoom, Server!Write, Puts
  <2>3. CASE Server!ReadEnds(d) \/ Server!WriteFails(d) \/ Server!Finish(d)
    BY <2>3 DEF Server!ReadEnds, Server!WriteFails, Server!Finish, Server!CloseEnds, Server!channelVars, Stands
  <2> QED BY <1>1, <2>1, <2>2, <2>3 DEF Server!CopierStep
<1>2. ASSUME Server!MainStep PROVE Stands
  BY <1>2 DEF Server!MainStep, Server!SelectDone, Server!SelectResult, Server!Drain, Server!CloseEnds,
              Server!channelVars, Stands
<1> QED BY <1>1, <1>2, ServerRoutes DEF Server!PipeStep

LEMMA ServerHoldsOneKept ==
  ASSUME ChannelsOK(Channels), Server!Passed, Server!HoldsOne, Server!PipeStep
  PROVE  Server!HoldsOne'
<1> SUFFICES ASSUME NEW d \in {"up", "down"}
             PROVE  /\ wrote'[Server!To[d]] <= took'[Server!From[d]]
                    /\ took'[Server!From[d]] <= wrote'[Server!To[d]] + 1
  BY ServerRoutes DEF Server!HoldsOne
<1>1. /\ wrote[Server!To[d]] \in Nat /\ took[Server!From[d]] \in Nat
      /\ wrote[Server!To[d]] <= took[Server!From[d]] /\ took[Server!From[d]] <= wrote[Server!To[d]] + 1
      /\ sCopier[d] = "read" => wrote[Server!To[d]] = took[Server!From[d]]
      /\ sCopier[d] = "write" => wrote[Server!To[d]] + 1 = took[Server!From[d]]
  BY ServerRoutes DEF Server!HoldsOne, Server!Passed, ChannelsOK, Channels
<1>2. CASE Stands
  BY <1>1, <1>2 DEF Stands
<1>3. ASSUME NEW e \in {"up", "down"}, sCopier[e] = "read", Gets(Server!From[e])
      PROVE  /\ wrote'[Server!To[d]] <= took'[Server!From[d]]
             /\ took'[Server!From[d]] <= wrote'[Server!To[d]] + 1
  <2>1. wrote' = wrote
        /\ took'[Server!From[d]] = IF d = e THEN took[Server!From[d]] + 1 ELSE took[Server!From[d]]
    BY <1>3, ServerRoutes DEF Gets, ChannelsOK, Channels
  <2> QED BY <1>1, <1>3, <2>1
<1>4. ASSUME NEW e \in {"up", "down"}, sCopier[e] = "write", Puts(Server!To[e])
      PROVE  /\ wrote'[Server!To[d]] <= took'[Server!From[d]]
             /\ took'[Server!From[d]] <= wrote'[Server!To[d]] + 1
  <2>1. took' = took
        /\ wrote'[Server!To[d]] = IF d = e THEN wrote[Server!To[d]] + 1 ELSE wrote[Server!To[d]]
    BY <1>4, ServerRoutes DEF Puts, ChannelsOK, Channels
  <2> QED BY <1>1, <1>4, <2>1
<1> QED BY <1>2, <1>3, <1>4, ServerTraffic

LEMMA AgentTraffic ==
  ASSUME Agent!PipeStep
  PROVE  \/ Stands
         \/ \E d \in {"up", "down"} :
              \/ aCopier[d] = "read" /\ Gets(Agent!From[d])
              \/ aCopier[d] = "write" /\ Puts(Agent!To[d])
<1>1. ASSUME NEW d \in {"up", "down"}, Agent!CopierStep(d)
      PROVE  \/ Stands
             \/ aCopier[d] = "read" /\ Gets(Agent!From[d])
             \/ aCopier[d] = "write" /\ Puts(Agent!To[d])
  <2>1. CASE Agent!ReadChunk(d)
    BY <2>1 DEF Agent!ReadChunk, Agent!IsEmpty, Agent!Take, Gets
  <2>2. CASE Agent!WriteChunk(d)
    BY <2>2 DEF Agent!WriteChunk, Agent!HasRoom, Agent!Write, Puts
  <2>3. CASE Agent!ReadEnds(d) \/ Agent!WriteFails(d) \/ Agent!Finish(d)
    BY <2>3 DEF Agent!ReadEnds, Agent!WriteFails, Agent!Finish, Agent!CloseEnds, Agent!channelVars, Stands
  <2> QED BY <1>1, <2>1, <2>2, <2>3 DEF Agent!CopierStep
<1>2. ASSUME Agent!MainStep PROVE Stands
  BY <1>2 DEF Agent!MainStep, Agent!SelectDone, Agent!SelectResult, Agent!Drain, Agent!CloseEnds,
              Agent!channelVars, Stands
<1> QED BY <1>1, <1>2, AgentRoutes DEF Agent!PipeStep

LEMMA AgentHoldsOneKept ==
  ASSUME ChannelsOK(Channels), Agent!Passed, Agent!HoldsOne, Agent!PipeStep
  PROVE  Agent!HoldsOne'
<1> SUFFICES ASSUME NEW d \in {"up", "down"}
             PROVE  /\ wrote'[Agent!To[d]] <= took'[Agent!From[d]]
                    /\ took'[Agent!From[d]] <= wrote'[Agent!To[d]] + 1
  BY AgentRoutes DEF Agent!HoldsOne
<1>1. /\ wrote[Agent!To[d]] \in Nat /\ took[Agent!From[d]] \in Nat
      /\ wrote[Agent!To[d]] <= took[Agent!From[d]] /\ took[Agent!From[d]] <= wrote[Agent!To[d]] + 1
      /\ aCopier[d] = "read" => wrote[Agent!To[d]] = took[Agent!From[d]]
      /\ aCopier[d] = "write" => wrote[Agent!To[d]] + 1 = took[Agent!From[d]]
  BY AgentRoutes DEF Agent!HoldsOne, Agent!Passed, ChannelsOK, Channels
<1>2. CASE Stands
  BY <1>1, <1>2 DEF Stands
<1>3. ASSUME NEW e \in {"up", "down"}, aCopier[e] = "read", Gets(Agent!From[e])
      PROVE  /\ wrote'[Agent!To[d]] <= took'[Agent!From[d]]
             /\ took'[Agent!From[d]] <= wrote'[Agent!To[d]] + 1
  <2>1. wrote' = wrote
        /\ took'[Agent!From[d]] = IF d = e THEN took[Agent!From[d]] + 1 ELSE took[Agent!From[d]]
    BY <1>3, AgentRoutes DEF Gets, ChannelsOK, Channels
  <2> QED BY <1>1, <1>3, <2>1
<1>4. ASSUME NEW e \in {"up", "down"}, aCopier[e] = "write", Puts(Agent!To[e])
      PROVE  /\ wrote'[Agent!To[d]] <= took'[Agent!From[d]]
             /\ took'[Agent!From[d]] <= wrote'[Agent!To[d]] + 1
  <2>1. took' = took
        /\ wrote'[Agent!To[d]] = IF d = e THEN wrote[Agent!To[d]] + 1 ELSE wrote[Agent!To[d]]
    BY <1>4, AgentRoutes DEF Puts, ChannelsOK, Channels
  <2> QED BY <1>1, <1>4, <2>1
<1> QED BY <1>2, <1>3, <1>4, AgentTraffic

PathFlow == WindowsHold /\ PipesHoldOne

LEMMA FlowInitial == InitPath => PathFlow
<1> SUFFICES ASSUME InitPath PROVE PathFlow
  OBVIOUS
<1>1. \A c \in Channels : wrote[c] = 0 /\ took[c] = 0
  BY DEF InitPath, InitChannels
<1>2. WindowsHold
  BY <1>1, ChannelsAssumption DEF WindowsHold
<1>3. PipesHoldOne
  BY <1>1, ServerRoutes, AgentRoutes DEF PipesHoldOne, Server!HoldsOne, Agent!HoldsOne, Channels
<1> QED BY <1>2, <1>3 DEF PathFlow

LEMMA FlowPreserved ==
  ASSUME PathInv, PathFlow, [NextPath]_pathVars
  PROVE  PathFlow'
<1> USE DEF PathInv, PathTypeOK, PathCalls, PathFlow, PipesHoldOne
<1>1. CASE Around
  <2>1. WindowsHold'
    BY <1>1, AroundTraffic, WindowsKept
  <2>2. /\ \A c \in {"s>c", "s>v", "c>l", "c>s"} : wrote'[c] = wrote[c]
        /\ \A c \in {"v>s", "c>s", "s>c", "l>c"} : took'[c] = took[c]
    BY <1>1, AroundFrame
  <2>3. Server!HoldsOne' /\ Agent!HoldsOne'
    BY <2>2, ServerRoutes, AgentRoutes DEF Server!HoldsOne, Agent!HoldsOne
  <2> QED BY <2>1, <2>3
<1>2. CASE Server!PipeStep /\ UNCHANGED <<agentVars, agent, alive>>
  <2>1. WindowsHold'
    BY <1>2, ServerTraffic, ServerRoutes, WindowsKept DEF Channels
  <2>2. /\ \A c \in {"c>l", "c>s"} : wrote'[c] = wrote[c]
        /\ \A c \in {"s>c", "l>c"} : took'[c] = took[c]
    BY <1>2, ServerFrame DEF Channels
  <2>3. Agent!HoldsOne'
    BY <2>2, AgentRoutes DEF Agent!HoldsOne
  <2> QED BY <1>2, <2>1, <2>3, ServerHoldsOneKept
<1>3. CASE Agent!PipeStep /\ UNCHANGED <<serverVars, agent, alive>>
  <2>1. WindowsHold'
    BY <1>3, AgentTraffic, AgentRoutes, WindowsKept DEF Channels
  <2>2. /\ \A c \in {"s>c", "s>v"} : wrote'[c] = wrote[c]
        /\ \A c \in {"v>s", "c>s"} : took'[c] = took[c]
    BY <1>3, AgentFrame DEF Channels
  <2>3. Server!HoldsOne'
    BY <2>2, ServerRoutes DEF Server!HoldsOne
  <2> QED BY <1>3, <2>1, <2>3, AgentHoldsOneKept
<1> QED BY <1>1, <1>2, <1>3, PathMoves

(* PathHoldsLittle: each Pipe has at most one chunk of a direction in      *)
(* hand, and each channel no more than its window, also while the path is  *)
(* being torn down; so a sender is never further ahead of the receiver     *)
(* than two windows and two chunks (forward.go:61-65).                     *)
THEOREM FlowCorrect == PathSpec => []PathHoldsLittle
<1>1. PathInv /\ PathFlow => PathHoldsLittle
  <2> SUFFICES ASSUME PathInv, PathFlow PROVE PathHoldsLittle
    OBVIOUS
  <2>1. /\ \A c \in Channels : wrote[c] \in Nat /\ took[c] \in Nat
        /\ \A c \in Channels : took[c] <= wrote[c] /\ wrote[c] <= took[c] + Window
        /\ Window \in Nat
    BY ChannelsAssumption DEF PathInv, PathTypeOK, PathFlow, WindowsHold, ChannelsOK
  <2>2. /\ wrote["s>c"] <= took["v>s"] /\ took["v>s"] <= wrote["s>c"] + 1
        /\ wrote["s>v"] <= took["c>s"] /\ took["c>s"] <= wrote["s>v"] + 1
    BY ServerRoutes DEF PathFlow, PipesHoldOne, Server!HoldsOne
  <2>3. /\ wrote["c>l"] <= took["s>c"] /\ took["s>c"] <= wrote["c>l"] + 1
        /\ wrote["c>s"] <= took["l>c"] /\ took["l>c"] <= wrote["c>s"] + 1
    BY AgentRoutes DEF PathFlow, PipesHoldOne, Agent!HoldsOne
  <2> QED BY <2>1, <2>2, <2>3 DEF PathHoldsLittle, Channels
<1>2. PathInv /\ PathFlow /\ [NextPath]_pathVars => PathFlow'
  BY FlowPreserved
<1> QED BY <1>1, <1>2, FlowInitial, PathHolds, PTL DEF PathSpec

=============================================================================
