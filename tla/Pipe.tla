-------------------------------- MODULE Pipe --------------------------------
(***************************************************************************)
(* forward.Pipe, internal/forward/forward.go: two goroutines copy between  *)
(* the connections a and b, one each way; the caller waits for the first   *)
(* of them, or for its context, closes both connections and waits for the  *)
(* rest.                                                                   *)
(*                                                                         *)
(* A connection is a pair of channels (ByteChannels), one each way.        *)
(* Closing a TCP connection ends the outgoing one and leaves the incoming  *)
(* one; closing a yamux stream only ends the outgoing one (HalfClosing),   *)
(* reads go on until the other side ends too.                              *)
(*                                                                         *)
(* The channels are shared with whatever is at the other ends: here two    *)
(* peers that may do anything, in Relay a second Pipe.                     *)
(***************************************************************************)
EXTENDS ByteChannels

CONSTANTS
  InA, OutA,     \* the channels of connection a, as Pipe sees them
  InB, OutB,     \* the channels of connection b
  HalfClosing,   \* the connections of {"a", "b"} that are yamux streams
  Counted        \* FALSE when both counters passed to Pipe are nil

ASSUME PipeAssumption ==
  /\ HalfClosing \subseteq {"a", "b"}
  /\ Counted \in BOOLEAN
  /\ InA # OutA /\ InB # OutB /\ {InA, OutA} \cap {InB, OutB} = {}

VARIABLES
  cancelled,     \* ctx.Done() is closed
  copier,        \* where each copying goroutine is
  counter,       \* what has been added to *bytesAtoB (up), *bytesBtoA (down)
  main,          \* where the caller of Pipe is
  errCh,         \* results in the channel errCh
  need           \* results the caller still has to receive

pipeVars == <<copier, counter, main, errCh, need>>
vars     == <<channelVars, cancelled, pipeVars>>

Ends == {"a", "b"}
In   == [a |-> InA, b |-> InB]
Out  == [a |-> OutA, b |-> OutB]
Chans == {InA, OutA, InB, OutB}

(* The two copies: up from a to b, down from b to a. *)
Dirs == {"up", "down"}
From == [up |-> InA, down |-> InB]
To   == [up |-> OutB, down |-> OutA]
Dst  == [up |-> "b", down |-> "a"]

-----------------------------------------------------------------------------
(* Connections.  Closing one twice does nothing more. *)

(* A mistake: closing a stream resets it, and what it holds is lost. *)
CloseResets(E) ==
  /\ fin' = [c \in DOMAIN fin |-> fin[c] \/ \E x \in E : c = Out[x]]
  /\ shut' = [c \in DOMAIN shut |->
                \/ shut[c] \/ \E x \in E : c = In[x]
                \/ \E y \in E \cap HalfClosing : c = Out[y]]
  /\ UNCHANGED <<wrote, took>>

CloseEnds(E) ==
  /\ fin' = [c \in DOMAIN fin |-> fin[c] \/ \E x \in E : c = Out[x]]
  /\ shut' = [c \in DOMAIN shut |-> shut[c] \/ \E x \in E \ HalfClosing : c = In[x]]
  /\ UNCHANGED <<wrote, took>>

InitPipe ==
  /\ copier = [d \in Dirs |-> "read"]
  /\ counter = [d \in Dirs |-> 0]
  /\ main = "select" /\ errCh = 0 /\ need = 0

-----------------------------------------------------------------------------
(* One goroutine: io.CopyBuffer reads a chunk and writes it until a read   *)
(* or a write fails; then the count is added, the destination closed and   *)
(* the result sent.  Those three are one step: nobody waits for the        *)
(* counter, and the channel has room for both results.                     *)

(* Mistakes that steps below could make, one each; no step of Next is one  *)
(* of them.  They show that the properties can fail.                       *)

(* The end is taken for the end though data is still to be read. *)
ReadEndsEarly(d) ==
  /\ copier[d] = "read"
  /\ shut[From[d]] \/ fin[From[d]]
  /\ copier' = [copier EXCEPT ![d] = "ended"]
  /\ UNCHANGED <<channelVars, cancelled, counter, main, errCh, need>>

(* The caller returns with the first result. *)
SelectResultOnly ==
  /\ main = "select" /\ errCh > 0
  /\ CloseEnds(Ends)
  /\ errCh' = errCh - 1
  /\ main' = "returned" /\ need' = 0
  /\ UNCHANGED <<cancelled, copier, counter>>

(* With its context done it waits for both without closing anything. *)
SelectDoneOpen ==
  /\ main = "select" /\ cancelled
  /\ main' = "drain" /\ need' = 2
  /\ UNCHANGED <<channelVars, cancelled, copier, counter, errCh>>

-----------------------------------------------------------------------------
ReadChunk(d) ==
  /\ copier[d] = "read"
  /\ ~shut[From[d]] /\ ~IsEmpty(From[d])
  /\ Take(From[d])
  /\ copier' = [copier EXCEPT ![d] = "write"]
  /\ UNCHANGED <<wrote, fin, shut, cancelled, counter, main, errCh, need>>

(* The end of the data, or a connection closed under the reader. *)
ReadEnds(d) ==
  /\ copier[d] = "read"
  /\ shut[From[d]] \/ (fin[From[d]] /\ IsEmpty(From[d]))
  /\ copier' = [copier EXCEPT ![d] = "ended"]
  /\ UNCHANGED <<channelVars, cancelled, counter, main, errCh, need>>

WriteChunk(d) ==
  /\ copier[d] = "write"
  /\ ~fin[To[d]] /\ HasRoom(To[d])
  /\ Write(To[d])
  /\ copier' = [copier EXCEPT ![d] = "read"]
  /\ UNCHANGED <<took, fin, shut, cancelled, counter, main, errCh, need>>

(* Closed on this side, or its reader has gone: the chunk is lost. *)
WriteFails(d) ==
  /\ copier[d] = "write"
  /\ fin[To[d]] \/ shut[To[d]]
  /\ copier' = [copier EXCEPT ![d] = "ended"]
  /\ UNCHANGED <<channelVars, cancelled, counter, main, errCh, need>>

Finish(d) ==
  /\ copier[d] = "ended"
  /\ counter' = IF Counted THEN [counter EXCEPT ![d] = @ + wrote[To[d]]] ELSE counter
  /\ CloseEnds({Dst[d]})
  /\ errCh' = errCh + 1
  /\ copier' = [copier EXCEPT ![d] = "done"]
  /\ UNCHANGED <<cancelled, main, need>>

-----------------------------------------------------------------------------
(* The caller: the first result or the context, whichever select picks;    *)
(* close both; receive what is still to come.                              *)

SelectDone ==
  /\ main = "select" /\ cancelled
  /\ CloseEnds(Ends)
  /\ main' = "drain" /\ need' = 2
  /\ UNCHANGED <<cancelled, copier, counter, errCh>>

SelectResult ==
  /\ main = "select" /\ errCh > 0
  /\ CloseEnds(Ends)
  /\ errCh' = errCh - 1
  /\ main' = "drain" /\ need' = 1
  /\ UNCHANGED <<cancelled, copier, counter>>

Drain ==
  /\ main = "drain" /\ errCh > 0
  /\ errCh' = errCh - 1 /\ need' = need - 1
  /\ main' = IF need = 1 THEN "returned" ELSE "drain"
  /\ UNCHANGED <<channelVars, cancelled, copier, counter>>

CopierStep(d) ==
  \/ ReadChunk(d) \/ ReadEnds(d) \/ WriteChunk(d) \/ WriteFails(d)
  \/ Finish(d)

MainStep == SelectDone \/ SelectResult \/ Drain

PipeStep == MainStep \/ \E d \in Dirs : CopierStep(d)

-----------------------------------------------------------------------------
(* The peers: send, end what they send, read, or go away for good. *)

PeerSends(x) ==
  /\ ~fin[In[x]] /\ HasRoom(In[x]) /\ wrote[In[x]] < MaxChunks
  /\ Write(In[x])
  /\ UNCHANGED <<took, fin, shut, cancelled, pipeVars>>

PeerReads(x) ==
  /\ ~shut[Out[x]] /\ ~IsEmpty(Out[x])
  /\ Take(Out[x])
  /\ UNCHANGED <<wrote, fin, shut, cancelled, pipeVars>>

PeerEnds(x) ==
  /\ ~fin[In[x]]
  /\ fin' = [fin EXCEPT ![In[x]] = TRUE]
  /\ UNCHANGED <<wrote, took, shut, cancelled, pipeVars>>

PeerLeaves(x) ==
  /\ ~shut[Out[x]]
  /\ fin' = [fin EXCEPT ![In[x]] = TRUE]
  /\ shut' = [shut EXCEPT ![Out[x]] = TRUE]
  /\ UNCHANGED <<wrote, took, cancelled, pipeVars>>

PeerStep(x) == PeerSends(x) \/ PeerReads(x) \/ PeerEnds(x) \/ PeerLeaves(x)

Cancel ==
  /\ ~cancelled /\ cancelled' = TRUE
  /\ UNCHANGED <<channelVars, pipeVars>>

Init == InitChannels(Chans) /\ cancelled = FALSE /\ InitPipe

Next == PipeStep \/ Cancel \/ \E x \in Ends : PeerStep(x)

Spec == Init /\ [][Next]_vars

(* The goroutines of Pipe are scheduled. *)
PipeFairness ==
  /\ \A d \in Dirs : WF_vars(CopierStep(d))
  /\ WF_vars(MainStep)

(* A peer that has gone no longer reads; the others read on. *)
FairSpec == Spec /\ PipeFairness /\ \A x \in Ends : WF_vars(PeerReads(x))

-----------------------------------------------------------------------------
(* Properties *)

(* The variables have their types; errCh never holds more results than it  *)
(* has room for, so that no goroutine blocks on it (forward.go:24).        *)
CallOK ==
  /\ cancelled \in BOOLEAN
  /\ copier \in [Dirs -> {"read", "write", "ended", "done"}]
  /\ counter \in [Dirs -> Nat]
  /\ main \in {"select", "drain", "returned"}
  /\ errCh \in 0..2 /\ need \in 0..2

TypeOK == ChannelsOK(Chans) /\ CallOK

(* When Pipe has returned both goroutines are past their last step, both   *)
(* connections are closed on this side, and the counters hold exactly what *)
(* was written each way: the caller may reuse, discard or count at once    *)
(* (forward.go:43-58).                                                     *)
ReturnedMeansOver ==
  main = "returned" =>
    /\ \A d \in Dirs : copier[d] = "done"
    /\ \A x \in Ends : fin[Out[x]] /\ (x \notin HalfClosing => shut[In[x]])
    /\ Counted => \A d \in Dirs : counter[d] = wrote[To[d]]

(* The direction that ended first is complete: unless a peer goes away or  *)
(* somebody cancels, Pipe does not return before everything one of the     *)
(* peers sent and ended has been passed on (forward.go:26-42, 50-53).      *)
Complete(d) == fin[From[d]] /\ wrote[To[d]] = wrote[From[d]]

Undisturbed == ~cancelled /\ \A x \in Ends : ~shut[Out[x]]

FirstToEndIsComplete ==
  main = "returned" /\ Undisturbed => \E d \in Dirs : Complete(d)

(* What a byte-stream relay in both directions owes its peers: when both   *)
(* have ended, and nobody has gone away or cancelled, everything both sent *)
(* has been passed on.                                                     *)
NothingTruncated ==
  main = "returned" /\ Undisturbed /\ (\A d \in Dirs : fin[From[d]])
    => \A d \in Dirs : Complete(d)

(* Pipe returns once a peer has ended or gone or the context is done: the  *)
(* goroutine left over is woken by the close of its connections.           *)
PipeReturns ==
  (cancelled \/ \E x \in Ends : fin[In[x]]) ~> main = "returned"

-----------------------------------------------------------------------------
(* What the proofs about this module and about Relay build on.             *)

(* Every result is in errCh, or the caller has received it.                *)
Results == (IF copier["up"] = "done" THEN 1 ELSE 0) + (IF copier["down"] = "done" THEN 1 ELSE 0)

Balance ==
  /\ main = "select" => need = 0 /\ errCh = Results
  /\ main = "drain" => need \in 1..2 /\ errCh + 2 - need = Results
  /\ main = "returned" => Results = 2

(* Both ends are closed once the select is over, and a goroutine counts    *)
(* when it ends.                                                           *)
ClosedWhenSelected ==
  main # "select" => \A x \in Ends : fin[Out[x]] /\ (x \notin HalfClosing => shut[In[x]])

Counts ==
  \A d \in Dirs : counter[d] = IF Counted /\ copier[d] = "done" THEN wrote[To[d]] ELSE 0

(* A goroutine has one chunk in hand, or none.                             *)
Passed ==
  \A d \in Dirs :
    /\ copier[d] = "read" => wrote[To[d]] = took[From[d]]
    /\ copier[d] = "write" => wrote[To[d]] + 1 = took[From[d]]

(* A goroutine has at most one chunk that it has read and not passed on.   *)
HoldsOne ==
  \A d \in Dirs : wrote[To[d]] <= took[From[d]] /\ took[From[d]] <= wrote[To[d]] + 1

(* Direction d has ended with its data.                                    *)
EndedWhole(d) == copier[d] \in {"ended", "done"} /\ Complete(d)

(* Both goroutines are at work with nothing closed around them but the     *)
(* source of d, whose end the one of d may have met.                       *)
Opposite == [up |-> "down", down |-> "up"]

Running(d) ==
  /\ main = "select" /\ errCh = 0 /\ ~cancelled
  /\ \A e \in Dirs : ~fin[To[e]] /\ ~shut[To[e]] /\ ~shut[From[e]]
  /\ ~fin[From[Opposite[d]]]
  /\ copier[Opposite[d]] \in {"read", "write"}
  /\ copier[d] \in {"read", "write"} \/ (copier[d] = "ended" /\ Complete(d))

=============================================================================
