-------------------------------- MODULE Streams --------------------------------
(***************************************************************************)
(* The agent's use of its pool: handleStream for the streams of one yamux  *)
(* session after the other, and the end of Run (client.go).  A caller of   *)
(* Pool is a goroutine in handleStream: it gets a connection to the local  *)
(* service, pipes, and discards the connection; it never puts one back.    *)
(* One pool serves all sessions, so the streams a dead session has left    *)
(* behind compete with the streams of the next one, and those that are in  *)
(* the pool when the agent is stopped have to get out of it.               *)
(***************************************************************************)
EXTENDS Pool

(* Every Get of the agent is under the context of Run (client.go:154). *)
ASSUME StreamsAssumption == Cancellable = Callers

VARIABLES
  control,      \* the control connection: "none", "trying", "open"
  on            \* the streams that are on the session there is

streamVars == <<control, on>>
allVars == <<vars, streamVars>>

Streaming == {g \in Callers : pc[g] # "out"}
Stopped == cancelled # {}       \* the context of Run is done

InitStreams == Init /\ control = "none" /\ on = {}

(* handleStream returns when pc is "out" again. *)
Returning == on' = {g \in on : pc'[g] # "out"}

-----------------------------------------------------------------------------
(* The streams and the sessions they come over. *)
(* Run looks at its context before it dials, and not again before it has   *)
(* the answer: a session may begin although the agent has been stopped.    *)
Attempt ==
  /\ control = "none" /\ ~Stopped
  /\ control' = "trying"
  /\ UNCHANGED <<vars, on>>

AttemptEnds ==
  /\ control = "trying"
  /\ control' \in {"none", "open"}
  /\ UNCHANGED <<vars, on>>

(* The session is closed, and with it every stream on it. *)
SessionDies ==
  /\ control = "open"
  /\ control' = "none" /\ on' = {}
  /\ UNCHANGED vars

(* A goroutine that starts late, or an accept loop that takes a stream     *)
(* from the backlog of a closed session, is one that waits long for the    *)
(* mutex in Get.                                                           *)
StreamOpens(g) ==
  /\ control = "open" /\ Get(g)
  /\ on' = on \cup {g}
  /\ UNCHANGED control

(* A mistake, no step of NextStreams: handleStream returns with Pipe. *)
PipeReturnsOnly(g) ==
  /\ pc[g] = "hold"
  /\ pc' = [pc EXCEPT ![g] = "out"] /\ conn' = [conn EXCEPT ![g] = NoConn]
  /\ UNCHANGED <<poolVars, timerVars, warmVars, reaping, streamVars>>

(* Pipe returns, and handleStream discards the connection: when it is for  *)
(* the visitor or the service to end, and when the stream or the context   *)
(* is gone.                                                                *)
PipeReturns(g) == DiscardClose(g) /\ UNCHANGED streamVars
MustReturn(g) == g \notin on \/ Stopped

-----------------------------------------------------------------------------
(* Run is stopped: one context for every Get and every Pipe; the session   *)
(* is closed, then the pool.                                               *)
StopAgent ==
  /\ ~Stopped
  /\ Cancel(Callers)
  /\ UNCHANGED streamVars

ClosePool ==
  /\ Stopped /\ control = "none" /\ ~closed
  /\ Close
  /\ UNCHANGED streamVars

(* What the pool does without being asked, and the rest of Get and Discard. *)
Proceeds(g) ==
  /\ GetStep(g) \/ DialReturns(g) \/ DiscardRelease(g)
  /\ Returning /\ UNCHANGED control

PoolStep ==
  /\ \/ \E g \in Callers : DeadlinePasses(g) \/ TimerFires(g) \/ TimerBroadcasts(g)
     \/ Expire \/ Reap \/ WarmStep
     \/ \E c \in Conns : PeerEnds(c)
  /\ UNCHANGED streamVars

NextStreams ==
  \/ Attempt \/ AttemptEnds \/ SessionDies
  \/ \E g \in Callers :
       StreamOpens(g) \/ PipeReturns(g) \/ Proceeds(g)
  \/ StopAgent \/ ClosePool \/ PoolStep

(* The fairness of Pool.  A Pipe whose stream is closed, or whose context  *)
(* is done, returns (Relay: PathIsTornDown).  Nobody has to open a stream, *)
(* to end one, or to stop the agent; dial and handshake have their         *)
(* timeouts, and a stopped agent closes its session and its pool.          *)
StreamFairness ==
  /\ \A g \in Callers :
       /\ SF_allVars(Proceeds(g))
       /\ SF_allVars(TimerBroadcasts(g) /\ UNCHANGED streamVars)
       /\ WF_allVars((DeadlinePasses(g) \/ TimerFires(g)) /\ UNCHANGED streamVars)
       /\ WF_allVars(MustReturn(g) /\ PipeReturns(g))
  /\ SF_allVars(Reap /\ UNCHANGED streamVars)
  /\ SF_allVars(WarmStep /\ UNCHANGED streamVars)
  /\ WF_allVars(AttemptEnds) /\ WF_allVars(Stopped /\ SessionDies)
  /\ SF_allVars(ClosePool)

StreamSpec == InitStreams /\ [][NextStreams]_allVars /\ StreamFairness

-----------------------------------------------------------------------------
(* A stream of a session that is over leaves the agent, from wherever it   *)
(* is in Get or Pipe, and its slot is counted as free: once no session has *)
(* a stream any more, all slots are back and only idle connections, and    *)
(* the one the warmer may have dialled, are open (client.go:148-164).      *)
SlotsComeBack ==
  <>[](on = {}) => <>[](active = 0 /\ open = Parked \cup Warmed)

(* Whenever the agent is stopped, whatever it is doing: in the end no      *)
(* stream is in the agent, its pool's goroutines have returned and no      *)
(* connection to the service is open (client.go:63-67, 72-76, 87-92).      *)
AgentDrains ==
  <>Stopped => <>[](Streaming = {} /\ open = {} /\ warm = "done" /\ ~reaping)
=============================================================================
