-------------------------------- MODULE Relay --------------------------------
(***************************************************************************)
(* One visitor's path through the program: visitor connection, Pipe of the *)
(* server, yamux stream, Pipe of the agent, connection to the local        *)
(* service.  handleVisitor (server.go) opens the stream and runs a Pipe    *)
(* over it; handleStream (client.go) gets a connection from the pool, or   *)
(* not, and runs the other Pipe.  The stream may die under both, with its  *)
(* session or by itself.                                                   *)
(***************************************************************************)
EXTENDS ByteChannels

CONSTANT MaxFaults       \* bound: how many of the three faults happen

VARIABLES
  sCancelled, sCopier, sCounter, sMain, sErrCh, sNeed,  \* the server's Pipe
  aCancelled, aCopier, aCounter, aMain, aErrCh, aNeed,  \* the agent's Pipe
  agent,                        \* where handleStream is
  alive                         \* FALSE once the stream has died

serverVars  == <<sCancelled, sCopier, sCounter, sMain, sErrCh, sNeed>>
agentVars   == <<aCancelled, aCopier, aCounter, aMain, aErrCh, aNeed>>
pathVars == <<channelVars, serverVars, agentVars, agent, alive>>

Channels == {"v>s", "s>v", "s>c", "c>s", "c>l", "l>c"}

(* The yamux stream is connection b of the server's Pipe, a of the agent's.*)
Server == INSTANCE Pipe WITH
  InA <- "v>s", OutA <- "s>v", InB <- "c>s", OutB <- "s>c",
  HalfClosing <- {"b"}, Counted <- TRUE,
  cancelled <- sCancelled, copier <- sCopier, counter <- sCounter,
  main <- sMain, errCh <- sErrCh, need <- sNeed

Agent == INSTANCE Pipe WITH
  InA <- "s>c", OutA <- "c>s", InB <- "l>c", OutB <- "c>l",
  HalfClosing <- {"a"}, Counted <- FALSE,
  cancelled <- aCancelled, copier <- aCopier, counter <- aCounter,
  main <- aMain, errCh <- aErrCh, need <- aNeed

-----------------------------------------------------------------------------
InitPath ==
  /\ InitChannels(Channels)
  /\ Server!InitPipe /\ sCancelled = FALSE
  /\ Agent!InitPipe /\ aCancelled = FALSE
  /\ agent = "get" /\ alive = TRUE

ServerPipe ==
  /\ Server!PipeStep
  /\ UNCHANGED <<agentVars, agent, alive>>

(* handleStream: Get returns a connection, or an error; then the stream is *)
(* closed and that is all.                                                 *)
AgentGets ==
  /\ agent = "get"
  /\ agent' = "pipe"
  /\ UNCHANGED <<channelVars, serverVars, agentVars, alive>>

(* A mistake: the refused stream is left open. *)
AgentRefusedSilently ==
  /\ agent = "get"
  /\ agent' = "refused"
  /\ UNCHANGED <<channelVars, serverVars, agentVars, alive>>

AgentRefused ==
  /\ agent = "get"
  /\ Agent!CloseEnds({"a"})
  /\ agent' = "refused"
  /\ UNCHANGED <<serverVars, agentVars, alive>>

AgentPipe ==
  /\ agent = "pipe"
  /\ Agent!PipeStep
  /\ UNCHANGED <<serverVars, agent, alive>>

(* The visitor is the peer of a at the server, the local service the peer  *)
(* of b at the agent.                                                      *)
Visitor ==
  /\ Server!PeerStep("a")
  /\ UNCHANGED <<agentVars, agent, alive>>

Service ==
  /\ agent = "pipe"
  /\ Agent!PeerStep("b")
  /\ UNCHANGED <<serverVars, agent, alive>>

(* Three things can go wrong along the path.                               *)
FaultsLeft ==
  (IF alive THEN 0 ELSE 1) + (IF sCancelled THEN 1 ELSE 0)
    + (IF aCancelled THEN 1 ELSE 0) < MaxFaults

(* The session dies, or yamux resets the stream because one side closed it *)
(* and the other has not for five minutes (StreamCloseTimeout): reads and  *)
(* writes of the stream fail at both ends.                                 *)
StreamDies ==
  /\ FaultsLeft /\ alive
  /\ alive' = FALSE
  /\ fin' = [fin EXCEPT !["s>c"] = TRUE, !["c>s"] = TRUE]
  /\ shut' = [shut EXCEPT !["s>c"] = TRUE, !["c>s"] = TRUE]
  /\ UNCHANGED <<wrote, took, serverVars, agentVars, agent>>

CancelServer ==
  /\ FaultsLeft
  /\ Server!Cancel
  /\ UNCHANGED <<agentVars, agent, alive>>

CancelAgent ==
  /\ FaultsLeft
  /\ Agent!Cancel
  /\ UNCHANGED <<serverVars, agent, alive>>

NextPath ==
  \/ ServerPipe \/ AgentGets \/ AgentRefused \/ AgentPipe
  \/ Visitor \/ Service \/ StreamDies \/ CancelServer \/ CancelAgent

PathSpec == InitPath /\ [][NextPath]_pathVars

(* The goroutines run, Get returns (Pool: GetReturns), and visitor and     *)
(* service read what is sent to them as long as they are there.            *)
VisitorReads == Server!PeerReads("a") /\ UNCHANGED <<agentVars, agent, alive>>
ServiceReads ==
  agent = "pipe" /\ Agent!PeerReads("b") /\ UNCHANGED <<serverVars, agent, alive>>

PathFairness ==
  /\ \A d \in {"up", "down"} :
       /\ WF_pathVars(Server!CopierStep(d) /\ UNCHANGED <<agentVars, agent, alive>>)
       /\ WF_pathVars(agent = "pipe" /\ Agent!CopierStep(d)
                    /\ UNCHANGED <<serverVars, agent, alive>>)
  /\ WF_pathVars(Server!MainStep /\ UNCHANGED <<agentVars, agent, alive>>)
  /\ WF_pathVars(agent = "pipe" /\ Agent!MainStep /\ UNCHANGED <<serverVars, agent, alive>>)
  /\ WF_pathVars(AgentGets \/ AgentRefused)
  /\ WF_pathVars(VisitorReads) /\ WF_pathVars(ServiceReads)

FairPathSpec == PathSpec /\ PathFairness

-----------------------------------------------------------------------------
(* Properties *)

(* The channels and both Pipes; no result finds its errCh full.            *)
PathTypeOK ==
  /\ ChannelsOK(Channels)
  /\ Server!CallOK /\ Agent!CallOK
  /\ agent \in {"get", "pipe", "refused"} /\ alive \in BOOLEAN

AgentOver == agent = "refused" \/ aMain = "returned"
Over == sMain = "returned" /\ AgentOver

(* Nobody has interfered: stream, contexts and pool served the visitor,    *)
(* and neither end has gone away.                                          *)
Uninterrupted ==
  /\ alive /\ ~sCancelled /\ ~aCancelled /\ agent = "pipe"
  /\ ~shut["s>v"] /\ ~shut["c>l"]

(* A visitor that sends its request and ends, to a service that goes on    *)
(* listening, is heard to the last chunk: the two Pipes close the          *)
(* connections of the path one after the other, and none of these closes   *)
(* overtakes the data (forward.go:34-42 twice, server.go:175,              *)
(* client.go:160).                                                         *)
RequestHeard ==
  Over /\ Uninterrupted /\ fin["v>s"] /\ ~fin["l>c"] => wrote["c>l"] = wrote["v>s"]

(* The same for a service that answers and closes while the visitor        *)
(* listens.                                                                *)
ResponseHeard ==
  Over /\ Uninterrupted /\ fin["l>c"] /\ ~fin["v>s"] => wrote["s>v"] = wrote["l>c"]

(* A fast sender is held to the pace of the receiver: a Pipe reads a chunk *)
(* only when it has written the one before, so that the path holds at most *)
(* one chunk in each Pipe besides what fits on the connections, and passes *)
(* nothing on twice (forward.go:61-65 on both sides).                      *)
PathHoldsLittle ==
  /\ wrote["c>l"] <= wrote["v>s"] /\ wrote["v>s"] <= wrote["c>l"] + 2 * Window + 2
  /\ wrote["s>v"] <= wrote["l>c"] /\ wrote["l>c"] <= wrote["s>v"] + 2 * Window + 2

(* Whichever end ends or goes, or if the session dies, the agent is        *)
(* refused a connection or a context is done, both Pipes return: closing   *)
(* the stream does not wake its own reader, the other Pipe has to, across  *)
(* the session (forward.go:43-58 on both sides).                           *)
PathIsTornDown ==
  (fin["v>s"] \/ fin["l>c"] \/ ~alive \/ agent = "refused" \/ sCancelled \/ aCancelled)
    ~> Over

-----------------------------------------------------------------------------
(* Why RequestHeard and ResponseHeard hold.  While nobody interferes and   *)
(* the other end does not end, the Pipes end one after the other, in the   *)
(* order of the data, and each with all of it.                             *)
Steady ==
  /\ alive /\ ~sCancelled /\ ~aCancelled /\ agent # "refused"
  /\ ~shut["s>v"] /\ ~shut["c>l"]

RequestInOrder ==
  Steady /\ ~fin["l>c"] =>
    \/ Server!Running("up") /\ Agent!Running("up")
    \/ Server!EndedWhole("up") /\ Agent!Running("up")
    \/ Server!EndedWhole("up") /\ Agent!EndedWhole("up")

ResponseInOrder ==
  Steady /\ ~fin["v>s"] =>
    \/ Agent!Running("down") /\ Server!Running("down")
    \/ Agent!EndedWhole("down") /\ Server!Running("down")
    \/ Agent!EndedWhole("down") /\ Server!EndedWhole("down")

(* Why PathHoldsLittle holds: link by link.                                *)
WindowsHold == \A c \in Channels : took[c] <= wrote[c] /\ wrote[c] <= took[c] + Window
PipesHoldOne == Server!HoldsOne /\ Agent!HoldsOne

=============================================================================
