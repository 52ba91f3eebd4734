-------------------------------- MODULE Tunnel --------------------------------
(***************************************************************************)
(* The agent and the hub, over connections that break and a server that is *)
(* killed and restarted.  The agent has one connection at a time; to the   *)
(* hub the ones it has left look alive for a while, and handlers of old    *)
(* connections run beside that of the new one.                             *)
(***************************************************************************)
EXTENDS Integers

CONSTANTS
  Handlers,     \* control connections that exist at the same time
  client,       \* the agent's client id
  None,
  MaxFaults     \* bound: crashes, broken connections and timeouts

ASSUME TunnelAssumption == None \notin Handlers \union {client} /\ MaxFaults \in Nat

VARIABLES
  at, sess, connected, backoff, fails, cancelled, poolClosed,  \* Agent
  handler, clients, live, session, clientID, sessionID,        \* Hub
  link,         \* the handler at the other end of the agent's connection
  answered,     \* the connections on which the server has written auth_ok
  up,           \* the server process runs
  faults        \* how many faults there have been

agentVars == <<at, sess, connected, backoff, fails, cancelled, poolClosed>>
hubVars   == <<handler, clients, live, session, clientID, sessionID>>
tunnelVars == <<agentVars, hubVars, link, answered, up, faults>>

A == INSTANCE Agent

H == INSTANCE Hub WITH
  Clients <- {client}, client <- clients, Visitors <- {}, MaxVisits <- 0,
  run <- "serving", visitor <- <<>>, sess <- <<>>,
  visitors <- 0, reject <- 0, streams <- 0, reader <- "none", report <- <<>>

(* A process starts with the values of New. *)
InitHub ==
  /\ handler = [k \in Handlers |-> "none"] /\ clients = [k \in Handlers |-> None]
  /\ live = {} /\ session = None /\ clientID = None /\ sessionID = None

InitTunnel ==
  /\ A!Init /\ InitHub
  /\ link = None /\ answered = {} /\ up = TRUE /\ faults = 0

Fault == faults < MaxFaults /\ faults' = faults + 1
NoFault == UNCHANGED faults

-----------------------------------------------------------------------------
(* The agent dials; the server accepts, and the request is on its way.     *)
Connect ==
  /\ up /\ A!DialSucceeds
  /\ \E k \in Handlers \ {link} : H!AcceptCtrl(k, client) /\ link' = k
  /\ answered' = answered \ {link'}
  /\ UNCHANGED up /\ NoFault

(* The server is down, or the network fails.                               *)
ConnectFails ==
  /\ A!DialFails
  /\ IF up /\ ~cancelled THEN Fault ELSE NoFault
  /\ UNCHANGED <<hubVars, link, answered, up>>

(* The server answers.                                                     *)
Answer(k) ==
  /\ H!AdmitCtrl(k)
  /\ answered' = answered \union {k}
  /\ UNCHANGED <<agentVars, link, up>> /\ NoFault

(* The request does not arrive in time, or the agent has gone.             *)
GiveUp(k) ==
  /\ H!RejectCtrl(k)
  /\ IF k = link /\ at = "auth" THEN Fault ELSE NoFault
  /\ UNCHANGED <<agentVars, link, answered, up>>

ServerStep(k) ==
  /\ H!SetSession(k) \/ H!ClearIfCurrent(k)
  /\ UNCHANGED <<agentVars, link, answered, up>> /\ NoFault

(* The agent has its answer.                                               *)
Joined ==
  /\ link \in answered /\ A!AuthSucceeds
  /\ UNCHANGED <<hubVars, link, answered, up>> /\ NoFault

(* It never comes, or comes too late.                                      *)
NotJoined ==
  /\ A!AuthFails
  /\ IF handler[link] = "none" THEN NoFault ELSE Fault
  /\ UNCHANGED <<hubVars, link, answered, up>>

(* Either side of a session ends when the other has, or with its keepalive.*)
AgentSideEnds ==
  /\ A!SessionCloses
  /\ IF link \in live THEN Fault ELSE NoFault
  /\ UNCHANGED <<hubVars, link, answered, up>>

ServerSideEnds(k) ==
  /\ H!SessionEnds(k)
  /\ IF link = k /\ (at = "auth" \/ sess = "open") THEN Fault ELSE NoFault
  /\ UNCHANGED <<agentVars, link, answered, up>>

(* Run of the agent; a connection it has left is none of its own.          *)
AgentRuns ==
  /\ A!AgentStep
  /\ link' = IF at' \in {"loop", "pause", "stop"} THEN None ELSE link
  /\ UNCHANGED <<hubVars, answered, up>> /\ NoFault

CancelAgent == A!Cancel /\ UNCHANGED <<hubVars, link, answered, up>> /\ NoFault

(* kill and restart: what the hub knew is gone.  An auth_ok the agent has  *)
(* not read yet may still reach it, or be lost.                            *)
Crash ==
  /\ up /\ Fault /\ up' = FALSE
  /\ handler' = [k \in Handlers |-> "none"] /\ clients' = [k \in Handlers |-> None]
  /\ live' = {} /\ session' = None /\ clientID' = None /\ sessionID' = None
  /\ UNCHANGED <<agentVars, link, answered>>

Restart ==
  /\ ~up /\ up' = TRUE
  /\ UNCHANGED <<agentVars, hubVars, link, answered>> /\ NoFault

NextTunnel ==
  \/ Connect \/ ConnectFails \/ Joined \/ NotJoined \/ AgentSideEnds
  \/ AgentRuns \/ CancelAgent \/ Crash \/ Restart
  \/ \E k \in Handlers : Answer(k) \/ GiveUp(k) \/ ServerStep(k) \/ ServerSideEnds(k)

TunnelSpec == InitTunnel /\ [][NextTunnel]_tunnelVars

(* Goroutines run, dials and reads end by their timeouts, a killed server  *)
(* is restarted, and a session whose other side has gone ends.             *)
TunnelFairness ==
  /\ WF_tunnelVars(Connect \/ ConnectFails) /\ WF_tunnelVars(Joined \/ NotJoined)
  /\ WF_tunnelVars(AgentRuns)
  /\ WF_tunnelVars(link \notin live /\ AgentSideEnds)
  /\ \A k \in Handlers :
       /\ WF_tunnelVars(Answer(k) \/ GiveUp(k)) /\ WF_tunnelVars(ServerStep(k))
       /\ WF_tunnelVars((link # k \/ (at # "auth" /\ sess # "open")) /\ ServerSideEnds(k))
  /\ WF_tunnelVars(Restart)

FairTunnelSpec == TunnelSpec /\ TunnelFairness

-----------------------------------------------------------------------------
(* The variables have their types.                                         *)
TunnelTypeOK ==
  /\ A!TypeOK
  /\ handler \in [Handlers -> {"none", "auth", "register", "serve"}]
  /\ clients \in [Handlers -> {client, None}]
  /\ live \subseteq Handlers /\ session \in Handlers \union {None}
  /\ clientID \in {client, None} /\ sessionID \in Handlers \union {None}
  /\ link \in Handlers \union {None} /\ answered \subseteq Handlers
  /\ up \in BOOLEAN /\ faults \in 0..MaxFaults

(* As in Agent, now with the server deciding which attempts succeed.       *)
BackoffFollowsFailures == A!BackoffFollowsFailures

(* The agent calls itself ready only on a session, and only after the      *)
(* server has authenticated the very connection that carries it; if that   *)
(* side is registered and open, visitors are sent to this agent.           *)
ReadyMeansSession ==
  /\ A!ReadyMeansSession
  /\ connected => link # None /\ handler[link] # "auth"
  /\ connected /\ link \in live /\ handler[link] = "serve" => session = link

(* Visitors reach the agent over the session it is on.                     *)
Served == sess = "open" /\ link \in live /\ session = link

(* The server is killed and restarted: the agent reconnects by itself and  *)
(* forwarding is restored (docs/Requirements.md:40, without its ten        *)
(* seconds).  Once the faults are over the tunnel comes up and stays up,   *)
(* whatever handlers of old connections do late: one that registers after  *)
(* the new one displaces it, and the agent comes back again.               *)
TunnelRestored == <>[](cancelled \/ Served)

(* An agent that is told to stop does, in whatever it is doing, and leaves *)
(* no session and no open pool behind.                                     *)
AgentStops == cancelled ~> A!StoppedClean
=============================================================================
