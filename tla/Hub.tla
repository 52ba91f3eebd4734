--------------------------------- MODULE Hub ---------------------------------
(***************************************************************************)
(* The server's Hub (server.go): which control session is the current one, *)
(* and what visitors and the status handler make of it.  handleCtrl runs   *)
(* once per control connection, handleVisitor once per visitor, the status *)
(* handler on request, Run once; they share the fields under h.mu and the  *)
(* atomic counters.  A session is named after the handler that owns it.    *)
(***************************************************************************)
EXTENDS Integers, FiniteSets

CONSTANTS
  Handlers,     \* control connections that exist at the same time
  Clients,      \* client ids
  Visitors,     \* visitor connections that exist at the same time
  None,         \* the nil session
  MaxVisits     \* bound: visitors that arrive in all

ASSUME NoneAssumption == None \notin Handlers \union Clients
ASSUME VisitorsAssumption == IsFiniteSet(Visitors)

VARIABLES
  run,          \* where Run is
  handler,      \* where the handleCtrl of each connection is
  client,       \* the client id its AuthRequest carries
  live,         \* the yamux sessions that are not closed
  session,      \* h.session
  clientID,     \* h.clientID
  sessionID,    \* h.sessionID
  visitor,      \* where the handleVisitor of each visitor is
  sess,         \* the session it read under the lock, or opened a stream on
  visitors, reject, streams,  \* the atomic counters of those names
  reader,       \* where the status handler is
  report        \* the values it has loaded

controlVars == <<handler, client, live>>
sessionVars == <<session, clientID, sessionID>>
visitorVars == <<visitor, sess, visitors, reject, streams>>
statusVars  == <<reader, report>>
vars == <<run, controlVars, sessionVars, visitorVars, statusVars>>

Streaming == {v \in Visitors : visitor[v] = "stream"}

Init ==
  /\ run = "serving"
  /\ handler = [k \in Handlers |-> "none"]
  /\ client = [k \in Handlers |-> None]
  /\ live = {}
  /\ session = None /\ clientID = None /\ sessionID = None
  /\ visitor = [v \in Visitors |-> "none"]
  /\ sess = [v \in Visitors |-> None]
  /\ visitors = 0 /\ reject = 0 /\ streams = 0
  /\ reader = "none"
  /\ report = [connected |-> FALSE, client |-> None, active |-> 0]

-----------------------------------------------------------------------------
(* Mistakes that steps below could make, one each; no step of Next is one  *)
(* of them.  They show that the properties can fail.                       *)

(* The displaced session is left open. *)
SetSessionOnly(k) ==
  /\ handler[k] = "register"
  /\ session' = k /\ clientID' = client[k] /\ sessionID' = k
  /\ handler' = [handler EXCEPT ![k] = "serve"]
  /\ UNCHANGED <<run, client, live, visitorVars, statusVars>>

(* The session is cleared whosever it is. *)
ClearAnySession(k) ==
  /\ handler[k] = "serve" /\ k \notin live
  /\ session' = None
  /\ handler' = [handler EXCEPT ![k] = "none"]
  /\ client' = [client EXCEPT ![k] = None]
  /\ UNCHANGED <<run, live, clientID, sessionID, visitorVars, statusVars>>

(* The handler leaves and clears nothing. *)
LeaveSession(k) ==
  /\ handler[k] = "serve" /\ k \notin live
  /\ handler' = [handler EXCEPT ![k] = "none"]
  /\ client' = [client EXCEPT ![k] = None]
  /\ UNCHANGED <<run, live, sessionVars, visitorVars, statusVars>>

(* Only refused visitors are counted. *)
AcceptUncounted(v) ==
  /\ run \in {"serving", "cancelled"}
  /\ visitor[v] = "none" /\ visitors < MaxVisits
  /\ visitor' = [visitor EXCEPT ![v] = "look"]
  /\ UNCHANGED <<run, controlVars, sessionVars, sess, visitors, reject, streams, statusVars>>

(* The gauge is taken down for a visitor that never had a stream. *)
RefuseCounted(v) ==
  /\ visitor[v] = "open"
  /\ reject' = reject + 1 /\ streams' = streams - 1
  /\ visitor' = [visitor EXCEPT ![v] = "none"]
  /\ sess' = [sess EXCEPT ![v] = None]
  /\ UNCHANGED <<run, controlVars, sessionVars, visitors, statusVars>>

(* The session is forgotten and left open. *)
DropReferenceOnly ==
  /\ run = "deaf"
  /\ run' = "returned"
  /\ session' = None
  /\ UNCHANGED <<controlVars, clientID, sessionID, visitorVars, statusVars>>

-----------------------------------------------------------------------------
(* handleCtrl.  The listeners stay open until Run has shut the API down,   *)
(* so connections are accepted after the context is done.  Session k is    *)
(* fresh: no visitor still holds a session of that name.                   *)
AcceptCtrl(k, c) ==
  /\ run \in {"serving", "cancelled"}
  /\ handler[k] = "none" /\ \A v \in Visitors : sess[v] # k
  /\ handler' = [handler EXCEPT ![k] = "auth"]
  /\ client' = [client EXCEPT ![k] = c]
  /\ UNCHANGED <<run, live, sessionVars, visitorVars, statusVars>>

(* No frame in eight seconds, a bad one, a wrong token, a failed write.    *)
RejectCtrl(k) ==
  /\ handler[k] = "auth"
  /\ handler' = [handler EXCEPT ![k] = "none"]
  /\ client' = [client EXCEPT ![k] = None]
  /\ UNCHANGED <<run, live, sessionVars, visitorVars, statusVars>>

(* auth_ok is written and yamux started; nothing is registered yet.        *)
AdmitCtrl(k) ==
  /\ handler[k] = "auth"
  /\ handler' = [handler EXCEPT ![k] = "register"]
  /\ live' = live \union {k}
  /\ UNCHANGED <<run, client, sessionVars, visitorVars, statusVars>>

(* setSession: whoever comes last is current, and closes the one before.   *)
SetSession(k) ==
  /\ handler[k] = "register"
  /\ live' = live \ {session}
  /\ session' = k /\ clientID' = client[k] /\ sessionID' = k
  /\ handler' = [handler EXCEPT ![k] = "serve"]
  /\ UNCHANGED <<run, client, visitorVars, statusVars>>

(* CloseChan is closed; clearIfCurrent keeps clientID and sessionID.       *)
ClearIfCurrent(k) ==
  /\ handler[k] = "serve" /\ k \notin live
  /\ session' = IF session = k THEN None ELSE session
  /\ handler' = [handler EXCEPT ![k] = "none"]
  /\ client' = [client EXCEPT ![k] = None]
  /\ UNCHANGED <<run, live, clientID, sessionID, visitorVars, statusVars>>

(* The client leaves, the connection breaks, a keepalive is missed.        *)
SessionEnds(k) ==
  /\ k \in live
  /\ live' = live \ {k}
  /\ UNCHANGED <<run, handler, client, sessionVars, visitorVars, statusVars>>

ControlStep(k) ==
  RejectCtrl(k) \/ AdmitCtrl(k) \/ SetSession(k) \/ ClearIfCurrent(k)

-----------------------------------------------------------------------------
(* handleVisitor                                                           *)
AcceptVisitor(v) ==
  /\ run \in {"serving", "cancelled"}
  /\ visitor[v] = "none" /\ visitors < MaxVisits
  /\ visitors' = visitors + 1
  /\ visitor' = [visitor EXCEPT ![v] = "look"]
  /\ UNCHANGED <<run, controlVars, sessionVars, sess, reject, streams, statusVars>>

(* openStream reads h.session under the lock, and uses it after it.        *)
LookUp(v) ==
  /\ visitor[v] = "look"
  /\ sess' = [sess EXCEPT ![v] = session]
  /\ visitor' = [visitor EXCEPT ![v] = "open"]
  /\ UNCHANGED <<run, controlVars, sessionVars, visitors, reject, streams, statusVars>>

OpenStream(v) ==
  /\ visitor[v] = "open" /\ sess[v] \in live
  /\ streams' = streams + 1
  /\ visitor' = [visitor EXCEPT ![v] = "stream"]
  /\ UNCHANGED <<run, controlVars, sessionVars, sess, visitors, reject, statusVars>>

(* No session, a closed one, or a SYN that could not be sent in time.      *)
Refuse(v) ==
  /\ visitor[v] = "open"
  /\ reject' = reject + 1
  /\ visitor' = [visitor EXCEPT ![v] = "none"]
  /\ sess' = [sess EXCEPT ![v] = None]
  /\ UNCHANGED <<run, controlVars, sessionVars, visitors, streams, statusVars>>

(* forward.Pipe returns (modules Pipe and Relay).                          *)
PipeReturns(v) ==
  /\ visitor[v] = "stream"
  /\ streams' = streams - 1
  /\ visitor' = [visitor EXCEPT ![v] = "none"]
  /\ sess' = [sess EXCEPT ![v] = None]
  /\ UNCHANGED <<run, controlVars, sessionVars, visitors, reject, statusVars>>

VisitorStep(v) == LookUp(v) \/ OpenStream(v) \/ Refuse(v) \/ PipeReturns(v)

-----------------------------------------------------------------------------
(* The status handler: the session under one read lock, then the counters  *)
(* one by one, active_streams before visitors_total, and the reply.        *)
ReadSession ==
  /\ reader = "none" /\ run \in {"serving", "cancelled"}
  /\ report' = [report EXCEPT !.connected = session \in live, !.client = clientID]
  /\ reader' = "active"
  /\ UNCHANGED <<run, controlVars, sessionVars, visitorVars>>

LoadActive ==
  /\ reader = "active"
  /\ report' = [report EXCEPT !.active = streams]
  /\ reader' = "total"
  /\ UNCHANGED <<run, controlVars, sessionVars, visitorVars>>

LoadTotal ==
  /\ reader = "total"
  /\ report' = [connected |-> FALSE, client |-> None, active |-> 0]
  /\ reader' = "none"
  /\ UNCHANGED <<run, controlVars, sessionVars, visitorVars>>

StatusStep == ReadSession \/ LoadActive \/ LoadTotal

-----------------------------------------------------------------------------
(* Run: the context is done, the API is shut down and the listeners are    *)
(* closed, the session is dropped.                                         *)
CancelRun ==
  /\ run = "serving"
  /\ run' = "cancelled"
  /\ UNCHANGED <<controlVars, sessionVars, visitorVars, statusVars>>

CloseListeners ==
  /\ run = "cancelled"
  /\ run' = "deaf"
  /\ UNCHANGED <<controlVars, sessionVars, visitorVars, statusVars>>

DropSession ==
  /\ run = "deaf"
  /\ run' = "returned"
  /\ live' = live \ {session}
  /\ session' = None
  /\ UNCHANGED <<handler, client, clientID, sessionID, visitorVars, statusVars>>

RunStep == CloseListeners \/ DropSession

Next ==
  \/ \E k \in Handlers : ControlStep(k) \/ SessionEnds(k)
  \/ \E k \in Handlers, c \in Clients : AcceptCtrl(k, c)
  \/ \E v \in Visitors : AcceptVisitor(v) \/ VisitorStep(v)
  \/ StatusStep \/ CancelRun \/ RunStep

Spec == Init /\ [][Next]_vars

(* Goroutines run.  A handler's read has a deadline of eight seconds, so   *)
(* "auth" ends; a session, a visitor's arrival and the stop are up to the  *)
(* outside; a Pipe is over once its session is (Relay: PathIsTornDown).    *)
Fairness ==
  /\ \A k \in Handlers : WF_vars(ControlStep(k))
  /\ \A v \in Visitors :
       /\ WF_vars(LookUp(v)) /\ WF_vars(OpenStream(v) \/ Refuse(v))
       /\ WF_vars(sess[v] \notin live /\ PipeReturns(v))
  /\ WF_vars(StatusStep)
  /\ WF_vars(RunStep)

FairSpec == Spec /\ Fairness

-----------------------------------------------------------------------------
(* The variables have their types.                                         *)
TypeOK ==
  /\ run \in {"serving", "cancelled", "deaf", "returned"}
  /\ handler \in [Handlers -> {"none", "auth", "register", "serve"}]
  /\ client \in [Handlers -> Clients \union {None}]
  /\ live \subseteq Handlers
  /\ session \in Handlers \union {None}
  /\ clientID \in Clients \union {None}
  /\ sessionID \in Handlers \union {None}
  /\ visitor \in [Visitors -> {"none", "look", "open", "stream"}]
  /\ sess \in [Visitors -> Handlers \union {None}]
  /\ visitors \in Nat /\ reject \in Nat /\ streams \in Nat
  /\ reader \in {"none", "active", "total"}
  /\ report \in [connected : BOOLEAN, client : Clients \union {None}, active : Nat]

(* active_streams, which openStream's caller takes up and a deferred call  *)
(* takes down, counts the visitors on a stream on every path through       *)
(* handleVisitor, and so is never negative (server.go:165-175).            *)
GaugeCounts == streams = Cardinality(Streaming)

(* However control connections race through setSession, at most one        *)
(* registered session is open, and it is the one visitors are sent to: a   *)
(* displaced client never sits on an open session no visitor can reach.    *)
OneRegistered ==
  \A k \in Handlers : handler[k] = "serve" /\ k \in live => session = k

(* h.session always has a handler waiting on its CloseChan, which will     *)
(* clear it: no dead session is left behind for visitors to fail on, and   *)
(* the id and client shown beside it are its own.                          *)
SessionHasKeeper ==
  session # None =>
    handler[session] = "serve" /\ sessionID = session /\ clientID = client[session]

(* openStream uses the session after releasing the lock; even so, a stream *)
(* that is on an open session is on the current one, never on one that was *)
(* displaced between the lookup and the opening.                           *)
StreamsAreOnCurrent ==
  \A v \in Visitors : visitor[v] = "stream" /\ sess[v] \in live => sess[v] = session

(* The status handler loads its counters one after the other while         *)
(* visitors come and go; it never reports more active streams than the     *)
(* visitors it is about to count, and it names the client it calls         *)
(* connected.                                                              *)
ReportIsCoherent ==
  /\ reader = "total" => report.active <= visitors
  /\ report.connected => report.client # None

(* A handler that cleans up after its own session, however late, never     *)
(* takes a newer open session off the hub: the current session goes away   *)
(* only in a step that closes it or when it is already closed.             *)
KeepsOpenSession ==
  [][session # None /\ session \in live' => session' = session]_vars

(* A session that has died does not stay current.                          *)
DeadSessionIsCleared ==
  \A k \in Handlers : (session = k /\ k \notin live) ~> session # k

(* Nobody is left on a session the hub has lost sight of: an open session  *)
(* that is not the current one, because it is not registered yet, has been *)
(* displaced, or Run has ended, becomes current or is closed; and a        *)
(* visitor whose session is no longer the current one leaves.  Of itself   *)
(* such a session may stay open, and its streams with it, for ever: it     *)
(* ends because every step that takes it off the hub closes it or finds it *)
(* closed, and openStream gets no stream from one that was taken off after *)
(* the lookup (server.go:132-141, 210-246).                                *)
NobodyIsLeftBehind ==
  /\ \A k \in Handlers : (k \in live /\ session # k) ~> (k \notin live \/ session = k)
  /\ \A v \in Visitors :
       (visitor[v] = "stream" /\ sess[v] # session) ~> visitor[v] = "none"
=============================================================================
