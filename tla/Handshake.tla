------------------------------- MODULE Handshake -------------------------------
(***************************************************************************)
(* The handshake on one control connection (frame.go, handshake.go, the    *)
(* heads of handleCtrl in server.go and of session in client.go), byte by  *)
(* byte: a frame is a header that announces a length, and a body; bytes    *)
(* arrive in pieces of any size; the connection breaks, or goes silent.    *)
(* What follows the handshake on the same connection is yamux.             *)
(*                                                                         *)
(* The bytes an end writes are numbered: header, body, then yamux.  An end *)
(* knows how many it has written and read, and nothing of what they are.   *)
(***************************************************************************)
EXTENDS Integers

CONSTANTS
  HeaderLen,    \* bytes in a header
  MaxFrame,     \* the longest body
  MaxMux,       \* bound: bytes of yamux each end writes
  Requests,     \* what may come in the body of a request
  Tokens        \* tokens the hub may be configured with

ASSUME LengthsAssumption ==
  HeaderLen \in Nat \ {0} /\ MaxFrame \in Nat \ {0} /\ MaxMux \in Nat

VARIABLES
  pc,           \* where each end is; "open" is in its yamux session
  deadline,     \* the deadline on each end's connection
  size,         \* the length of the frame each end writes
  want,         \* what io.ReadFull has still to get at each end
  sent, taken,  \* bytes each end has written and read
  from,         \* history: bytes an end had read when yamux took over
  request,      \* the body of the request
  secret,       \* the hub's token
  reply,        \* the type of the response
  net           \* the network: "ok", "stalled" or "broken"

data == <<size, request, secret>>
vars == <<pc, deadline, want, sent, taken, from, reply, net, data>>

Ends == {"agent", "server"}
Other(e) == IF e = "agent" THEN "server" ELSE "agent"

(* The bytes up to the end of the frame that e writes. *)
FrameEnd(e) == HeaderLen + size[e]

(* A token is a text, possibly between blanks; Normalize trims them. *)
Normalize(token) == token.text
IsEmpty(token) == token.text = "" /\ ~token.blanks

Equal(got, wanted) == Normalize(wanted) # "" /\ Normalize(got) = Normalize(wanted)

Validate(r) == r.type = "auth" /\ ~IsEmpty(r.token) /\ r.clientID # ""

Good == request.json /\ Validate(request) /\ Equal(request.token, secret)

-----------------------------------------------------------------------------
InitAgent ==
  /\ pc = [agent |-> "writeHeader", server |-> "readHeader"]
  /\ request \in {r \in Requests : r.json /\ r.type = "auth" /\ ~IsEmpty(r.token)}
  /\ size \in [agent : 1..MaxFrame+1, server : 1..MaxFrame]
  /\ sent = [e \in Ends |-> 0]

(* Whatever else connects to the control port says what it says.  It is    *)
(* not followed any further.                                               *)
InitStranger ==
  /\ pc = [agent |-> "stranger", server |-> "readHeader"]
  /\ request \in Requests
  /\ size \in [agent : 0..MaxFrame+1, server : 1..MaxFrame]
  /\ \E n \in 0..FrameEnd("agent") : sent = [agent |-> n, server |-> 0]

Init ==
  /\ InitAgent \/ InitStranger
  /\ secret \in {t \in Tokens : ~IsEmpty(t)}
  /\ deadline = [agent |-> "none", server |-> "armed"]
  /\ want = [agent |-> 0, server |-> HeaderLen]
  /\ taken = [e \in Ends |-> 0] /\ from = [e \in Ends |-> 0]
  /\ reply = "none" /\ net = "ok"

(* Reads and writes fail for good once the deadline is past, and may fail  *)
(* once the connection is broken or the other end has closed it.           *)
Late(e) == deadline[e] = "passed"
Lost(e) == net = "broken" \/ (net = "ok" /\ pc[Other(e)] = "closed")

Goes(e, place) == pc' = [pc EXCEPT ![e] = place]

-----------------------------------------------------------------------------
(* Mistakes that steps below could make, one each; no step of Next is one  *)
(* of them.  They show that the properties can fail.                       *)

(* A read takes all there is, as through a buffer. *)
ArriveBuffered(e, n) ==
  /\ ~Late(e) /\ net # "stalled"
  /\ taken[e] + n <= sent[Other(e)]
  /\ taken' = [taken EXCEPT ![e] = sent[Other(e)]]

(* The server does not take its deadline off the connection. *)
EnterTimed ==
  /\ pc["server"] = "answered"
  /\ from' = [from EXCEPT !["server"] = taken["server"]]
  /\ Goes("server", "open")
  /\ UNCHANGED <<deadline, want, sent, taken, reply, net, data>>

(* The agent reads the response without a deadline. *)
WriteBodyUntimed(e) ==
  /\ pc[e] = "writeBody" /\ ~Late(e)
  /\ sent' = [sent EXCEPT ![e] = @ + size[e]]
  /\ IF e = "agent"
     THEN Goes(e, "readHeader") /\ want' = [want EXCEPT ![e] = HeaderLen]
     ELSE Goes(e, IF reply = "ok" THEN "answered" ELSE "closed") /\ UNCHANGED want
  /\ UNCHANGED <<deadline, taken, from, reply, net, data>>

(* Any response is taken for auth_ok. *)
AgentReceivesAny ==
  /\ deadline' = [deadline EXCEPT !["agent"] = "none"]
  /\ from' = [from EXCEPT !["agent"] = taken'["agent"]]
  /\ Goes("agent", "open")
  /\ UNCHANGED reply

-----------------------------------------------------------------------------
(* WriteFrame: nothing is written of a frame that is too large; the header *)
(* and the body are two writes, either of which may fail half way.         *)
TooLarge(e) ==
  /\ pc[e] = "writeHeader" /\ size[e] > MaxFrame
  /\ Goes(e, "closed")
  /\ UNCHANGED <<deadline, want, sent, taken, from, reply, net, data>>

WriteHeader(e) ==
  /\ pc[e] = "writeHeader" /\ size[e] <= MaxFrame /\ ~Late(e)
  /\ sent' = [sent EXCEPT ![e] = @ + HeaderLen]
  /\ Goes(e, "writeBody")
  /\ UNCHANGED <<deadline, want, taken, from, reply, net, data>>

(* The agent goes on to ReadFrameDeadline; the server has had its deadline *)
(* since the connection was accepted.                                      *)
WriteBody(e) ==
  /\ pc[e] = "writeBody" /\ ~Late(e)
  /\ sent' = [sent EXCEPT ![e] = @ + size[e]]
  /\ IF e = "agent"
     THEN /\ Goes(e, "readHeader")
          /\ deadline' = [deadline EXCEPT ![e] = "armed"]
          /\ want' = [want EXCEPT ![e] = HeaderLen]
     ELSE /\ Goes(e, IF reply = "ok" THEN "answered" ELSE "closed")
          /\ UNCHANGED <<deadline, want>>
  /\ UNCHANGED <<taken, from, reply, net, data>>

WriteFails(e) ==
  /\ pc[e] \in {"writeHeader", "writeBody"} /\ ~(pc[e] = "writeHeader" /\ size[e] > MaxFrame)
  /\ Late(e) \/ Lost(e)
  /\ LET whole == IF pc[e] = "writeHeader" THEN HeaderLen ELSE size[e]
     IN  \E n \in 0..whole-1 : sent' = [sent EXCEPT ![e] = @ + n]
  /\ Goes(e, "closed")
  /\ UNCHANGED <<deadline, want, taken, from, reply, net, data>>

-----------------------------------------------------------------------------
(* ReadFrame.  A read gets as many bytes as have come, and never more than *)
(* io.ReadFull still wants.                                                *)
Arrive(e, n) ==
  /\ ~Late(e) /\ net # "stalled"
  /\ taken[e] + n <= sent[Other(e)]
  /\ taken' = [taken EXCEPT ![e] = @ + n]

ReadSome(e) ==
  /\ pc[e] \in {"readHeader", "readBody"}
  /\ \E n \in 1..want[e]-1 :
       Arrive(e, n) /\ want' = [want EXCEPT ![e] = @ - n]
  /\ UNCHANGED <<pc, deadline, sent, from, reply, net, data>>

(* An announced length of nothing, or of too much, is an error. *)
ReadHeader(e) ==
  /\ pc[e] = "readHeader" /\ Arrive(e, want[e])
  /\ LET n == size[Other(e)]
     IN  IF n \in 1..MaxFrame
         THEN Goes(e, "readBody") /\ want' = [want EXCEPT ![e] = n]
         ELSE Goes(e, "closed") /\ want' = [want EXCEPT ![e] = 0]
  /\ UNCHANGED <<deadline, sent, from, reply, net, data>>

(* handleCtrl: a body that does not parse is not answered. *)
ServerReceives ==
  /\ reply' = IF Good THEN "ok" ELSE IF request.json THEN "fail" ELSE "none"
  /\ Goes("server", IF request.json THEN "writeHeader" ELSE "closed")
  /\ UNCHANGED <<deadline, from>>

(* session: the deferred SetDeadline runs, auth_ok opens the session. *)
AgentReceives ==
  /\ deadline' = [deadline EXCEPT !["agent"] = "none"]
  /\ IF reply = "ok"
     THEN Goes("agent", "open") /\ from' = [from EXCEPT !["agent"] = taken'["agent"]]
     ELSE Goes("agent", "closed") /\ UNCHANGED from
  /\ UNCHANGED reply

ReadBody(e) ==
  /\ pc[e] = "readBody" /\ Arrive(e, want[e])
  /\ want' = [want EXCEPT ![e] = 0]
  /\ IF e = "server" THEN ServerReceives ELSE AgentReceives
  /\ UNCHANGED <<sent, net, data>>

ReadFails(e) ==
  /\ pc[e] \in {"readHeader", "readBody"}
  /\ Late(e) \/ Lost(e)
  /\ Goes(e, "closed")
  /\ UNCHANGED <<deadline, want, sent, taken, from, reply, net, data>>

(* auth_ok is written: the server clears its deadline and starts yamux. *)
Enter ==
  /\ pc["server"] = "answered"
  /\ deadline' = [deadline EXCEPT !["server"] = "none"]
  /\ from' = [from EXCEPT !["server"] = taken["server"]]
  /\ Goes("server", "open")
  /\ UNCHANGED <<want, sent, taken, reply, net, data>>

-----------------------------------------------------------------------------
(* yamux on the same connection.  Its keepalive notices a silent network,  *)
(* and a stranger; either end may also be told to leave.                   *)
MuxWrites(e) ==
  /\ pc[e] = "open" /\ ~Late(e) /\ sent[e] < FrameEnd(e) + MaxMux
  /\ sent' = [sent EXCEPT ![e] = @ + 1]
  /\ UNCHANGED <<pc, deadline, want, taken, from, reply, net, data>>

MuxReads(e) ==
  /\ pc[e] = "open" /\ Arrive(e, 1)
  /\ UNCHANGED <<pc, deadline, want, sent, from, reply, net, data>>

MuxFails(e) ==
  /\ pc[e] = "open"
  /\ Late(e) \/ Lost(e) \/ net = "stalled" \/ pc[Other(e)] = "stranger"
  /\ Goes(e, "closed")
  /\ UNCHANGED <<deadline, want, sent, taken, from, reply, net, data>>

Leave(e) ==
  /\ pc[e] \in {"open", "stranger"}
  /\ Goes(e, "closed")
  /\ UNCHANGED <<deadline, want, sent, taken, from, reply, net, data>>

DeadlinePasses(e) ==
  /\ deadline[e] = "armed" /\ pc[e] # "closed"
  /\ deadline' = [deadline EXCEPT ![e] = "passed"]
  /\ UNCHANGED <<pc, want, sent, taken, from, reply, net, data>>

NetworkFails ==
  /\ net = "ok" /\ net' \in {"stalled", "broken"}
  /\ UNCHANGED <<pc, deadline, want, sent, taken, from, reply, data>>

EndStep(e) ==
  \/ TooLarge(e) \/ WriteHeader(e) \/ WriteBody(e) \/ WriteFails(e)
  \/ ReadSome(e) \/ ReadHeader(e) \/ ReadBody(e) \/ ReadFails(e)
  \/ MuxFails(e)

Next ==
  \/ \E e \in Ends : EndStep(e) \/ MuxWrites(e) \/ MuxReads(e) \/ Leave(e) \/ DeadlinePasses(e)
  \/ Enter \/ NetworkFails

Spec == Init /\ [][Next]_vars

(* Goroutines run, time passes, and a session whose connection has gone    *)
(* notices.  That bytes arrive is not assumed: they may be late.           *)
Fairness ==
  /\ \A e \in Ends : WF_vars(EndStep(e)) /\ WF_vars(DeadlinePasses(e))
  /\ WF_vars(Enter)

FairSpec == Spec /\ Fairness

-----------------------------------------------------------------------------
(* The variables have their types.                                         *)
TypeOK ==
  /\ pc \in [Ends -> {"writeHeader", "writeBody", "readHeader", "readBody",
                      "answered", "open", "closed", "stranger"}]
  /\ deadline \in [Ends -> {"none", "armed", "passed"}]
  /\ size \in [Ends -> Nat] /\ want \in [Ends -> Nat]
  /\ sent \in [Ends -> Nat] /\ taken \in [Ends -> Nat] /\ from \in [Ends -> Nat]
  /\ request \in Requests /\ secret \in Tokens
  /\ reply \in {"none", "ok", "fail"}
  /\ net \in {"ok", "stalled", "broken"}

(* Handshake and yamux share the connection, and the other end may write   *)
(* its first yamux bytes before this end has read the response: yamux      *)
(* starts reading at the first byte after the other end's frame, with no   *)
(* byte swallowed and none left over (frame.go:42-62, which reads exactly  *)
(* what was announced), and writing after its own.                         *)
StreamsLineUp ==
  \A e \in Ends : pc[e] = "open" =>
    from[e] = FrameEnd(Other(e)) /\ sent[e] >= FrameEnd(e)

(* No session runs with the eight seconds of the handshake still ticking   *)
(* on its connection, which would cut it off under its streams             *)
(* (server.go:130, frame.go:69).                                           *)
SessionIsUntimed == \A e \in Ends : pc[e] = "open" => deadline[e] = "none"

(* The handshake keeps the promise of Admission, however the bytes come:   *)
(* the server is in on good credentials only, the agent only when the      *)
(* server has said yes.                                                    *)
Admitted == reply = "ok" /\ sent["server"] >= FrameEnd("server")

ServerSide == CASE pc["server"] = "closed" -> "out"
                [] pc["server"] \in {"answered", "open"} -> "in"
                [] OTHER -> "waiting"
AgentSide == CASE pc["agent"] \in {"closed", "stranger"} -> "out"
               [] pc["agent"] = "open" -> "in"
               [] OTHER -> "waiting"

Contract == INSTANCE Admission WITH
  good <- Good, admitted <- Admitted, server <- ServerSide, agent <- AgentSide

KeepsAdmission == Contract!Spec

(* Whatever the other end does or does not do, and however late: both ends *)
(* come to be in their sessions, or both have left.  Neither hangs in the  *)
(* handshake, and no end is left alone in a session, not even when the     *)
(* agent gives up just as the server says yes.                             *)
EndsTogether ==
  \/ <>[](\A e \in Ends : pc[e] = "open")
  \/ <>[](pc["server"] = "closed" /\ pc["agent"] \in {"closed", "stranger"})
=============================================================================
