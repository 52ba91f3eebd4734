-------------------------------- MODULE Agent --------------------------------
(***************************************************************************)
(* The agent's connect loop, Run and session of client.go: dial, shake     *)
(* hands, serve a yamux session until it ends, wait, begin again; stop     *)
(* when the context is done.  What the server does about it is up to the   *)
(* module that composes the two (Tunnel).  The streams of a session are    *)
(* the business of Relay and Pool; acceptLoops fails when the session is   *)
(* closed, and so wakes session together with CloseChan.                   *)
(***************************************************************************)
EXTENDS Integers

VARIABLES
  at,           \* where Run is
  sess,         \* the agent's side of the yamux session
  connected,    \* Agent.connected
  backoff,      \* the delay, in milliseconds
  fails,        \* history: attempts in a row without a session, up to 3
  cancelled,    \* the context is done
  poolClosed    \* pool.Close has been called

agentVars == <<at, sess, connected, backoff, fails, cancelled, poolClosed>>

(* config.NextBackoff *)
NextBackoff(prev) ==
  CASE prev = 0        -> 500
    [] 2 * prev > 2000 -> 2000
    [] OTHER           -> 2 * prev

AtMost3(n) == IF n > 3 THEN 3 ELSE n

Init ==
  /\ at = "loop" /\ sess = "none" /\ connected = FALSE
  /\ backoff = 0 /\ fails = 0
  /\ cancelled = FALSE /\ poolClosed = FALSE

-----------------------------------------------------------------------------
(* Mistakes that steps below could make, one each; no step of Next is one  *)
(* of them.  They show that the properties can fail.                       *)

(* connected is loaded and not swapped. *)
AttemptEndsLoading ==
  /\ at \in {"failed", "left"}
  /\ fails' = IF at = "left" THEN 1 ELSE AtMost3(fails + 1)
  /\ IF cancelled THEN at' = "stop" /\ UNCHANGED backoff
     ELSE at' = "pause" /\ backoff' = NextBackoff(IF connected THEN 0 ELSE backoff)
  /\ UNCHANGED <<sess, connected, cancelled, poolClosed>>

(* A session does not reset the delay. *)
AttemptEndsWithoutReset ==
  /\ at \in {"failed", "left"}
  /\ connected' = FALSE
  /\ fails' = IF at = "left" THEN 1 ELSE AtMost3(fails + 1)
  /\ IF cancelled THEN at' = "stop" /\ UNCHANGED backoff
     ELSE at' = "pause" /\ backoff' = NextBackoff(backoff)
  /\ UNCHANGED <<sess, cancelled, poolClosed>>

(* session waits for the end of the yamux session only. *)
LeaveWhenClosed ==
  /\ at = "serve" /\ sess = "closed"
  /\ at' = "left" /\ sess' = "none"
  /\ UNCHANGED <<connected, backoff, fails, cancelled, poolClosed>>

-----------------------------------------------------------------------------
Loop ==
  /\ at = "loop"
  /\ at' = IF cancelled THEN "stop" ELSE "dial"
  /\ UNCHANGED <<sess, connected, backoff, fails, cancelled, poolClosed>>

DialSucceeds ==
  /\ at = "dial"
  /\ at' = "auth"
  /\ UNCHANGED <<sess, connected, backoff, fails, cancelled, poolClosed>>

(* Refused, timed out, or the context is done. *)
DialFails ==
  /\ at = "dial"
  /\ at' = "failed"
  /\ UNCHANGED <<sess, connected, backoff, fails, cancelled, poolClosed>>

(* The handshake does not look at the context: it ends with an answer, an  *)
(* error, or after eight seconds.                                          *)
AuthSucceeds ==
  /\ at = "auth"
  /\ at' = "serve" /\ sess' = "open" /\ connected' = TRUE
  /\ UNCHANGED <<backoff, fails, cancelled, poolClosed>>

AuthFails ==
  /\ at = "auth"
  /\ at' = "failed"
  /\ UNCHANGED <<sess, connected, backoff, fails, cancelled, poolClosed>>

(* The session is closed under the agent. *)
SessionCloses ==
  /\ sess = "open"
  /\ sess' = "closed"
  /\ UNCHANGED <<at, connected, backoff, fails, cancelled, poolClosed>>

(* session returns; its deferred calls close session and connection.       *)
LeaveSession ==
  /\ at = "serve"
  /\ cancelled \/ sess = "closed"
  /\ at' = "left" /\ sess' = "none"
  /\ UNCHANGED <<connected, backoff, fails, cancelled, poolClosed>>

(* Run after session has returned.                                         *)
AttemptEnds ==
  /\ at \in {"failed", "left"}
  /\ connected' = FALSE
  /\ fails' = IF at = "left" THEN 1 ELSE AtMost3(fails + 1)
  /\ IF cancelled THEN at' = "stop" /\ UNCHANGED backoff
     ELSE at' = "pause" /\ backoff' = NextBackoff(IF connected THEN 0 ELSE backoff)
  /\ UNCHANGED <<sess, cancelled, poolClosed>>

PauseEnds ==
  /\ at = "pause"
  /\ \/ at' = "loop"
     \/ cancelled /\ at' = "stop"
  /\ UNCHANGED <<sess, connected, backoff, fails, cancelled, poolClosed>>

(* The health server is shut down, for three seconds at most, the pool is  *)
(* closed, Run returns.                                                    *)
Stop ==
  /\ at = "stop"
  /\ at' = "returned" /\ poolClosed' = TRUE
  /\ UNCHANGED <<sess, connected, backoff, fails, cancelled>>

Cancel ==
  /\ ~cancelled /\ cancelled' = TRUE
  /\ UNCHANGED <<at, sess, connected, backoff, fails, poolClosed>>

(* What Run does by itself. *)
AgentStep == Loop \/ LeaveSession \/ AttemptEnds \/ PauseEnds \/ Stop

-----------------------------------------------------------------------------
(* The variables have their types.                                         *)
TypeOK ==
  /\ at \in {"loop", "dial", "auth", "serve", "failed", "left", "pause", "stop", "returned"}
  /\ sess \in {"none", "open", "closed"}
  /\ connected \in BOOLEAN /\ cancelled \in BOOLEAN /\ poolClosed \in BOOLEAN
  /\ backoff \in 0..2000 /\ fails \in 0..3

(* The delay before an attempt follows from what went before it and from   *)
(* nothing else: 500 ms after a session, however the attempts before that  *)
(* one went, then doubled by every failure up to 2 s (client.go:71-83).    *)
BackoffFollowsFailures ==
  at = "pause" => backoff = CASE fails = 1 -> 500 [] fails = 2 -> 1000 [] fails = 3 -> 2000

(* The agent calls itself ready only while it is on a session or has just  *)
(* noticed its end, never while it dials, waits or has stopped.            *)
ReadyMeansSession == connected => at \in {"serve", "left"}

(* Run has returned, by whichever of its exits, and has left no session    *)
(* and closed the pool (client.go:62-67, 72-78, 87-93).                    *)
StoppedClean == at = "returned" /\ poolClosed /\ sess = "none" /\ ~connected
=============================================================================
