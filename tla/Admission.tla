------------------------------- MODULE Admission -------------------------------
(***************************************************************************)
(* What the handshake on one control connection promises the rest of the   *)
(* system: the server alone decides, on good credentials only, and the     *)
(* agent is in only if it has been admitted on this very connection.       *)
(* Either end may leave, or give up, when it likes.  Tunnel builds on it.  *)
(***************************************************************************)
VARIABLES
  good,                 \* the credentials on this connection are good
  server, agent,        \* "waiting", "in" or "out"
  admitted              \* the server has said yes

admission == <<good, server, agent, admitted>>

Init ==
  /\ good \in BOOLEAN
  /\ server = "waiting" /\ agent \in {"waiting", "out"}
  /\ admitted = FALSE

Admit ==
  /\ server = "waiting" /\ good
  /\ server' = "in" /\ admitted' = TRUE
  /\ UNCHANGED <<good, agent>>

Join ==
  /\ agent = "waiting" /\ admitted
  /\ agent' = "in"
  /\ UNCHANGED <<good, server, admitted>>

ServerLeaves ==
  /\ server' = "out"
  /\ UNCHANGED <<good, agent, admitted>>

AgentLeaves ==
  /\ agent' = "out"
  /\ UNCHANGED <<good, server, admitted>>

Next == Admit \/ Join \/ ServerLeaves \/ AgentLeaves

Spec == Init /\ [][Next]_admission
=============================================================================
