----------------------------- MODULE ControlProofs -----------------------------
(***************************************************************************)
(* Proofs about the control connection.  Handshake, for every length of    *)
(* header and frame and every set of requests and tokens: the invariant    *)
(* ties the place of an end to the number of bytes it has read and         *)
(* written; what io.ReadFull wants is always the rest of the header or of  *)
(* the body the other end announced.  Tunnel, for every number of          *)
(* connections and faults.                                                 *)
(***************************************************************************)
EXTENDS Handshake, Tunnel, TLAPS

(* The bytes e has written, by its place. *)
WrotePlaced(e) ==
  /\ pc[e] = "writeHeader" => sent[e] = 0 /\ size[e] > 0
  /\ pc[e] = "writeBody" => sent[e] = HeaderLen /\ size[e] \in 1..MaxFrame
  /\ pc[e] \in {"answered", "open"} => sent[e] >= FrameEnd(e)
  /\ e = "server" /\ pc[e] \in {"readHeader", "readBody"} => sent[e] = 0
  /\ e = "agent" /\ pc[e] \in {"readHeader", "readBody"} => sent[e] = FrameEnd(e)

(* The bytes e has read, by its place. *)
ReadPlaced(e) ==
  /\ taken[e] <= sent[Other(e)]
  /\ pc[e] = "readHeader" => want[e] > 0 /\ taken[e] + want[e] = HeaderLen
  /\ pc[e] = "readBody" => want[e] > 0 /\ taken[e] + want[e] = FrameEnd(Other(e))
  /\ e = "server" /\ pc[e] \in {"writeHeader", "writeBody", "answered"} =>
       taken[e] = FrameEnd(Other(e))
  /\ e = "agent" /\ pc[e] \in {"writeHeader", "writeBody"} => taken[e] = 0
  /\ pc[e] = "open" => from[e] = FrameEnd(Other(e))

(* What the server has decided and said. *)
Decided ==
  /\ reply = "ok" => Good
  /\ pc["server"] \in {"answered", "open"} => reply = "ok"
  /\ pc["server"] \in {"readHeader", "readBody"} => reply = "none"
  /\ sent["server"] >= FrameEnd("server") => pc["server"] \in {"answered", "open", "closed"}

Places ==
  /\ pc["server"] # "stranger" /\ pc["agent"] # "answered"
  /\ size["server"] \in 1..MaxFrame

IInv ==
  /\ TypeOK /\ Places
  /\ \A e \in Ends : WrotePlaced(e) /\ ReadPlaced(e) /\ (pc[e] = "open" => deadline[e] = "none")
  /\ Decided

LEMMA OtherEnd ==
  ASSUME NEW e \in Ends
  PROVE  Other(e) \in Ends /\ Other(e) # e /\ Other(Other(e)) = e
         /\ \A f \in Ends : f = e \/ f = Other(e)
  BY DEF Ends, Other

LEMMA InitInv == Init => IInv
<1> SUFFICES ASSUME Init PROVE IInv
  OBVIOUS
<1> USE LengthsAssumption
<1>1. size \in [Ends -> Nat] /\ sent \in [Ends -> Nat] /\ size["server"] \in 1..MaxFrame
  <2>1. CASE InitAgent
    BY <2>1 DEF InitAgent, Ends
  <2>2. CASE InitStranger
    BY <2>2 DEF InitStranger, Ends, FrameEnd
  <2>3. QED
    BY <2>1, <2>2 DEF Init
<1>2. TypeOK
  BY <1>1 DEF Init, InitAgent, InitStranger, TypeOK, Ends
<1>3. sent["server"] = 0
  BY DEF Init, InitAgent, InitStranger, Ends
<1>4. pc["server"] = "readHeader" /\ pc["agent"] \in {"writeHeader", "stranger"}
      /\ (pc["agent"] = "writeHeader" => sent["agent"] = 0 /\ size["agent"] > 0)
  BY DEF Init, InitAgent, InitStranger, Ends
<1>5. ASSUME NEW e \in Ends
      PROVE  WrotePlaced(e) /\ ReadPlaced(e) /\ (pc[e] = "open" => deadline[e] = "none")
  BY <1>1, <1>2, <1>3, <1>4 DEF WrotePlaced, ReadPlaced, Init, Ends, Other, FrameEnd, TypeOK
<1>6. Decided /\ Places
  BY <1>1, <1>3, <1>4 DEF Decided, Places, Init, FrameEnd, Ends
<1>7. QED
  BY <1>2, <1>5, <1>6 DEF IInv

LEMMA TooLargeInv ==
  ASSUME IInv, NEW e \in Ends, TooLarge(e)
  PROVE  IInv'
<1> USE LengthsAssumption DEF TooLarge, Goes, IInv
<1>1. TypeOK'
  BY DEF TypeOK, data, Ends, Late, Lost
<1>2. ASSUME NEW f \in Ends
      PROVE  WrotePlaced(f)' /\ ReadPlaced(f)' /\ (pc'[f] = "open" => deadline'[f] = "none")
  BY DEF TypeOK, data, Places, WrotePlaced, ReadPlaced, FrameEnd, Ends, Other, Decided
<1>3. Decided' /\ Places'
  BY DEF TypeOK, data, Places, WrotePlaced, ReadPlaced, FrameEnd, Ends, Other, Decided, Good, Late
<1>4. QED
  BY <1>1, <1>2, <1>3

LEMMA WriteHeaderInv ==
  ASSUME IInv, NEW e \in Ends, WriteHeader(e)
  PROVE  IInv'
<1> USE LengthsAssumption DEF WriteHeader, Goes, IInv
<1>1. TypeOK'
  BY DEF TypeOK, data, Ends, Late, Lost
<1>2. ASSUME NEW f \in Ends
      PROVE  WrotePlaced(f)' /\ ReadPlaced(f)' /\ (pc'[f] = "open" => deadline'[f] = "none")
  BY DEF TypeOK, data, Places, WrotePlaced, ReadPlaced, FrameEnd, Ends, Other, Decided
<1>3. Decided' /\ Places'
  BY DEF TypeOK, data, Places, WrotePlaced, ReadPlaced, FrameEnd, Ends, Other, Decided, Good, Late
<1>4. QED
  BY <1>1, <1>2, <1>3

LEMMA WriteBodyInv ==
  ASSUME IInv, NEW e \in Ends, WriteBody(e)
  PROVE  IInv'
<1> USE LengthsAssumption DEF WriteBody, Goes, IInv
<1>1. TypeOK'
  BY DEF TypeOK, data, Ends, Late, Lost
<1>2. ASSUME NEW f \in Ends
      PROVE  WrotePlaced(f)' /\ ReadPlaced(f)' /\ (pc'[f] = "open" => deadline'[f] = "none")
  BY DEF TypeOK, data, Places, WrotePlaced, ReadPlaced, FrameEnd, Ends, Other, Decided
<1>3. Decided' /\ Places'
  BY DEF TypeOK, data, Places, WrotePlaced, ReadPlaced, FrameEnd, Ends, Other, Decided, Good, Late
<1>4. QED
  BY <1>1, <1>2, <1>3

LEMMA WriteFailsInv ==
  ASSUME IInv, NEW e \in Ends, WriteFails(e)
  PROVE  IInv'
<1> USE LengthsAssumption DEF WriteFails, Goes, IInv
<1>1. TypeOK'
  BY DEF TypeOK, data, Ends, Late, Lost
<1>2. ASSUME NEW f \in Ends
      PROVE  WrotePlaced(f)' /\ ReadPlaced(f)' /\ (pc'[f] = "open" => deadline'[f] = "none")
  BY DEF TypeOK, data, Places, WrotePlaced, ReadPlaced, FrameEnd, Ends, Other, Decided
<1>3. Decided' /\ Places'
  BY DEF TypeOK, data, Places, WrotePlaced, ReadPlaced, FrameEnd, Ends, Other, Decided, Good, Late
<1>4. QED
  BY <1>1, <1>2, <1>3

LEMMA ReadSomeInv ==
  ASSUME IInv, NEW e \in Ends, ReadSome(e)
  PROVE  IInv'
<1> USE LengthsAssumption DEF ReadSome, Arrive, Goes, IInv
<1>1. TypeOK'
  BY DEF TypeOK, data, Ends, Late, Lost
<1>2. ASSUME NEW f \in Ends
      PROVE  WrotePlaced(f)' /\ ReadPlaced(f)' /\ (pc'[f] = "open" => deadline'[f] = "none")
  BY DEF TypeOK, data, Places, WrotePlaced, ReadPlaced, FrameEnd, Ends, Other, Decided
<1>3. Decided' /\ Places'
  BY DEF TypeOK, data, Places, WrotePlaced, ReadPlaced, FrameEnd, Ends, Other, Decided, Good, Late
<1>4. QED
  BY <1>1, <1>2, <1>3

LEMMA ReadHeaderInv ==
  ASSUME IInv, NEW e \in Ends, ReadHeader(e)
  PROVE  IInv'
<1> USE LengthsAssumption DEF ReadHeader, Arrive, Goes, IInv
<1>1. TypeOK'
  BY DEF TypeOK, data, Ends, Late, Lost
<1>2. ASSUME NEW f \in Ends
      PROVE  WrotePlaced(f)' /\ ReadPlaced(f)' /\ (pc'[f] = "open" => deadline'[f] = "none")
  BY DEF TypeOK, data, Places, WrotePlaced, ReadPlaced, FrameEnd, Ends, Other, Decided
<1>3. Decided' /\ Places'
  BY DEF TypeOK, data, Places, WrotePlaced, ReadPlaced, FrameEnd, Ends, Other, Decided, Good, Late
<1>4. QED
  BY <1>1, <1>2, <1>3

LEMMA ReadBodyInv ==
  ASSUME IInv, NEW e \in Ends, ReadBody(e)
  PROVE  IInv'
<1> USE LengthsAssumption DEF ReadBody, Arrive, ServerReceives, AgentReceives, Goes, IInv
<1>1. TypeOK'
  BY DEF TypeOK, data, Ends, Late, Lost
<1>2. ASSUME NEW f \in Ends
      PROVE  WrotePlaced(f)' /\ ReadPlaced(f)' /\ (pc'[f] = "open" => deadline'[f] = "none")
  BY DEF TypeOK, data, Places, WrotePlaced, ReadPlaced, FrameEnd, Ends, Other, Decided
<1>3. Decided' /\ Places'
  BY DEF TypeOK, data, Places, WrotePlaced, ReadPlaced, FrameEnd, Ends, Other, Decided, Good, Late
<1>4. QED
  BY <1>1, <1>2, <1>3

LEMMA ReadFailsInv ==
  ASSUME IInv, NEW e \in Ends, ReadFails(e)
  PROVE  IInv'
<1> USE LengthsAssumption DEF ReadFails, Goes, IInv
<1>1. TypeOK'
  BY DEF TypeOK, data, Ends, Late, Lost
<1>2. ASSUME NEW f \in Ends
      PROVE  WrotePlaced(f)' /\ ReadPlaced(f)' /\ (pc'[f] = "open" => deadline'[f] = "none")
  BY DEF TypeOK, data, Places, WrotePlaced, ReadPlaced, FrameEnd, Ends, Other, Decided
<1>3. Decided' /\ Places'
  BY DEF TypeOK, data, Places, WrotePlaced, ReadPlaced, FrameEnd, Ends, Other, Decided, Good, Late
<1>4. QED
  BY <1>1, <1>2, <1>3

LEMMA MuxFailsInv ==
  ASSUME IInv, NEW e \in Ends, MuxFails(e)
  PROVE  IInv'
<1> USE LengthsAssumption DEF MuxFails, Goes, IInv
<1>1. TypeOK'
  BY DEF TypeOK, data, Ends, Late, Lost
<1>2. ASSUME NEW f \in Ends
      PROVE  WrotePlaced(f)' /\ ReadPlaced(f)' /\ (pc'[f] = "open" => deadline'[f] = "none")
  BY DEF TypeOK, data, Places, WrotePlaced, ReadPlaced, FrameEnd, Ends, Other, Decided
<1>3. Decided' /\ Places'
  BY DEF TypeOK, data, Places, WrotePlaced, ReadPlaced, FrameEnd, Ends, Other, Decided, Good, Late
<1>4. QED
  BY <1>1, <1>2, <1>3

LEMMA MuxWritesInv ==
  ASSUME IInv, NEW e \in Ends, MuxWrites(e)
  PROVE  IInv'
<1> USE LengthsAssumption DEF MuxWrites, Goes, IInv
<1>1. TypeOK'
  BY DEF TypeOK, data, Ends, Late, Lost
<1>2. ASSUME NEW f \in Ends
      PROVE  WrotePlaced(f)' /\ ReadPlaced(f)' /\ (pc'[f] = "open" => deadline'[f] = "none")
  BY DEF TypeOK, data, Places, WrotePlaced, ReadPlaced, FrameEnd, Ends, Other, Decided
<1>3. Decided' /\ Places'
  BY DEF TypeOK, data, Places, WrotePlaced, ReadPlaced, FrameEnd, Ends, Other, Decided, Good, Late
<1>4. QED
  BY <1>1, <1>2, <1>3

LEMMA MuxReadsInv ==
  ASSUME IInv, NEW e \in Ends, MuxReads(e)
  PROVE  IInv'
<1> USE LengthsAssumption DEF MuxReads, Arrive, Goes, IInv
<1>1. TypeOK'
  BY DEF TypeOK, data, Ends, Late, Lost
<1>2. ASSUME NEW f \in Ends
      PROVE  WrotePlaced(f)' /\ ReadPlaced(f)' /\ (pc'[f] = "open" => deadline'[f] = "none")
  BY DEF TypeOK, data, Places, WrotePlaced, ReadPlaced, FrameEnd, Ends, Other, Decided
<1>3. Decided' /\ Places'
  BY DEF TypeOK, data, Places, WrotePlaced, ReadPlaced, FrameEnd, Ends, Other, Decided, Good, Late
<1>4. QED
  BY <1>1, <1>2, <1>3

LEMMA LeaveInv ==
  ASSUME IInv, NEW e \in Ends, Leave(e)
  PROVE  IInv'
<1> USE LengthsAssumption DEF Leave, Goes, IInv
<1>1. TypeOK'
  BY DEF TypeOK, data, Ends, Late, Lost
<1>2. ASSUME NEW f \in Ends
      PROVE  WrotePlaced(f)' /\ ReadPlaced(f)' /\ (pc'[f] = "open" => deadline'[f] = "none")
  BY DEF TypeOK, data, Places, WrotePlaced, ReadPlaced, FrameEnd, Ends, Other, Decided
<1>3. Decided' /\ Places'
  BY DEF TypeOK, data, Places, WrotePlaced, ReadPlaced, FrameEnd, Ends, Other, Decided, Good, Late
<1>4. QED
  BY <1>1, <1>2, <1>3

LEMMA DeadlinePassesInv ==
  ASSUME IInv, NEW e \in Ends, DeadlinePasses(e)
  PROVE  IInv'
<1> USE LengthsAssumption DEF DeadlinePasses, Goes, IInv
<1>1. TypeOK'
  BY DEF TypeOK, data, Ends, Late, Lost
<1>2. ASSUME NEW f \in Ends
      PROVE  WrotePlaced(f)' /\ ReadPlaced(f)' /\ (pc'[f] = "open" => deadline'[f] = "none")
  BY DEF TypeOK, data, Places, WrotePlaced, ReadPlaced, FrameEnd, Ends, Other, Decided
<1>3. Decided' /\ Places'
  BY DEF TypeOK, data, Places, WrotePlaced, ReadPlaced, FrameEnd, Ends, Other, Decided, Good, Late
<1>4. QED
  BY <1>1, <1>2, <1>3

LEMMA EnterInv ==
  ASSUME IInv, Enter
  PROVE  IInv'
<1> USE LengthsAssumption DEF Enter, Goes, IInv
<1>1. TypeOK'
  BY DEF TypeOK, data, Ends
<1>2. ASSUME NEW f \in Ends
      PROVE  WrotePlaced(f)' /\ ReadPlaced(f)' /\ (pc'[f] = "open" => deadline'[f] = "none")
  BY DEF TypeOK, data, Places, WrotePlaced, ReadPlaced, FrameEnd, Ends, Other, Decided
<1>3. Decided' /\ Places'
  BY DEF TypeOK, data, Places, WrotePlaced, ReadPlaced, FrameEnd, Ends, Other, Decided, Good
<1>4. QED
  BY <1>1, <1>2, <1>3

LEMMA IdleInv ==
  ASSUME IInv, NetworkFails \/ UNCHANGED vars
  PROVE  IInv'
<1> USE DEF NetworkFails, vars, data
<1>1. TypeOK' /\ Places' /\ Decided'
  BY DEF IInv, TypeOK, Places, Decided, FrameEnd, Good
<1>2. ASSUME NEW f \in Ends
      PROVE  WrotePlaced(f)' /\ ReadPlaced(f)' /\ (pc'[f] = "open" => deadline'[f] = "none")
  BY DEF IInv, WrotePlaced, ReadPlaced, FrameEnd
<1>3. QED
  BY <1>1, <1>2 DEF IInv

LEMMA NextInv == IInv /\ [Next]_vars => IInv'
<1> SUFFICES ASSUME IInv, [Next]_vars PROVE IInv'
  OBVIOUS
<1>1. CASE NetworkFails \/ UNCHANGED vars
  BY <1>1, IdleInv
<1>2. CASE Enter
  BY <1>2, EnterInv
<1>3. CASE \E e \in Ends : EndStep(e) \/ MuxWrites(e) \/ MuxReads(e) \/ Leave(e) \/ DeadlinePasses(e)
  <2> PICK e \in Ends : EndStep(e) \/ MuxWrites(e) \/ MuxReads(e) \/ Leave(e) \/ DeadlinePasses(e)
    BY <1>3
  <2> QED
    BY TooLargeInv, WriteHeaderInv, WriteBodyInv, WriteFailsInv, ReadSomeInv, 
       ReadHeaderInv, ReadBodyInv, ReadFailsInv, MuxFailsInv, MuxWritesInv, MuxReadsInv, LeaveInv, DeadlinePassesInv DEF EndStep
<1>4. QED
  BY <1>1, <1>2, <1>3 DEF Next

THEOREM Invariance == Spec => []IInv
  BY InitInv, NextInv, PTL DEF Spec

(* Every variable keeps its type. *)
THEOREM HandshakeTypes == Spec => []TypeOK
<1>1. IInv => TypeOK
  BY DEF IInv
<1>2. QED
  BY <1>1, Invariance, PTL

(* yamux takes over at the first byte after the frame of the other end,    *)
(* whatever the lengths and however the bytes came.                        *)
THEOREM StreamsCorrect == Spec => []StreamsLineUp
<1>1. IInv => StreamsLineUp
  BY DEF IInv, StreamsLineUp, WrotePlaced, ReadPlaced
<1>2. QED
  BY <1>1, Invariance, PTL

(* No session has a deadline on its connection. *)
THEOREM DeadlinesCorrect == Spec => []SessionIsUntimed
<1>1. IInv => SessionIsUntimed
  BY DEF IInv, SessionIsUntimed
<1>2. QED
  BY <1>1, Invariance, PTL

-----------------------------------------------------------------------------
(* The refinement.  Two steps count, the server writing the body of        *)
(* auth_ok and the agent reading it; in all others an end stays where it   *)
(* is for the contract, or leaves.                                         *)
LEMMA InitContract == Init => Contract!Init
<1> SUFFICES ASSUME Init PROVE Contract!Init
  OBVIOUS
<1>1. Good \in BOOLEAN
  BY DEF Good, Validate, Equal, Init
<1>2. pc["server"] = "readHeader" /\ pc["agent"] \in {"writeHeader", "stranger"} /\ reply = "none"
  BY DEF Init, InitAgent, InitStranger, Ends
<1>3. QED
  BY <1>1, <1>2 DEF Contract!Init, ServerSide, AgentSide, Admitted

LEMMA ServerWrites ==
  ASSUME IInv, WriteBody("server")
  PROVE  Contract!Next
<1> USE LengthsAssumption DEF WriteBody, Goes, Ends
<1>1. UNCHANGED Good /\ UNCHANGED AgentSide
  BY DEF data, Good, AgentSide, IInv, TypeOK
<1>2. CASE reply = "ok"
  <2>1. Good /\ ServerSide = "waiting" /\ ServerSide' = "in" /\ Admitted'
    BY <1>2 DEF IInv, Decided, ServerSide, Admitted, WrotePlaced, FrameEnd, data, TypeOK
  <2>2. QED
    BY <1>1, <2>1 DEF Contract!Next, Contract!Admit
<1>3. CASE reply # "ok"
  <2>1. ServerSide' = "out" /\ UNCHANGED Admitted
    BY <1>3 DEF ServerSide, Admitted, IInv, TypeOK
  <2>2. QED
    BY <1>1, <2>1 DEF Contract!Next, Contract!ServerLeaves
<1>4. QED
  BY <1>2, <1>3

LEMMA AgentReads ==
  ASSUME IInv, ReadBody("agent")
  PROVE  Contract!Next
<1> USE LengthsAssumption DEF ReadBody, Arrive, AgentReceives, Goes, Ends, Other
<1>1. UNCHANGED Good /\ UNCHANGED ServerSide /\ UNCHANGED Admitted
  BY DEF data, Good, ServerSide, Admitted, FrameEnd, IInv, TypeOK
<1>2. CASE reply = "ok"
  <2>1. Admitted /\ AgentSide = "waiting" /\ AgentSide' = "in"
    BY <1>2 DEF IInv, ReadPlaced, AgentSide, Admitted, FrameEnd, TypeOK
  <2>2. QED
    BY <1>1, <2>1 DEF Contract!Next, Contract!Join
<1>3. CASE reply # "ok"
  <2>1. AgentSide' = "out"
    BY <1>3 DEF AgentSide, IInv, TypeOK
  <2>2. QED
    BY <1>1, <2>1 DEF Contract!Next, Contract!AgentLeaves
<1>4. QED
  BY <1>2, <1>3

(* All other steps. *)
Aside(e) ==
  \/ TooLarge(e) \/ WriteHeader(e) \/ (e = "agent" /\ WriteBody(e)) \/ WriteFails(e)
  \/ ReadSome(e) \/ ReadHeader(e) \/ (e = "server" /\ ReadBody(e)) \/ ReadFails(e)
  \/ MuxFails(e) \/ MuxWrites(e) \/ MuxReads(e) \/ Leave(e) \/ DeadlinePasses(e)

LEMMA AsideKeeps ==
  ASSUME IInv, NEW e \in Ends, Aside(e)
  PROVE  /\ UNCHANGED <<Good, Admitted>>
         /\ \/ UNCHANGED AgentSide /\ ServerSide' \in {ServerSide, "out"}
            \/ UNCHANGED ServerSide /\ AgentSide' \in {AgentSide, "out"}
<1> USE LengthsAssumption DEF Goes, Ends, Other
<1>1. UNCHANGED Good
  BY DEF Aside, TooLarge, WriteHeader, WriteBody, WriteFails, ReadSome, ReadHeader, ReadBody,
         ReadFails, MuxFails, MuxWrites, MuxReads, Leave, DeadlinePasses, data, Good
<1>2. UNCHANGED Admitted
  <2>1. CASE WriteHeader(e) \/ WriteFails(e) \/ MuxWrites(e) \/ (e = "agent" /\ WriteBody(e))
    BY <2>1 DEF WriteHeader, WriteFails, MuxWrites, WriteBody, Admitted, FrameEnd, data, IInv,
                WrotePlaced, TypeOK, Places
  <2>2. CASE e = "server" /\ ReadBody(e)
    BY <2>2 DEF ReadBody, ServerReceives, Admitted, FrameEnd, data, IInv, WrotePlaced, TypeOK, Places
  <2>3. CASE \/ TooLarge(e) \/ ReadSome(e) \/ ReadHeader(e) \/ ReadFails(e) \/ MuxFails(e)
             \/ MuxReads(e) \/ Leave(e) \/ DeadlinePasses(e)
    BY <2>3 DEF TooLarge, ReadSome, ReadHeader, ReadFails, MuxFails, MuxReads, Leave,
                DeadlinePasses, Admitted, FrameEnd, data
  <2>4. QED
    BY <2>1, <2>2, <2>3 DEF Aside
<1>3. CASE e = "server"
  <2>1. UNCHANGED AgentSide
    BY <1>3 DEF Aside, TooLarge, WriteHeader, WriteBody, WriteFails, ReadSome, ReadHeader, ReadBody,
      ServerReceives, ReadFails, MuxFails, MuxWrites, MuxReads, Leave, DeadlinePasses, AgentSide,
      IInv, TypeOK
  <2>2. ServerSide' \in {ServerSide, "out"}
    BY <1>3 DEF Aside, TooLarge, WriteHeader, WriteBody, WriteFails, ReadSome, ReadHeader, ReadBody,
      ServerReceives, ReadFails, MuxFails, MuxWrites, MuxReads, Leave, DeadlinePasses, ServerSide,
      IInv, TypeOK
  <2>3. QED
    BY <1>1, <1>2, <2>1, <2>2
<1>4. CASE e = "agent"
  <2>1. UNCHANGED ServerSide
    BY <1>4 DEF Aside, TooLarge, WriteHeader, WriteBody, WriteFails, ReadSome, ReadHeader, ReadBody,
      ReadFails, MuxFails, MuxWrites, MuxReads, Leave, DeadlinePasses, ServerSide, IInv, TypeOK
  <2>2. AgentSide' \in {AgentSide, "out"}
    BY <1>4 DEF Aside, TooLarge, WriteHeader, WriteBody, WriteFails, ReadSome, ReadHeader, ReadBody,
      ReadFails, MuxFails, MuxWrites, MuxReads, Leave, DeadlinePasses, AgentSide, IInv, TypeOK
  <2>3. QED
    BY <1>1, <1>2, <2>1, <2>2
<1>5. QED
  BY <1>3, <1>4

LEMMA StepContract ==
  ASSUME IInv, [Next]_vars
  PROVE  [Contract!Next]_(Contract!admission)
<1>1. CASE \E e \in Ends : Aside(e)
  BY <1>1, AsideKeeps
     DEF Contract!Next, Contract!ServerLeaves, Contract!AgentLeaves, Contract!admission
<1>2. CASE WriteBody("server")
  BY <1>2, ServerWrites
<1>3. CASE ReadBody("agent")
  BY <1>3, AgentReads
<1>4. CASE Enter \/ NetworkFails \/ UNCHANGED vars
  <2>1. UNCHANGED Good /\ UNCHANGED Admitted /\ UNCHANGED ServerSide /\ UNCHANGED AgentSide
    BY <1>4 DEF Enter, NetworkFails, vars, data, Goes, Good, Admitted, FrameEnd, ServerSide,
                AgentSide, IInv, TypeOK, Ends
  <2>2. QED
    BY <2>1 DEF Contract!admission
<1>5. QED
  BY <1>1, <1>2, <1>3, <1>4 DEF Next, EndStep, Aside, Ends

(* The handshake implements Admission. *)
THEOREM ContractKept == Spec => KeepsAdmission
<1>1. QED
  BY InitContract, StepContract, Invariance, PTL DEF Spec, KeepsAdmission, Contract!Spec
-----------------------------------------------------------------------------
(* The agent on its tunnel.  The delay follows the failures in every place *)
(* from which the agent may come to wait without having been on a session. *)
DelayFollows ==
  /\ fails = 0 => backoff = 0
  /\ fails = 1 => backoff = 500
  /\ fails = 2 => backoff = 1000
  /\ fails = 3 => backoff = 2000

AgentPlaced ==
  /\ at \in {"loop", "dial", "auth", "failed", "pause"} => DelayFollows
  /\ at = "pause" => fails > 0
  /\ connected => at \in {"serve", "left"}
  /\ sess = "none" \/ at = "serve"
  /\ at \in {"serve", "left"} => connected
  /\ at = "returned" => poolClosed

(* The connection the agent is on, and what the server has made of it.     *)
LinkPlaced ==
  /\ at \in {"loop", "dial", "pause", "stop", "returned"} => link = None
  /\ at \in {"auth", "serve", "left"} => link \in Handlers
  /\ at \in {"serve", "left"} => handler[link] # "auth"
  /\ \A k \in answered : handler[k] # "auth"

(* As in the hub by itself, now with crashes.                              *)
Registered ==
  /\ \A k \in Handlers : handler[k] = "serve" /\ k \in live => session = k
  /\ \A k \in live : handler[k] \in {"register", "serve"}

TunnelInv == TunnelTypeOK /\ AgentPlaced /\ LinkPlaced /\ Registered

LEMMA TunnelInitial == InitTunnel => TunnelInv
<1> SUFFICES ASSUME InitTunnel PROVE TunnelInv
  OBVIOUS
<1> USE TunnelAssumption
<1>1. A!TypeOK /\ AgentPlaced
  <2>1. connected \in BOOLEAN
    BY DEF InitTunnel, A!Init
  <2>2. cancelled \in BOOLEAN /\ poolClosed \in BOOLEAN
    BY DEF InitTunnel, A!Init
  <2>3. at = "loop" /\ sess = "none" /\ backoff = 0 /\ fails = 0
    BY DEF InitTunnel, A!Init
  <2>4. ~connected
    BY DEF InitTunnel, A!Init
  <2> QED BY <2>1, <2>2, <2>3, <2>4 DEF A!TypeOK, AgentPlaced, DelayFollows
<1>2. TunnelTypeOK
  BY <1>1 DEF InitTunnel, InitHub, TunnelTypeOK
<1>3. LinkPlaced /\ Registered
  BY DEF InitTunnel, InitHub, A!Init, LinkPlaced, Registered
<1> QED BY <1>1, <1>2, <1>3 DEF TunnelInv

(* Run of the agent, with whatever the server makes of its attempts.       *)
AgentMoves ==
  \/ A!DialSucceeds \/ A!DialFails \/ A!AuthSucceeds \/ A!AuthFails
  \/ A!SessionCloses \/ A!AgentStep \/ A!Cancel \/ UNCHANGED agentVars

LEMMA AgentKept ==
  ASSUME A!TypeOK, AgentPlaced, AgentMoves
  PROVE  A!TypeOK' /\ AgentPlaced'
<1> USE DEF AgentPlaced
<1> DEFINE Booleans == connected \in BOOLEAN /\ cancelled \in BOOLEAN /\ poolClosed \in BOOLEAN
           Placed == /\ at \in {"loop", "dial", "auth", "serve", "failed", "left", "pause", "stop", "returned"}
                     /\ sess \in {"none", "open", "closed"}
                     /\ backoff \in 0..2000 /\ fails \in 0..3
                     /\ AgentPlaced
<1>1. Booleans /\ Placed /\ (Booleans' /\ Placed' => A!TypeOK' /\ AgentPlaced')
  BY DEF A!TypeOK
<1>2. Booleans'
  <2> HIDE DEF Placed, AgentPlaced
  <2>0. Booleans
    BY <1>1
  <2>1. \/ connected' = connected \/ connected' = FALSE \/ connected' = TRUE
    BY DEF AgentMoves, A!AgentStep, A!Loop, A!LeaveSession, A!AttemptEnds, A!PauseEnds, A!Stop,
           A!DialSucceeds, A!DialFails, A!AuthSucceeds, A!AuthFails, A!SessionCloses, A!Cancel, agentVars
  <2>2. cancelled' = cancelled \/ cancelled' = TRUE
    BY DEF AgentMoves, A!AgentStep, A!Loop, A!LeaveSession, A!AttemptEnds, A!PauseEnds, A!Stop,
           A!DialSucceeds, A!DialFails, A!AuthSucceeds, A!AuthFails, A!SessionCloses, A!Cancel, agentVars
  <2>3. poolClosed' = poolClosed \/ poolClosed' = TRUE
    BY DEF AgentMoves, A!AgentStep, A!Loop, A!LeaveSession, A!AttemptEnds, A!PauseEnds, A!Stop,
           A!DialSucceeds, A!DialFails, A!AuthSucceeds, A!AuthFails, A!SessionCloses, A!Cancel, agentVars
  <2>4. connected' \in BOOLEAN
    BY <2>0, <2>1
  <2>5. cancelled' \in BOOLEAN
    BY <2>0, <2>2
  <2>6. poolClosed' \in BOOLEAN
    BY <2>0, <2>3
  <2> QED BY <2>4, <2>5, <2>6
<1>3. Placed'
  <2>1. CASE A!AttemptEnds
    <3>1. /\ at \in {"failed", "left"} /\ ~connected' /\ sess' = sess
          /\ fails' = IF at = "left" THEN 1 ELSE IF fails + 1 > 3 THEN 3 ELSE fails + 1
      BY <2>1 DEF A!AttemptEnds, A!AtMost3
    <3>2. CASE cancelled
      <4>1. at' = "stop" /\ backoff' = backoff /\ fails' \in 0..3
        BY <1>1, <2>1, <3>1, <3>2 DEF A!AttemptEnds
      <4> QED BY <1>1, <3>1, <4>1
    <3>3. CASE ~cancelled /\ at = "left"
      <4>1. connected
        BY <1>1, <3>3
      <4>2. at' = "pause" /\ fails' = 1
        BY <2>1, <3>1, <3>3 DEF A!AttemptEnds
      <4>3. backoff' = 500
        <5>1. backoff' = A!NextBackoff(IF connected THEN 0 ELSE backoff)
          BY <2>1, <3>3 DEF A!AttemptEnds
        <5>2. (IF connected THEN 0 ELSE backoff) = 0
          BY <4>1
        <5>3. backoff' = A!NextBackoff(0)
          BY <5>1, <5>2
        <5> QED BY <5>3 DEF A!NextBackoff
      <4> QED BY <1>1, <3>1, <3>3, <4>2, <4>3 DEF DelayFollows
    <3>4. CASE ~cancelled /\ at = "failed"
      <4>1. ~connected
        BY <1>1, <3>4
      <4>2. at' = "pause" /\ backoff' = A!NextBackoff(backoff)
        BY <2>1, <3>4, <4>1 DEF A!AttemptEnds
      <4>3. fails = 0 \/ fails = 1 \/ fails = 2 \/ fails = 3
        BY <1>1
      <4>4. /\ fails = 0 => backoff' = 500 /\ fails' = 1
            /\ fails = 1 => backoff' = 1000 /\ fails' = 2
            /\ fails = 2 => backoff' = 2000 /\ fails' = 3
            /\ fails = 3 => backoff' = 2000 /\ fails' = 3
        BY <1>1, <3>1, <3>4, <4>2 DEF A!NextBackoff, DelayFollows
      <4> QED BY <1>1, <3>1, <3>4, <4>2, <4>3, <4>4 DEF DelayFollows
    <3> QED BY <1>1, <3>1, <3>2, <3>3, <3>4
  <2>2. CASE A!Loop
    BY <1>1, <2>2 DEF A!Loop, DelayFollows
  <2>3. CASE A!LeaveSession
    BY <1>1, <2>3 DEF A!LeaveSession, DelayFollows
  <2>4. CASE A!PauseEnds
    BY <1>1, <2>4 DEF A!PauseEnds, DelayFollows
  <2>5. CASE A!Stop
    BY <1>1, <2>5 DEF A!Stop, DelayFollows
  <2>6. CASE A!DialSucceeds \/ A!DialFails
    BY <1>1, <2>6 DEF A!DialSucceeds, A!DialFails, DelayFollows
  <2>7. CASE A!AuthSucceeds
    BY <1>1, <2>7 DEF A!AuthSucceeds, DelayFollows
  <2>8. CASE A!AuthFails
    BY <1>1, <2>8 DEF A!AuthFails, DelayFollows
  <2>9. CASE A!SessionCloses \/ A!Cancel
    BY <1>1, <2>9 DEF A!SessionCloses, A!Cancel, DelayFollows
  <2>10. CASE UNCHANGED agentVars
    BY <1>1, <2>10 DEF agentVars, DelayFollows
  <2> QED BY <2>1, <2>2, <2>3, <2>4, <2>5, <2>6, <2>7, <2>8, <2>9, <2>10 DEF AgentMoves, A!AgentStep
<1> QED BY <1>1, <1>2, <1>3

(* The hub, with the agent's connections and the crashes of the server.    *)
HubTyped ==
  /\ handler \in [Handlers -> {"none", "auth", "register", "serve"}]
  /\ clients \in [Handlers -> {client, None}]
  /\ live \subseteq Handlers /\ session \in Handlers \union {None}
  /\ clientID \in {client, None} /\ sessionID \in Handlers \union {None}

HubStarts ==
  /\ handler' = [k \in Handlers |-> "none"] /\ clients' = [k \in Handlers |-> None]
  /\ live' = {} /\ session' = None /\ clientID' = None /\ sessionID' = None

HubMoves ==
  \/ \E k \in Handlers : \/ H!AcceptCtrl(k, client) \/ H!AdmitCtrl(k) \/ H!RejectCtrl(k)
                          \/ H!SetSession(k) \/ H!ClearIfCurrent(k) \/ H!SessionEnds(k)
  \/ HubStarts \/ UNCHANGED hubVars

LEMMA HubKept ==
  ASSUME HubTyped, Registered, HubMoves
  PROVE  HubTyped' /\ Registered'
<1> USE DEF HubTyped, Registered
<1>1. ASSUME NEW k \in Handlers, H!AcceptCtrl(k, client) \/ H!RejectCtrl(k)
      PROVE  HubTyped' /\ Registered'
  <2>1. /\ handler[k] \in {"none", "auth"}
        /\ UNCHANGED <<live, session, clientID, sessionID>>
        /\ \E s \in {"none", "auth"} : handler' = [handler EXCEPT ![k] = s]
        /\ \E c \in {client, None} : clients' = [clients EXCEPT ![k] = c]
    BY <1>1 DEF H!AcceptCtrl, H!RejectCtrl, H!sessionVars
  <2> QED BY <2>1
<1>2. ASSUME NEW k \in Handlers, H!AdmitCtrl(k) PROVE HubTyped' /\ Registered'
  BY <1>2 DEF H!AdmitCtrl, H!sessionVars
<1>3. ASSUME NEW k \in Handlers, H!SetSession(k) PROVE HubTyped' /\ Registered'
  BY <1>3 DEF H!SetSession
<1>4. ASSUME NEW k \in Handlers, H!ClearIfCurrent(k) PROVE HubTyped' /\ Registered'
  BY <1>4 DEF H!ClearIfCurrent
<1>5. ASSUME NEW k \in Handlers, H!SessionEnds(k) PROVE HubTyped' /\ Registered'
  BY <1>5 DEF H!SessionEnds, H!sessionVars
<1>6. CASE HubStarts
  BY <1>6 DEF HubStarts
<1>7. CASE UNCHANGED hubVars
  BY <1>7 DEF hubVars
<1> QED BY <1>1, <1>2, <1>3, <1>4, <1>5, <1>6, <1>7 DEF HubMoves

LEMMA TunnelMoves ==
  ASSUME [NextTunnel]_tunnelVars
  PROVE  AgentMoves /\ HubMoves
<1> USE DEF AgentMoves, HubMoves
<1>1. CASE Connect
  BY <1>1 DEF Connect
<1>2. CASE ConnectFails \/ Joined \/ NotJoined \/ AgentSideEnds \/ AgentRuns \/ CancelAgent
  BY <1>2 DEF ConnectFails, Joined, NotJoined, AgentSideEnds, AgentRuns, CancelAgent
<1>3. CASE Crash \/ Restart
  BY <1>3 DEF Crash, Restart, HubStarts
<1>4. ASSUME NEW k \in Handlers, Answer(k) \/ GiveUp(k) \/ ServerStep(k) \/ ServerSideEnds(k)
      PROVE  AgentMoves /\ HubMoves
  BY <1>4 DEF Answer, GiveUp, ServerStep, ServerSideEnds
<1>5. CASE UNCHANGED tunnelVars
  BY <1>5 DEF tunnelVars
<1> QED BY <1>1, <1>2, <1>3, <1>4, <1>5 DEF NextTunnel

(* A handler is authenticating only between Connect and its answer.        *)
LEMMA LinkKept ==
  ASSUME TunnelInv, [NextTunnel]_tunnelVars
  PROVE  /\ LinkPlaced' /\ up' \in BOOLEAN /\ faults' \in 0..MaxFaults
         /\ link' \in Handlers \union {None} /\ answered' \subseteq Handlers
<1> USE TunnelAssumption DEF TunnelInv, TunnelTypeOK, LinkPlaced
<1> DEFINE Rest == /\ up' \in BOOLEAN /\ faults' \in 0..MaxFaults
                   /\ link' \in Handlers \union {None} /\ answered' \subseteq Handlers
<1>1. ASSUME Fault \/ NoFault PROVE faults' \in 0..MaxFaults
  BY <1>1 DEF Fault, NoFault
<1>2. CASE Connect
  <2>1. PICK k \in Handlers \ {link} : H!AcceptCtrl(k, client) /\ link' = k
    BY <1>2 DEF Connect
  <2>2. /\ handler' = [handler EXCEPT ![k] = "auth"]
        /\ answered' = answered \ {k} /\ at' = "auth" /\ NoFault /\ up' = up
    BY <1>2, <2>1 DEF Connect, H!AcceptCtrl, A!DialSucceeds
  <2> QED BY <1>1, <2>1, <2>2
<1>3. CASE ConnectFails
  <2>1. at = "dial" /\ at' = "failed" /\ UNCHANGED <<handler, link, answered, up>> /\ (Fault \/ NoFault)
    BY <1>3 DEF ConnectFails, A!DialFails, hubVars
  <2> QED BY <1>1, <2>1
<1>4. CASE Joined
  <2>1. /\ link \in answered /\ at = "auth" /\ at' = "serve" /\ NoFault
        /\ UNCHANGED <<handler, link, answered, up>>
    BY <1>4 DEF Joined, A!AuthSucceeds, hubVars
  <2> QED BY <1>1, <2>1
<1>5. CASE NotJoined
  <2>1. at' = "failed" /\ UNCHANGED <<handler, link, answered, up>> /\ (Fault \/ NoFault)
    BY <1>5 DEF NotJoined, A!AuthFails, hubVars
  <2> QED BY <1>1, <2>1
<1>6. CASE AgentSideEnds \/ CancelAgent
  <2>1. UNCHANGED <<at, handler, link, answered, up>> /\ (Fault \/ NoFault)
    BY <1>6 DEF AgentSideEnds, CancelAgent, A!SessionCloses, A!Cancel, hubVars
  <2> QED BY <1>1, <2>1
<1>7. CASE AgentRuns
  <2>1. /\ A!AgentStep /\ NoFault /\ UNCHANGED <<handler, answered, up>>
        /\ link' = IF at' \in {"loop", "pause", "stop"} THEN None ELSE link
    BY <1>7 DEF AgentRuns, hubVars
  <2>2. \/ at' \in {"loop", "pause", "stop"}
        \/ at = "loop" /\ at' = "dial"
        \/ at = "serve" /\ at' = "left"
        \/ at = "stop" /\ at' = "returned"
    BY <2>1 DEF A!AgentStep, A!Loop, A!LeaveSession, A!AttemptEnds, A!PauseEnds, A!Stop
  <2> QED BY <1>1, <2>1, <2>2
<1>8. CASE Crash
  <2>1. /\ handler' = [k \in Handlers |-> "none"] /\ up' = FALSE /\ Fault
        /\ UNCHANGED <<at, link, answered>>
    BY <1>8 DEF Crash, agentVars
  <2> QED BY <1>1, <2>1
<1>9. CASE Restart
  <2>1. UNCHANGED <<at, handler, link, answered>> /\ up' = TRUE /\ NoFault
    BY <1>9 DEF Restart, agentVars, hubVars
  <2> QED BY <1>1, <2>1
<1>10. ASSUME NEW k \in Handlers, Answer(k) \/ GiveUp(k) \/ ServerStep(k) \/ ServerSideEnds(k)
       PROVE  LinkPlaced' /\ Rest
  <2>1. /\ UNCHANGED <<at, link, up>> /\ (Fault \/ NoFault)
        /\ answered' \in {answered, answered \union {k}}
        /\ \/ handler' = handler /\ answered' = answered
           \/ \E s \in {"none", "register", "serve"} : handler' = [handler EXCEPT ![k] = s]
    BY <1>10 DEF Answer, GiveUp, ServerStep, ServerSideEnds, agentVars, H!AdmitCtrl, H!RejectCtrl,
                 H!SetSession, H!ClearIfCurrent, H!SessionEnds
  <2> QED BY <1>1, <2>1
<1>11. CASE UNCHANGED tunnelVars
  BY <1>11 DEF tunnelVars, agentVars, hubVars
<1> QED
  BY <1>2, <1>3, <1>4, <1>5, <1>6, <1>7, <1>8, <1>9, <1>10, <1>11 DEF NextTunnel

LEMMA TunnelHolds == TunnelSpec => []TunnelInv
<1>1. TunnelInv /\ [NextTunnel]_tunnelVars => TunnelInv'
  BY TunnelMoves, AgentKept, HubKept, LinkKept DEF TunnelInv, TunnelTypeOK, HubTyped
<1> QED BY <1>1, TunnelInitial, PTL DEF TunnelSpec

(* BackoffFollowsFailures: 500 ms after a session, twice as long after     *)
(* every attempt that failed, two seconds at most, whatever the server     *)
(* does.                                                                   *)
THEOREM BackoffCorrect == TunnelSpec => []BackoffFollowsFailures
<1>1. TunnelInv => BackoffFollowsFailures
  <2> SUFFICES ASSUME TunnelInv, at = "pause"
               PROVE  backoff = CASE fails = 1 -> 500 [] fails = 2 -> 1000 [] fails = 3 -> 2000
    BY DEF BackoffFollowsFailures, A!BackoffFollowsFailures
  <2>1. DelayFollows /\ fails \in 1..3
    BY DEF TunnelInv, TunnelTypeOK, A!TypeOK, AgentPlaced
  <2>2. CASE fails = 1
    BY <2>1, <2>2 DEF DelayFollows
  <2>3. CASE fails = 2
    BY <2>1, <2>3 DEF DelayFollows
  <2>4. CASE fails = 3
    BY <2>1, <2>4 DEF DelayFollows
  <2> QED BY <2>1, <2>2, <2>3, <2>4
<1> QED BY <1>1, TunnelHolds, PTL

(* ReadyMeansSession: an agent that calls itself ready is on a connection  *)
(* that the server has authenticated; if the server's side of it is        *)
(* registered and open, it is the one visitors are sent to.                *)
THEOREM ReadyCorrect == TunnelSpec => []ReadyMeansSession
<1>1. TunnelInv => ReadyMeansSession
  BY TunnelAssumption DEF TunnelInv, TunnelTypeOK, AgentPlaced, LinkPlaced, Registered,
     ReadyMeansSession, A!ReadyMeansSession
<1> QED BY <1>1, TunnelHolds, PTL

(* The safety half of AgentStops: whichever exit of Run the agent takes    *)
(* (client.go:62-67, 72-78, 87-93), it leaves no session and no open pool. *)
THEOREM StopsClean == TunnelSpec => [](at = "returned" => A!StoppedClean)
<1>1. TunnelInv => (at = "returned" => A!StoppedClean)
  BY DEF TunnelInv, AgentPlaced, A!StoppedClean
<1> QED BY <1>1, TunnelHolds, PTL

-----------------------------------------------------------------------------
(* What the hub promises, it promises through every crash and restart, and *)
(* for connections the agent has long left.                                *)
Keeper == H!SessionHasKeeper

LEMMA KeeperKept ==
  ASSUME HubTyped, Keeper, HubMoves
  PROVE  Keeper'
<1> USE DEF HubTyped, Keeper, H!SessionHasKeeper
<1>1. ASSUME NEW k \in Handlers, H!AcceptCtrl(k, client) \/ H!RejectCtrl(k) PROVE Keeper'
  <2>1. /\ handler[k] \in {"none", "auth"}
        /\ UNCHANGED <<session, clientID, sessionID>>
        /\ \E s \in {"none", "auth"} : handler' = [handler EXCEPT ![k] = s]
        /\ \E c \in {client, None} : clients' = [clients EXCEPT ![k] = c]
    BY <1>1 DEF H!AcceptCtrl, H!RejectCtrl, H!sessionVars
  <2> QED BY <2>1
<1>2. ASSUME NEW k \in Handlers, H!AdmitCtrl(k) PROVE Keeper'
  BY <1>2 DEF H!AdmitCtrl, H!sessionVars
<1>3. ASSUME NEW k \in Handlers, H!SetSession(k) PROVE Keeper'
  BY <1>3 DEF H!SetSession
<1>4. ASSUME NEW k \in Handlers, H!ClearIfCurrent(k) PROVE Keeper'
  BY <1>4 DEF H!ClearIfCurrent
<1>5. ASSUME NEW k \in Handlers, H!SessionEnds(k) PROVE Keeper'
  BY <1>5 DEF H!SessionEnds, H!sessionVars
<1>6. CASE HubStarts
  BY <1>6 DEF HubStarts
<1>7. CASE UNCHANGED hubVars
  BY <1>7 DEF hubVars
<1> QED BY <1>1, <1>2, <1>3, <1>4, <1>5, <1>6, <1>7 DEF HubMoves

(* Only setSession moves the current session elsewhere, and it closes it.  *)
LEMMA OpenSessionKept ==
  ASSUME HubMoves, session # None, session \in live'
  PROVE  session' = session
<1>1. ASSUME NEW k \in Handlers, H!SetSession(k) PROVE session' = session
  BY <1>1 DEF H!SetSession
<1>2. ASSUME NEW k \in Handlers, H!ClearIfCurrent(k) PROVE session' = session
  BY <1>2 DEF H!ClearIfCurrent
<1>3. ASSUME NEW k \in Handlers,
             H!AcceptCtrl(k, client) \/ H!RejectCtrl(k) \/ H!AdmitCtrl(k) \/ H!SessionEnds(k)
      PROVE  session' = session
  BY <1>3 DEF H!AcceptCtrl, H!RejectCtrl, H!AdmitCtrl, H!SessionEnds, H!sessionVars
<1>4. CASE HubStarts \/ UNCHANGED hubVars
  BY <1>4 DEF HubStarts, hubVars
<1> QED BY <1>1, <1>2, <1>3, <1>4 DEF HubMoves

(* However often the server is killed and restarted, and whatever handlers *)
(* of connections the agent has left do late: at most one registered       *)
(* session is open and it is the current one, the current session has its  *)
(* handler behind it, and no step takes an open session off the hub        *)
(* (server.go:132-144, 210-227).                                           *)
THEOREM HubSurvivesCrashes ==
  TunnelSpec => [](H!OneRegistered /\ H!SessionHasKeeper) /\ H!KeepsOpenSession
<1>1. InitTunnel => Keeper
  BY DEF InitTunnel, InitHub, Keeper, H!SessionHasKeeper
<1>2. TunnelInv /\ Keeper /\ [NextTunnel]_tunnelVars => Keeper'
  BY TunnelMoves, KeeperKept DEF TunnelInv, TunnelTypeOK, HubTyped
<1>3. TunnelInv /\ Keeper => H!OneRegistered /\ H!SessionHasKeeper
  BY DEF TunnelInv, Registered, Keeper, H!OneRegistered
<1>4. [NextTunnel]_tunnelVars
        => [session # None /\ session \in live' => session' = session]_(H!vars)
  BY TunnelMoves, OpenSessionKept
<1> QED BY <1>1, <1>2, <1>3, <1>4, TunnelHolds, PTL DEF TunnelSpec, H!KeepsOpenSession

=============================================================================
