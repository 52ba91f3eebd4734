------------------------------ MODULE HubProofs ------------------------------
(***************************************************************************)
(* Proofs about the Hub, for any number of control connections, clients    *)
(* and visitors, and whatever the bound on arrivals.                       *)
(***************************************************************************)
EXTENDS Hub, FiniteSetTheorems, TLAPS

(* Who may hold a session: one that is open has its handler on the way to  *)
(* registering it or behind it; one that a visitor has looked up was       *)
(* registered, and its handler has been at it ever since or is gone.       *)
SessionsAreHeld ==
  /\ \A k \in live : handler[k] \in {"register", "serve"}
  /\ \A v \in Visitors : sess[v] # None => handler[sess[v]] \in {"serve", "none"}
  /\ \A v \in Visitors : visitor[v] = "stream" => sess[v] # None

GaugeInv == TypeOK /\ GaugeCounts
RegInv == TypeOK /\ SessionsAreHeld /\ OneRegistered /\ SessionHasKeeper

-----------------------------------------------------------------------------
(* Counting: one visitor more on a stream, and one less.                   *)
LEMMA StreamOpens ==
  ASSUME NEW v \in Visitors, TypeOK, OpenStream(v)
  PROVE  Cardinality(Streaming') = Cardinality(Streaming) + 1
<1>1. IsFiniteSet(Streaming)
  BY VisitorsAssumption, FS_Subset DEF Streaming
<1>2. v \notin Streaming /\ Streaming' = Streaming \union {v}
  BY DEF OpenStream, Streaming, TypeOK
<1> QED BY <1>1, <1>2, FS_AddElement

(* The same for the end of a stream.                                       *)
LEMMA StreamCloses ==
  ASSUME NEW v \in Visitors, TypeOK, PipeReturns(v)
  PROVE  /\ Cardinality(Streaming') = Cardinality(Streaming) - 1
         /\ Cardinality(Streaming) \in Nat \ {0}
<1>1. IsFiniteSet(Streaming)
  BY VisitorsAssumption, FS_Subset DEF Streaming
<1>2. v \in Streaming /\ Streaming' = Streaming \ {v}
  BY DEF PipeReturns, Streaming, TypeOK
<1>3. Cardinality(Streaming) # 0
  BY <1>1, <1>2, FS_EmptySet
<1> QED BY <1>1, <1>2, <1>3, FS_RemoveElement, FS_CardinalityType

(* The types hold and the gauge is zero when there is nobody.              *)
LEMMA GaugeInitial == Init => GaugeInv
<1> SUFFICES ASSUME Init PROVE GaugeInv
  OBVIOUS
<1>1. TypeOK
  BY NoneAssumption DEF Init, TypeOK
<1>2. Streaming = {}
  BY DEF Init, Streaming
<1> QED BY <1>1, <1>2, FS_EmptySet DEF GaugeInv, GaugeCounts, Init

(* Every step keeps the types and the gauge: openStream and the return of  *)
(* a Pipe move the gauge, the others leave every stream where it is.       *)
LEMMA GaugePreserved == GaugeInv /\ [Next]_vars => GaugeInv'
<1> SUFFICES ASSUME TypeOK, GaugeCounts, [Next]_vars PROVE TypeOK' /\ GaugeCounts'
  BY DEF GaugeInv
<1>1. ASSUME NEW k \in Handlers, NEW c \in Clients, AcceptCtrl(k, c)
      PROVE  TypeOK' /\ Streaming' = Streaming /\ streams' = streams
  BY <1>1 DEF AcceptCtrl, TypeOK, Streaming, sessionVars, visitorVars, statusVars
<1>2. ASSUME NEW k \in Handlers, ControlStep(k) \/ SessionEnds(k)
      PROVE  TypeOK' /\ Streaming' = Streaming /\ streams' = streams
  BY <1>2, NoneAssumption
     DEF ControlStep, RejectCtrl, AdmitCtrl, SetSession, ClearIfCurrent,
         SessionEnds, TypeOK, Streaming, sessionVars, visitorVars, statusVars
<1>3. ASSUME NEW v \in Visitors, AcceptVisitor(v) \/ LookUp(v) \/ Refuse(v)
      PROVE  TypeOK' /\ Streaming' = Streaming /\ streams' = streams
  BY <1>3 DEF AcceptVisitor, LookUp, Refuse, TypeOK, Streaming,
              controlVars, sessionVars, statusVars
<1>4. ASSUME NEW v \in Visitors, OpenStream(v) PROVE TypeOK' /\ GaugeCounts'
  <2>1. TypeOK'
    BY <1>4 DEF OpenStream, TypeOK, controlVars, sessionVars, statusVars
  <2> QED BY <1>4, <2>1, StreamOpens DEF OpenStream, GaugeCounts
<1>5. ASSUME NEW v \in Visitors, PipeReturns(v) PROVE TypeOK' /\ GaugeCounts'
  <2>1. Cardinality(Streaming') = streams - 1 /\ streams \in Nat \ {0}
    BY <1>5, StreamCloses DEF GaugeCounts
  <2>2. streams' = streams - 1 /\ streams' \in Nat
    BY <1>5, <2>1 DEF PipeReturns
  <2>3. TypeOK'
    BY <1>5, <2>2 DEF PipeReturns, TypeOK, controlVars, sessionVars, statusVars
  <2> QED BY <2>1, <2>2, <2>3 DEF GaugeCounts
<1>6. ASSUME StatusStep
      PROVE  TypeOK' /\ Streaming' = Streaming /\ streams' = streams
  <2>1. /\ Streaming' = Streaming
        /\ UNCHANGED <<run, controlVars, sessionVars, visitorVars>>
    BY <1>6 DEF StatusStep, ReadSession, LoadActive, LoadTotal, Streaming, visitorVars
  <2>2. ASSUME ReadSession
        PROVE  report' \in [connected : BOOLEAN, client : Clients \union {None}, active : Nat]
    <3>1. (session \in live) \in BOOLEAN
      OBVIOUS
    <3> QED BY <2>2, <3>1 DEF ReadSession, TypeOK
  <2>3. ASSUME LoadActive \/ LoadTotal
        PROVE  report' \in [connected : BOOLEAN, client : Clients \union {None}, active : Nat]
    <3>1. CASE LoadTotal
      BY <3>1 DEF LoadTotal
    <3>2. CASE LoadActive
      <4>1. /\ report' = [report EXCEPT !.active = streams]
            /\ streams \in Nat
            /\ report \in [connected : BOOLEAN, client : Clients \union {None}, active : Nat]
        BY <3>2 DEF LoadActive, TypeOK
      <4> QED BY <4>1
    <3> QED BY <2>3, <3>1, <3>2
  <2>4. reader' \in {"none", "active", "total"}
    BY <1>6 DEF StatusStep, ReadSession, LoadActive, LoadTotal
  <2> QED
    BY <1>6, <2>1, <2>2, <2>3, <2>4
    DEF StatusStep, TypeOK, controlVars, sessionVars, visitorVars
<1>7. ASSUME CancelRun \/ RunStep
      PROVE  TypeOK' /\ Streaming' = Streaming /\ streams' = streams
  BY <1>7 DEF CancelRun, RunStep, CloseListeners, DropSession, TypeOK, Streaming,
              controlVars, sessionVars, visitorVars, statusVars
<1>8. ASSUME UNCHANGED vars
      PROVE  TypeOK' /\ Streaming' = Streaming /\ streams' = streams
  <2>1. TypeOK'
    BY <1>8 DEF vars, TypeOK, controlVars, sessionVars, visitorVars, statusVars
  <2> QED BY <1>8, <2>1 DEF vars, Streaming, visitorVars
<1>9. ASSUME TypeOK' /\ Streaming' = Streaming /\ streams' = streams
      PROVE  TypeOK' /\ GaugeCounts'
  BY <1>9 DEF GaugeCounts
<1> QED
  BY <1>1, <1>2, <1>3, <1>4, <1>5, <1>6, <1>7, <1>8, <1>9 DEF Next, VisitorStep

(* The variables of the hub keep their types; active_streams in particular *)
(* is never negative, since it counts the visitors that are on a stream.   *)
THEOREM HubTypes == Spec => []TypeOK
<1>1. GaugeInv => TypeOK
  BY DEF GaugeInv
<1> QED BY <1>1, GaugeInitial, GaugePreserved, PTL DEF Spec

(* active_streams counts the visitors on a stream.                         *)
THEOREM GaugeCorrect == Spec => []GaugeCounts
<1>1. GaugeInv => GaugeCounts
  BY DEF GaugeInv
<1> QED BY <1>1, GaugeInitial, GaugePreserved, PTL DEF Spec

-----------------------------------------------------------------------------
(* Registration.  Nobody is registered at first.                           *)
LEMMA RegInitial == Init => RegInv
<1> SUFFICES ASSUME Init PROVE RegInv
  OBVIOUS
<1>1. TypeOK
  BY GaugeInitial DEF GaugeInv
<1> QED
  BY <1>1 DEF RegInv, Init, SessionsAreHeld, OneRegistered, SessionHasKeeper

(* setSession closes the session before its own, so its own is the only    *)
(* registered one left open; every other step of a handler leaves the      *)
(* current session and its handler together.                               *)
LEMMA RegPreserved == RegInv /\ TypeOK' /\ [Next]_vars => RegInv'
<1> SUFFICES ASSUME RegInv, TypeOK', [Next]_vars
             PROVE  SessionsAreHeld' /\ OneRegistered' /\ SessionHasKeeper'
  BY DEF RegInv
<1> USE DEF RegInv, TypeOK
<1>1. ASSUME NEW k \in Handlers, NEW c \in Clients, AcceptCtrl(k, c)
      PROVE  SessionsAreHeld' /\ OneRegistered' /\ SessionHasKeeper'
  BY <1>1 DEF AcceptCtrl, SessionsAreHeld, OneRegistered, SessionHasKeeper,
              sessionVars, visitorVars, statusVars
<1>2. ASSUME NEW k \in Handlers, RejectCtrl(k)
      PROVE  SessionsAreHeld' /\ OneRegistered' /\ SessionHasKeeper'
  BY <1>2 DEF RejectCtrl, SessionsAreHeld, OneRegistered, SessionHasKeeper,
              sessionVars, visitorVars, statusVars
<1>3. ASSUME NEW k \in Handlers, AdmitCtrl(k)
      PROVE  SessionsAreHeld' /\ OneRegistered' /\ SessionHasKeeper'
  BY <1>3 DEF AdmitCtrl, SessionsAreHeld, OneRegistered, SessionHasKeeper,
              sessionVars, visitorVars, statusVars
<1>4. ASSUME NEW k \in Handlers, SetSession(k)
      PROVE  SessionsAreHeld' /\ OneRegistered' /\ SessionHasKeeper'
  BY <1>4 DEF SetSession, SessionsAreHeld, OneRegistered, SessionHasKeeper,
              visitorVars, statusVars
<1>5. ASSUME NEW k \in Handlers, ClearIfCurrent(k)
      PROVE  SessionsAreHeld' /\ OneRegistered' /\ SessionHasKeeper'
  BY <1>5 DEF ClearIfCurrent, SessionsAreHeld, OneRegistered, SessionHasKeeper,
              visitorVars, statusVars
<1>6. ASSUME NEW k \in Handlers, SessionEnds(k)
      PROVE  SessionsAreHeld' /\ OneRegistered' /\ SessionHasKeeper'
  BY <1>6 DEF SessionEnds, SessionsAreHeld, OneRegistered, SessionHasKeeper,
              sessionVars, visitorVars, statusVars
<1>7. ASSUME NEW v \in Visitors, AcceptVisitor(v) \/ VisitorStep(v)
      PROVE  SessionsAreHeld' /\ OneRegistered' /\ SessionHasKeeper'
  <2>1. OneRegistered' /\ SessionHasKeeper'
    BY <1>7 DEF AcceptVisitor, VisitorStep, LookUp, OpenStream, Refuse, PipeReturns,
                OneRegistered, SessionHasKeeper, controlVars, sessionVars
  <2>2. ASSUME AcceptVisitor(v) \/ Refuse(v) \/ PipeReturns(v) PROVE SessionsAreHeld'
    BY <2>2 DEF AcceptVisitor, Refuse, PipeReturns, SessionsAreHeld, controlVars
  <2>3. ASSUME LookUp(v) PROVE SessionsAreHeld'
    BY <2>3 DEF LookUp, SessionsAreHeld, SessionHasKeeper, controlVars
  <2>4. ASSUME OpenStream(v) PROVE SessionsAreHeld'
    BY <2>4, NoneAssumption DEF OpenStream, SessionsAreHeld, controlVars
  <2> QED BY <1>7, <2>1, <2>2, <2>3, <2>4 DEF VisitorStep
<1>8. ASSUME StatusStep \/ CancelRun \/ CloseListeners \/ UNCHANGED vars
      PROVE  SessionsAreHeld' /\ OneRegistered' /\ SessionHasKeeper'
  BY <1>8 DEF StatusStep, ReadSession, LoadActive, LoadTotal, CancelRun,
              CloseListeners, vars, SessionsAreHeld, OneRegistered,
              SessionHasKeeper, controlVars, sessionVars, visitorVars
<1>9. ASSUME DropSession
      PROVE  SessionsAreHeld' /\ OneRegistered' /\ SessionHasKeeper'
  BY <1>9 DEF DropSession, SessionsAreHeld, OneRegistered, SessionHasKeeper,
              visitorVars, statusVars
<1> QED
  BY <1>1, <1>2, <1>3, <1>4, <1>5, <1>6, <1>7, <1>8, <1>9
  DEF Next, ControlStep, RunStep

(* What is behind the theorems on registration.                            *)
LEMMA RegHolds == Spec => []RegInv
  BY RegInitial, RegPreserved, HubTypes, PTL DEF Spec

(* At most one registered session is open, and it is the current one,      *)
(* however many control connections race through setSession.               *)
THEOREM RegistrationCorrect == Spec => []OneRegistered
<1>1. RegInv => OneRegistered
  BY DEF RegInv
<1> QED BY <1>1, RegHolds, PTL

(* The current session always has its handler waiting for its end, and the *)
(* id and the client shown beside it are its own.                          *)
THEOREM KeeperCorrect == Spec => []SessionHasKeeper
<1>1. RegInv => SessionHasKeeper
  BY DEF RegInv
<1> QED BY <1>1, RegHolds, PTL

(* A stream on an open session is on the current session.                  *)
THEOREM StreamsCorrect == Spec => []StreamsAreOnCurrent
<1>1. RegInv => StreamsAreOnCurrent
  BY DEF RegInv, TypeOK, SessionsAreHeld, OneRegistered, StreamsAreOnCurrent
<1> QED BY <1>1, RegHolds, PTL

(* No step takes an open session off the hub and leaves it open: a late    *)
(* clearIfCurrent never undoes a newer client's registration.              *)
THEOREM KeepsOpenCorrect == Spec => KeepsOpenSession
<1>1. ASSUME RegInv, [Next]_vars
      PROVE  [session # None /\ session \in live' => session' = session]_vars
  <2> SUFFICES ASSUME Next, session # None, session \in live'
               PROVE  session' = session
    BY <1>1
  <2>1. ASSUME NEW k \in Handlers, SetSession(k) PROVE session' = session
    BY <2>1 DEF SetSession
  <2>2. ASSUME NEW k \in Handlers, ClearIfCurrent(k) PROVE session' = session
    BY <2>2 DEF ClearIfCurrent
  <2>3. ASSUME DropSession PROVE session' = session
    BY <2>3 DEF DropSession
  <2>4. ASSUME NEW k \in Handlers,
               RejectCtrl(k) \/ AdmitCtrl(k) \/ SessionEnds(k)
               \/ \E c \in Clients : AcceptCtrl(k, c)
        PROVE  session' = session
    BY <2>4 DEF RejectCtrl, AdmitCtrl, SessionEnds, AcceptCtrl, sessionVars
  <2>5. ASSUME NEW v \in Visitors, AcceptVisitor(v) \/ VisitorStep(v)
        PROVE  session' = session
    BY <2>5 DEF AcceptVisitor, VisitorStep, LookUp, OpenStream, Refuse,
                PipeReturns, sessionVars
  <2>6. ASSUME StatusStep \/ CancelRun \/ CloseListeners PROVE session' = session
    BY <2>6 DEF StatusStep, ReadSession, LoadActive, LoadTotal, CancelRun,
                CloseListeners, sessionVars
  <2> QED BY <2>1, <2>2, <2>3, <2>4, <2>5, <2>6 DEF Next, ControlStep, RunStep
<1> QED BY <1>1, RegHolds, PTL DEF Spec, KeepsOpenSession

-----------------------------------------------------------------------------
(* The status report.  What it loads is coherent because a visitor is      *)
(* counted before anything else happens to it, and a handler has a client  *)
(* for as long as it may be the keeper of a session.                       *)
Here == {v \in Visitors : visitor[v] # "none"}

VisitorsCounted == Cardinality(Here) <= visitors
HandlersNamed == \A k \in Handlers : handler[k] # "none" => client[k] # None
ReportInv == VisitorsCounted /\ HandlersNamed /\ ReportIsCoherent

LEMMA ReportInitial == Init => ReportInv
<1> SUFFICES ASSUME Init PROVE ReportInv
  OBVIOUS
<1>1. Here = {} /\ visitors = 0
  BY DEF Init, Here
<1> QED
  BY <1>1, FS_EmptySet DEF Init, ReportInv, VisitorsCounted, HandlersNamed, ReportIsCoherent

(* A step moves nobody but one visitor in, which it counts, or some out.   *)
LEMMA VisitorsMove ==
  ASSUME TypeOK, [Next]_vars
  PROVE  \/ Here' \subseteq Here /\ visitors' = visitors
         \/ \E v \in Visitors : Here' = Here \union {v} /\ visitors' = visitors + 1
<1>1. ASSUME NEW v \in Visitors, AcceptVisitor(v)
      PROVE  Here' = Here \union {v} /\ visitors' = visitors + 1
  BY <1>1 DEF AcceptVisitor, Here, TypeOK
<1>2. ASSUME NEW v \in Visitors, VisitorStep(v)
      PROVE  Here' \subseteq Here /\ visitors' = visitors
  BY <1>2 DEF VisitorStep, LookUp, OpenStream, Refuse, PipeReturns, Here, TypeOK
<1>3. ASSUME UNCHANGED visitorVars
      PROVE  Here' \subseteq Here /\ visitors' = visitors
  BY <1>3 DEF visitorVars, Here
<1>4. ASSUME \/ \E k \in Handlers : ControlStep(k) \/ SessionEnds(k)
             \/ \E k \in Handlers, c \in Clients : AcceptCtrl(k, c)
             \/ StatusStep \/ CancelRun \/ RunStep \/ UNCHANGED vars
      PROVE  UNCHANGED visitorVars
  BY <1>4 DEF ControlStep, RejectCtrl, AdmitCtrl, SetSession, ClearIfCurrent, SessionEnds,
              AcceptCtrl, StatusStep, ReadSession, LoadActive, LoadTotal, CancelRun,
              RunStep, CloseListeners, DropSession, vars
<1> QED BY <1>1, <1>2, <1>3, <1>4 DEF Next

LEMMA VisitorsStayCounted ==
  ASSUME TypeOK, VisitorsCounted, [Next]_vars
  PROVE  VisitorsCounted' /\ visitors' >= visitors
<1>1. IsFiniteSet(Here) /\ Cardinality(Here) \in Nat /\ visitors \in Nat
  BY VisitorsAssumption, FS_Subset, FS_CardinalityType DEF Here, TypeOK
<1>2. CASE Here' \subseteq Here /\ visitors' = visitors
  <2>1. Cardinality(Here') \in Nat /\ Cardinality(Here') <= Cardinality(Here)
    BY <1>1, <1>2, FS_Subset, FS_CardinalityType
  <2> QED BY <1>1, <1>2, <2>1 DEF VisitorsCounted
<1>3. ASSUME NEW v \in Visitors, Here' = Here \union {v}, visitors' = visitors + 1
      PROVE  VisitorsCounted' /\ visitors' >= visitors
  <2>1. Cardinality(Here') \in {Cardinality(Here), Cardinality(Here) + 1}
    <3>1. CASE v \in Here
      <4>1. Here' = Here
        BY <1>3, <3>1
      <4> QED BY <4>1
    <3>2. CASE v \notin Here
      BY <1>1, <1>3, <3>2, FS_AddElement
    <3> QED BY <3>1, <3>2
  <2> QED BY <1>1, <1>3, <2>1 DEF VisitorsCounted
<1> QED BY <1>2, <1>3, VisitorsMove

(* Whoever is on a stream is among the visitors counted.                   *)
LEMMA GaugeBelowVisitors ==
  ASSUME TypeOK, GaugeCounts, VisitorsCounted
  PROVE  streams <= visitors
<1>1. IsFiniteSet(Here) /\ Streaming \subseteq Here
  BY VisitorsAssumption, FS_Subset DEF Here, Streaming
<1>2. /\ Cardinality(Streaming) <= Cardinality(Here)
      /\ Cardinality(Streaming) \in Nat /\ Cardinality(Here) \in Nat
  BY <1>1, FS_Subset, FS_CardinalityType
<1> QED BY <1>2 DEF GaugeCounts, VisitorsCounted, TypeOK

LEMMA HandlersStayNamed ==
  ASSUME TypeOK, HandlersNamed, [Next]_vars
  PROVE  HandlersNamed'
<1>1. ASSUME NEW k \in Handlers, NEW c \in Clients, AcceptCtrl(k, c) PROVE HandlersNamed'
  BY <1>1, NoneAssumption DEF AcceptCtrl, HandlersNamed, TypeOK
<1>2. ASSUME NEW k \in Handlers, ControlStep(k) PROVE HandlersNamed'
  BY <1>2 DEF ControlStep, RejectCtrl, AdmitCtrl, SetSession, ClearIfCurrent, HandlersNamed, TypeOK
<1>3. ASSUME UNCHANGED <<handler, client>> PROVE HandlersNamed'
  BY <1>3 DEF HandlersNamed
<1>4. ASSUME \/ \E k \in Handlers : SessionEnds(k)
             \/ \E v \in Visitors : AcceptVisitor(v) \/ VisitorStep(v)
             \/ StatusStep \/ CancelRun \/ RunStep \/ UNCHANGED vars
      PROVE  UNCHANGED <<handler, client>>
  BY <1>4 DEF SessionEnds, AcceptVisitor, VisitorStep, LookUp, OpenStream, Refuse, PipeReturns,
              StatusStep, ReadSession, LoadActive, LoadTotal, CancelRun,
              RunStep, CloseListeners, DropSession, vars, controlVars
<1> QED BY <1>1, <1>2, <1>3, <1>4 DEF Next

(* The client is read with the session, and the gauge before the visitors. *)
LEMMA ReportStaysCoherent ==
  ASSUME TypeOK, TypeOK', GaugeCounts, SessionHasKeeper, ReportInv, visitors' >= visitors, [Next]_vars
  PROVE  ReportIsCoherent'
<1>1. CASE ReadSession
  <2>1. session \in live => clientID # None
    BY NoneAssumption DEF TypeOK, SessionHasKeeper, ReportInv, HandlersNamed
  <2>2. /\ report' = [report EXCEPT !.connected = session \in live, !.client = clientID]
        /\ reader' = "active"
    BY <1>1 DEF ReadSession
  <2>3. report'.connected = (session \in live) /\ report'.client = clientID
    BY <2>2 DEF TypeOK
  <2> QED BY <2>1, <2>2, <2>3 DEF ReportIsCoherent
<1>2. CASE LoadActive
  <2>1. streams <= visitors /\ visitors' = visitors
    BY <1>2, GaugeBelowVisitors DEF ReportInv, LoadActive, visitorVars
  <2>2. report'.active = streams /\ report'.connected = report.connected /\ report'.client = report.client
    BY <1>2 DEF LoadActive, TypeOK
  <2> QED BY <2>1, <2>2 DEF ReportInv, ReportIsCoherent
<1>3. CASE LoadTotal
  BY <1>3 DEF LoadTotal, ReportIsCoherent
<1>4. ASSUME UNCHANGED statusVars PROVE ReportIsCoherent'
  <2>1. reader' = reader /\ report' = report
    BY <1>4 DEF statusVars
  <2>2. report.active \in Nat /\ visitors \in Nat /\ visitors' \in Nat
    BY DEF TypeOK
  <2> QED BY <2>1, <2>2 DEF ReportInv, ReportIsCoherent
<1>5. ASSUME \/ \E k \in Handlers : ControlStep(k) \/ SessionEnds(k)
             \/ \E k \in Handlers, c \in Clients : AcceptCtrl(k, c)
             \/ \E v \in Visitors : AcceptVisitor(v) \/ VisitorStep(v)
             \/ CancelRun \/ RunStep \/ UNCHANGED vars
      PROVE  UNCHANGED statusVars
  BY <1>5 DEF ControlStep, RejectCtrl, AdmitCtrl, SetSession, ClearIfCurrent, SessionEnds,
              AcceptCtrl, AcceptVisitor, VisitorStep, LookUp, OpenStream, Refuse, PipeReturns,
              CancelRun, RunStep, CloseListeners, DropSession, vars
<1> QED BY <1>1, <1>2, <1>3, <1>4, <1>5 DEF Next, StatusStep

(* The status handler never reports more active streams than the visitors  *)
(* it counts next, and it names the client it calls connected.             *)
THEOREM ReportCorrect == Spec => []ReportIsCoherent
<1>1. GaugeInv /\ RegInv /\ ReportInv /\ TypeOK' /\ [Next]_vars => ReportInv'
  BY VisitorsStayCounted, HandlersStayNamed, ReportStaysCoherent DEF GaugeInv, RegInv, ReportInv
<1>2. Spec => []GaugeInv
  BY GaugeInitial, GaugePreserved, PTL DEF Spec
<1>3. ReportInv => ReportIsCoherent
  BY DEF ReportInv
<1> QED BY <1>1, <1>2, <1>3, ReportInitial, RegHolds, HubTypes, PTL DEF Spec
=============================================================================
