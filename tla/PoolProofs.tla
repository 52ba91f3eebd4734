----------------------------- MODULE PoolProofs -----------------------------
(***************************************************************************)
(* Proofs about Pool, for every set of callers and connections and every   *)
(* limit, and about Streams, the agent's use of it.  Each invariant is     *)
(* proved inductive relative to the ones before it.                        *)
(***************************************************************************)
EXTENDS Streams, SequenceTheorems, FiniteSetTheorems, TLAPS

-----------------------------------------------------------------------------
(* Signal and Broadcast move waiting callers to "woken" and touch no other.*)
LEMMA SignalWakes ==
  ASSUME NEW p \in [Callers -> Places], NEW q \in Signal(p)
  PROVE  /\ q \in [Callers -> Places]
         /\ \A g \in Callers : q[g] = p[g] \/ (p[g] = "wait" /\ q[g] = "woken")
         /\ \/ \A g \in Callers : p[g] # "wait"
            \/ \E w \in Callers : p[w] = "wait" /\ q[w] = "woken"
  BY DEF Signal, Places

(* cond.Broadcast: every waiting caller is woken, every other stays put.   *)
LEMMA BroadcastWakes ==
  ASSUME NEW p \in [Callers -> Places]
  PROVE  /\ Broadcast(p) \in [Callers -> Places]
         /\ \A g \in Callers :
              Broadcast(p)[g] = IF p[g] = "wait" THEN "woken" ELSE p[g]
  BY DEF Broadcast, Places

(* A caller that moves to x and signals: it is at x, and of the others at  *)
(* most waiters have moved, one of them if there was one.                  *)
LEMMA MoveAndSignal ==
  ASSUME pc \in [Callers -> Places], NEW g \in Callers, pc[g] # "wait",
         NEW x \in {"out", "retry"},
         pc' \in Signal([pc EXCEPT ![g] = x])
  PROVE  /\ pc' \in [Callers -> Places]
         /\ pc'[g] = x
         /\ \A h \in Callers \ {g} :
              pc'[h] = pc[h] \/ (pc[h] = "wait" /\ pc'[h] = "woken")
         /\ Waiting # {} => \E w \in Callers \ {g} : pc[w] = "wait" /\ pc'[w] = "woken"
  <1> DEFINE p == [pc EXCEPT ![g] = x]
  <1>1. /\ p \in [Callers -> Places] /\ p[g] = x
        /\ \A h \in Callers \ {g} : p[h] = pc[h]
    BY DEF Places
  <1>2. pc' \in Signal(p)
    OBVIOUS
  <1> HIDE DEF p
  <1>3. /\ pc' \in [Callers -> Places]
        /\ \A h \in Callers : pc'[h] = p[h] \/ (p[h] = "wait" /\ pc'[h] = "woken")
        /\ \/ \A h \in Callers : p[h] # "wait"
           \/ \E w \in Callers : p[w] = "wait" /\ pc'[w] = "woken"
    BY <1>1, <1>2, SignalWakes
  <1>4. pc'[g] = x
    BY <1>1, <1>3
  <1>5. ASSUME Waiting # {}
        PROVE  \E w \in Callers \ {g} : pc[w] = "wait" /\ pc'[w] = "woken"
    <2>1. PICK h \in Callers : pc[h] = "wait"
      BY <1>5 DEF Waiting
    <2>2. h # g /\ p[h] = "wait"
      BY <1>1, <2>1
    <2>3. PICK w \in Callers : p[w] = "wait" /\ pc'[w] = "woken"
      BY <1>3, <2>2
    <2>4. w # g
      BY <1>1, <2>3
    <2>5. QED
      BY <1>1, <2>3, <2>4
  <1>6. QED
    BY <1>1, <1>3, <1>4, <1>5

(* What KeepOldest leaves is still a list of connections, with its         *)
(* expired entries first.                                                  *)
LEMMA KeepOldestTyped ==
  ASSUME TypeOK, NEW k \in 0..Len(idle), KeepOldest(k)
  PROVE  /\ idle' \in Seq(Conns) /\ Len(idle') = k
         /\ \A i \in 1..k : idle'[i] = idle[i]
         /\ stale' \in 0..Len(idle') /\ unfit' \subseteq Conns
  <1>1. idle \in Seq(Conns) /\ Len(idle) \in Nat /\ k \in Nat /\ k <= Len(idle)
    BY DEF TypeOK
  <1>2. /\ SubSeq(idle, 1, k) \in Seq(Conns) /\ Len(SubSeq(idle, 1, k)) = k
        /\ \A i \in 1..k : SubSeq(idle, 1, k)[i] = idle[i]
    BY <1>1
  <1>3. QED
    BY <1>1, <1>2 DEF KeepOldest, TypeOK

(* Parking one more connection keeps the idle list well typed.             *)
LEMMA ParkTyped ==
  ASSUME TypeOK, NEW c \in Conns, Park(c)
  PROVE  /\ idle' \in Seq(Conns) /\ Len(idle') = Len(idle) + 1
         /\ \A i \in 1..Len(idle) : idle'[i] = idle[i]
         /\ idle'[Len(idle) + 1] = c
         /\ stale \in 0..Len(idle')
  <1>1. idle \in Seq(Conns) /\ Len(idle) \in Nat /\ stale \in 0..Len(idle)
    BY DEF TypeOK
  <1>2. idle' = Append(idle, c)
    BY DEF Park
  <1>3. idle' \in Seq(Conns) /\ Len(idle') = Len(idle) + 1
    BY <1>1, <1>2
  <1>4. \A i \in 1..Len(idle) : idle'[i] = idle[i]
    BY <1>1, <1>2
  <1>5. idle'[Len(idle) + 1] = c
    BY <1>1, <1>2
  <1>6. QED
    BY <1>1, <1>3, <1>4, <1>5

-----------------------------------------------------------------------------
(* The initial values have their types.                                    *)
LEMMA TypeInitial == Init => TypeOK
  <1> SUFFICES ASSUME Init PROVE TypeOK
    OBVIOUS
  <1>1. idle \in Seq(Conns) /\ stale \in 0..Len(idle)
    BY EmptySeq DEF Init
  <1>2. pc \in [Callers -> Places] /\ conn \in [Callers -> Conns \cup {NoConn}]
    BY DEF Init, Places
  <1>3. Holders = {}
    BY DEF Init, Holders
  <1>4. /\ unfit = {} /\ open = {} /\ active = 0 /\ closed = FALSE
        /\ late = {} /\ cancelled = {} /\ armed = {} /\ firing = {}
        /\ warm \in {"tick", "done"} /\ warmConn = NoConn /\ reaping = TRUE
    BY DEF Init
  <1>5. \A g \in Holders : conn[g] \in Conns
    BY <1>3
  <1>6. warmConn \in Conns \cup {NoConn} /\ (warm = "park" => warmConn \in Conns)
    BY <1>4
  <1>7. active \in Int
    BY <1>4
  <1>8. closed \in BOOLEAN /\ reaping \in BOOLEAN
    BY <1>4
  <1>9. QED
    BY <1>1, <1>2, <1>4, <1>5, <1>6, <1>7, <1>8 DEF TypeOK

(* No step breaks a type. *)
LEMMA TypePreserved == TypeOK /\ [Next]_vars => TypeOK'
  <1> SUFFICES ASSUME TypeOK, [Next]_vars PROVE TypeOK'
    OBVIOUS
  <1> USE DEF TypeOK, Holders, poolVars, callerVars, timerVars, warmVars
  <1>1. ASSUME NEW g \in Callers, Get(g) PROVE TypeOK'
    BY <1>1 DEF Get, Places
  <1>2. ASSUME NEW g \in Callers, RefuseClosed(g) PROVE TypeOK'
    BY <1>2 DEF RefuseClosed, LeavesLoop, AtLoopHead, Places
  <1>3. ASSUME NEW g \in Callers, Reuse(g) PROVE TypeOK'
    <2>1. PICK k \in DOMAIN idle :
            /\ KeepOldest(k - 1)
            /\ open' = open \ Above(k)
            /\ conn' = [conn EXCEPT ![g] = idle[k]]
      BY <1>3 DEF Reuse
    <2>2. k - 1 \in 0..Len(idle) /\ idle[k] \in Conns
      OBVIOUS
    <2>3. idle' \in Seq(Conns) /\ stale' \in 0..Len(idle') /\ unfit' \subseteq Conns
      BY <2>1, <2>2, KeepOldestTyped
    <2>4. QED
      BY <1>3, <2>1, <2>2, <2>3 DEF Reuse, LeavesLoop, AtLoopHead, Places
  <1>4. ASSUME NEW g \in Callers, FailSecondProbe(g) PROVE TypeOK'
    <2>1. PICK k \in DOMAIN idle : KeepOldest(k - 1) /\ open' = open \ Above(k - 1)
      BY <1>4 DEF FailSecondProbe
    <2>2. k - 1 \in 0..Len(idle)
      OBVIOUS
    <2>3. idle' \in Seq(Conns) /\ stale' \in 0..Len(idle') /\ unfit' \subseteq Conns
      BY <2>1, <2>2, KeepOldestTyped
    <2>4. pc' \in [Callers -> Places] /\ Holders' \subseteq Holders
      BY <1>4, MoveAndSignal DEF FailSecondProbe, LeavesLoop, AtLoopHead, HasTurn
    <2>5. QED
      BY <1>4, <2>1, <2>3, <2>4 DEF FailSecondProbe, LeavesLoop, AtLoopHead
  <1>5. ASSUME NEW g \in Callers, StartDial(g) PROVE TypeOK'
    <2>1. idle' \in Seq(Conns) /\ stale' \in 0..Len(idle') /\ unfit' \subseteq Conns
      BY <1>5, KeepOldestTyped, 0 \in 0..Len(idle) DEF StartDial
    <2>2. QED
      BY <1>5, <2>1 DEF StartDial, LeavesLoop, AtLoopHead, Places
  <1>6. ASSUME NEW g \in Callers, RejectLate(g) PROVE TypeOK'
    BY <1>6 DEF RejectLate, LeavesLoop, AtLoopHead, Places
  <1>7. ASSUME NEW g \in Callers, Sleep(g) PROVE TypeOK'
    BY <1>7 DEF Sleep, Places
  <1>8. ASSUME NEW g \in Callers, RejectCancelled(g) PROVE TypeOK'
    BY <1>8 DEF RejectCancelled, Places
  <1>9. ASSUME NEW g \in Callers, DialSucceeds(g) PROVE TypeOK'
    BY <1>9 DEF DialSucceeds, Places
  <1>10. ASSUME NEW g \in Callers, DialFails(g) PROVE TypeOK'
    <2>1. pc' \in [Callers -> Places] /\ Holders' \subseteq Holders \ {g}
      BY <1>10, MoveAndSignal DEF DialFails
    <2>2. \A h \in Holders' : conn'[h] \in Conns
      BY <1>10, <2>1 DEF DialFails
    <2>3. QED
      BY <1>10, <2>1, <2>2 DEF DialFails
  <1>11. ASSUME NEW g \in Callers, Put(g) PROVE TypeOK'
    <2>1. pc' \in [Callers -> Places] /\ Holders' \subseteq Holders \ {g}
      BY <1>11, MoveAndSignal DEF Put
    <2>2. \A h \in Holders' : conn'[h] \in Conns
      BY <1>11, <2>1 DEF Put
    <2>3. idle' \in Seq(Conns) /\ stale' \in 0..Len(idle') /\ open' \subseteq Conns
      <3>1. CASE closed \/ Len(idle) >= MaxIdle
        BY <1>11, <3>1 DEF Put
      <3>2. CASE ~(closed \/ Len(idle) >= MaxIdle)
        <4>1. conn[g] \in Conns /\ Park(conn[g])
          BY <1>11, <3>2 DEF Put
        <4>2. QED
          BY <1>11, <3>2, <4>1, ParkTyped DEF Put
      <3>3. QED
        BY <3>1, <3>2
    <2>4. /\ active' \in Int
          /\ conn' \in [Callers -> Conns \cup {NoConn}]
      BY <1>11 DEF Put, Release
    <2>5. QED
      BY <1>11, <2>1, <2>2, <2>3, <2>4 DEF Put
  <1>12. ASSUME NEW g \in Callers, DiscardClose(g) PROVE TypeOK'
    BY <1>12 DEF DiscardClose, Places
  <1>13. ASSUME NEW g \in Callers, DiscardRelease(g) PROVE TypeOK'
    <2>1. pc' \in [Callers -> Places] /\ Holders' \subseteq Holders \ {g}
      BY <1>13, MoveAndSignal DEF DiscardRelease
    <2>2. \A h \in Holders' : conn'[h] \in Conns
      BY <1>13, <2>1 DEF DiscardRelease
    <2>3. QED
      BY <1>13, <2>1, <2>2 DEF DiscardRelease, Release
  <1>14. CASE Close
    <2>1. pc' \in [Callers -> Places] /\ Holders' = Holders
      BY <1>14, BroadcastWakes DEF Close
    <2>2. QED
      BY <1>14, <2>1, EmptySeq DEF Close
  <1>15. ASSUME NEW g \in Callers, DeadlinePasses(g) PROVE TypeOK'
    BY <1>15 DEF DeadlinePasses
  <1>16. ASSUME NEW G \in SUBSET Cancellable, Cancel(G) PROVE TypeOK'
    BY <1>16 DEF Cancel
  <1>17. ASSUME NEW g \in Callers, TimerFires(g) PROVE TypeOK'
    BY <1>17 DEF TimerFires
  <1>18. ASSUME NEW g \in Callers, TimerBroadcasts(g) PROVE TypeOK'
    <2>1. pc' \in [Callers -> Places] /\ Holders' = Holders
      BY <1>18, BroadcastWakes DEF TimerBroadcasts
    <2>2. QED
      BY <1>18, <2>1 DEF TimerBroadcasts
  <1>19. CASE Expire
    BY <1>19 DEF Expire
  <1>20. ASSUME NEW c \in Conns, PeerEnds(c) PROVE TypeOK'
    BY <1>20 DEF PeerEnds
  <1>21. CASE Reap
    <2>1. CASE closed
      BY <1>21, <2>1 DEF Reap
    <2>2. CASE ~closed
      <3>1. idle' = SubSeq(idle, stale + 1, Len(idle))
        BY <1>21, <2>2 DEF Reap
      <3>2. idle' \in Seq(Conns) /\ Len(idle') \in Nat
        BY <3>1
      <3>3. QED
        BY <1>21, <2>2, <3>2 DEF Reap
    <2>3. QED BY <2>1, <2>2
  <1>22. CASE WarmTick
    BY <1>22 DEF WarmTick
  <1>23. CASE WarmDialSucceeds
    BY <1>23 DEF WarmDialSucceeds
  <1>24. CASE WarmDialFails
    BY <1>24 DEF WarmDialFails
  <1>25. CASE WarmPark
    <2>1. CASE closed \/ Len(idle) >= MaxIdle
      BY <1>25, <2>1 DEF WarmPark
    <2>2. CASE ~(closed \/ Len(idle) >= MaxIdle)
      <3>1. pc' \in [Callers -> Places] /\ Holders' = Holders
        BY <1>25, <2>2, SignalWakes DEF WarmPark
      <3>2. warmConn \in Conns
        BY <1>25 DEF WarmPark
      <3>3. idle' \in Seq(Conns) /\ stale' \in 0..Len(idle')
        <4>1. Park(warmConn)
          BY <1>25, <2>2 DEF WarmPark
        <4>2. QED
          BY <1>25, <3>2, <4>1, ParkTyped DEF WarmPark
      <3>4. QED
        BY <1>25, <2>2, <3>1, <3>2, <3>3 DEF WarmPark
    <2>3. QED BY <2>1, <2>2
  <1>26. CASE UNCHANGED vars
    BY <1>26 DEF vars
  <1>27. QED
    BY <1>1, <1>2, <1>3, <1>4, <1>5, <1>6, <1>7, <1>8, <1>9, <1>10, <1>11,
       <1>12, <1>13, <1>14, <1>15, <1>16, <1>17, <1>18, <1>19, <1>20, <1>21,
       <1>22, <1>23, <1>24, <1>25, <1>26
    DEF Next, CallerStep, TimeStep, WarmStep, GetStep, DialReturns

(* Every variable of the pool keeps its type. *)
THEOREM TypeCorrect == Spec => []TypeOK
  BY TypeInitial, TypePreserved, PTL DEF Spec

-----------------------------------------------------------------------------
(* What one step does to the slots, the idle list and closed.              *)

TakesSlot(g) ==
  /\ g \notin Leased /\ ~closed /\ active < MaxActive
  /\ Leased' = Leased \cup {g} /\ active' = active + 1
  /\ Len(idle') \in 0..Len(idle) /\ closed' = closed

Stores ==
  ~closed /\ Len(idle) < MaxIdle /\ Len(idle') = Len(idle) + 1

ReturnsSlot(g) ==
  /\ g \in Leased
  /\ Leased' = Leased \ {g} /\ (active' = active - 1 \/ active' = Release(active))
  /\ Stores \/ idle' = idle
  /\ closed' = closed

KeepsSlots ==
  /\ Leased' = Leased /\ active' = active
  /\ \/ closed' = closed /\ (Stores \/ Len(idle') \in 0..Len(idle))
     \/ closed' /\ Len(idle') = 0

SlotStep ==
  \/ \E g \in Callers : TakesSlot(g) \/ ReturnsSlot(g)
  \/ KeepsSlots

(* A step takes one slot, gives one back, or leaves the slots alone        *)
(* (SlotStep): the case analysis the theorems on slots and closing rest    *)
(* on.                                                                     *)
LEMMA StepOfSlots ==
  ASSUME TypeOK, [Next]_vars
  PROVE  SlotStep
  <1> USE DEF poolVars, callerVars, timerVars, warmVars
  <1>a. /\ idle \in Seq(Conns) /\ Len(idle) \in Nat /\ stale \in 0..Len(idle)
        /\ pc \in [Callers -> Places]
    BY DEF TypeOK
  <1>b. idle' = idle => Len(idle') \in 0..Len(idle)
    BY <1>a
  <1>1. ASSUME NEW g \in Callers, Get(g) PROVE KeepsSlots
    BY <1>1, <1>a, <1>b DEF Get, KeepsSlots, Leased
  <1>2. ASSUME NEW g \in Callers, RefuseClosed(g) PROVE KeepsSlots
    BY <1>2, <1>a, <1>b DEF RefuseClosed, LeavesLoop, AtLoopHead, HasTurn, KeepsSlots, Leased
  <1>3. ASSUME NEW g \in Callers, Reuse(g) PROVE TakesSlot(g)
    <2>1. PICK k \in DOMAIN idle : KeepOldest(k - 1)
      BY <1>3 DEF Reuse
    <2>2. k - 1 \in 0..Len(idle)
      BY <1>a
    <2>3. Len(idle') \in 0..Len(idle)
      BY <2>1, <2>2, KeepOldestTyped
    <2>4. QED
      BY <1>3, <1>a, <2>3 DEF Reuse, LeavesLoop, AtLoopHead, HasTurn, TakesSlot, Leased
  <1>4. ASSUME NEW g \in Callers, FailSecondProbe(g) PROVE KeepsSlots
    <2>1. PICK k \in DOMAIN idle : KeepOldest(k - 1)
      BY <1>4 DEF FailSecondProbe
    <2>2. k - 1 \in 0..Len(idle)
      BY <1>a
    <2>3. Len(idle') \in 0..Len(idle)
      BY <2>1, <2>2, KeepOldestTyped
    <2>4. Leased' = Leased
      BY <1>4, <1>a, MoveAndSignal DEF FailSecondProbe, LeavesLoop, AtLoopHead, HasTurn, Leased
    <2>5. QED
      BY <1>4, <2>3, <2>4 DEF FailSecondProbe, KeepsSlots
  <1>5. ASSUME NEW g \in Callers, StartDial(g) PROVE TakesSlot(g)
    <2>1. Len(idle') \in 0..Len(idle)
      BY <1>5, <1>a, KeepOldestTyped, 0 \in 0..Len(idle) DEF StartDial
    <2>2. QED
      BY <1>5, <1>a, <2>1 DEF StartDial, LeavesLoop, AtLoopHead, HasTurn, TakesSlot, Leased
  <1>6. ASSUME NEW g \in Callers, RejectLate(g) PROVE KeepsSlots
    BY <1>6, <1>a, <1>b DEF RejectLate, LeavesLoop, AtLoopHead, HasTurn, KeepsSlots, Leased
  <1>7. ASSUME NEW g \in Callers, Sleep(g) PROVE KeepsSlots
    BY <1>7, <1>a, <1>b DEF Sleep, HasTurn, KeepsSlots, Leased
  <1>8. ASSUME NEW g \in Callers, RejectCancelled(g) PROVE KeepsSlots
    BY <1>8, <1>a, <1>b DEF RejectCancelled, KeepsSlots, Leased
  <1>9. ASSUME NEW g \in Callers, DialSucceeds(g) PROVE KeepsSlots
    BY <1>9, <1>a, <1>b DEF DialSucceeds, KeepsSlots, Leased
  <1>10. ASSUME NEW g \in Callers, DialFails(g) PROVE ReturnsSlot(g)
    BY <1>10, <1>a, MoveAndSignal DEF DialFails, ReturnsSlot, Leased
  <1>11. ASSUME NEW g \in Callers, Put(g) PROVE ReturnsSlot(g)
    <2>1. g \in Leased /\ Leased' = Leased \ {g}
      BY <1>11, <1>a, MoveAndSignal DEF Put, Leased
    <2>2. Stores \/ idle' = idle
      <3>1. CASE closed \/ Len(idle) >= MaxIdle
        BY <1>11, <3>1 DEF Put
      <3>2. CASE ~(closed \/ Len(idle) >= MaxIdle)
        <4>1. conn[g] \in Conns /\ Park(conn[g])
          BY <1>11, <3>2 DEF Put, TypeOK, Holders
        <4>2. Len(idle') = Len(idle) + 1
          BY <4>1, ParkTyped
        <4>3. QED
          BY <3>2, <4>2, <1>a, LimitsAssumption DEF Stores
      <3>3. QED
        BY <3>1, <3>2
    <2>3. QED
      BY <1>11, <2>1, <2>2 DEF Put, ReturnsSlot
  <1>12. ASSUME NEW g \in Callers, DiscardClose(g) PROVE KeepsSlots
    BY <1>12, <1>a, <1>b DEF DiscardClose, KeepsSlots, Leased
  <1>13. ASSUME NEW g \in Callers, DiscardRelease(g) PROVE ReturnsSlot(g)
    BY <1>13, <1>a, MoveAndSignal DEF DiscardRelease, ReturnsSlot, Leased
  <1>14. ASSUME Close PROVE KeepsSlots
    <2>1. Leased' = Leased
      BY <1>14, <1>a, BroadcastWakes DEF Close, Leased
    <2>2. Len(idle') = 0
      BY <1>14, EmptySeq DEF Close
    <2>3. QED
      BY <1>14, <2>1, <2>2 DEF Close, KeepsSlots
  <1>15. ASSUME NEW g \in Callers, DeadlinePasses(g) PROVE KeepsSlots
    BY <1>15, <1>b DEF DeadlinePasses, KeepsSlots, Leased
  <1>16. ASSUME NEW G \in SUBSET Cancellable, Cancel(G) PROVE KeepsSlots
    BY <1>16, <1>b DEF Cancel, KeepsSlots, Leased
  <1>17. ASSUME NEW g \in Callers, TimerFires(g) PROVE KeepsSlots
    BY <1>17, <1>b DEF TimerFires, KeepsSlots, Leased
  <1>18. ASSUME NEW g \in Callers, TimerBroadcasts(g) PROVE KeepsSlots
    <2>1. Leased' = Leased
      BY <1>18, <1>a, BroadcastWakes DEF TimerBroadcasts, Leased
    <2>2. QED
      BY <1>18, <1>b, <2>1 DEF TimerBroadcasts, KeepsSlots
  <1>19. ASSUME Expire PROVE KeepsSlots
    BY <1>19, <1>b DEF Expire, KeepsSlots, Leased
  <1>20. ASSUME NEW c \in Conns, PeerEnds(c) PROVE KeepsSlots
    BY <1>20, <1>b DEF PeerEnds, KeepsSlots, Leased
  <1>21. ASSUME Reap PROVE KeepsSlots
    <2>1. CASE closed
      BY <1>21, <1>b, <2>1 DEF Reap, KeepsSlots, Leased
    <2>2. CASE ~closed
      <3>1. idle' = SubSeq(idle, stale + 1, Len(idle))
        BY <1>21, <2>2 DEF Reap
      <3>2. Len(idle') \in 0..Len(idle)
        BY <1>a, <3>1
      <3>3. QED
        BY <1>21, <2>2, <3>2 DEF Reap, KeepsSlots, Leased
    <2>3. QED
      BY <2>1, <2>2
  <1>22. ASSUME WarmTick PROVE KeepsSlots
    BY <1>22, <1>b DEF WarmTick, KeepsSlots, Leased
  <1>23. ASSUME WarmDialSucceeds PROVE KeepsSlots
    BY <1>23, <1>b DEF WarmDialSucceeds, KeepsSlots, Leased
  <1>24. ASSUME WarmDialFails PROVE KeepsSlots
    BY <1>24, <1>b DEF WarmDialFails, KeepsSlots, Leased
  <1>25. ASSUME WarmPark PROVE KeepsSlots
    <2>1. CASE closed \/ Len(idle) >= MaxIdle
      BY <1>25, <1>b, <2>1 DEF WarmPark, KeepsSlots, Leased
    <2>2. CASE ~(closed \/ Len(idle) >= MaxIdle)
      <3>1. Leased' = Leased
        BY <1>25, <1>a, <2>2, SignalWakes DEF WarmPark, Leased
      <3>2. warmConn \in Conns /\ Park(warmConn)
        BY <1>25, <2>2 DEF WarmPark, TypeOK
      <3>3. Stores
        BY <2>2, <3>2, <1>a, ParkTyped, LimitsAssumption DEF Stores
      <3>4. QED
        BY <1>25, <3>1, <3>3 DEF WarmPark, KeepsSlots
    <2>3. QED
      BY <2>1, <2>2
  <1>26. ASSUME UNCHANGED vars PROVE KeepsSlots
    BY <1>26, <1>b DEF vars, KeepsSlots, Leased
  <1>27. QED
    BY <1>1, <1>2, <1>3, <1>4, <1>5, <1>6, <1>7, <1>8, <1>9, <1>10, <1>11,
       <1>12, <1>13, <1>14, <1>15, <1>16, <1>17, <1>18, <1>19, <1>20, <1>21,
       <1>22, <1>23, <1>24, <1>25, <1>26
    DEF SlotStep, Next, CallerStep, TimeStep, WarmStep, GetStep, DialReturns

(* MaxActive bounds the slots in use, and active counts them.              *)
THEOREM SlotsCorrect == Spec => []SlotsAccounted
  <1>1. Init => SlotsAccounted
    <2> SUFFICES ASSUME Init PROVE SlotsAccounted
      OBVIOUS
    <2>1. Leased = {}
      BY DEF Init, Leased
    <2>2. active = 0
      BY DEF Init
    <2>3. QED
      BY <2>1, <2>2, FS_EmptySet, LimitsAssumption DEF SlotsAccounted
  <1>2. TypeOK /\ SlotsAccounted /\ [Next]_vars => SlotsAccounted'
    <2> SUFFICES ASSUME TypeOK, SlotsAccounted, [Next]_vars
                 PROVE  SlotsAccounted'
      OBVIOUS
    <2>1. IsFiniteSet(Leased) /\ Cardinality(Leased) \in Nat
      BY CallersAssumption, FS_Subset, FS_CardinalityType DEF Leased
    <2>2. active = Cardinality(Leased) /\ active \in 0..MaxActive
      BY DEF SlotsAccounted
    <2>3. ASSUME NEW g \in Callers, TakesSlot(g) PROVE SlotsAccounted'
      <3>1. Cardinality(Leased') = Cardinality(Leased) + 1
        BY <2>1, <2>3, FS_AddElement DEF TakesSlot
      <3>2. QED
        BY <2>2, <2>3, <3>1, LimitsAssumption DEF TakesSlot, SlotsAccounted
    <2>4. ASSUME NEW g \in Callers, ReturnsSlot(g) PROVE SlotsAccounted'
      <3>1. Cardinality(Leased') = Cardinality(Leased) - 1
        BY <2>1, <2>4, FS_RemoveElement DEF ReturnsSlot
      <3>2. Cardinality(Leased) > 0
        BY <2>1, <2>4, FS_EmptySet DEF ReturnsSlot
      <3>3. active' = active - 1
        BY <2>2, <2>4, <3>2 DEF ReturnsSlot, Release
      <3>4. QED
        BY <2>1, <2>2, <3>1, <3>2, <3>3, LimitsAssumption DEF SlotsAccounted
    <2>5. CASE KeepsSlots
      BY <2>5 DEF KeepsSlots, SlotsAccounted
    <2>6. QED
      BY <2>3, <2>4, <2>5, StepOfSlots DEF SlotStep
  <1>3. QED
    BY <1>1, <1>2, TypeCorrect, PTL DEF Spec

-----------------------------------------------------------------------------
(* Sleeping callers.  Only Sleep makes a caller wait, and it does so with  *)
(* a timer armed, in an open pool that has no slot free.                   *)

FallsAsleep(g) ==
  /\ ~closed /\ closed' = closed /\ active >= MaxActive /\ active' = active
  /\ Waiting' = Waiting \cup {g}
  /\ armed' = armed \cup {g} /\ firing' = firing

NobodyFallsAsleep ==
  /\ Waiting' \subseteq Waiting
  /\ closed' /\ ~closed => Waiting' = {}
  /\ \A g \in Waiting' : g \in armed \cup firing => g \in armed' \cup firing'

(* Only Sleep adds a sleeper, and whoever wakes keeps no timer of its own: *)
(* the case analysis for sleepers and their timers.                        *)
LEMMA StepOfWaiting ==
  ASSUME TypeOK, [Next]_vars
  PROVE  NobodyFallsAsleep \/ \E g \in Callers : FallsAsleep(g)
  <1> USE DEF poolVars, callerVars, timerVars, warmVars
  <1>a. pc \in [Callers -> Places]
    BY DEF TypeOK
  <1>1. ASSUME NEW g \in Callers, Get(g) PROVE NobodyFallsAsleep
    BY <1>1, <1>a DEF Get, NobodyFallsAsleep, Waiting
  <1>2. ASSUME NEW g \in Callers, RefuseClosed(g) PROVE NobodyFallsAsleep
    BY <1>2, <1>a DEF RefuseClosed, LeavesLoop, AtLoopHead, HasTurn, NobodyFallsAsleep, Waiting
  <1>3. ASSUME NEW g \in Callers, Reuse(g) PROVE NobodyFallsAsleep
    BY <1>3, <1>a DEF Reuse, LeavesLoop, AtLoopHead, HasTurn, NobodyFallsAsleep, Waiting
  <1>4. ASSUME NEW g \in Callers, FailSecondProbe(g) PROVE NobodyFallsAsleep
    BY <1>4, <1>a, MoveAndSignal
    DEF FailSecondProbe, LeavesLoop, AtLoopHead, HasTurn, NobodyFallsAsleep, Waiting
  <1>5. ASSUME NEW g \in Callers, StartDial(g) PROVE NobodyFallsAsleep
    BY <1>5, <1>a DEF StartDial, LeavesLoop, AtLoopHead, HasTurn, NobodyFallsAsleep, Waiting
  <1>6. ASSUME NEW g \in Callers, RejectLate(g) PROVE NobodyFallsAsleep
    BY <1>6, <1>a DEF RejectLate, LeavesLoop, AtLoopHead, HasTurn, NobodyFallsAsleep, Waiting
  <1>7. ASSUME NEW g \in Callers, Sleep(g) PROVE FallsAsleep(g)
    BY <1>7, <1>a DEF Sleep, HasTurn, FallsAsleep, Waiting
  <1>8. ASSUME NEW g \in Callers, RejectCancelled(g) PROVE NobodyFallsAsleep
    BY <1>8, <1>a DEF RejectCancelled, NobodyFallsAsleep, Waiting
  <1>9. ASSUME NEW g \in Callers, DialSucceeds(g) PROVE NobodyFallsAsleep
    BY <1>9, <1>a DEF DialSucceeds, NobodyFallsAsleep, Waiting
  <1>10. ASSUME NEW g \in Callers, DialFails(g) PROVE NobodyFallsAsleep
    BY <1>10, <1>a, MoveAndSignal DEF DialFails, NobodyFallsAsleep, Waiting
  <1>11. ASSUME NEW g \in Callers, Put(g) PROVE NobodyFallsAsleep
    BY <1>11, <1>a, MoveAndSignal DEF Put, NobodyFallsAsleep, Waiting
  <1>12. ASSUME NEW g \in Callers, DiscardClose(g) PROVE NobodyFallsAsleep
    BY <1>12, <1>a DEF DiscardClose, NobodyFallsAsleep, Waiting
  <1>13. ASSUME NEW g \in Callers, DiscardRelease(g) PROVE NobodyFallsAsleep
    BY <1>13, <1>a, MoveAndSignal DEF DiscardRelease, NobodyFallsAsleep, Waiting
  <1>14. ASSUME Close PROVE NobodyFallsAsleep
    BY <1>14, <1>a, BroadcastWakes DEF Close, NobodyFallsAsleep, Waiting
  <1>15. ASSUME NEW g \in Callers, DeadlinePasses(g) PROVE NobodyFallsAsleep
    BY <1>15 DEF DeadlinePasses, NobodyFallsAsleep, Waiting
  <1>16. ASSUME NEW G \in SUBSET Cancellable, Cancel(G) PROVE NobodyFallsAsleep
    BY <1>16 DEF Cancel, NobodyFallsAsleep, Waiting
  <1>17. ASSUME NEW g \in Callers, TimerFires(g) PROVE NobodyFallsAsleep
    BY <1>17 DEF TimerFires, NobodyFallsAsleep, Waiting
  <1>18. ASSUME NEW g \in Callers, TimerBroadcasts(g) PROVE NobodyFallsAsleep
    BY <1>18, <1>a, BroadcastWakes DEF TimerBroadcasts, NobodyFallsAsleep, Waiting
  <1>19. ASSUME Expire PROVE NobodyFallsAsleep
    BY <1>19 DEF Expire, NobodyFallsAsleep, Waiting
  <1>20. ASSUME NEW c \in Conns, PeerEnds(c) PROVE NobodyFallsAsleep
    BY <1>20 DEF PeerEnds, NobodyFallsAsleep, Waiting
  <1>21. ASSUME Reap PROVE NobodyFallsAsleep
    BY <1>21 DEF Reap, NobodyFallsAsleep, Waiting
  <1>22. ASSUME WarmTick PROVE NobodyFallsAsleep
    BY <1>22 DEF WarmTick, NobodyFallsAsleep, Waiting
  <1>23. ASSUME WarmDialSucceeds PROVE NobodyFallsAsleep
    BY <1>23 DEF WarmDialSucceeds, NobodyFallsAsleep, Waiting
  <1>24. ASSUME WarmDialFails PROVE NobodyFallsAsleep
    BY <1>24 DEF WarmDialFails, NobodyFallsAsleep, Waiting
  <1>25. ASSUME WarmPark PROVE NobodyFallsAsleep
    <2>1. Waiting' \subseteq Waiting
      <3>1. CASE closed \/ Len(idle) >= MaxIdle
        BY <1>25, <3>1 DEF WarmPark, Waiting
      <3>2. CASE ~(closed \/ Len(idle) >= MaxIdle)
        BY <1>25, <1>a, <3>2, SignalWakes DEF WarmPark, Waiting
      <3>3. QED
        BY <3>1, <3>2
    <2>2. QED
      BY <1>25, <2>1 DEF WarmPark, NobodyFallsAsleep
  <1>26. ASSUME UNCHANGED vars PROVE NobodyFallsAsleep
    BY <1>26 DEF vars, NobodyFallsAsleep, Waiting
  <1>27. QED
    BY <1>1, <1>2, <1>3, <1>4, <1>5, <1>6, <1>7, <1>8, <1>9, <1>10, <1>11,
       <1>12, <1>13, <1>14, <1>15, <1>16, <1>17, <1>18, <1>19, <1>20, <1>21,
       <1>22, <1>23, <1>24, <1>25, <1>26
    DEF Next, CallerStep, TimeStep, WarmStep, GetStep, DialReturns

(* After Close nothing is parked and nobody sleeps.                        *)
THEOREM ClosedCorrect == Spec => []ClosedKeepsNothing
  <1>1. Init => ClosedKeepsNothing
    BY DEF Init, ClosedKeepsNothing
  <1>2. TypeOK /\ ClosedKeepsNothing /\ [Next]_vars => ClosedKeepsNothing'
    <2> SUFFICES ASSUME TypeOK, ClosedKeepsNothing, [Next]_vars, closed'
                 PROVE  idle' = <<>> /\ Waiting' = {}
      BY DEF ClosedKeepsNothing
    <2>1. idle' \in Seq(Conns) /\ idle \in Seq(Conns)
      BY TypePreserved DEF TypeOK
    <2>2. closed => idle = <<>> /\ Len(idle) = 0 /\ Waiting = {}
      BY EmptySeq DEF ClosedKeepsNothing
    <2>3. idle' = <<>>
      <3>1. ASSUME NEW g \in Callers, TakesSlot(g) PROVE FALSE
        BY <3>1 DEF TakesSlot
      <3>2. ASSUME NEW g \in Callers, ReturnsSlot(g) PROVE idle' = <<>>
        BY <2>2, <3>2 DEF ReturnsSlot, Stores
      <3>3. ASSUME KeepsSlots PROVE idle' = <<>>
        <4>1. CASE Len(idle') = 0
          BY <2>1, <4>1, EmptySeq
        <4>2. CASE closed' = closed /\ Len(idle') \in 0..Len(idle)
          <5>1. Len(idle) = 0
            BY <2>2, <4>2
          <5>2. Len(idle') = 0
            BY <4>2, <5>1
          <5>3. QED
            BY <2>1, <5>2, EmptySeq
        <4>3. CASE closed' = closed /\ Stores
          BY <4>3 DEF Stores
        <4>4. QED
          BY <3>3, <4>1, <4>2, <4>3 DEF KeepsSlots
      <3>4. QED
        BY <3>1, <3>2, <3>3, StepOfSlots DEF SlotStep
    <2>4. Waiting' = {}
      BY <2>2, StepOfWaiting DEF NobodyFallsAsleep, FallsAsleep
    <2>5. QED
      BY <2>3, <2>4
  <1>3. QED
    BY <1>1, <1>2, TypeCorrect, PTL DEF Spec

(* Whoever sleeps has a timer running or fired.                            *)
THEOREM TimersCorrect == Spec => []SleepersAreTimed
  <1>1. Init => SleepersAreTimed
    BY DEF Init, SleepersAreTimed, Waiting
  <1>2. TypeOK /\ SleepersAreTimed /\ [Next]_vars => SleepersAreTimed'
    BY StepOfWaiting DEF SleepersAreTimed, NobodyFallsAsleep, FallsAsleep
  <1>3. QED
    BY <1>1, <1>2, TypeCorrect, PTL DEF Spec

-----------------------------------------------------------------------------
(* Wake-ups.  A step that frees a slot wakes a waiter if there is one; a   *)
(* step that takes a wake-up away takes a slot with it, or finds none      *)
(* free, or leaves nobody waiting.                                         *)

NoSlotLost ==
  \/ Waiting' = {}
  \/ active' >= MaxActive
  \/ active' = active /\ Waiting' \subseteq Waiting /\ Awake \subseteq Awake'
  \/ /\ active' = active + 1 /\ Waiting' \subseteq Waiting
     /\ \E g \in Callers : Awake \ {g} \subseteq Awake'
  \/ /\ active' \in {active - 1, Release(active)} /\ Waiting' \subseteq Waiting
     /\ \E w \in Waiting : Awake \cup {w} \subseteq Awake'

(* A done context stays done. *)
LEMMA CancelledGrows == [Next]_vars => cancelled \subseteq cancelled'
  BY DEF Next, CallerStep, TimeStep, WarmStep, GetStep, DialReturns, vars,
         Get, RefuseClosed, Reuse, FailSecondProbe, StartDial, RejectLate, Sleep,
         RejectCancelled, DialSucceeds, DialFails, Put, DiscardClose,
         DiscardRelease, Close, DeadlinePasses, Cancel, TimerFires,
         TimerBroadcasts, Expire, PeerEnds, Reap, WarmTick, WarmDialSucceeds,
         WarmDialFails, WarmPark, LeavesLoop, AtLoopHead, timerVars

(* A caller that gives a slot back and signals leaves no slot unattended.  *)
LEMMA FreeingWakes ==
  ASSUME pc \in [Callers -> Places], NEW g \in Callers,
         pc[g] \in {"dial", "hold", "drop"},
         pc' \in Signal([pc EXCEPT ![g] = "out"])
  PROVE  /\ Waiting' \subseteq Waiting
         /\ Waiting' = {} \/ \E w \in Waiting : Awake \cup {w} \subseteq Awake'
  <1>1. /\ pc'[g] = "out"
        /\ \A h \in Callers \ {g} :
             pc'[h] = pc[h] \/ (pc[h] = "wait" /\ pc'[h] = "woken")
        /\ Waiting # {} => \E w \in Callers \ {g} : pc[w] = "wait" /\ pc'[w] = "woken"
    BY MoveAndSignal
  <1>2. Waiting' \subseteq Waiting /\ Awake \subseteq Awake'
    BY <1>1 DEF Waiting, Awake
  <1>3. CASE Waiting = {}
    BY <1>2, <1>3
  <1>4. CASE Waiting # {}
    BY <1>1, <1>2, <1>4 DEF Waiting, Awake
  <1>5. QED
    BY <1>2, <1>3, <1>4

(* Every step of the pool keeps the balance of free slots and wake-ups.    *)
LEMMA StepOfWakeups ==
  ASSUME TypeOK, SlotsAccounted, ClosedKeepsNothing, cancelled = {}, [Next]_vars
  PROVE  NoSlotLost
  <1> USE DEF poolVars, callerVars, timerVars, warmVars
  <1>a. pc \in [Callers -> Places] /\ active \in Nat
    BY LimitsAssumption DEF TypeOK, SlotsAccounted
  <1>1. ASSUME NEW g \in Callers, Get(g) PROVE NoSlotLost
    BY <1>1, <1>a DEF Get, NoSlotLost, Waiting, Awake
  <1>2. ASSUME NEW g \in Callers, RefuseClosed(g) PROVE NoSlotLost
    BY <1>2, <1>a DEF RefuseClosed, LeavesLoop, AtLoopHead, HasTurn, NoSlotLost, Waiting,
                      ClosedKeepsNothing
  <1>3. ASSUME NEW g \in Callers, Reuse(g) PROVE NoSlotLost
    BY <1>3, <1>a DEF Reuse, LeavesLoop, AtLoopHead, HasTurn, NoSlotLost, Waiting, Awake
  <1>4. ASSUME NEW g \in Callers, FailSecondProbe(g) PROVE NoSlotLost
    BY <1>4, <1>a, MoveAndSignal
    DEF FailSecondProbe, LeavesLoop, AtLoopHead, HasTurn, NoSlotLost, Waiting, Awake
  <1>5. ASSUME NEW g \in Callers, StartDial(g) PROVE NoSlotLost
    BY <1>5, <1>a DEF StartDial, LeavesLoop, AtLoopHead, HasTurn, NoSlotLost, Waiting, Awake
  <1>6. ASSUME NEW g \in Callers, RejectLate(g) PROVE NoSlotLost
    BY <1>6 DEF RejectLate, NoSlotLost
  <1>7. ASSUME NEW g \in Callers, Sleep(g) PROVE NoSlotLost
    BY <1>7 DEF Sleep, NoSlotLost
  <1>8. ASSUME NEW g \in Callers, RejectCancelled(g) PROVE NoSlotLost
    BY <1>8 DEF RejectCancelled
  <1>9. ASSUME NEW g \in Callers, DialSucceeds(g) PROVE NoSlotLost
    BY <1>9, <1>a DEF DialSucceeds, NoSlotLost, Waiting, Awake
  <1>10. ASSUME NEW g \in Callers, DialFails(g) PROVE NoSlotLost
    BY <1>10, <1>a, FreeingWakes DEF DialFails, NoSlotLost
  <1>11. ASSUME NEW g \in Callers, Put(g) PROVE NoSlotLost
    BY <1>11, <1>a, FreeingWakes DEF Put, NoSlotLost
  <1>12. ASSUME NEW g \in Callers, DiscardClose(g) PROVE NoSlotLost
    BY <1>12, <1>a DEF DiscardClose, NoSlotLost, Waiting, Awake
  <1>13. ASSUME NEW g \in Callers, DiscardRelease(g) PROVE NoSlotLost
    BY <1>13, <1>a, FreeingWakes DEF DiscardRelease, NoSlotLost
  <1>14. ASSUME Close PROVE NoSlotLost
    BY <1>14, <1>a, BroadcastWakes DEF Close, NoSlotLost, Waiting
  <1>15. ASSUME NEW g \in Callers, DeadlinePasses(g) PROVE NoSlotLost
    BY <1>15 DEF DeadlinePasses, NoSlotLost, Waiting, Awake
  <1>16. ASSUME NEW G \in SUBSET Cancellable, Cancel(G) PROVE NoSlotLost
    BY <1>16 DEF Cancel, NoSlotLost, Waiting, Awake
  <1>17. ASSUME NEW g \in Callers, TimerFires(g) PROVE NoSlotLost
    BY <1>17 DEF TimerFires, NoSlotLost, Waiting, Awake
  <1>18. ASSUME NEW g \in Callers, TimerBroadcasts(g) PROVE NoSlotLost
    BY <1>18, <1>a, BroadcastWakes DEF TimerBroadcasts, NoSlotLost, Waiting
  <1>19. ASSUME Expire PROVE NoSlotLost
    BY <1>19 DEF Expire, NoSlotLost, Waiting, Awake
  <1>20. ASSUME NEW c \in Conns, PeerEnds(c) PROVE NoSlotLost
    BY <1>20 DEF PeerEnds, NoSlotLost, Waiting, Awake
  <1>21. ASSUME Reap PROVE NoSlotLost
    BY <1>21 DEF Reap, NoSlotLost, Waiting, Awake
  <1>22. ASSUME WarmTick PROVE NoSlotLost
    BY <1>22 DEF WarmTick, NoSlotLost, Waiting, Awake
  <1>23. ASSUME WarmDialSucceeds PROVE NoSlotLost
    BY <1>23 DEF WarmDialSucceeds, NoSlotLost, Waiting, Awake
  <1>24. ASSUME WarmDialFails PROVE NoSlotLost
    BY <1>24 DEF WarmDialFails, NoSlotLost, Waiting, Awake
  <1>25. ASSUME WarmPark PROVE NoSlotLost
    <2>1. active' = active
      BY <1>25 DEF WarmPark
    <2>2. Waiting' \subseteq Waiting /\ Awake \subseteq Awake'
      <3>1. CASE closed \/ Len(idle) >= MaxIdle
        BY <1>25, <3>1 DEF WarmPark, Waiting, Awake
      <3>2. CASE ~(closed \/ Len(idle) >= MaxIdle)
        BY <1>25, <1>a, <3>2, SignalWakes DEF WarmPark, Waiting, Awake
      <3>3. QED
        BY <3>1, <3>2
    <2>3. QED
      BY <2>1, <2>2 DEF NoSlotLost
  <1>26. ASSUME UNCHANGED vars PROVE NoSlotLost
    BY <1>26 DEF vars, NoSlotLost, Waiting, Awake
  <1>27. QED
    BY <1>1, <1>2, <1>3, <1>4, <1>5, <1>6, <1>7, <1>8, <1>9, <1>10, <1>11,
       <1>12, <1>13, <1>14, <1>15, <1>16, <1>17, <1>18, <1>19, <1>20, <1>21,
       <1>22, <1>23, <1>24, <1>25, <1>26
    DEF Next, CallerStep, TimeStep, WarmStep, GetStep, DialReturns

(* Without cancelled contexts a waiter does not sleep beside a free slot   *)
(* that nobody is about to look at.                                        *)
THEOREM WakeupsCorrect == Spec => []NoStrandedWaiter
  <1>1. Init => NoStrandedWaiter
    BY DEF Init, NoStrandedWaiter, Waiting
  <1>2. ASSUME TypeOK, SlotsAccounted, ClosedKeepsNothing, NoStrandedWaiter, [Next]_vars
        PROVE  NoStrandedWaiter'
    <2> SUFFICES ASSUME cancelled' = {}, Waiting' # {}
                 PROVE  Cardinality(Awake') >= MaxActive - active'
      BY DEF NoStrandedWaiter
    <2>1. cancelled = {}
      <3>1. cancelled \subseteq cancelled'
        BY <1>2, CancelledGrows
      <3>2. QED
        BY <3>1
    <2>2. /\ IsFiniteSet(Awake) /\ Cardinality(Awake) \in Nat
          /\ IsFiniteSet(Awake') /\ Cardinality(Awake') \in Nat
      BY CallersAssumption, FS_Subset, FS_CardinalityType DEF Awake
    <2>3. active \in 0..MaxActive /\ MaxActive \in Nat
      BY <1>2, LimitsAssumption DEF SlotsAccounted
    <2>4. Waiting # {} => Cardinality(Awake) >= MaxActive - active
      BY <1>2, <2>1 DEF NoStrandedWaiter
    <2>5. CASE active' >= MaxActive
      <3>1. active' \in Int
        BY <1>2, TypePreserved DEF TypeOK
      <3>2. QED
        BY <2>2, <2>3, <2>5, <3>1
    <2>6. CASE active' = active /\ Waiting' \subseteq Waiting /\ Awake \subseteq Awake'
      <3>1. Cardinality(Awake) <= Cardinality(Awake')
        BY <2>2, <2>6, FS_Subset
      <3>2. QED
        BY <2>2, <2>3, <2>4, <2>6, <3>1
    <2>7. CASE /\ active' = active + 1 /\ Waiting' \subseteq Waiting
               /\ \E g \in Callers : Awake \ {g} \subseteq Awake'
      <3>1. PICK g \in Callers : Awake \ {g} \subseteq Awake'
        BY <2>7
      <3>2. \/ Cardinality(Awake \ {g}) = Cardinality(Awake) - 1
            \/ Cardinality(Awake \ {g}) = Cardinality(Awake)
        BY <2>2, FS_RemoveElement
      <3>3. /\ IsFiniteSet(Awake \ {g}) /\ Cardinality(Awake \ {g}) \in Nat
            /\ Cardinality(Awake \ {g}) <= Cardinality(Awake')
        BY <2>2, <3>1, FS_Subset, FS_RemoveElement, FS_CardinalityType
      <3>4. QED
        BY <2>2, <2>3, <2>4, <2>7, <3>2, <3>3
    <2>8. CASE /\ active' \in {active - 1, Release(active)} /\ Waiting' \subseteq Waiting
               /\ \E w \in Waiting : Awake \cup {w} \subseteq Awake'
      <3>1. PICK w \in Waiting : Awake \cup {w} \subseteq Awake'
        BY <2>8
      <3>2. w \notin Awake
        BY DEF Waiting, Awake
      <3>3. Cardinality(Awake \cup {w}) = Cardinality(Awake) + 1
        BY <2>2, <3>2, FS_AddElement
      <3>4. Cardinality(Awake \cup {w}) <= Cardinality(Awake')
        BY <2>2, <3>1, FS_Subset
      <3>5. active' >= active - 1 /\ active' \in Int
        BY <2>3, <2>8 DEF Release
      <3>6. QED
        BY <2>2, <2>3, <2>4, <3>1, <3>3, <3>4, <3>5
    <2>9. QED
      BY <1>2, <2>1, <2>5, <2>6, <2>7, <2>8, StepOfWakeups DEF NoSlotLost
  <1>3. QED
    BY <1>1, <1>2, TypeCorrect, SlotsCorrect, ClosedCorrect, PTL DEF Spec

-----------------------------------------------------------------------------
(* The pool implements PoolBudget: every step of it leases or returns a    *)
(* slot, stores or removes connections, shuts the pool, or does nothing    *)
(* PoolBudget can see.                                                     *)
THEOREM BudgetRefined == Spec => KeepsBudget
  <1>1. Init => Budget!Init
    <2> SUFFICES ASSUME Init PROVE Budget!Init
      OBVIOUS
    <2>1. Leased = {}
      BY DEF Init, Leased
    <2>2. Len(idle) = 0
      BY EmptySeq DEF Init
    <2>3. QED
      BY <2>1, <2>2 DEF Init, Budget!Init
  <1>2. TypeOK /\ TypeOK' /\ SlotsAccounted /\ [Next]_vars
          => [Budget!Next]_Budget!budget
    <2> SUFFICES ASSUME TypeOK, TypeOK', SlotsAccounted, [Next]_vars
                 PROVE  Budget!Next
      OBVIOUS
    <2>1. ASSUME NEW g \in Callers, TakesSlot(g) PROVE Budget!Next
      <3>1. Budget!Cardinality(Leased) < MaxActive
        <4>1. Budget!Cardinality(Leased) = Cardinality(Leased)
          BY DEF Budget!Cardinality, Cardinality
        <4>2. QED
          BY <2>1, <4>1 DEF TakesSlot, SlotsAccounted
      <3>2. Budget!Lease(g)
        BY <2>1, <3>1 DEF TakesSlot, Budget!Lease
      <3>3. QED
        BY <3>2 DEF Budget!Next
    <2>2. ASSUME NEW g \in Callers, ReturnsSlot(g) PROVE Budget!Next
      <3>1. CASE idle' = idle
        BY <2>2, <3>1 DEF ReturnsSlot, Budget!Return, Budget!Next
      <3>2. CASE Stores
        BY <2>2, <3>2 DEF ReturnsSlot, Stores, Budget!Return, Budget!Next
      <3>3. QED
        BY <2>2, <3>1, <3>2 DEF ReturnsSlot
    <2>3. CASE KeepsSlots
      <3>1. CASE closed' = closed /\ Stores
        BY <2>3, <3>1 DEF KeepsSlots, Stores, Budget!Store, Budget!Next
      <3>2. CASE closed' = closed /\ Len(idle') \in 0..Len(idle)
        BY <2>3, <3>2 DEF KeepsSlots, Budget!Remove, Budget!Next
      <3>3. CASE closed' /\ Len(idle') = 0
        <4>1. closed' = TRUE
          BY <3>3 DEF TypeOK
        <4>2. QED
          BY <2>3, <3>3, <4>1 DEF KeepsSlots, Budget!Shut, Budget!Next
      <3>4. QED
        BY <2>3, <3>1, <3>2, <3>3 DEF KeepsSlots
    <2>4. QED
      BY <2>1, <2>2, <2>3, StepOfSlots DEF SlotStep
  <1>3. QED
    BY <1>1, <1>2, TypeCorrect, SlotsCorrect, PTL
    DEF Spec, KeepsBudget, Budget!Spec

-----------------------------------------------------------------------------
(* Ownership of connections. *)

Distinct == \A i, j \in DOMAIN idle : i # j => idle[i] # idle[j]

(* Cutting the idle list off at k leaves the first k entries, all          *)
(* different.                                                              *)
LEMMA KeepOldestOwns ==
  ASSUME TypeOK, Distinct, NEW k \in 0..Len(idle), KeepOldest(k)
  PROVE  Distinct' /\ Parked' = Parked \ Above(k) /\ Above(k) \subseteq Parked
  <1>1. idle \in Seq(Conns) /\ Len(idle) \in Nat /\ DOMAIN idle = 1..Len(idle)
    BY DEF TypeOK
  <1>2. /\ idle' \in Seq(Conns) /\ DOMAIN idle' = 1..k
        /\ \A i \in 1..k : idle'[i] = idle[i]
    BY KeepOldestTyped
  <1>3. Distinct'
    BY <1>1, <1>2 DEF Distinct
  <1>4. Above(k) \subseteq Parked
    BY <1>1 DEF Above, Parked
  <1>5. Parked' \subseteq Parked \ Above(k)
    BY <1>1, <1>2 DEF Above, Parked, Distinct
  <1>6. Parked \ Above(k) \subseteq Parked'
    BY <1>1, <1>2 DEF Above, Parked
  <1>7. QED
    BY <1>3, <1>4, <1>5, <1>6

(* Appending a connection that is not parked keeps the entries different.  *)
LEMMA ParkOwns ==
  ASSUME TypeOK, Distinct, NEW c \in Conns, c \notin Parked, Park(c)
  PROVE  Distinct' /\ Parked' = Parked \cup {c}
  <1>1. idle \in Seq(Conns) /\ Len(idle) \in Nat /\ DOMAIN idle = 1..Len(idle)
    BY DEF TypeOK
  <1>2. /\ DOMAIN idle' = 1..Len(idle) + 1
        /\ \A i \in 1..Len(idle) : idle'[i] = idle[i]
        /\ idle'[Len(idle) + 1] = c
    BY ParkTyped
  <1>3. \A i \in 1..Len(idle) : idle[i] # c
    BY <1>1 DEF Parked
  <1>4. Distinct'
    BY <1>1, <1>2, <1>3 DEF Distinct
  <1>5. Parked' \subseteq Parked \cup {c}
    BY <1>1, <1>2 DEF Parked
  <1>6. Parked \subseteq Parked' /\ c \in Parked'
    BY <1>1, <1>2 DEF Parked
  <1>7. QED
    BY <1>4, <1>5, <1>6

(* Taking the expired entries off the front keeps the others, all          *)
(* different.                                                              *)
LEMMA ReapOwns ==
  ASSUME TypeOK, Distinct, idle' = SubSeq(idle, stale + 1, Len(idle))
  PROVE  Distinct' /\ Parked' = Parked \ {idle[i] : i \in 1..stale}
  <1>1. /\ idle \in Seq(Conns) /\ Len(idle) \in Nat /\ DOMAIN idle = 1..Len(idle)
        /\ stale \in 0..Len(idle)
    BY DEF TypeOK
  <1>2. /\ idle' \in Seq(Conns) /\ Len(idle') = Len(idle) - stale
        /\ \A i \in 1..Len(idle) - stale : idle'[i] = idle[i + stale]
    BY <1>1
  <1>3. DOMAIN idle' = 1..Len(idle) - stale
    BY <1>2
  <1>4. Distinct'
    <2> SUFFICES ASSUME NEW i \in DOMAIN idle', NEW j \in DOMAIN idle', i # j
                 PROVE  idle'[i] # idle'[j]
      BY DEF Distinct
    <2>1. i \in 1..Len(idle) - stale /\ j \in 1..Len(idle) - stale
      BY <1>3
    <2>2. i + stale \in DOMAIN idle /\ j + stale \in DOMAIN idle /\ i + stale # j + stale
      BY <1>1, <2>1
    <2>3. idle[i + stale] # idle[j + stale]
      BY <2>2 DEF Distinct
    <2>4. QED
      BY <1>2, <2>1, <2>3
  <1>5. ASSUME NEW c \in Parked' PROVE c \in Parked \ {idle[i] : i \in 1..stale}
    <2>1. PICK n \in 1..Len(idle) - stale : c = idle[n + stale]
      BY <1>2, <1>3 DEF Parked
    <2>2. n + stale \in DOMAIN idle /\ n + stale \notin 1..stale
      BY <1>1
    <2>3. c \in Parked
      BY <2>1, <2>2 DEF Parked
    <2>4. \A m \in 1..stale : idle[m] # c
      <3>1. 1..stale \subseteq DOMAIN idle
        BY <1>1
      <3>2. QED
        BY <2>1, <2>2, <3>1 DEF Distinct
    <2>5. QED
      BY <2>3, <2>4
  <1>6. ASSUME NEW c \in Parked \ {idle[i] : i \in 1..stale} PROVE c \in Parked'
    <2>1. PICK i \in 1..Len(idle) : c = idle[i] /\ i \notin 1..stale
      BY <1>1 DEF Parked
    <2>2. i - stale \in 1..Len(idle) - stale /\ (i - stale) + stale = i
      BY <1>1, <2>1
    <2>3. QED
      BY <1>2, <1>3, <2>1, <2>2 DEF Parked
  <1>7. QED
    BY <1>4, <1>5, <1>6

(* A caller that lets go of its connection and signals.                    *)
LEMMA HolderLeaves ==
  ASSUME TypeOK, OneOwner, NEW g \in Callers, pc[g] = "hold",
         Holders' = Holders \ {g}, conn' = [conn EXCEPT ![g] = NoConn]
  PROVE  /\ Held' = Held \ {conn[g]} /\ conn[g] \in Held
         /\ \A h1, h2 \in Holders' : h1 # h2 => conn'[h1] # conn'[h2]
  BY DEF TypeOK, OneOwner, Held, Holders

LEMMA HolderArrives ==
  ASSUME TypeOK, OneOwner, NEW g \in Callers, g \notin Holders, NEW c \in Conns,
         c \notin Held, Holders' = Holders \cup {g}, conn' = [conn EXCEPT ![g] = c]
  PROVE  /\ Held' = Held \cup {c}
         /\ \A h1, h2 \in Holders' : h1 # h2 => conn'[h1] # conn'[h2]
  BY DEF TypeOK, OneOwner, Held, Holders

(* If nobody gains or loses a connection, nobody's ownership changes.      *)
LEMMA OwnersSame ==
  ASSUME OneOwner, idle' = idle, open' = open, conn' = conn, Holders' = Holders,
         Warmed' = Warmed
  PROVE  OneOwner'
  BY DEF OneOwner, Parked, Held

(* Closing some parked connections leaves the other owners as they were.   *)
LEMMA OwnersLoseParked ==
  ASSUME OneOwner, NEW D \in SUBSET Parked, Distinct', Parked' = Parked \ D,
         open' = open \ D, conn' = conn, Holders' = Holders, Warmed' = Warmed
  PROVE  OneOwner'
  <1>1. Held' = Held
    BY DEF Held
  <1>2. QED
    BY <1>1 DEF OneOwner, Distinct

(* Every step moves a connection between owners, opens it or closes it,    *)
(* and never duplicates or drops one.                                      *)
LEMMA OwnersStep ==
  ASSUME TypeOK, OneOwner, [Next]_vars
  PROVE  OneOwner'
  <1> USE DEF poolVars, callerVars, timerVars, warmVars
  <1>a. /\ idle \in Seq(Conns) /\ Len(idle) \in Nat /\ DOMAIN idle = 1..Len(idle)
        /\ pc \in [Callers -> Places] /\ Distinct
    BY DEF TypeOK, OneOwner, Distinct
  <1>1. ASSUME NEW g \in Callers, Get(g) PROVE OneOwner'
    BY <1>1, <1>a, OwnersSame DEF Get, Holders, Warmed
  <1>2. ASSUME NEW g \in Callers, RefuseClosed(g) PROVE OneOwner'
    BY <1>2, <1>a, OwnersSame DEF RefuseClosed, LeavesLoop, AtLoopHead, HasTurn, Holders, Warmed
  <1>3. ASSUME NEW g \in Callers, Reuse(g) PROVE OneOwner'
    <2>1. PICK k \in DOMAIN idle :
            /\ KeepOldest(k - 1) /\ open' = open \ Above(k)
            /\ conn' = [conn EXCEPT ![g] = idle[k]]
      BY <1>3 DEF Reuse
    <2>2. k - 1 \in 0..Len(idle) /\ idle[k] \in Parked /\ idle[k] \in Conns
      BY <1>a DEF Parked
    <2>3. Distinct' /\ Parked' = Parked \ Above(k - 1) /\ Above(k - 1) \subseteq Parked
      BY <2>1, <2>2, KeepOldestOwns, <1>a
    <2>4. Above(k - 1) = Above(k) \cup {idle[k]} /\ idle[k] \notin Above(k)
      BY <1>a DEF Above, Distinct
    <2>5. Holders' = Holders \cup {g} /\ g \notin Holders /\ Warmed' = Warmed
      BY <1>3, <1>a DEF Reuse, LeavesLoop, AtLoopHead, HasTurn, Holders, Warmed
    <2>6. idle[k] \notin Held /\ idle[k] \notin Warmed
      BY <2>2 DEF OneOwner
    <2>7. /\ Held' = Held \cup {idle[k]}
          /\ \A h1, h2 \in Holders' : h1 # h2 => conn'[h1] # conn'[h2]
      BY <2>1, <2>2, <2>5, <2>6, HolderArrives
    <2>8. QED
      BY <2>1, <2>2, <2>3, <2>4, <2>5, <2>6, <2>7 DEF OneOwner, Distinct
  <1>4. ASSUME NEW g \in Callers, FailSecondProbe(g) PROVE OneOwner'
    <2>1. PICK k \in DOMAIN idle : KeepOldest(k - 1) /\ open' = open \ Above(k - 1)
      BY <1>4 DEF FailSecondProbe
    <2>2. k - 1 \in 0..Len(idle)
      BY <1>a
    <2>3. Distinct' /\ Parked' = Parked \ Above(k - 1) /\ Above(k - 1) \subseteq Parked
      BY <2>1, <2>2, KeepOldestOwns, <1>a
    <2>4. Holders' = Holders /\ Warmed' = Warmed /\ conn' = conn
      BY <1>4, <1>a, MoveAndSignal
      DEF FailSecondProbe, LeavesLoop, AtLoopHead, HasTurn, Holders, Warmed
    <2>5. QED
      BY <2>1, <2>3, <2>4, OwnersLoseParked
  <1>5. ASSUME NEW g \in Callers, StartDial(g) PROVE OneOwner'
    <2>1. Distinct' /\ Parked' = Parked \ Above(0) /\ Above(0) \subseteq Parked
      BY <1>5, <1>a, KeepOldestOwns, 0 \in 0..Len(idle) DEF StartDial
    <2>2. Holders' = Holders /\ Warmed' = Warmed /\ conn' = conn /\ open' = open \ Above(0)
      BY <1>5, <1>a DEF StartDial, LeavesLoop, AtLoopHead, HasTurn, Holders, Warmed
    <2>3. QED
      BY <2>1, <2>2, OwnersLoseParked
  <1>6. ASSUME NEW g \in Callers, RejectLate(g) PROVE OneOwner'
    BY <1>6, <1>a, OwnersSame DEF RejectLate, LeavesLoop, AtLoopHead, HasTurn, Holders, Warmed
  <1>7. ASSUME NEW g \in Callers, Sleep(g) PROVE OneOwner'
    BY <1>7, <1>a, OwnersSame DEF Sleep, HasTurn, Holders, Warmed
  <1>8. ASSUME NEW g \in Callers, RejectCancelled(g) PROVE OneOwner'
    BY <1>8, <1>a, OwnersSame DEF RejectCancelled, Holders, Warmed
  <1>9. ASSUME NEW g \in Callers, DialSucceeds(g) PROVE OneOwner'
    <2>1. PICK c \in Conns \ open :
            open' = open \cup {c} /\ conn' = [conn EXCEPT ![g] = c]
      BY <1>9 DEF DialSucceeds
    <2>2. c \notin Held /\ c \notin Parked /\ c \notin Warmed
      BY DEF OneOwner
    <2>3. /\ Holders' = Holders \cup {g} /\ g \notin Holders /\ Warmed' = Warmed
          /\ idle' = idle
      BY <1>9, <1>a DEF DialSucceeds, Holders, Warmed
    <2>4. /\ Held' = Held \cup {c}
          /\ \A h1, h2 \in Holders' : h1 # h2 => conn'[h1] # conn'[h2]
      BY <2>1, <2>2, <2>3, HolderArrives
    <2>5. Parked' = Parked
      BY <2>3 DEF Parked
    <2>6. QED
      BY <2>1, <2>2, <2>3, <2>4, <2>5 DEF OneOwner
  <1>10. ASSUME NEW g \in Callers, DialFails(g) PROVE OneOwner'
    <2>1. Holders' = Holders
      BY <1>10, <1>a, MoveAndSignal DEF DialFails, Holders
    <2>2. QED
      BY <1>10, <2>1, OwnersSame DEF DialFails, Warmed
  <1>11. ASSUME NEW g \in Callers, Put(g) PROVE OneOwner'
    <2>1. /\ pc[g] = "hold" /\ conn' = [conn EXCEPT ![g] = NoConn] /\ Warmed' = Warmed
          /\ conn[g] \in Conns
      BY <1>11 DEF Put, Warmed, TypeOK, Holders
    <2>2. Holders' = Holders \ {g}
      BY <1>11, <1>a, MoveAndSignal DEF Put, Holders
    <2>3. /\ Held' = Held \ {conn[g]} /\ conn[g] \in Held
          /\ \A h1, h2 \in Holders' : h1 # h2 => conn'[h1] # conn'[h2]
      BY <2>1, <2>2, HolderLeaves
    <2>4. conn[g] \notin Parked /\ conn[g] \notin Warmed
      BY <2>3 DEF OneOwner
    <2>5. CASE closed \/ Len(idle) >= MaxIdle
      <3>1. idle' = idle /\ open' = open \ {conn[g]}
        BY <1>11, <2>5 DEF Put
      <3>2. Parked' = Parked
        BY <3>1 DEF Parked
      <3>3. QED
        BY <2>1, <2>3, <2>4, <3>1, <3>2 DEF OneOwner
    <2>6. CASE ~(closed \/ Len(idle) >= MaxIdle)
      <3>1. Park(conn[g]) /\ open' = open
        BY <1>11, <2>6 DEF Put
      <3>2. Distinct' /\ Parked' = Parked \cup {conn[g]}
        BY <2>1, <2>4, <3>1, <1>a, ParkOwns
      <3>3. QED
        BY <2>1, <2>3, <2>4, <3>1, <3>2 DEF OneOwner, Distinct
    <2>7. QED
      BY <2>5, <2>6
  <1>12. ASSUME NEW g \in Callers, DiscardClose(g) PROVE OneOwner'
    <2>1. /\ pc[g] = "hold" /\ conn' = [conn EXCEPT ![g] = NoConn] /\ Warmed' = Warmed
          /\ Holders' = Holders \ {g} /\ idle' = idle /\ open' = open \ {conn[g]}
      BY <1>12, <1>a DEF DiscardClose, Warmed, Holders
    <2>2. /\ Held' = Held \ {conn[g]} /\ conn[g] \in Held
          /\ \A h1, h2 \in Holders' : h1 # h2 => conn'[h1] # conn'[h2]
      BY <2>1, HolderLeaves
    <2>3. Parked' = Parked
      BY <2>1 DEF Parked
    <2>4. QED
      BY <2>1, <2>2, <2>3 DEF OneOwner
  <1>13. ASSUME NEW g \in Callers, DiscardRelease(g) PROVE OneOwner'
    <2>1. Holders' = Holders
      BY <1>13, <1>a, MoveAndSignal DEF DiscardRelease, Holders
    <2>2. QED
      BY <1>13, <2>1, OwnersSame DEF DiscardRelease, Warmed
  <1>14. ASSUME Close PROVE OneOwner'
    <2>1. Holders' = Holders
      BY <1>14, <1>a, BroadcastWakes DEF Close, Holders
    <2>2. Distinct' /\ Parked' = Parked \ Parked
      BY <1>14 DEF Close, Distinct, Parked
    <2>3. QED
      BY <1>14, <2>1, <2>2, OwnersLoseParked DEF Close, Warmed
  <1>15. ASSUME NEW g \in Callers, DeadlinePasses(g) PROVE OneOwner'
    BY <1>15, OwnersSame DEF DeadlinePasses, Holders, Warmed
  <1>16. ASSUME NEW G \in SUBSET Cancellable, Cancel(G) PROVE OneOwner'
    BY <1>16, OwnersSame DEF Cancel, Holders, Warmed
  <1>17. ASSUME NEW g \in Callers, TimerFires(g) PROVE OneOwner'
    BY <1>17, OwnersSame DEF TimerFires, Holders, Warmed
  <1>18. ASSUME NEW g \in Callers, TimerBroadcasts(g) PROVE OneOwner'
    <2>1. Holders' = Holders
      BY <1>18, <1>a, BroadcastWakes DEF TimerBroadcasts, Holders
    <2>2. QED
      BY <1>18, <2>1, OwnersSame DEF TimerBroadcasts, Warmed
  <1>19. ASSUME Expire PROVE OneOwner'
    BY <1>19, OwnersSame DEF Expire, Holders, Warmed
  <1>20. ASSUME NEW c \in Conns, PeerEnds(c) PROVE OneOwner'
    BY <1>20, OwnersSame DEF PeerEnds, Holders, Warmed
  <1>21. ASSUME Reap PROVE OneOwner'
    <2>1. Holders' = Holders /\ conn' = conn /\ Warmed' = Warmed
      BY <1>21 DEF Reap, Holders, Warmed
    <2>2. CASE closed
      BY <1>21, <2>1, <2>2, OwnersSame DEF Reap
    <2>3. CASE ~closed
      <3>1. /\ idle' = SubSeq(idle, stale + 1, Len(idle))
            /\ open' = open \ {idle[i] : i \in 1..stale}
        BY <1>21, <2>3 DEF Reap
      <3>2. Distinct' /\ Parked' = Parked \ {idle[i] : i \in 1..stale}
        BY <1>a, <3>1, ReapOwns
      <3>3. {idle[i] : i \in 1..stale} \subseteq Parked
        BY <1>a DEF Parked, TypeOK
      <3>4. QED
        BY <2>1, <3>1, <3>2, <3>3, OwnersLoseParked
    <2>4. QED
      BY <2>2, <2>3
  <1>22. ASSUME WarmTick PROVE OneOwner'
    BY <1>22, OwnersSame DEF WarmTick, Holders, Warmed
  <1>23. ASSUME WarmDialSucceeds PROVE OneOwner'
    <2>1. PICK c \in Conns \ open : open' = open \cup {c} /\ warmConn' = c
      BY <1>23 DEF WarmDialSucceeds
    <2>2. c \notin Held /\ c \notin Parked
      BY DEF OneOwner
    <2>3. /\ Warmed = {} /\ Warmed' = {c} /\ idle' = idle
          /\ Holders' = Holders /\ conn' = conn
      BY <1>23, <2>1 DEF WarmDialSucceeds, Warmed, Holders
    <2>4. Parked' = Parked /\ Held' = Held
      BY <2>3 DEF Parked, Held
    <2>5. QED
      BY <2>1, <2>2, <2>3, <2>4 DEF OneOwner
  <1>24. ASSUME WarmDialFails PROVE OneOwner'
    BY <1>24, OwnersSame DEF WarmDialFails, Holders, Warmed
  <1>25. ASSUME WarmPark PROVE OneOwner'
    <2>1. /\ Warmed = {warmConn} /\ Warmed' = {} /\ conn' = conn
          /\ warmConn \in Conns
      BY <1>25 DEF WarmPark, Warmed, TypeOK
    <2>2. Holders' = Holders
      <3>1. CASE closed \/ Len(idle) >= MaxIdle
        BY <1>25, <3>1 DEF WarmPark, Holders
      <3>2. CASE ~(closed \/ Len(idle) >= MaxIdle)
        BY <1>25, <1>a, <3>2, SignalWakes DEF WarmPark, Holders
      <3>3. QED
        BY <3>1, <3>2
    <2>3. Held' = Held
      BY <2>1, <2>2 DEF Held
    <2>4. warmConn \notin Parked /\ warmConn \notin Held
      BY <2>1 DEF OneOwner
    <2>5. CASE closed \/ Len(idle) >= MaxIdle
      <3>1. idle' = idle /\ open' = open \ {warmConn}
        BY <1>25, <2>5 DEF WarmPark
      <3>2. Parked' = Parked
        BY <3>1 DEF Parked
      <3>3. QED
        BY <2>1, <2>2, <2>3, <2>4, <3>1, <3>2 DEF OneOwner
    <2>6. CASE ~(closed \/ Len(idle) >= MaxIdle)
      <3>1. Park(warmConn) /\ open' = open
        BY <1>25, <2>6 DEF WarmPark
      <3>2. Distinct' /\ Parked' = Parked \cup {warmConn}
        BY <2>1, <2>4, <3>1, <1>a, ParkOwns
      <3>3. QED
        BY <2>1, <2>2, <2>3, <2>4, <3>1, <3>2 DEF OneOwner, Distinct
    <2>7. QED
      BY <2>5, <2>6
  <1>26. ASSUME UNCHANGED vars PROVE OneOwner'
    BY <1>26, OwnersSame DEF vars, Holders, Warmed
  <1>27. QED
    BY <1>1, <1>2, <1>3, <1>4, <1>5, <1>6, <1>7, <1>8, <1>9, <1>10, <1>11,
       <1>12, <1>13, <1>14, <1>15, <1>16, <1>17, <1>18, <1>19, <1>20, <1>21,
       <1>22, <1>23, <1>24, <1>25, <1>26
    DEF Next, CallerStep, TimeStep, WarmStep, GetStep, DialReturns

(* No connection leaks and none has two owners.                            *)
THEOREM OwnersCorrect == Spec => []OneOwner
  <1>1. Init => OneOwner
    BY EmptySeq DEF Init, OneOwner, Parked, Held, Holders, Warmed
  <1>2. TypeOK /\ OneOwner /\ [Next]_vars => OneOwner'
    BY OwnersStep
  <1>3. QED
    BY <1>1, <1>2, TypeCorrect, PTL DEF Spec

-----------------------------------------------------------------------------
(* The idle list never grows past MaxIdle.                                 *)

LEMMA IdleBounded ==
  ASSUME TypeOK, Len(idle) <= MaxIdle, [Next]_vars
  PROVE  Len(idle') <= MaxIdle
  <1>1. Len(idle) \in Nat /\ MaxIdle \in Nat
    BY LimitsAssumption DEF TypeOK
  <1>2. ASSUME NEW g \in Callers, TakesSlot(g) PROVE Len(idle') <= MaxIdle
    BY <1>1, <1>2 DEF TakesSlot
  <1>3. ASSUME NEW g \in Callers, ReturnsSlot(g) PROVE Len(idle') <= MaxIdle
    BY <1>1, <1>3 DEF ReturnsSlot, Stores
  <1>4. ASSUME KeepsSlots PROVE Len(idle') <= MaxIdle
    BY <1>1, <1>4 DEF KeepsSlots, Stores
  <1>5. QED
    BY <1>2, <1>3, <1>4, StepOfSlots DEF SlotStep

(* The values of a function are at most as many as its arguments.          *)
LEMMA ImageBounded ==
  ASSUME NEW S, IsFiniteSet(S), NEW f
  PROVE  /\ IsFiniteSet({f[x] : x \in S})
         /\ Cardinality({f[x] : x \in S}) <= Cardinality(S)
  <1> DEFINE T == {f[x] : x \in S}
             h == [x \in S |-> f[x]]
  <1>1. h \in [S -> T] /\ \A t \in T : \E x \in S : h[x] = t
    OBVIOUS
  <1>2. h \in Surjection(S, T)
    BY <1>1 DEF Surjection
  <1> HIDE DEF h, T
  <1>3. IsFiniteSet(T) /\ Cardinality(T) <= Cardinality(S)
    BY <1>2, FS_Surjection
  <1>4. QED
    BY <1>3 DEF T

(* MaxActive in use, MaxIdle parked and one in the warmer's hands are all  *)
(* the sockets the pool has open.                                          *)
THEOREM SocketsCorrect == Spec => []SocketBudget
  <1>1. Init => Len(idle) <= MaxIdle
    BY EmptySeq, LimitsAssumption DEF Init
  <1>2. TypeOK /\ Len(idle) <= MaxIdle /\ [Next]_vars => (Len(idle) <= MaxIdle)'
    BY IdleBounded
  <1>3. Spec => [](Len(idle) <= MaxIdle)
    BY <1>1, <1>2, TypeCorrect, PTL DEF Spec
  <1>4. ASSUME TypeOK, SlotsAccounted, OneOwner, Len(idle) <= MaxIdle
        PROVE  SocketBudget
    <2>1. /\ IsFiniteSet(Parked) /\ Cardinality(Parked) \in Nat
          /\ Cardinality(Parked) <= MaxIdle
      <3>1. Len(idle) \in Nat /\ DOMAIN idle = 1..Len(idle)
        BY <1>4 DEF TypeOK
      <3>2. IsFiniteSet(1..Len(idle)) /\ Cardinality(1..Len(idle)) = Len(idle)
        <4> DEFINE n == Len(idle)
        <4>1. 1 \in Int /\ n \in Int /\ n \in Nat
          BY <3>1
        <4> HIDE DEF n
        <4>2. /\ IsFiniteSet(1..n)
              /\ Cardinality(1..n) = IF 1 > n THEN 0 ELSE n - 1 + 1
          BY <4>1, FS_Interval
        <4>3. Cardinality(1..n) = n
          BY <4>1, <4>2
        <4>4. QED
          BY <4>2, <4>3 DEF n
      <3>3. IsFiniteSet(Parked) /\ Cardinality(Parked) <= Len(idle)
        BY <3>1, <3>2, ImageBounded DEF Parked
      <3>4. Cardinality(Parked) \in Nat
        BY <3>3, FS_CardinalityType
      <3>5. QED
        BY <1>4, <3>1, <3>3, <3>4, LimitsAssumption
    <2>2. /\ IsFiniteSet(Held) /\ Cardinality(Held) \in Nat
          /\ Cardinality(Held) <= MaxActive
      <3>1. IsFiniteSet(Leased) /\ Holders \subseteq Leased
        BY CallersAssumption, FS_Subset DEF Leased, Holders
      <3>2. /\ IsFiniteSet(Holders)
            /\ Cardinality(Holders) <= Cardinality(Leased)
        BY <3>1, FS_Subset
      <3>3. IsFiniteSet(Held) /\ Cardinality(Held) <= Cardinality(Holders)
        BY <3>2, ImageBounded DEF Held
      <3>4. Cardinality(Leased) <= MaxActive
        BY <1>4, LimitsAssumption DEF SlotsAccounted
      <3>5. /\ Cardinality(Held) \in Nat /\ Cardinality(Holders) \in Nat
            /\ Cardinality(Leased) \in Nat
        BY <3>1, <3>2, <3>3, FS_CardinalityType
      <3>6. QED
        BY <3>2, <3>3, <3>4, <3>5, LimitsAssumption
    <2>3. IsFiniteSet(Warmed) /\ Cardinality(Warmed) \in 0..1
      <3>1. CASE warm = "park"
        <4>1. Warmed = {warmConn} /\ Cardinality({warmConn}) = 1 /\ IsFiniteSet({warmConn})
          BY <3>1, FS_Singleton DEF Warmed
        <4>2. QED
          BY <4>1
      <3>2. CASE warm # "park"
        <4>1. Warmed = {} /\ Cardinality({}) = 0 /\ IsFiniteSet({})
          BY <3>2, FS_EmptySet DEF Warmed
        <4>2. QED
          BY <4>1
      <3>3. QED
        BY <3>1, <3>2
    <2>4. /\ IsFiniteSet(Parked \cup Held) /\ Cardinality(Parked \cup Held) \in Nat
          /\ Cardinality(Parked \cup Held) <= MaxIdle + MaxActive
      <3>1. Parked \cap Held = {}
        BY <1>4 DEF OneOwner
      <3>2. IsFiniteSet(Parked \cup Held)
        BY <2>1, <2>2, FS_Union
      <3>3. Cardinality(Parked \cup Held) = Cardinality(Parked) + Cardinality(Held)
        <4>1. Cardinality(Parked \cup Held)
                = Cardinality(Parked) + Cardinality(Held) - Cardinality(Parked \cap Held)
          BY <2>1, <2>2, FS_Union
        <4>2. Cardinality(Parked \cap Held) = 0
          BY <3>1, FS_EmptySet
        <4>3. QED
          BY <2>1, <2>2, <4>1, <4>2
      <3>4. QED
        BY <2>1, <2>2, <3>2, <3>3, LimitsAssumption
    <2>5. Cardinality((Parked \cup Held) \cup Warmed) <= MaxActive + MaxIdle + 1
      <3>1. (Parked \cup Held) \cap Warmed = {}
        BY <1>4 DEF OneOwner
      <3>2. Cardinality((Parked \cup Held) \cup Warmed)
              = Cardinality(Parked \cup Held) + Cardinality(Warmed)
        <4>1. Cardinality((Parked \cup Held) \cup Warmed)
                = Cardinality(Parked \cup Held) + Cardinality(Warmed)
                    - Cardinality((Parked \cup Held) \cap Warmed)
          BY <2>3, <2>4, FS_Union
        <4>2. Cardinality((Parked \cup Held) \cap Warmed) = 0
          BY <3>1, FS_EmptySet
        <4>3. QED
          BY <2>3, <2>4, <4>1, <4>2
      <3>3. QED
        BY <2>3, <2>4, <3>2, LimitsAssumption
    <2>6. QED
      BY <1>4, <2>5 DEF OneOwner, SocketBudget
  <1>5. QED
    BY <1>3, <1>4, TypeCorrect, SlotsCorrect, OwnersCorrect, PTL

-----------------------------------------------------------------------------
(* The agent's use of the pool is one of the uses Pool allows.  Each step  *)
(* of Streams is a step of Pool or leaves the pool alone.                  *)

LEMMA StreamsMove == [NextStreams]_allVars => [Next]_vars
<1> SUFFICES ASSUME [NextStreams]_allVars PROVE [Next]_vars
  OBVIOUS
<1>1. CASE Attempt \/ AttemptEnds \/ SessionDies \/ UNCHANGED allVars
  BY <1>1 DEF Attempt, AttemptEnds, SessionDies, allVars
<1>2. ASSUME NEW g \in Callers, StreamOpens(g) \/ PipeReturns(g) \/ Proceeds(g)
      PROVE  Next
  BY <1>2 DEF StreamOpens, PipeReturns, Proceeds, Next, CallerStep
<1>3. CASE StopAgent
  <2>1. Callers \in SUBSET Cancellable /\ Cancel(Callers)
    BY <1>3, StreamsAssumption DEF StopAgent
  <2>2. QED
    BY <2>1 DEF Next
<1>4. CASE ClosePool
  BY <1>4 DEF ClosePool, Next
<1>5. CASE PoolStep
  BY <1>5 DEF PoolStep, Next, TimeStep
<1>6. QED
  BY <1>1, <1>2, <1>3, <1>4, <1>5 DEF NextStreams

(* Whatever the agent does with its pool, over all its sessions and to its *)
(* end, is a behaviour of the pool: every theorem about Pool is one about  *)
(* the agent (client.go:142-164 calls pool.go:78-190).                     *)
THEOREM StreamsUsePool == StreamSpec => Spec
<1>1. InitStreams => Init
  BY DEF InitStreams
<1>2. QED
  BY <1>1, StreamsMove, PTL DEF StreamSpec, Spec

(* So through sessions that die under their streams, streams that outlive  *)
(* them and the end of Run, the slots are counted exactly, no connection   *)
(* to the service leaks or is used by two streams, and the sockets are     *)
(* bounded.                                                                *)
THEOREM AgentConnections ==
  StreamSpec => [](SlotsAccounted /\ OneOwner /\ SocketBudget)
  BY StreamsUsePool, SlotsCorrect, OwnersCorrect, SocketsCorrect, PTL

(* The safety half of SlotsComeBack and AgentDrains: at any moment when no *)
(* stream is in the agent every slot is free and nothing is open but the   *)
(* idle connections and one the warmer has in hand, and once the pool is   *)
(* closed, nothing but that one (client.go:152-164, pool.go:179-188).      *)
THEOREM QuietAgent ==
  StreamSpec =>
    [](Streaming = {} =>
         active = 0 /\ open = Parked \cup Warmed /\ (closed => open = Warmed))
<1>1. ASSUME SlotsAccounted, OneOwner, ClosedKeepsNothing, Streaming = {}
      PROVE  active = 0 /\ open = Parked \cup Warmed /\ (closed => open = Warmed)
  <2>1. Leased = {} /\ Holders = {}
    BY <1>1 DEF Streaming, Leased, Holders
  <2>2. active = 0
    BY <1>1, <2>1, FS_EmptySet DEF SlotsAccounted
  <2>3. open = Parked \cup Warmed
    BY <1>1, <2>1 DEF OneOwner, Held
  <2>4. closed => Parked = {}
    BY <1>1 DEF ClosedKeepsNothing, Parked
  <2> QED BY <2>2, <2>3, <2>4
<1> QED BY <1>1, StreamsUsePool, SlotsCorrect, OwnersCorrect, ClosedCorrect, PTL

=============================================================================
