-------------------------------- MODULE Pool --------------------------------
(***************************************************************************)
(* The bounded pool of connections to the local service,                   *)
(* internal/pool/pool.go.  Goroutines call Get, then Put or Discard; a     *)
(* reaper and a warmer run beside them; one mutex and one condition        *)
(* variable order them all.                                                *)
(*                                                                         *)
(* A step of the specification is what a goroutine does between taking the *)
(* mutex and releasing it (or waiting on the condition variable).  The one *)
(* exception is the second health probe of Get: a connection that dies     *)
(* between the two probes sends Get round its loop with the mutex still    *)
(* held, and that Get is in the state "retry", which excludes every other  *)
(* step that needs the mutex.                                              *)
(*                                                                         *)
(* Time is abstracted to what the code compares: whether a call is past    *)
(* its deadline (late) and how many of the oldest idle entries are past    *)
(* their TTL (stale; entries are appended in the order of their addedAt).  *)
(* The counters of Stats are left out: nothing in the code reads them.     *)
(***************************************************************************)
EXTENDS Integers, Sequences, FiniteSets

CONSTANTS
  Callers,      \* goroutines that call Get, Put and Discard
  Conns,        \* connections the factory can return
  NoConn,       \* the zero value of net.Conn
  MaxActive,    \* Config.MaxActive
  MaxIdle,      \* Config.MaxIdle
  Cancellable   \* the callers whose context may be cancelled

ASSUME CallersAssumption ==
  /\ IsFiniteSet(Callers)
  /\ Cancellable \subseteq Callers
ASSUME ConnsAssumption == NoConn \notin Conns
ASSUME LimitsAssumption == MaxActive \in Nat \ {0} /\ MaxIdle \in Nat \ {0}

VARIABLES
  idle,         \* Pool.idle, oldest first
  stale,        \* the entries idle[1..stale] are past IdleTTL
  unfit,        \* idle connections whose peer closed or sent data
  open,         \* connections dialled and not closed yet
  active,       \* Pool.active
  closed,       \* Pool.closed
  pc,           \* where each caller is
  conn,         \* the connection each caller has been given
  late,         \* callers whose Get is past its deadline
  cancelled,    \* callers whose context is done
  armed,        \* callers whose AfterFunc timer is running
  firing,       \* callers whose timer has fired and wants the mutex
  warm,         \* where the warmer is
  warmConn,     \* the connection the warmer has just dialled
  reaping       \* FALSE once the reaper has returned

poolVars   == <<idle, stale, unfit, open, active, closed>>
callerVars == <<pc, conn>>
timerVars  == <<late, cancelled, armed, firing>>
warmVars   == <<warm, warmConn>>
vars == <<poolVars, callerVars, timerVars, warmVars, reaping>>

-----------------------------------------------------------------------------
(* The callers of the pool, by where they are in the code. *)

Waiting == {g \in Callers : pc[g] = "wait"}            \* in cond.Wait
Awake   == {g \in Callers : pc[g] \in {"woken", "retry"}}
Leased  == {g \in Callers : pc[g] \in {"dial", "hold", "drop"}}
Holders == {g \in Callers : pc[g] = "hold"}

LockFree == \A g \in Callers : pc[g] # "retry"

(* The connections, by their owner. *)
Parked == {idle[i] : i \in DOMAIN idle}
Held   == {conn[g] : g \in Holders}
Warmed == IF warm = "park" THEN {warmConn} ELSE {}

(* cond.Signal with the callers at p: one waiter, if there is one, will    *)
(* want the mutex again.  cond.Broadcast wakes them all.                   *)
Signal(p) ==
  LET waiters == {g \in Callers : p[g] = "wait"}
  IN  IF waiters = {} THEN {p}
      ELSE {[p EXCEPT ![w] = "woken"] : w \in waiters}

Broadcast(p) == [g \in Callers |-> IF p[g] = "wait" THEN "woken" ELSE p[g]]

(* active-- with its floor. *)
Release(n) == IF n > 0 THEN n - 1 ELSE 0

(* popIdle takes the youngest entry that is neither expired nor unhealthy, *)
(* and closes the younger ones it passes over.                             *)
Usable(i)    == i > stale /\ idle[i] \notin unfit
TopUsable(i) == /\ i \in DOMAIN idle
                /\ Usable(i)
                /\ \A j \in i+1..Len(idle) : ~Usable(j)
NoneUsable   == \A i \in DOMAIN idle : ~Usable(i)

Above(k) == {idle[j] : j \in k+1..Len(idle)}

KeepOldest(k) ==
  /\ idle' = SubSeq(idle, 1, k)
  /\ stale' = IF stale > k THEN k ELSE stale
  /\ unfit' = unfit \ Above(k)

Park(c) == idle' = Append(idle, c)

-----------------------------------------------------------------------------
Init ==
  /\ idle = <<>> /\ stale = 0 /\ unfit = {} /\ open = {}
  /\ active = 0 /\ closed = FALSE
  /\ pc = [g \in Callers |-> "out"]
  /\ conn = [g \in Callers |-> NoConn]
  /\ late = {} /\ cancelled = {} /\ armed = {} /\ firing = {}
  /\ warm \in {"tick", "done"}        \* Config.NoWarm: no warmer
  /\ warmConn = NoConn
  /\ reaping = TRUE

(* A caller enters Get: its deadline is set before it asks for the mutex. *)
Get(g) ==
  /\ pc[g] = "out"
  /\ pc' = [pc EXCEPT ![g] = "enter"]
  /\ UNCHANGED <<poolVars, conn, timerVars, warmVars, reaping>>

(* g has the mutex at the head of the loop in Get: it has just come in, or *)
(* is back from cond.Wait and found its context not done, or goes round    *)
(* again after a failed probe.                                             *)
HasTurn(g) ==
  \/ pc[g] = "enter" /\ LockFree
  \/ pc[g] = "woken" /\ LockFree /\ g \notin cancelled
  \/ pc[g] = "retry"

(* The timer of the last wait has been stopped.  Outside the loop nobody   *)
(* asks any more whether the call is late.                                 *)
AtLoopHead(g) ==
  /\ HasTurn(g)
  /\ armed' = armed \ {g}
  /\ UNCHANGED <<cancelled, firing, warmVars, reaping>>

LeavesLoop(g) == AtLoopHead(g) /\ late' = late \ {g}

-----------------------------------------------------------------------------
(* Mistakes that steps below could make, one each; no step of Next is one  *)
(* of them.  They show that the properties can fail.                       *)

(* The slots are compared with <= . *)
StartDialOffByOne(g) ==
  /\ LeavesLoop(g)
  /\ ~closed /\ active <= MaxActive
  /\ NoneUsable
  /\ KeepOldest(0)
  /\ open' = open \ Above(0)
  /\ active' = active + 1
  /\ pc' = [pc EXCEPT ![g] = "dial"]
  /\ UNCHANGED <<closed, conn>>

(* No timer is started before cond.Wait. *)
SleepUntimed(g) ==
  /\ HasTurn(g)
  /\ ~closed /\ active >= MaxActive
  /\ g \notin late
  /\ pc' = [pc EXCEPT ![g] = "wait"]
  /\ UNCHANGED <<poolVars, conn, timerVars, warmVars, reaping>>

(* The slot of a failed dial is not given back. *)
DialFailsKeepingSlot(g) ==
  /\ LockFree /\ pc[g] = "dial"
  /\ pc' \in Signal([pc EXCEPT ![g] = "out"])
  /\ UNCHANGED <<poolVars, conn, timerVars, warmVars, reaping>>

(* It is given back and nobody is told. *)
DialFailsSilently(g) ==
  /\ LockFree /\ pc[g] = "dial"
  /\ active' = active - 1
  /\ pc' = [pc EXCEPT ![g] = "out"]
  /\ UNCHANGED <<idle, stale, unfit, open, closed, conn, timerVars, warmVars, reaping>>

(* A connection that is not parked is not closed either. *)
PutLeaking(g) ==
  /\ LockFree /\ pc[g] = "hold"
  /\ active' = Release(active)
  /\ IF closed \/ Len(idle) >= MaxIdle THEN UNCHANGED idle ELSE Park(conn[g])
  /\ conn' = [conn EXCEPT ![g] = NoConn]
  /\ pc' \in Signal([pc EXCEPT ![g] = "out"])
  /\ UNCHANGED <<stale, unfit, open, closed, timerVars, warmVars, reaping>>

(* Put does not look at closed. *)
PutAfterClose(g) ==
  /\ LockFree /\ pc[g] = "hold"
  /\ active' = Release(active)
  /\ IF Len(idle) >= MaxIdle
     THEN open' = open \ {conn[g]} /\ UNCHANGED idle
     ELSE Park(conn[g]) /\ UNCHANGED open
  /\ conn' = [conn EXCEPT ![g] = NoConn]
  /\ pc' \in Signal([pc EXCEPT ![g] = "out"])
  /\ UNCHANGED <<stale, unfit, closed, timerVars, warmVars, reaping>>

(* Close forgets the idle connections without closing them. *)
CloseLeaking ==
  /\ LockFree
  /\ closed' = TRUE
  /\ idle' = <<>> /\ stale' = 0 /\ unfit' = {}
  /\ pc' = Broadcast(pc)
  /\ UNCHANGED <<open, active, conn, timerVars, warmVars, reaping>>

(* The timer signals: whoever wakes need not be the one that is late. *)
TimerSignals(g) ==
  /\ LockFree /\ g \in firing
  /\ firing' = firing \ {g}
  /\ pc' \in Signal(pc)
  /\ UNCHANGED <<poolVars, conn, late, cancelled, armed, warmVars, reaping>>

(* The warmer parks on what it saw before it dialled. *)
WarmParkUnchecked ==
  /\ LockFree /\ warm = "park"
  /\ IF closed
     THEN open' = open \ {warmConn} /\ UNCHANGED <<idle, pc>>
     ELSE Park(warmConn) /\ pc' \in Signal(pc) /\ UNCHANGED open
  /\ warm' = "tick" /\ warmConn' = NoConn
  /\ UNCHANGED <<stale, unfit, active, closed, conn, timerVars, reaping>>

-----------------------------------------------------------------------------
(* Get, with the mutex held. *)
RefuseClosed(g) ==
  /\ LeavesLoop(g)
  /\ closed
  /\ pc' = [pc EXCEPT ![g] = "out"]
  /\ UNCHANGED <<poolVars, conn>>

(* The youngest usable idle connection passes both probes. *)
Reuse(g) ==
  /\ LeavesLoop(g)
  /\ ~closed /\ active < MaxActive
  /\ \E k \in DOMAIN idle :
       /\ TopUsable(k)
       /\ KeepOldest(k - 1)
       /\ open' = open \ Above(k)
       /\ conn' = [conn EXCEPT ![g] = idle[k]]
  /\ active' = active + 1
  /\ pc' = [pc EXCEPT ![g] = "hold"]
  /\ UNCHANGED closed

(* It passes the probe of popIdle and fails the one of Get: close it,      *)
(* signal, go round again.                                                 *)
FailSecondProbe(g) ==
  /\ AtLoopHead(g) /\ UNCHANGED late
  /\ ~closed /\ active < MaxActive
  /\ \E k \in DOMAIN idle :
       /\ TopUsable(k)
       /\ KeepOldest(k - 1)
       /\ open' = open \ Above(k - 1)
  /\ pc' \in Signal([pc EXCEPT ![g] = "retry"])
  /\ UNCHANGED <<active, closed, conn>>

(* No idle connection is usable: take a slot and dial without the mutex. *)
StartDial(g) ==
  /\ LeavesLoop(g)
  /\ ~closed /\ active < MaxActive
  /\ NoneUsable
  /\ KeepOldest(0)
  /\ open' = open \ Above(0)
  /\ active' = active + 1
  /\ pc' = [pc EXCEPT ![g] = "dial"]
  /\ UNCHANGED <<closed, conn>>

(* The slots are taken and the deadline has passed: ErrTimeout. *)
RejectLate(g) ==
  /\ LeavesLoop(g)
  /\ ~closed /\ active >= MaxActive
  /\ g \in late
  /\ pc' = [pc EXCEPT ![g] = "out"]
  /\ UNCHANGED <<poolVars, conn>>

(* The slots are taken: start a timer for the rest of the wait and sleep. *)
Sleep(g) ==
  /\ HasTurn(g)
  /\ ~closed /\ active >= MaxActive
  /\ g \notin late
  /\ armed' = armed \cup {g}
  /\ pc' = [pc EXCEPT ![g] = "wait"]
  /\ UNCHANGED <<poolVars, conn, late, cancelled, firing, warmVars, reaping>>

(* Back from cond.Wait with its context done: ctx.Err(), whatever the      *)
(* wake-up was for.                                                        *)
RejectCancelled(g) ==
  /\ LockFree /\ pc[g] = "woken" /\ g \in cancelled
  /\ armed' = armed \ {g} /\ late' = late \ {g}
  /\ pc' = [pc EXCEPT ![g] = "out"]
  /\ UNCHANGED <<poolVars, conn, cancelled, firing, warmVars, reaping>>

(* The factory returns.  The mutex is taken again, and closed is not       *)
(* looked at again.                                                        *)
DialSucceeds(g) ==
  /\ LockFree /\ pc[g] = "dial"
  /\ \E c \in Conns \ open :
       /\ open' = open \cup {c}
       /\ conn' = [conn EXCEPT ![g] = c]
  /\ pc' = [pc EXCEPT ![g] = "hold"]
  /\ UNCHANGED <<idle, stale, unfit, active, closed, timerVars, warmVars, reaping>>

DialFails(g) ==
  /\ LockFree /\ pc[g] = "dial"
  /\ active' = active - 1
  /\ pc' \in Signal([pc EXCEPT ![g] = "out"])
  /\ UNCHANGED <<idle, stale, unfit, open, closed, conn, timerVars, warmVars, reaping>>

(* Put parks the connection, or closes it when the pool is closed or has   *)
(* MaxIdle idle connections.                                               *)
Put(g) ==
  /\ LockFree /\ pc[g] = "hold"
  /\ active' = Release(active)
  /\ IF closed \/ Len(idle) >= MaxIdle
     THEN open' = open \ {conn[g]} /\ UNCHANGED idle
     ELSE Park(conn[g]) /\ UNCHANGED open
  /\ conn' = [conn EXCEPT ![g] = NoConn]
  /\ pc' \in Signal([pc EXCEPT ![g] = "out"])
  /\ UNCHANGED <<stale, unfit, closed, timerVars, warmVars, reaping>>

(* Discard closes the connection before it asks for the mutex. *)
DiscardClose(g) ==
  /\ pc[g] = "hold"
  /\ open' = open \ {conn[g]}
  /\ conn' = [conn EXCEPT ![g] = NoConn]
  /\ pc' = [pc EXCEPT ![g] = "drop"]
  /\ UNCHANGED <<idle, stale, unfit, active, closed, timerVars, warmVars, reaping>>

DiscardRelease(g) ==
  /\ LockFree /\ pc[g] = "drop"
  /\ active' = Release(active)
  /\ pc' \in Signal([pc EXCEPT ![g] = "out"])
  /\ UNCHANGED <<idle, stale, unfit, open, closed, conn, timerVars, warmVars, reaping>>

Close ==
  /\ LockFree
  /\ closed' = TRUE
  /\ open' = open \ Parked
  /\ idle' = <<>> /\ stale' = 0 /\ unfit' = {}
  /\ pc' = Broadcast(pc)
  /\ UNCHANGED <<active, conn, timerVars, warmVars, reaping>>

-----------------------------------------------------------------------------
(* Deadlines, contexts and the timers of the sleeping callers. *)

DeadlinePasses(g) ==
  /\ pc[g] \in {"enter", "wait", "woken", "retry"}
  /\ g \notin late
  /\ late' = late \cup {g}
  /\ UNCHANGED <<poolVars, callerVars, cancelled, armed, firing, warmVars, reaping>>

(* The callers in G share a context, and it is cancelled. *)
Cancel(G) ==
  /\ G # {} /\ G \subseteq Cancellable \ cancelled
  /\ cancelled' = cancelled \cup G
  /\ UNCHANGED <<poolVars, callerVars, late, armed, firing, warmVars, reaping>>

TimerFires(g) ==
  /\ g \in armed /\ g \in late
  /\ armed' = armed \ {g}
  /\ firing' = firing \cup {g}
  /\ UNCHANGED <<poolVars, callerVars, late, cancelled, warmVars, reaping>>

TimerBroadcasts(g) ==
  /\ LockFree /\ g \in firing
  /\ firing' = firing \ {g}
  /\ pc' = Broadcast(pc)
  /\ UNCHANGED <<poolVars, conn, late, cancelled, armed, warmVars, reaping>>

(* The world outside: the oldest entry that has not expired expires; the   *)
(* service closes an idle connection, or writes to it.                     *)
Expire ==
  /\ stale < Len(idle)
  /\ stale' = stale + 1
  /\ UNCHANGED <<idle, unfit, open, active, closed, callerVars, timerVars, warmVars, reaping>>

PeerEnds(c) ==
  /\ c \in Parked \ unfit
  /\ unfit' = unfit \cup {c}
  /\ UNCHANGED <<idle, stale, open, active, closed, callerVars, timerVars, warmVars, reaping>>

-----------------------------------------------------------------------------
(* The reaper: on a tick, close what has expired, or return. *)
Reap ==
  /\ LockFree /\ reaping
  /\ IF closed
     THEN reaping' = FALSE /\ UNCHANGED poolVars
     ELSE /\ idle' = SubSeq(idle, stale + 1, Len(idle))
          /\ LET expired == {idle[i] : i \in 1..stale}
             IN open' = open \ expired /\ unfit' = unfit \ expired
          /\ stale' = 0
          /\ UNCHANGED <<active, closed, reaping>>
  /\ UNCHANGED <<callerVars, timerVars, warmVars>>

(* The warmer: on a tick, look whether the pool is closed or short of idle *)
(* connections; dial without the mutex; look again before parking.         *)
WarmTick ==
  /\ LockFree /\ warm = "tick"
  /\ closed \/ Len(idle) < MaxIdle
  /\ warm' = IF closed THEN "done" ELSE "dial"
  /\ UNCHANGED <<poolVars, callerVars, timerVars, warmConn, reaping>>

WarmDialSucceeds ==
  /\ warm = "dial"
  /\ \E c \in Conns \ open : open' = open \cup {c} /\ warmConn' = c
  /\ warm' = "park"
  /\ UNCHANGED <<idle, stale, unfit, active, closed, callerVars, timerVars, reaping>>

WarmDialFails ==
  /\ warm = "dial"
  /\ warm' = "tick"
  /\ UNCHANGED <<poolVars, callerVars, timerVars, warmConn, reaping>>

WarmPark ==
  /\ LockFree /\ warm = "park"
  /\ IF closed \/ Len(idle) >= MaxIdle
     THEN open' = open \ {warmConn} /\ UNCHANGED <<idle, pc>>
     ELSE Park(warmConn) /\ pc' \in Signal(pc) /\ UNCHANGED open
  /\ warm' = "tick" /\ warmConn' = NoConn
  /\ UNCHANGED <<stale, unfit, active, closed, conn, timerVars, reaping>>

-----------------------------------------------------------------------------
(* What Get does with the mutex held. *)
GetStep(g) ==
  \/ RefuseClosed(g) \/ Reuse(g) \/ FailSecondProbe(g) \/ StartDial(g)
  \/ RejectLate(g) \/ Sleep(g) \/ RejectCancelled(g)

DialReturns(g) == DialSucceeds(g) \/ DialFails(g)

CallerStep(g) ==
  \/ Get(g) \/ GetStep(g) \/ DialReturns(g)
  \/ Put(g) \/ DiscardClose(g) \/ DiscardRelease(g)

TimeStep(g) ==
  \/ DeadlinePasses(g) \/ TimerFires(g) \/ TimerBroadcasts(g)

WarmStep == WarmTick \/ WarmDialSucceeds \/ WarmDialFails \/ WarmPark

Next ==
  \/ \E g \in Callers : CallerStep(g) \/ TimeStep(g)
  \/ \E G \in SUBSET Cancellable : Cancel(G)
  \/ Close \/ Expire \/ Reap \/ WarmStep
  \/ \E c \in Conns : PeerEnds(c)

Spec == Init /\ [][Next]_vars

(* sync.Mutex hands itself to the longest waiter once that one has waited  *)
(* for a millisecond, so a goroutine that wants the mutex again and again  *)
(* gets it: strong fairness of the steps that take it.  Time passes,       *)
(* timers fire, tickers tick, and every factory of the program dials with  *)
(* a timeout.  Nobody is obliged to call Get, Put, Discard or Close.       *)
Fairness ==
  /\ \A g \in Callers :
       /\ SF_vars(GetStep(g) \/ DialReturns(g) \/ DiscardRelease(g))
       /\ SF_vars(TimerBroadcasts(g))
       /\ WF_vars(DeadlinePasses(g) \/ TimerFires(g))
  /\ SF_vars(Reap)
  /\ SF_vars(WarmStep)

FairSpec == Spec /\ Fairness

-----------------------------------------------------------------------------
(* Properties *)

(* Where a goroutine can be in Get, Put and Discard. *)
Places == {"out", "enter", "wait", "woken", "retry", "dial", "hold", "drop"}

(* Every variable has its type (pool.go:58-72 and the locals of Get). *)
TypeOK ==
  /\ idle \in Seq(Conns) /\ stale \in 0..Len(idle)
  /\ unfit \subseteq Conns /\ open \subseteq Conns
  /\ active \in Int /\ closed \in BOOLEAN
  /\ pc \in [Callers -> Places]
  /\ conn \in [Callers -> Conns \cup {NoConn}]
  /\ \A g \in Holders : conn[g] \in Conns
  /\ late \subseteq Callers /\ cancelled \subseteq Cancellable
  /\ armed \subseteq Callers /\ firing \subseteq Callers
  /\ warm \in {"tick", "dial", "park", "done"}
  /\ warmConn \in Conns \cup {NoConn}
  /\ warm = "park" => warmConn \in Conns
  /\ reaping \in BOOLEAN

(* active counts exactly the callers between taking a slot and giving it   *)
(* back, through every failed dial, barging caller and close of the pool,  *)
(* so MaxActive bounds them (pool.go:97-119, 148, 171).                    *)
SlotsAccounted ==
  /\ active = Cardinality(Leased)
  /\ active \in 0..MaxActive

(* A connection is open exactly as long as one party owns it: one place of *)
(* the idle list, one caller, or the warmer between its dial and its       *)
(* append.  Nothing leaks, and no two parties share a connection.          *)
OneOwner ==
  /\ open = Parked \cup Held \cup Warmed
  /\ \A i, j \in DOMAIN idle : i # j => idle[i] # idle[j]
  /\ \A g, h \in Holders : g # h => conn[g] # conn[h]
  /\ Held \cap Parked = {} /\ Warmed \cap (Parked \cup Held) = {}

(* The sockets to the local service are bounded, though the warmer dials   *)
(* without a slot and idle connections do not count as active: MaxActive   *)
(* in use, MaxIdle parked, and one in the warmer's hands.                  *)
SocketBudget ==
  /\ Len(idle) <= MaxIdle
  /\ Cardinality(open) <= MaxActive + MaxIdle + 1

(* Once Close has run nothing is parked again, by a late Put or by a       *)
(* warmer that was dialling, and nobody sleeps (pool.go:152-156, 179-188,  *)
(* 277-282).                                                               *)
ClosedKeepsNothing == closed => idle = <<>> /\ Waiting = {}

(* As long as no context is cancelled, every free slot somebody could use  *)
(* has a wake-up under way: a waiter never sleeps beside a slot that       *)
(* nobody is about to look at.  A cancelled waiter may use up a wake-up    *)
(* and leave (pool.go:131-138); then the others rely on their timers.      *)
NoStrandedWaiter ==
  cancelled = {} /\ Waiting # {} => Cardinality(Awake) >= MaxActive - active

(* A sleeping caller always has a timer that will wake it, or one that has *)
(* fired and is about to (pool.go:126-132).                                *)
SleepersAreTimed == Waiting \subseteq armed \cup firing

(* The pool keeps the promises of PoolBudget: a slot is leased only below  *)
(* the limit and never after Close, and what is parked stays within        *)
(* MaxIdle and is gone once the pool is closed.                            *)
Budget == INSTANCE PoolBudget WITH leased <- Leased, parked <- Len(idle)
KeepsBudget == Budget!Spec

(* Every Get returns: with a connection, an error of the factory, or one   *)
(* of the pool's errors, however the wake-ups are distributed.             *)
GetReturns == \A g \in Callers : []<>(pc[g] \in {"out", "hold"})

=============================================================================
