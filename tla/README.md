# simplefrp in TLA+

simplefrp publishes a service of a private network through a public server. An
**agent** (`client.go`) in the private network dials the **server**
(`server.go`) and authenticates; the connection becomes a yamux session. For
every **visitor** of the public port the server opens a stream on the session,
and the agent joins the stream to a connection to the local service taken from
its **pool** (`pool.go`). On either side **Pipe** (`forward.go`) copies bytes
both ways. This directory specifies that machinery, checks it with TLC on small
instances, and proves its safety with TLAPS for every value of the constants:
the pool and the agent's use of it, the pipe and a visitor's whole path, the
handshake, the hub, and the tunnel between agent and hub. It also covers four
data structures of the library beside the program (ring buffer, NAT table, port
set, lease table), which it checks and proves in full.

Paths below are relative to `src/backend/internal/`.

## Inventory

| Component | State | Operations | What is hard | What makes it correct |
|---|---|---|---|---|
| Pool, `pool/pool.go` | idle list, active, closed, one mutex, one condition variable | Get, Put, Discard, Close; the goroutines reaper and warmer; a timer per wait | dials without the mutex, barging, lost and stolen wake-ups, cancelled contexts, connections that die while idle, Close against everything | slots accounted for; one owner per connection; sockets bounded; nothing parked after Close; no stranded waiter; Get returns |
| Pipe, `forward/forward.go` | two goroutines, a channel of results, two connections, two byte counters | copy, close the destination, report; select, close both, drain | closing overtaking data, a goroutine left behind, half-close | nothing runs after the return; the direction that ended first is complete; it returns |
| Visitor path, `handleVisitor` and `handleStream` | two Pipes, one yamux stream, six channels | as above on both sides, refusal by the pool, death of the session | yamux closes only one way, so each Pipe depends on the other to be woken | requests and answers are heard; the path is torn down from any fault |
| Hub, `server/server.go` | current session with its client and id, counters | handleCtrl, setSession, clearIfCurrent, openStream, the status handler, Run | racing registrations, late clean-up, a session used after the lock is released, shutdown | one registered session; its keeper; live streams on it; no open session lost |
| Agent, `client/client.go` | connected, reconnects, backoff | session, acceptLoops, handleStream, Run | reconnecting against a server that dies at any point, shutdown in every state | backoff bounded, readiness truthful, the pool closed on the way out |
| Streams of the agent, `acceptLoops`, `handleStream`, `Run` | one pool for all sessions, one context | open a stream, Get, Pipe, Discard; stop | streams of a dead session hold the slots the next session wants; shutdown with streams in every place of Get | every Get returns; slots come back; a stopped agent ends with nothing running or open |
| Frames and handshake, `protocol/` and the heads of `handleCtrl` and `session` | deadlines, bytes on the connection | ReadFrame, WriteFrame, ReadFrameDeadline, Validate, the token check | partial reads and writes, length limits, a peer that stops or runs ahead, deadlines that outlive the handshake | yamux takes over at the right byte without a deadline; good credentials only; both ends are in or both are out |
| NAT table, `natmap/` | forward and reverse map, TTL | Map, Lookup, Reverse, Unmap | two public endpoints for one private one, lazy expiry | the two maps agree |
| Lease table, `lease/` | records with an expiry | Grant, Renew, Get, Release, ReleaseOwner, Expired, Len, Snapshot | expired records that stay about, and that each call treats in its own way | it answers as a table that forgets every lease on time |
| Ring buffer, `ringbuf/` | positions and a flag | Write, Read, Peek, Discard, ReadFrom, WriteTo | full against empty, wrap-around | it is a bounded FIFO |
| Port set, `portset/` | allocated and reserved ports | Reserve, Alloc, AllocExact, Free | round-robin at the limits | no port twice; the last free port is found |
| Rest | | idlewheel, bitmap, config, auth, idgen, httputil, logger, clock, health, limiter, window, metrics, retry, backoff, deadline, acl, addrutil, bytesize, cidr, dnsname, proxyhdr, `cmd/`, the demo front end | | parsing, formatting, wrappers; not modelled |

Interaction: `Hub.handleVisitor` and `Agent.handleStream` call `Pipe`;
`handleStream` calls `Pool.Get` and `Pool.Discard` around it; hub and agent meet
only in the handshake and then in the yamux session, its streams and its death.
From NAT table to port set the packages are a library that no other package
imports yet.

## Modules

| Module | Models | Extends or uses |
|---|---|---|
| `PoolBudget` | the abstract pool: slots and a store | |
| `Pool` | all of `pool/pool.go` | refines `PoolBudget` |
| `Streams` | the agent's use of its pool, over sessions that come and go | extends `Pool` |
| `PoolProofs` | theorems about `Pool` and `Streams` | `Streams` |
| `ByteChannels` | the byte streams between the program's ends | |
| `Pipe` | `forward.Pipe` between two peers | extends `ByteChannels` |
| `Relay` | a visitor's whole path | `ByteChannels`, two instances of `Pipe` |
| `PipeProofs` | theorems about `Pipe` and `Relay` | `Pipe`, `Relay` |
| `Hub` | sessions, visitors, status and shutdown of `server/server.go` | |
| `HubProofs` | theorems about `Hub` | `Hub` |
| `Agent` | the connect loop of `client/client.go` | |
| `Tunnel` | agent and hub over connections that break | `Agent`, `Hub` |
| `Admission` | what a handshake promises the rest of the system | |
| `Handshake` | the frames of auth and auth_ok, byte by byte | refines `Admission` |
| `ControlProofs` | theorems about the control connection: `Handshake` and `Tunnel` | `Handshake`, `Tunnel` |
| `Fifo` | the abstract bounded queue of bytes | |
| `RingBuf`, `RingBufProofs` | `ringbuf/ringbuf.go` and its theorems | refines `Fifo` |
| `NatMap`, `NatMapProofs` | `natmap/natmap.go` and its theorems | |
| `PortSet`, `PortSetProofs` | `portset/portset.go` and its theorems | |
| `Tenancy` | the abstract table of leases, which forgets them on time | |
| `Lease`, `LeaseProofs` | `lease/lease.go` and its theorem | refines `Tenancy` |
| `MCPool`, `MCStreams`, `MCPipe`, `MCRelay`, `MCHub`, `MCTunnel`, `MCHandshake`, `MCRingBuf`, `MCNatMap`, `MCPortSet`, `MCLease` | the modules TLC runs, with a symmetry set for the pool's safety | |

### Pool

A step is what a goroutine does between taking the mutex and giving it up,
either by unlocking or in `cond.Wait`. `pc` says where each caller is: `enter`
(wants the mutex for the first time), `wait` (in `cond.Wait`), `woken` (wants
the mutex back), `dial` (in the factory, without the mutex), `hold` (has a
connection), `drop` (has closed it in Discard and wants the mutex). One case
keeps the mutex over two steps: a connection that passes the probe of `popIdle`
and fails the one of `Get` sends `Get` round its loop (`retry`); no other step
that needs the mutex is possible meanwhile (`LockFree`).

| Definition | Code |
|---|---|
| `RefuseClosed`, `Reuse`, `FailSecondProbe`, `StartDial`, `RejectLate`, `Sleep` | the branches of the loop of `Get` (pool.go:93-131) |
| `RejectCancelled` | back from `Wait` with the context done (132-138) |
| `DialSucceeds`, `DialFails` | the factory returns and the mutex is taken again (111-119) |
| `Put`, `DiscardClose`, `DiscardRelease`, `Close` | 142-188; Discard closes before it locks, so it is two steps |
| `TimerFires`, `TimerBroadcasts` | the `AfterFunc` and its callback (126-130) |
| `Reap`, `WarmTick`, `WarmDialSucceeds`, `WarmDialFails`, `WarmPark` | 233-287 |
| `DeadlinePasses`, `Cancel`, `Expire`, `PeerEnds` | the clock, the caller and the local service |

Time is reduced to the two comparisons of the code: `late` (a Get past its
deadline; forgotten when Get leaves its loop, which looks at it no more) and
`stale` (how many of the oldest idle entries are past IdleTTL;
entries are appended in the order of `addedAt`). The counters behind Stats are
left out; nothing reads them. `MaxActive` and `MaxIdle` are positive
(`withDefaults`). One context may belong to several callers, so `Cancel` is
done to a set of them.

### Streams

A caller of the pool is a goroutine in `handleStream`. `on` is the set of those
whose stream belongs to the session there is; when it dies they are off it, and
stay in Get or in Pipe until they have found out. `PipeReturns` is the return of
Pipe and the closing half of Discard; that it must come once the stream or the
context is gone is what `PathIsTornDown` says of `Relay`. `StopAgent` ends the
one context that every Get and Pipe has (`Cancel(Callers)`, which is why
`StreamsAssumption` makes every caller cancellable); the session is closed after
that, and the pool last, by the loop of `Run`. `control` says where `session`
is: no attempt under way, dialling or shaking hands, or in the session. No
attempt begins after the stop, but the handshake of one that is under way does
not look at the context, and may still open a session (client.go:107-127). The accept loop may still
hand out a stream from the backlog of a closed session, and a goroutine may
start late: either is a caller that waits long for the mutex in `Get`, which the
model has.

### Pipe and Relay

A connection is two channels, one each way (`ByteChannels`). A channel is a FIFO of at most
`Window` chunks, represented by the numbers of chunks written and taken, since
what a chunk contains makes no difference to Pipe. `fin` (the writer has ended)
and `shut` (the reader has gone) are the two things that closing does: to TCP
connections both, to yamux streams (version 0.1.2, `Stream.Close`) only the
first, so that reads on a closed stream go on until the far end closes too
(`HalfClosing`). yamux also resets a stream that one side has closed and the
other has not for five minutes (`StreamCloseTimeout`), which can cut off a
request that takes longer to be passed on; in `Relay` that is one of the things
`StreamDies` stands for, which `RequestHeard` and `ResponseHeard` exclude, and
`Pipe` by itself leaves it out. The tail of a copying goroutine (count, close, report)
is one step: the channel has room for both results, and nothing waits for the
counter.

In `Relay` the stream is connection b of the server's Pipe and connection a of
the agent's, and the peers are the visitor and the local service. The agent's
`Get` ends in either way; the stream may die, with its session or by itself
(`StreamDies`); either context may be cancelled.

### Hub

A session carries the name of the handler that owns it. `AdmitCtrl` is the
successful handshake up to `NewOpening`; `SetSession` comes later, and other
handlers may come between. `RejectCtrl` stands for each way the handshake ends
without a session. A visitor reads the session (`LookUp`) and uses it in a later
step, as `openStream` does. The status handler loads the session and then the
counters in three steps. `Run` goes through cancelled (the API is shut down; the
listeners still accept), deaf (they are closed) and returned (the session is
dropped); a handler may register after that, as in the code. A handler's name is
used again once it is over and no visitor holds its session, because pointers to
sessions are compared by identity.

### Agent and Tunnel

`Agent` follows `Run` and `session`: `loop`, `dial`, `auth`, `serve`, then
`failed` or `left` when `session` has returned, `pause` while it waits, `stop`
and `returned`. `connected` is swapped when an attempt ends and decides whether
the backoff starts again. `fails` is a history variable for the property about
the backoff; nothing depends on it. `acceptLoops` fails when the session is
closed, which is when CloseChan is closed, so the two arms of the `select` are
one step.

`Tunnel` joins the agent to the hub's handlers, sessions and registration (no
visitors, no status reader, no orderly shutdown: Crash takes its place). `link`
is the handler at the far end of the agent's connection and `answered` the
connections on which auth_ok has been written. Either side of a session may end
because the other has; what ends for any other reason (timeout, keepalive,
network, crash) is a fault, and `MaxFaults` bounds those. Crash resets the hub
to `Init`; an auth_ok that the agent has not read may still reach it after that.

### Handshake

The bytes an end writes are numbered: header, body, then yamux. An end knows how
many it has written and read; what they are follows from their place, if nothing
was swallowed or read twice, which is what `StreamsLineUp` is about. Bytes
arrive in pieces of any size, while `io.ReadFull` wants the rest (`want`). A
frame's body is parsed by JSON (`json` says whether it succeeds) and holds a
type, a token and a client id; a token is a text, perhaps between blanks, which
`Normalize` trims. The network may break, or go silent for good. `deadline` is
what `SetDeadline` left on the connection: armed, passed, or none. A stranger on
the control port says anything, whole or in part, and is not followed further.
The mux of both ends goes on for a few bytes, so that it can overtake the
response, and ends by its keepalive or when told to.

`Admission` is what the rest of the system builds on: the server admits on good
credentials only, and the agent comes in only when admitted. `Tunnel` takes the
handshake for that (`answered`).

### RingBuf, NatMap, PortSet and Lease

`RingBuf` has the five fields of `Buffer`. `buf`, `r`, `w` and `full` say what
it holds (`Contents`, the refinement mapping to `Fifo`). A loop that moves one
byte at a time is given by what it does to the stretch it moves: `Put` and
`Take` for those of Write and Read. WriteTo and ReadFrom call a sink or a source
between rounds, so a round is a step: a sink that fails, and a source that gives
little, nothing, its end or an error, can stop them at each. `out` is what the
last call or round returned; the total of WriteTo and ReadFrom, which is the sum
of their rounds, is left out. `Fifo` says the same of a sequence, with the
counts, ErrFull and EOF, and it says what may be lost: with a failing sink, what
is left of one chunk, and nothing else.

`NatMap` keeps `fwd` and `rev` under keys of protocol and endpoint; a binding's
key says its protocol and public endpoint. Each call tests the clock itself, as
in the code: Map and Len sweep, Lookup and Reverse drop the one they meet, Unmap
does not look. `shared` is a history variable: a private endpoint has had two
live public ones. From then on a drop may take the way back of the other one
(`dropLocked` does not look whose it is), so `InverseUnlessShared` ends there,
while `RevPointsHome` goes on.

`PortSet` has the place `next`, `used` and `reserved`; Candidate is the order in
which the loop of Alloc meets the ports. `answer` is what Alloc returned and
`given`, a history variable, the port it gave last.

`Lease` has records with an owner and the time that is left, 0 once it is over.
Grant, Len and Snapshot sweep, Get removes the record it meets, Renew and
Expired leave it, and Release and ReleaseOwner count it as a lease. `Tenancy`
has only the leases that are not over, and gives each call the answer that
follows from them; for the last two it allows the larger one too. `answer` is
the call and what it returned.

## Runs

| Run | Instance | Shows | Size |
|---|---|---|---|
| `pool` | 3 callers, 4 connections, 1 slot, 1 idle place, one cancellable caller; symmetry | slots, owners, sockets, closing, wake-ups, and the refinement of `PoolBudget` | 0.14 million states |
| `streams` | 2 streams at a time, any number of sessions, 1 slot, 1 idle place, 2 connections | every Get returns; slots come back from dead sessions; a stopped agent drains | 50 000 states |
| `pipe` | two TCP peers, 2 chunks each way, window 1 | Pipe's safety and its return | 33 000 states |
| `pipe_halfclose` | the same | `NothingTruncated` is violated, see below | |
| `relay` | 1 chunk each way, window 1, one fault | the path's safety and its teardown | 0.18 million states |
| `hub` | 2 control connections, 2 clients, a visitor who comes twice, a status request | registration, streams, status; dead sessions cleared, nobody left behind | 0.3 million states |
| `tunnel` | 1 agent, 3 control connections, 3 faults | recovery, backoff, readiness, stopping | 0.11 million states |
| `handshake` | headers of 4 bytes, bodies up to 3 and one too long, 2 bytes of yamux each way, an agent or a stranger | where yamux takes over, deadlines, the refinement of `Admission`, nobody left alone | 0.16 million states |
| `ringbuf` | 3 bytes of room, slices up to 4, chunks of 2, two byte values | the ring's order and its refinement of `Fifo` | 1400 states |
| `lease` | 2 ids, 2 owners, leases of 1, 2 and 3 ticks | the refinement of `Tenancy` | 765 states |
| `natmap` | 2 public and 2 private endpoints, 2 protocols, a life of 2 in 3 ticks | agreement of the maps, expiry | 58 000 states |
| `portset` | 4 ports, 2 owners, requests beyond both ends | the books, and how Alloc goes round | 2200 states |

Bounds. Three callers on one slot give a holder or dialler and two sleepers with
one wake-up between them, and callers that barge in; the cancelled one may be
any of the sleepers or have the slot. More slots add holders that do not wait
for each other; the theorems cover every number. In `pool` as many connections as can
be open with the limits (`SocketBudget`) are supplied, and one that has just
been closed. In `streams` there are two, so that a dial may have to wait for a
connection to close or fail; fairness does not count on the dial's success. One
idle place is enough for the warmer and Put to race for it. Two chunks on a
window of one make a copier wait on a full channel with one more chunk behind
it (`pipe`); in `relay`, with one chunk, copiers wait to read but not to write,
and the theorems cover every window and length. Two handlers take turns at being displaced and displacing, and each may be
used again for a later connection. In `tunnel` three control connections are two
that the agent has left and the one it is on. A header of four bytes and a body
of three are long enough to arrive in pieces on either side of every boundary.
`MaxChunks`, `MaxMux`, `MaxFaults` and `MaxVisits` bound the runs and nothing in
the code; so do `MaxLen` and `MaxTime`. Three bytes and chunks of two make every
loop wrap around the end of the array and need a second round; a slice of four
is longer than the buffer. With two public endpoints on one private one NatMap
has what is hard about it; three ticks let a life of two end, be met late, and
start again. Leases shorter and longer than the table's are renewed to it. Four
ports leave room on both sides of one that Alloc skips.

Deadlock is checked for the pool and the data structures, whose environment
never stops. `Pipe`, `Relay`, `Hub`, `Tunnel`, `Handshake` and `Streams` do come
to an end (Pipe or Run has returned, both ends have closed), so their
configurations switch the check off; that they do not stop before is what
`PipeReturns`, `PathIsTornDown`, `DeadSessionIsCleared`, `NobodyIsLeftBehind`,
`TunnelRestored`, `AgentStops`, `EndsTogether` and `AgentDrains` say.

Each module holds a few operators described as mistakes. They are no part of
the specification: each is what a step would be with one plausible bug in it,
and with it in the place of that step TLC finds the property it was written for
violated.

### Fairness

- Goroutines that want a mutex get it. `sync.Mutex` hands itself to a goroutine
  that has waited for a millisecond, ahead of those that come later; hence
  strong fairness of the steps of the pool that take it, and weak fairness of
  everything else a goroutine does by itself.
- Timers fire and tickers tick; every factory in the program dials with a
  timeout, so a dial returns.
- Nothing obliges a caller of the pool to give its connection back while its
  stream is open, an agent to connect, a visitor to end, or a context to be
  cancelled. `GetReturns` therefore holds although a slot may be held for ever:
  the waiter's timer ends its wait.
- In `Streams` a Pipe whose stream or context is gone returns, dial and handshake
  end by their timeouts, and an agent that is stopped closes its session and its
  pool. Streams and sessions come or do
  not come.
- In `Handshake` both ends run, deadlines pass, and a session on a dead network
  notices. That bytes arrive is not assumed.
- In `Pipe` and `Relay` a peer that is there goes on reading: a visitor that
  neither reads nor leaves stops the copy to it in the code too. In `Hub` a Pipe
  whose session is dead returns; `Relay` shows that (`PathIsTornDown`).
- In `Tunnel` a killed server is restarted, and a session whose other side has
  gone ends (keepalive). Faults are never fair; there are finitely many.
- The handshake in `Hub` ends, because `handleCtrl` sets a deadline of eight
  seconds.

## A divergence

`pipe_halfclose`: docs/Requirements.md asks for forwarding of the byte streams
in both directions (FR-4) without loss (the multiplexing baseline). Pipe closes
both connections when the first direction has ended (forward.go:31, 39, 50-53).
If a peer sends its request, shuts down its writing side and waits, what the
other peer says after that, or has said and Pipe has not copied, is dropped
without an error. What does hold is `FirstToEndIsComplete`, and for the whole
path `RequestHeard` and `ResponseHeard`.

Further caveats, which no property states because the code does what it says
there: `GrantTTL` replaces a live lease of another owner, two agents with one
token displace each other for ever, `portset.New` takes a lower end above 65535,
and a handshake that is under way when `Run` drops the session registers after
that, so that its handler waits until the agent leaves (server.go:88; the
process ends with `Run` in the program).

`NoStrandedWaiter` has a condition that a reader should know of. A waiter whose
context is done may take the one Signal that a freed slot sends and leave with
it; the others then sleep beside a free slot until their timers fire. The
property is stated for the time before any context is cancelled;
`SleepersAreTimed` and `GetReturns` hold always, and say that the delay ends at
the waiter's own deadline.

## Proofs

Assumptions: the set of callers is finite, the zero connection is not a
connection, both limits are positive (`Pool`); the nil session is neither a
session nor a client, the set of visitors is finite (`Hub`); a window holds a
chunk (`ByteChannels`); the four channels are different (`Pipe`); the nil
session is neither a session nor the agent's client (`Tunnel`); every caller's
context can end (`Streams`; the theorems about `Pool` do not use that); lengths
are positive (`Handshake`); capacity, chunk and time to live are positive and there is a byte
(`RingBuf`, `NatMap`, `Lease`); the set of ids is finite (`Lease`); the range of
ports is not empty (`PortSet`). These are what the constructors
provide; only `portset.New` does not, with a lower end above 65535. TLC
evaluates them in every run.

| Theorem | Property |
|---|---|
| `SlotsCorrect` | `SlotsAccounted` |
| `ClosedCorrect` | `ClosedKeepsNothing` |
| `TimersCorrect` | `SleepersAreTimed` |
| `WakeupsCorrect` | `NoStrandedWaiter` |
| `BudgetRefined` | `KeepsBudget`: `Pool` implements `PoolBudget` |
| `OwnersCorrect` | `OneOwner` |
| `SocketsCorrect` | `SocketBudget` |
| `GaugeCorrect` | `GaugeCounts` |
| `RegistrationCorrect` | `OneRegistered` |
| `KeeperCorrect` | `SessionHasKeeper` |
| `StreamsCorrect` | `StreamsAreOnCurrent` |
| `ReportCorrect` | `ReportIsCoherent` |
| `KeepsOpenCorrect` | `KeepsOpenSession` |
| `ReturnCorrect` | `ReturnedMeansOver` |
| `FirstEndCorrect` | `FirstToEndIsComplete` |
| `RequestCorrect` | `RequestHeard` |
| `ResponseCorrect` | `ResponseHeard` |
| `StreamsCorrect` of ControlProofs | `StreamsLineUp` |
| `DeadlinesCorrect` | `SessionIsUntimed` |
| `ContractKept` | `KeepsAdmission`: `Handshake` implements `Admission` |
| `BackoffCorrect` | `BackoffFollowsFailures` |
| `ReadyCorrect` | `ReadyMeansSession` |
| `RingCorrect` | `RingOK` |
| `RingImplementsFifo` | `ImplementsFifo`: `RingBuf` implements `Fifo` |
| `ReverseCorrect` | `RevPointsHome` |
| `MapsAreInverse` | `InverseUnlessShared` |
| `BindingsLiveOutTheirTime` | `LivesOutItsTime` |
| `AvailableCorrect` | `AvailableIsExact` |
| `AllocCorrect` | `AllocGoesRound` |
| `TenancyKept` | `KeepsTenancy`: `Lease` implements `Tenancy` |

These say more than any run asks, or carry a result from one module to the next:

| Theorem | Says |
|---|---|
| `StreamsUsePool` | every behaviour of `Streams` is one of `Pool`, so all theorems about `Pool` hold of the agent's pool |
| `AgentConnections` | three of them, stated of `Streams`: slots, owners, sockets |
| `QuietAgent` | with no stream at work every slot is back and only parked and warmed connections are open, none parked once the pool is closed: the safety half of `SlotsComeBack` and `AgentDrains` |
| `PathReturns` | when either Pipe of a path has returned, both its directions are over, counted and closed: the safety half of `PathIsTornDown` |
| `FlowCorrect` | a visitor's or a service's data is passed on at the pace of its receiver: the path holds no more than two windows and two chunks each way and repeats nothing, while it is being torn down too |
| `StopsClean` | when the agent's Run has returned, its pool is closed and it counts as not connected: the safety half of `AgentStops` |
| `HubSurvivesCrashes` | in `Tunnel`, where the server is killed and started again, one session is registered, it has its keeper, and no step loses one that stays open |

That the variables have their types is proved on the way in each of these
modules, and the runs do not repeat it (for `Relay`, `PathTypes`).

*Pool.* Each invariant is inductive relative to those before it, and the forty
cases of Next are gone through once per question, not once per theorem:
`StepOfSlots` says that every step takes a slot, returns one, or leaves the
slots alone, and whether it may store a connection. From that follow
`SlotsAccounted`, the idle half of `SocketBudget` and the refinement.
`StepOfWaiting` says that only Sleep adds a sleeper, with a timer, in an open
pool with no slot free. `StepOfWakeups` is the balance behind
`NoStrandedWaiter`: a step that frees a slot wakes somebody if somebody waits,
and a step that uses up a wake-up takes a slot, finds none free, or leaves
nobody waiting. `OwnersStep` follows each connection from owner to owner.
`SocketBudget` then counts: every open connection is parked, held or warmed.

*Hub.* `TypeOK` is not inductive: that the gauge of streams is a natural number
needs `GaugeCounts`, that it counts the visitors on a stream. The registration
properties need `SessionsAreHeld`: an open session has its handler before or
behind `setSession`, and a session a visitor has looked up belongs to a handler
that has been serving it ever since or is gone. `ReportIsCoherent` adds that
every visitor is counted before anything else happens to it (`VisitorsCounted`)
and that a handler at work has a client (`HandlersNamed`).

*Pipe.* `Balance` says where the results are: those of the goroutines that are
done are in `errCh` or received, so that the room in `errCh` suffices and the
last one received means that both are done; with `ClosedWhenSelected` and
`Counts` that is `ReturnedMeansOver`. For `FirstToEndIsComplete` the invariant
`FirstEnd` says that while no direction has ended both connections are open on
this side, so that the first one can only end with its data, and that a complete
direction stays complete (`CompleteStays`), since a peer that has ended sends no
more.

*Streams.* A step of the agent is a step of its pool or leaves the pool alone
(`StreamsMove`), and the initial states are the pool's; the rest is what has
been proved about `Pool`. For the end of the one context to be a step of the
pool, `Cancel` had to be what a context does, which is to end for all who have
it at once.

*Relay.* Each Pipe has invariants of its own (`Balance` and `Passed`), and the
two share only the channels of the stream. So the proof has two halves of the
same shape: what a Pipe does to the channels and to its own state
(`ServerFrame`, `ServerCall`, `ServerPassed`), and that a step of the other one
does not touch what it relies on (`ServerAside`). `RequestInOrder` is what a
path goes through while nothing is disturbed and the local service has not
ended: both Pipes run, then the server's has copied the request whole while the
agent's runs, then both have (`Running`, `EndedWhole`). The middle stage is the
reason for the theorem: the server's Pipe closes its side of the stream while
data is on it, and that must not stop the agent's. `ResponseInOrder` is the
same the other way. `PathReturns` adds `PathEnds`: once a Pipe has gone past
its select both its connections are closed, and no step of another opens one
again. `FlowCorrect` goes link by link: no channel holds more than its window
(`WindowsHold`), and no Pipe more than one chunk of a direction
(`PipesHoldOne`), where each half moves what the other only looks at.

*Handshake.* The invariant follows each end through its frame: how much it has
written and read in each place, and whether its deadline is armed. The
refinement maps `pc` to the three states of `Admission`.

*Tunnel.* `AgentPlaced` says for each place of the agent what its flags are and
how the delay follows from the failures; `LinkPlaced` says whose connection the
agent is on and how far the handler at its far end can be; `Registered` that an
open session whose handler serves is the hub's current one. `ReadyMeansSession` needs
all three. `HubSurvivesCrashes` needs the hub's own properties again
(`KeeperKept`, `OpenSessionKept`), because Crash is no step of `Hub`.

*Lease.* The types are the whole invariant. Each call has a lemma that the
eager table can follow it, the sweeps by a stutter (`SweptIsSame`).

*RingBuf.* `RingOK` is inductive. The refinement rests on three lemmas about
`Contents`: `PutAppends`, `AdvanceDrops` and `DiscardDrops`, and these on
`SeenFromW`, which says where a position lies as seen from `w`: what is held
comes after what is free. The `%` of Discard is one turn (`ModuloIsWrap`).

*NatMap.* `TypeOK`, `RevPointsHome` and `InverseUnlessShared` are inductive
together: while nothing is shared, two bindings with the same way back are one
(`HomesDiffer`), so a drop takes nobody else's.

*PortSet.* `Books` (used and reserved ports are in the range and different)
makes the subtraction of counts exact. `Behind` (the place is just after the
port given last) makes that port the last one of the next round, and the loop
meets every port once (`EveryPortIsMet`).

Only model-checked are the ten properties that need fairness, which is out of
the prover's reach: `GetReturns`, `SlotsComeBack`, `AgentDrains`, `PipeReturns`,
`PathIsTornDown`, `DeadSessionIsCleared`, `NobodyIsLeftBehind`,
`TunnelRestored`, `AgentStops` and `EndsTogether`. Every safety property that a
run checks is a theorem, but for `NothingTruncated`, which does not hold.

## Not modelled

yamux and TCP are represented by what the code can observe of them. What the
bytes of frames, tokens and chunks are, the HTTP side of the status pages,
logging, configuration (but for `NextBackoff`) and the parsing packages are left
out. So are the idle wheel, which is a map with one look-up per call, and the
bitmap, which is an array with one bit operation per call. What is hard in the
bitmap is one thing: `Or` copies whole words, and so brings in bits beyond the
capacity that `Has` does not see and `Count` counts (bitmap.go:86). `PROJECT.json` has every
component with its status, and every hazard with the property that covers it or
the reason that none does.

`TunnelRestored` has no clock: that reconnecting takes at most ten seconds
(docs/Requirements.md:40) is not checked; what is checked is that the delay
between attempts never exceeds two.

## Plan

Done: the running program from the visitor to the local service with its
handshake; ring buffer, NAT table, port set and lease table. What could follow:
two agents with one token in `Tunnel`, with a clock, for how often they displace
each other.
