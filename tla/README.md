# A TLA+ model of newghost

newghost is a SOCKS5 proxy whose client side carries TCP streams (CONNECT) and UDP
datagrams (UDP ASSOCIATE) through a WebSocket gateway, with an iroh transport as an
alternative, and whose server side terminates the WebSocket and reaches the target. It is
one tokio process per side: many tasks, few locks, several bounded resources, and an ordered
shutdown. This directory models the parts of it whose correctness depends on the order in
which those tasks run.

Every definition follows the Rust source; `PROJECT.json` maps each one to the lines it
stands for. Documents of the repository (`src/docs/*.xml`, module contracts in the source)
are quoted only where they state what should hold.

## 1. Inventory

### Session core (`src/src/session/`)

| component | state | operations | what must hold |
|---|---|---|---|
| state machine `state.rs`, `effects.rs` | Active{count}, Closing{reason}, Closed | `transition(event)` gives the next state and an ordered list of effects | the last stream retires the session; Closed is final |
| registry `registry.rs` | semaphore of permits, atomic id counter, map behind a mutex, a mutex per record | `try_reserve`, `insert`, `get`, `remove`, `drain_all`, `reap_idle`, `execute` | permits are neither lost nor minted; ids are not reused; a reap spares fresh sessions (not always: section 5) |
| manager `mod.rs`, effect handler | none of its own; interleaves registry calls with awaits | `register_session`, `resolve_stream`, `handle_event`, `shutdown` | counts match streams; one end per session; capacity comes back |
| transport selector | a token and three nested timeouts per call | `open_stream` | never two attempts at once; the causes of both failures are kept |
| UDP association registry | semaphore, counter, one map of records behind one lock | reserve, open, find by endpoints, touch, close, reap | as the session registry; one association per pair of endpoints |
| datagram manager | none of its own | `ensure_outbound_association`, `accept_outbound_datagram`, `forward_outbound_datagram`, `forward_inbound_datagram`, `close_association` | one client per association id |
| datagram transport selector | none | `emit_outbound_datagram` through WSS under a timeout | every attempt ends, and leaves no path behind |

### Local side (`src/src/socks5`, `src/src/proxy_bridge`, `src/src/cli`)

| component | state | operations | what must hold |
|---|---|---|---|
| SOCKS5 listener | accept loop, bounded intent channel, a tracker of handlers | accept, handshake, `try_send` of an intent, UDP control connection | every parsed request is answered once |
| UDP relay | per connection a bound socket, a learned source, a cancellation token; a registry of sockets by relay address | receive, forward, deliver a reply | only the owner sends; the loop ends with its client |
| proxy bridge | drain token, task tracker, worker | `run_worker`, `process_intent`, `pump_bidirectional`, `drain_all` | replies are truthful; a pump owns its session; drain ends |
| client and server runtime | the handles of all of these | start, ordered shutdown, the inbound datagram target | shutdown reaches its end and loses no capacity |

### Remote side and the rest

| component | state | operations | what must hold |
|---|---|---|---|
| WSS gateway, client side | per stream two bridge tasks and their count; per emission a connection | `open_stream`, `emit_datagram`, the handshake | an acknowledged stream is served; one reply at most, and the right one |
| WSS gateway, server side | per connection one handler with no timeouts but the reply window | `run_server`, `handle_accepted`, proxy loop, datagram loop | no service without the token; a handler ends after its client |
| server UDP relay `udp_relay.rs` | a socket per datagram | send, one bounded wait for a reply | the reply comes from where the datagram went |
| datagram frames `wss_gateway/datagram.rs`, contract | none | encode, decode, validate | decode gives back what encode wrote, and refuses what is cut short |
| iroh adapter | tracker, accept token | `open_stream`, bridge tasks, `release` | both tasks end |

The client runtime wires an adapter that always answers "unavailable" where iroh would be.
`obs/mod.rs` counts and logs; `udp_origdst/` receives transparent UDP; `config/`, `auth/`, `tls/`,
`main.rs`, the systemd units and shell scripts surround all of these.

### How they interact

A SOCKS5 handler turns a CONNECT into an intent in a bounded channel. The bridge worker takes
it and spawns a task, which registers a session (a permit), asks the manager for a stream (the
selector tries iroh, then WSS), reports `StreamOpened`, replies, pumps bytes and reports
`StreamClosed`; the transition returns effects, and the effect handler turns them into registry
commands that remove the session and free its permit. UDP goes from the relay loop of a control
connection through the datagram manager to the gateway; replies come back by association id and
are handed to the socket registered at the relay address. Cancellation tokens connect the
process to the listener, the worker, every pump and every selection. Between the gateways every
message is one WebSocket frame, and a connection serves one stream or one datagram. At shutdown the client
runtime stops accepting twice, joins the listener, drains the bridge, joins the worker and shuts
the manager down, in this order.

### What is hard here

* Work split over several critical sections: permit, number and map entry; transition and
  effects; lookup and insertion of an association; check of a flag and use of it after an await.
* Records shared by handles that outlive their map entry.
* `select!`, which takes any ready branch: cancellation against data, timers against answers.
* Futures dropped by an outer timeout in the middle of their clean-up.
* A shutdown in which several components wait for one another.
* Addresses and identifiers that are handed on to a later user.
* Connections that break, and a server that restarts, between any two messages; server sides that
  outlive their client; two timers on one emission.

`PROJECT.json` lists these as hazards, each at its line, with the properties that watch it.

## 2. Modules

| module | models | proofs |
|---|---|---|
| `SessionState` | `transition` as two operators, `NextState` and `EffectsOf` | |
| `CapacityPool` | abstract specification of both registries | |
| `SessionRegistry` | the registry, one atomic access per action | `SessionRegistryProofs` |
| `SessionManager` | the manager over `SessionRegistry` (INSTANCE), one await or lock per action | `SessionManagerProofs` |
| `TransportSelector` | one `open_stream` call with its timers | `TransportSelectorProofs` |
| `ProxyBridge` | queue, worker, request tasks, pumps, ordered shutdown | `ProxyBridgeProofs` |
| `BridgeLifecycle` | one transport stream: bridge tasks, pump, shutdown, release | `BridgeLifecycleProofs` |
| `DatagramManager` | association registry and the calls over it | `DatagramManagerProofs` |
| `UdpRelay` | control connections, relay loops, socket registry, replies | `UdpRelayProofs` |
| `WssConnection` | connections between the two gateways, for streams and for datagrams | `WssConnectionProofs` |
| `DatagramCodec` | SOCKS5 packets and WebSocket frames, extended by `WssConnection` | in `WssConnectionProofs` |
| `BestEffortDatagram` | abstract specification of the emissions of one relay loop | |
| `MC*` | constants, bounds and symmetry of the runs | |

**SessionState.** Five events, three phases. Instants (`since`, `deadline`) are left out: the
code stores them and never compares them; a deadline is reached when a caller says so.
`MaxStreams` stands for `u32::MAX`, where the count saturates.

**SessionRegistry.** `permits` is the semaphore, `nextId` the atomic counter, `sessions` the
keys of the map, `record[id]` what every clone of a handle shares, `undropped` the entries that
`drain_all` took out and whose permit is not dropped yet, `call[c]` where a caller is. `insert`
is two actions, because the counter and the map are accessed separately; `drain_all` is one
action that empties the map and one per permit dropped; `reap_idle` holds the map from
`ReapStart` to `ReapEnd`: `ReapVisit` takes the snapshot of a record under that record's own lock, and
`ReapRemove` drops the entry when that lock has been released (the caller is "condemning" in between), so a
`Touch` through a handle may come before the visit or between the two; a command (`FindForCommand`, `ExecuteCommand`) looks its handle up
under the map lock and writes the record later, registered or not. Idleness is a flag:
`GrowIdle` is the passage of time.

**SessionManager** instantiates the registry over the same variables and adds `job[c]` (the
operation a task is inside), `stream[c]` (the session whose stream it holds) and the history
variable `reported`. `resolve_stream` is the chain `BeginResolve`, `CheckAccepting`,
`SelectSucceeds` or `SelectFails`, `FindSession`, `ApplyTransition`, then effects one at a time;
`handle_event` is its tail. `clients` says which tasks there are and what each sends: the events of
the client runtime (StreamClosed, DeadlineReached; StreamOpened comes from `resolve_stream`) or
all events the API takes. The flag `accepting` is read in `CheckAccepting` only, so that a stream may still
be opened on a session that stopped accepting while its transport was selected. What holds for the former only has `InRuntime` as its premise.

**TransportSelector** has discrete time. Every timeout takes every value of `Duration`, so the
relation between them is explored and not assumed. The runtime acts on a timer that is due, and polls a call
for the first time, at most `Latency` late. The safety timer runs from the call on, the timer of an attempt from
the moment the attempt begins, and which of several due timers is acted on is open; `select!` may take any ready branch. Adapters resolve, fail or never answer.

**ProxyBridge** follows each request from the listener to its end in `stage`. The manager's
operations are atomic here, which `SessionManager` justifies for a request with a session of
its own. A pump's bytes are not modelled, its control is: `PumpRead` takes bytes and enters
`writing`, where the drain token is not looked at. `phase` is the position of
`run_client_mode` in its shutdown. `ListenerFails` is the listener that ends by itself: the select
takes the result of its task, the second await of that handle panics, and the process goes with
everything that is under way.

**BridgeLifecycle** is one stream of either adapter (`kind`) from `open_stream` to the end of its
two tasks. `active` is the count of tasks that `shutdown` tests; counting out and notifying are two
steps, as are testing and waiting, so a notification may be lost and the wait end by its timeout.
`outbox` and `inbox` are the two directions of the local duplex stream with room for `PipeRoom`
chunks. The owner is the pump of the proxy bridge, which does one thing at a time: while it waits
in a write it neither reads nor looks at its token. `refusing` is a peer that takes nothing more:
its Close frame was read, after which tungstenite refuses every send, or it stopped the iroh stream. A write to the local stream fails only when
both tasks are gone, since the two halves of the bridge end keep it alive together.

**DatagramManager** splits `ensure_outbound_association` into lookup, touch, reservation,
numbering and insertion. `close_association` is two actions, since the permit is dropped after the
map is unlocked; `undropped` holds the associations in between. `Owner` says that one relay loop receives at each pair of endpoints,
as the runtime spawns one loop per relay socket; without it the lookup and the insertion could
race, which the code does not prevent by itself.

**UdpRelay** has the datagram manager as one atomic step and follows ports: a port may be bound
again as soon as no loop and no registry entry holds its socket. The loop awaits each emission: `Forward`
begins one, `EmissionEnds` and `EmissionFails` end it, and the reply, if one comes, is delivered within it
(`DeliverReply`), since `emit_datagram` calls the inbound target itself. `under` is the association of the
emission under way; `opener` and `senders` are history.

**WssConnection** is the protocol between the two gateways. `client[c]` and `server[c]` say how far
the two sides of a connection are, `up[c]` and `down[c]` hold the frames between them, and "cut" is
an end without a Close frame: the reader sees an error there, as it would with tungstenite. The
handshake is the chain token, ok, CONNECT or DATAGRAM OPEN, connected or datagram-ready. A stream
then carries chunks in both directions until `UplinkCloses` and `TargetCloses` have ended both, as
`try_join!` does; any error ends the handler and both directions with it. An emission (`Begin` parses
the client's packet with `DatagramCodec`) sends one frame, waits `Window` for a frame to come back,
hands it over and closes; the selector's timer `age` runs over all of it. On the server
`RelayOutbound` decodes the frame and sends, `hold` is the wait for a reply, `RelayInbound` takes the
first packet that comes and `ForeignPacket` is one from elsewhere. `Break` loses what is on its
way, `ServerExits` and `ServerStarts` are a crash (or a stop) and the restart by systemd. The bridge
tasks of a client stream are only as detailed as the peer can see them; `BridgeLifecycle` has the rest.

**DatagramCodec** writes and reads frames cell by cell where a length decides (names, the client's
address, the payload) and copies the other fields as one cell. A cell has `Base` values, so that a
length field of one cell wraps at `Base` and one of two cells at its square, as a byte wraps at 256
(`BigEndian2`, `BigEndian4` and their inverses `Value2`, `Value4`).
Slicing past the end of a frame, which panics in Rust, yields a value that no property accepts.

**BestEffortDatagram** promises of the datagrams of a relay loop: each reaches its target at most
once and unchanged, at most one reply comes back, it is the answer to that datagram, and it comes
while the emission still waits. `WssConnection` refines it with `envelope`, `remote` and `got`; the
timers, frames, crashes and handlers stutter.

## 3. Runs

All constants are bounds of the instance and not of the code, except where the code has the
limit (`Capacity`, `QueueLimit`). `MaxId` bounds the 64-bit counters, `IdBudget` keeps a
registration from starting when it could not be numbered.

| run | instance | shows |
|---|---|---|
| `SessionRegistry` | 2 callers, 2 permits, 3 ids | conservation of permits, refinement of `CapacityPool` |
| `Manager` | 3 tasks with runtime events or 2 with all events, 1 permit, 2 ids, fair | stream counts, refusal of streams once an end has been dealt with; with runtime events one report of the end, retired means closed, closed stays closed, closed means capacity back |
| `Bridge` | 3 requests, queue of 1, 2 permits, fair, peers read | truthful replies, pumps under live sessions, every request answered or dropped, shutdown ends |
| `TransportSelector` | timeouts 0..5 each, lateness 1 | a safety timeout above both attempts and their lateness is slack, cancellation stops the fallback |
| `DatagramManager` | 2 loops, 3 endpoint pairs, 2 permits, 3 ids | conservation of permits, one association per endpoint pair, one client per id, refinement of `CapacityPool` |
| `UdpRelay` | 3 connections, 2 ports, 2 clients, 1 association, fair | no foreign sender, no socket changing hands under a running loop, replies find the loop and the client that wait, end of the control connection ends the loop |
| `BridgeLifecycle` | both adapters, pipes of 2 chunks, fair | Ok means both tasks ended; a peer that listens is told; cancel, drop and release end both tasks |
| `WssConnection` | 2 connections (stream or emission each), window 2, timeout 4, 1 chunk, fair | true acknowledgements, frames that decode, attempts that end, handlers end after their clients, refinement of `BestEffortDatagram` |
| `BridgeDeadlock` | pipe of 1 chunk, fair | violated: pump and reader task wait for each other |
| `BridgeLeak` | 2 requests | violated: a failed request keeps its session |
| `UdpStaleAssociation` | 2 connections, 1 port | violated: a relay sends under an earlier relay's association |
| `UdpOrphanLoop` | 2 connections, 1 port, fair | violated: a relay loop outlives its control connection |

Why the bounds are enough: each race in the code is between two accesses, so two actors reach
it, and a third one (in `Manager`, `Bridge` and `UdpRelay`) is there for the resource that
two of them compete for. Three ids let a member leave and a new one come in while a third
operation is still under way. One permit makes the limit bind at once; two permits let a drain or
a reap take several sessions. Timeouts of 0..5 with a lateness of 1 include every order and every equality of three
of them, of the sum of two with the third, and sums that leave more than three units of lateness below the third and sums that
leave less. Two ports let two relays run at once, and the system hands one on as soon as it is free; one
association is at the limit at once and is left to the next relay at its port. Two
connections are enough for a server side to outlive its client while the next emission is under way,
since the loop awaits each. A timeout of twice the window leaves room for a handshake of 0, 1 or 2 ticks
that the window still fits behind, and for one of 3 behind which it does not. `Base` is 4 and the
first datagram's name is 3 cells long, the longest a length cell can say; the client's address and the payload
are longer than one cell can say.

**Fairness.** Weak fairness of a task's own steps says that tokio keeps polling tasks it was
told are ready; it never covers the decision of a client to begin something. `select!` without
`biased` polls its branches in random order, so a cancellation branch that is ready again and
again is taken: strong fairness of `PumpDrained` and of `ObserveCancel` in `UdpRelay`. The
total request timeout bounds a resolution, and the selector's timeout bounds an emission, which `WssConnection`
checks (`AttemptsEnd`) and `UdpRelay` takes as its fairness; that is why a pending one is not an endless behaviour. `PeersRead` in `Bridge` is an assumption on the
environment: whoever is written to reads, or its connection breaks; `BridgeDeadlock` shows a way in which it fails inside the
process. `BridgeLifecycle` assumes nothing of the remote peer: what a property needs from it is its
premise (`PeerHolds` not for ever, a farewell answered). `WssConnection` is fair to both sides'
tasks (`Handler`, `Attempt`) and to the clock, whose timers tokio fires; it is not fair to what the
local caller, the targets and the network choose to do, with one exception. `TargetHangsUp`: a
target that was told that its client is done answers or closes at last. The server has no timeout of
its own there, so that without it a handler may wait for ever, and `HandlerEndsAfterClient` says what
the code guarantees under it.

`CHECK_DEADLOCK` is never switched off: where the system may stop, an action says so
(`Finished`, `Terminated`, `Returned`, `Exhausted`, `Quiet`) and its guard says when.

## 4. Proofs

`SessionRegistryProofs` proves for every finite set of callers, every capacity and every bound
on identifiers:

* `RegistryTypeCorrect`: permits stay in `0..Capacity`, so the semaphore is neither overdrawn nor
  released twice;
* `RegistryConservesPermits`: semaphore, guards, map and undropped entries together always
  hold exactly `Capacity` permits;
* `RegistryImplementsPool`: `Spec => Pool!Spec`, step by step.

Neither types nor conservation are inductive alone. `IInv` adds `IdsHaveOneOwner` (an
identifier is in the map, undropped, or carried by one caller, and it is below `nextId`; without
it `Publish` could put a key in twice and conservation would be off by one), `ReaperHoldsMap`
(at most one reaper, and what it has not visited or is about to remove is still in the map; without it `ReapRemove`
could release the permit of an entry that is gone) and `CommandsNameInserted` (a command names a
session that was inserted; the records of identifiers still in flight are not written). The
invariant is shown to hold initially and to be preserved action by action, with lemmas on the
cardinality of the four sets; conservation bounds permits from above, and each guard from below.
The refinement maps a state to `live = sessions`, `retired = Inserted \ sessions`: `Publish` is
`Admit`, where the capacity bound follows from conservation because the publisher's own
guard counts; `Remove`, `ReapRemove` and `DrainAll` are `Retire`; everything else stutters.

The proofs rest on `RegistryAssumption` (finitely many callers, natural numbers) and
`MaxStreamsAssumption`, which TLC evaluates in the run `SessionRegistry`.

`SessionManagerProofs` proves for every finite set of tasks, every choice of the events they send,
every capacity and every bound on identifiers:

* `ManagerTypes`; `ManagerConservesPermits` and `ManagerImplementsPool`, the registry's results for the
  registry with the manager as its client. They are not proved again: `SessionRegistryProofs` is
  instantiated, and every step of the manager is shown to be a step of the registry or to write one
  record and nothing else;
* `EndedSessionsRefuseStreams` (`EndedSessionsRefuse`): nobody gets past the check of a registered session whose
  active phase has ended, once the effects of that event are applied. The lemma invariant is `RejectionUnderWay`: the flag
  is off, or the task that applies those effects has that step before it. It says nothing of a resolution
  that is past the check already;
* `StreamsAreCounted`: the count of an active session is the number of tasks that hold one of its
  streams. Its premise is `Cardinality(Callers) <= MaxStreams`: the count saturates, as it does in the code
  at `u32::MAX`, and beyond that it is not the number of streams;
* under the runtime's events (`InRuntime`), `EndReportedOnce`, `RetiredSessionsClosed` and
  `ClosedStaysClosed`.

`BaseInv` adds to the registry's invariant what tasks carry: an inserted session (`NamesInserted`), one
stream at most (`HasOneStream`), and records of unused identifiers are new (`UnusedAreNew`), so that a
session begins without streams. `RuntimeInv` says which effects the runtime's events leave to be applied
(`RuntimeShape`) and who is about to report an end: one task at most, of a session that is closed and
that nobody has reported (`OneReport`). Without it the three are not inductive, because a transition
closes the record, and the report and the removal follow in later steps of the same task.

`ProxyBridgeProofs` proves for every set of requests, queue limit and capacity `BridgeTypes`,
`AnswersAreTrue` (`RepliesTruthful`) and `PumpsAreOwned` (`PumpOwnsSession`). `IInv` has these parts
beside the types: `Channel` (a request is in the queue, with the worker or in its task, and in one of
them only), `ShutdownOrder` (the drain token is cancelled as the shutdown begins, and a process that died
accepts nothing), `Told` (what a request was told in each stage), `SessionOf` (when it has a
session, and in which state) and `InPhase`: no stream outlives `drain_all`, and a task that is spawned after it is refused its stream by the drain token. That is why closing all
sessions afterwards never closes one under a pump. `BridgeAssumption` says that the names of the
worker's own states are not requests.

`TransportSelectorProofs` proves for every set of timeouts the types, `NeverParallel`, `CausesKept`,
`SafetyIsSlack` and `FailureAfterCancelStops`. The invariant is `Timing`: the iroh attempt begins within `Latency`
of the call and is over within `Latency` of its timer, so the WSS attempt is over by the sum of the two timeouts and three times `Latency`;
a safety timer that fires does so by then, and a safety timeout above that is never due. At the bare sum it is due
before the attempt's own timer, and `ContractViolation` hides the answer: `LatencyAssumption` asks no more of the lateness
than that it is bounded.

`BridgeLifecycleProofs` proves for every pipe capacity that `active` stays in `0..2`
(`finish_bridge_task` decrements without a check), that a shutdown that returns Ok has seen
both tasks leave, and `PeersAreTold`. The invariant says what the count counts: one for each task that has not yet
counted itself out, and both before they are spawned; and that a farewell is never taken back
nor is a refusal, and a broken connection stays broken, so that a writer that left its loop has told its peer, or
had nobody to tell.

`UdpRelayProofs` proves for every set of connections, ports and clients and every capacity the types,
`SendersAreOwnClients` (`NoForeignSender`), `LoopsOwnTheirPorts` (`RunningLoopOwnsPort`) and `RepliesReachSenders`
(`ReplyReachesSender`). `RunningLoopOwnsPort` is not inductive: a handler unregisters a port by its number, so it has to own it until
then, even after its loop has ended. `OwnsPort` says so for a loop that runs and for a handler that
has not unregistered yet. For the senders, `FromLearned` carries the learned client from the receipt of a datagram
to its dispatch, and `SendersKnown` says that an association that is not opened has none. For the replies, `UnderOwn` says that
the association of an emission under way has the port and the client of the loop that awaits it, whoever opened it; the socket
at that port is the loop's own by `OwnsPort`.

`WssConnectionProofs` proves for every number of connections, all timeouts, all packets and answers:

* `FramesRoundTrip`: each datagram frame under way decodes to the envelope or the reply it was made
  of, and each proper prefix of it is refused. The lemma behind it, `FrameRoundTrip`, is about
  `DatagramCodec` alone: `Layout` says at which cell each field of a frame begins, `FrameWritten` that
  the encoder writes it, `LayoutRead` what the decoder makes of a frame cut anywhere, down to the
  carries of two- and four-cell lengths. `PacketRoundTrip` is the same for SOCKS5 packets;
* `AcksMeanServed` (`AckMeansServed`) and `ConnectionTypes`;
* `PathsAreBestEffort`: `Spec => IsBestEffort`, step by step.

The sides of a connection know of each other by frames only, so the invariant is about these:
`Upward` and `Downward` are the frames that may be on their way, each saying something that is
true and remains true until it is read (`connected`: the target was connected; `ready`: the relay loop
was begun; `datagram`: the envelope encoded, or the reply to it once an answer was received). `UpQueue`
has one datagram at most, and none after it was received, hence "at most once". `Handshake` relates the
two sides, `Exchange` relates envelope, remote datagram, answer and reply, and `Sequential` says that
emissions follow one another, as the service asks. `Break`, crash and restart only empty queues
and end handlers, which all of this survives. In the refinement a `Begin` is the service's, `RelayOutbound`
is `Relay`, `RelayInbound` is `TakeAnswer`, `ReplyArrives` is `Deliver`, and every end of a client's side is `Finish`.

What is assumed there: `CodecAssumption` (a length field of four cells can say how long a payload is) and
`ConnectionAssumption` (packets and answers are cells; an answer is no longer than
`MAX_DATAGRAM_PAYLOAD_BYTES`, what one UDP datagram carries over IPv4; the address of the local client is
a text whose length fits its two-cell field). The packets themselves are not restricted: those that
do not parse are never emitted.

`DatagramManagerProofs` proves for every finite set of relay loops, every set of endpoints, every
capacity and every bound on identifiers:

* `ManagerTypeCorrect` and `ManagerConservesPermits`: semaphore, guards, map and the closed associations whose
  permit is not dropped yet together hold exactly `Capacity` permits;
* `EndpointsAreUnique`: two associations never have the same relay and client;
* `IdentitiesAreNotShared`: under one identifier one client's datagrams are dispatched;
* `ManagerImplementsPool`: `Spec => Pool!Spec`, by the same mapping as for the session registry.

Its `IInv` adds to them `IdsSuffice` (the counter stays in its bound while openings are under way),
`IdsHaveOneOwner` (as in the registry), `ClosedAreGone` (what waits to be dropped is out of the map and its identifier used up), `CallsAreOwned` and `OpeningIsFirst` (a call is for
endpoints of its own loop, and while it opens an association none has these endpoints: without them
uniqueness is not inductive, since the code looks up and inserts in two critical sections),
`CallsNameInserted` (a call that goes on with an identifier carries the endpoints it was inserted
for, even if the association has gone) and `SentAsInserted` (what was sent under an identifier).
`DatagramAssumption` says that endpoints have one owner each, `Owner`: a relay socket has one loop,
which makes one call at a time. Two loops on one relay would break uniqueness: `InsertPreserves`
would fail where it shows that no other call is opening the endpoints that are inserted.

Only model-checked: all liveness (`ClosedIsRetired`, `EventuallyAnswered`, `ShutdownCompletes`,
`EofEndsRelay`, `CancelEndsBridge`, `DropEndsBridge`, `ReleaseEndsBridge`, `AttemptsEnd`, `HandlerEndsAfterClient`),
since temporal reasoning under fairness and ENABLED are outside the proof system's reach, and that no
module stops where it should not (TLC's deadlock check). Every invariant, every action property
and every refinement that a passing run checks is also a theorem. Only proved: `NeverParallel` and `CausesKept`, which hold
for `TransportSelector` by the way the attempts follow one another.

## 5. Where code and documents differ

Shown by runs:

* **A failed CONNECT keeps its session.** proxy_bridge/mod.rs:158 sends DeadlineReached in Active,
  which ignores it. Nothing in the runtime reaps sessions, so the permit comes back at shutdown only.
* **Pump and bridge task deadlock.** With both directions of the local pipe full, the writer task
  leaves (the connection broke, or the token was cancelled) without draining it. The pump is in
  `write_all` towards it, the reader task in `write_all` towards the pump, and the pipe stays open
  because the reader holds one half of its other end. Neither looks at a token and neither has a
  timeout, so the request task, `drain_all` and the process's shutdown wait for ever. Entanglement is
  the only exception: the run `BridgeLifecycle` checks that cancel and release otherwise end
  both tasks.
* **Orphaned relay loops.** `total_timeout` (socks5/mod.rs:231) bounds the handler of a UDP control
  connection for as long as that is open. When it fires, the token of the relay loop is dropped
  without being cancelled, and the loop goes on with its socket and its registry entry. The
  default timeout is 10 s, so every longer-lived UDP association meets it.
* **Stale associations.** Nobody closes the association of a UDP control connection that ended (socks5/mod.rs:301), and
  the runtime does not reap. The next relay bound to the same port finds it for a client with the same address
  and sends under it, which the verification plan (line 2330) calls a failure. Replies are not misdirected by it
  (`ReplyReachesSender`): they only come inside the emission that the loop awaits, with its own socket registered.

Seen while modelling, part of the models, without a run of their own:

* `write_all` is awaited inside the pump's select branch: a peer that does not read holds the pump
  and with it `drain_all`.
* `reap_idle` (registry.rs:188) decides on a snapshot and drops the entry when the record is unlocked again
  (`ReapVisit`, `ReapRemove`): a session refreshed in between goes, although the verification plan (line 665) says "Idle
  reaping must remove only stale sessions and preserve fresh ones". The client runtime does not call it.
* `resolve_stream` (session/mod.rs:211) reads the flag before it asks for the transport and not again, and `StreamOpened`
  in Closing is no error: a resolution under way when a drain begins returns its stream from a closing session
  (`EndedSessionsRefuse` says what the check does promise). The runtime's events make no session Closing.
* A `shutdown` of a transport stream may return Timeout although both tasks have ended, when the
  last one notifies between the test of the count and the wait.
* `IrohAdapter::release` may return Ok before an `open_stream` under way spawns its tasks; they end
  at once, since the endpoint is closed.
* The reason of a session that lost its transport is overwritten by the close command its own
  transition emits: announced closing by transport_lost, reported closed by drain_shutdown.
* The bridge worker may spawn the intent it holds after `drain_all` has found the tracker empty;
  the drain token then refuses its stream (`PumpOwnsSession` covers what follows).
* Closed is not terminal through the API: `close_streams` (registry.rs:216) writes the record
  whatever its state, and a graceful close that looked its handle up earlier turns Closed into
  Closing, although the verification plan (line 686) says "Closed is terminal". The events the
  client runtime sends do not include the two that emit it; with them the property holds (`Manager`).
* A selection whose iroh attempt times out does not look at the token before it starts the WSS
  attempt (`FailureAfterCancelStops` admits exactly this).
* If the listener ends by itself, the client runtime awaits its finished handle a second time: it
  panics, and nothing is drained (`ListenerFails`).
* With `wss_connect_timeout` at or below the reply window of 2 s every unanswered datagram is a
  `WssTimeout`, and a failed emission ends the relay loop (`EmissionFails`).
* A stream whose client sends its Close frame first loses what the target still has to say: the
  server's next message is an error and ends the handler (`Downlink` after `fin`).
* A client connection that ends without a Close frame ends the handler with an error, and dropping
  the target's stream looks like a clean end there: the target cannot tell a truncated stream (`PeerLost`).
* The server reads the token, the request and the stream without a timeout (`Handler` has no timer).
* A packet from anyone but the target at the server's relay socket ends the server's loop without a reply
  (`ForeignPacket`); the emission fails, and with it the client's relay loop.
* `decode_datagram` ignores cells after the payload.

## 6. Not modelled, and the plan

Done, in this order: session state, registry and its proofs, manager, selector and its proofs, bridge,
datagram manager and its proofs, UDP relay, bridge lifecycle and its proofs, datagram codec, connections between
the gateways; then the proofs about manager, bridge, UDP relay and the connections. The most shared
state came first.

Not modelled:

* The burst detector: nothing but its tests calls `record_burst`; the rest of `obs/` is logging and
  counters that no decision reads.
* The original destination listener: a sequential receive loop around system calls.
* The bytes of the SOCKS5 handshake and the mapping of errors to reply codes: sequential, and unit
  tests reach them. A request enters `ProxyBridge` parsed.
* `select_transport` and `open_path`, which have no caller in the runtime, and the shutdown
  coordinator of `cli/mod.rs`, which records phases and drives nothing.
* TCP, TLS and the WebSocket upgrade (`connect_websocket`): one step that succeeds or fails. The
  pings of either side, which both ignore.
* Backpressure between the gateways: a frame that is sent is in the queue. Inside the client process
  `BridgeLifecycle` models it.

Proofs to come: a refinement between modules that model the same code at two levels, the manager's
operations as `SessionManager` has them and as `ProxyBridge` takes them in one step, and
safety lemmas on the way to the liveness properties (what a stuck handler or a stuck request looks like).

Left out for good: TLS contexts and certificates, command line and environment parsing, logging and metric sinks, system calls behind the original destination socket, systemd
units and scripts. They are sequential or pure input and output, and unit tests reach them.
