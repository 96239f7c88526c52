# rtc-bridge in TLA+

rtc-bridge lets a browser reach TCP services of a *node* behind NAT. The node
keeps a WebSocket to a *coordinator*; the browser POSTs an SDP offer to the
coordinator, which forwards it to the node and hands the node's answer back; from
then on browser and node talk over WebRTC data channels, which the node bridges to
TCP. The hard parts are the ones that run concurrently: goroutines that share a
registry, a mutex and a socket, and time-outs that race with late events. These
modules model them, TLC checks them on small instances, and TLAPS proves the
safety part for all instances.

## Inventory of the system

| Component | State | Operations | Interacts by | What makes it correct |
|---|---|---|---|---|
| coordinator, node connections (`coordinator/main.go` 123-303) | `c.nodes` under `c.mu`; per connection `lastSeen`, the read deadline | `handleNodeWS` (handshake, read loop, ping handler, deferred calls), `registerNode`, `unregisterNode`, `pruneLoop` | WebSocket messages, `c.mu`, `n.mu` | an entry lives as long as the handler behind it; a live node stays listed; a lost one goes |
| coordinator, `POST /offer` (`coordinator/main.go` 354-425) | `n.pending` under `n.mu`; `p.ch`, capacity 1; a 30 s timer | `handleOffer` | `n.mu` (held over the write), `p.ch`, the read loop of the node | one response per request, with the answer made for it; no waiter left; the read loop never blocks |
| keepalive (`coord_client.go` 18-19, 117-124; `main.go` 125-128, 225-242, 287-303) | ticker, deadline, `lastSeen`, prune ticker | ping, ping handler, read, prune | time | live nodes kept, vanished ones dropped in bounded time |
| node, coordinator client (`node/coord_client.go`) | context, one connection, goroutines | `runCoordinator`, `connectCoordinator`, ping goroutine, `handleCoordOffer` | WebSocket, `ctx`, `stopPing` | one connection at a time, graceful close, goroutines end, the process survives |
| node, reconnect backoff (`coord_client.go` 18-66) | `delay` | `nextBackoff`, reset after 30 s | time | the delay stays in a band |
| node, data channels (`node/main.go` 128-313) | `buf` (256), `commitment`, `rNode`, TCP connection, `once` | pion's callbacks, command loop, `bridge` | callbacks, channel, TCP | bytes in order, identity challenge used once, everything ends when one end closes |
| client library, `Channel` (`client/src/index.ts` 84-214) | `_connected`, message listeners, timers | `ping`, `list`, `verifyIdentity`, `connect`, `close` | data channel events | a response resolves the command it belongs to; both ends agree on the mode |
| client library, `dial` (`client/src/index.ts` 218-320) | the `RTCPeerConnection` of each try | `dial`, `dialOnce`, `createChannel`, `Node.close` | `POST /offer`, `connectionstatechange` | every call settles; a retry leaves one connection |
| registration handshake (`protocol/protocol.go`, `coord_client.go` 75-113, `main.go` 166-221) | two random values and a commitment per connection | `VerifyHello`, `SignRegistration`, `VerifyRegistration` | messages | a registration is one handshake with this very session, afresh, and concurrent handshakes do not mix |
| `cli-client` (`cli-client/main.go`) | `received` (32), timers | choice of a node, offer, handshake, message loop | `GET /services`, `POST /offer`, data channel | it always exits; PASS means what it says |
| `echo` server (`echo/main.go`) | none | `handle` | TCP | one reply per line, in order |
| listings, statistics, landing page (`main.go` 311-352, `landing.go`) | `sdpTracker` | `record`, `perHour`, page handlers | `c.mu`, its own lock | the listing is the registry |
| configuration, identity files, command lines, demo pages | files | start-up, user interface | | not modelled |

The behaviours that a test hardly reaches are listed, each at its line, under
`hazards` in `PROJECT.json`; the properties below are aimed at them.

## Modules

| Module | What it is |
|---|---|
| `OfferExchange` | abstract: what `POST /offer` promises its caller |
| `Coordinator` | the coordinator: connection handlers, offer handlers, prune loop, locks; implements `OfferExchange` |
| `MCCoordinator` | values of `Coordinator`'s constants for TLC |
| `CoordinatorProofs` | inductive invariant, safety theorems, refinement |
| `Keepalive` | the timing of one registered connection, with clocks |
| `KeepaliveProofs` | its theorems, for all intervals |
| `NodeClient` | the node's side of the coordinator connection |
| `NodeClientProofs` | its theorems, for any offers and connections |
| `Tunnel` | abstract: what a channel connected to a TCP service promises its two ends |
| `DataChannel` | one data channel on the node: callbacks, command loop, TCP bridge; implements `Tunnel` |
| `Channel` | the client library at the other end of `DataChannel`, which it extends |
| `DataChannelProofs` | its theorems, for any secrets, capacity and number of messages; refinement |
| `ChannelProofs` | theorems of `Channel`, for any calls, capacity and number of messages |
| `Registration` | the registration handshake between any nodes and sessions, over a network that keeps every message |
| `MCRegistration` | values of its constants for TLC |
| `RegistrationProofs` | its theorems, for any keys, attempts, sessions and width of the randoms |
| `Dial` | how a client gets a connection to a node: `dial`, `createChannel`, the first half of `cli-client`; uses `OfferExchange` |
| `CliClient` | the second half of `cli-client`, the node's bridge and the echo server; extends `Dial` |
| `CliClientProofs` | theorems of both |
| `Backoff` | the reconnect delay of the node, with its proofs |

`Dial` relies on the abstract `OfferExchange` where the coordinator is concerned, and
`CoordinatorProofs!Refinement` shows that the coordinator implements it. `Channel` in
turn starts where `createChannel` of `Dial` ends, with an open channel in command mode.

### Coordinator

One `Conn` is one WebSocket connection with the `node` struct made for it; a node
that reconnects uses a second `Conn` with the same `NodeOf`. `nodes` is
`c.nodes`. `hpc[c]` is where `handleNodeWS` stands: the handshake, `verified`
(the struct exists), `reading` (in `ReadMessage`), `frame` and `deliver` (in the
switch), `closing` (replying to `MsgClose`), `unregister` and `closeconn` (its
deferred calls). `opc[r]` is where `handleOffer` stands on request `r`. One action
is one critical section or one blocking point; what the code does under one lock
without blocking is one action.

* **`c.mu`** is free or held by the prune loop; every other holder releases it in
  the same step. A sweep keeps it (`PruneStart`, `PruneNode`, `PruneEnd`) because
  the code waits for each `n.mu` inside.
* **`n.mu`** is held across steps only by the `handleOffer` that writes
  (`BeginWrite` ... `EndWrite`).
* **gorilla/websocket** (external) allows one writer. Its check is a plain flag,
  `isWriting`, tested when a frame is flushed and again after; a violation panics,
  and the racy test may miss it. Both outcomes are allowed wherever two writes can
  meet: the reply to `MsgClose`, which takes no lock, and an offer's write. A panic
  in `handleNodeWS` runs its deferred calls; one in `handleOffer` is recovered by
  `net/http` and leaves `n.mu` locked (`opc = "panicked"`).
* **The network** (external): a connection is `up`, `silent` (the peer is gone and
  nobody knows), `reset`, `closeSent` or `closed` by the coordinator. A write to a
  silent peer may succeed into the kernel's buffer or block.
* **Nodes** run the real node program: they answer an offer at most once, on the
  connection it came on, and send nothing after `MsgClose`.
* **Time** is abstracted: a deadline may fire whenever the code waits on one, and
  the pruner may find any connection stale that is not up. `Keepalive` justifies
  the second assumption: a live node is never stale.

Here the handshake is its control flow, with messages that verify; one that does not
ends in `HandshakeFails`, as does its 15 s deadline. What it proves is the subject of
`Registration`.

### Keepalive

One registered connection with clocks. Time stops for whatever is due: an expired
timer is acted upon before the clock moves on. A ping of a live node is handled
within `MaxDelay` of its tick. Locks are assumed free; what a blocked lock does to
the timing is described under the violations below.

### NodeClient

`pc` is the loop of `runCoordinator` and `connectCoordinator`; each connection has
its ping goroutine, each offer its `handleCoordOffer`. All write to the
connection without a lock, so every write is two steps (`WriteBegins`,
`WriteEnds`) with gorilla's check in both. A panic ends the process, for nothing
recovers it. `served`, `lost` and `closeSent` are history variables.

### DataChannel

Four threads of control share `buf`, `dc` and `conn`, without a lock:

* pion's read loop `rl` (external) takes messages off the `wire` and calls
  `OnMessage`, which is the step from `holding` to `reading` and blocks while `buf`
  is full. When the client's end is closed and all is read, it ends and starts
  `OnClose`, which closes `buf`.
* the command loop `pc`: each case of the switch is an action that takes the head of
  `buf`. All inputs that get one reply and change nothing are the command `plain`.
  `connect` is two steps, since the dial takes time (`dialing`).
* `writer` and `reader` are the goroutines of `bridge`; both end in `cleanup`, which
  is guarded by `once` and so has an effect once.

Messages are numbered by the client. The node's random is the number of the
challenge it was made for, the client's random and its hash are one `Key`: hashes do
not collide and randoms do not repeat. A channel that the node closes is `closing`
until the read loop has ended. `toTcp`, `down` and `cut` record what was written,
what was sent and which event ended the bridge first.

`Tunnel` is what all this is for, without a buffer, goroutine or callback. The client's
messages count from the `connect` that was obeyed (`start`); each end leaves once
(`live`). The tunnel may break as soon as one end has left, never before, and it ends
cleanly, as `client closed` or `service closed`, only when all that this end has sent is
through; what was on its way to the end that left, in `buf` or in the socket, is dropped
by the code and not promised. Both directions count: the client's messages and the
service's chunks carry numbers, and `toService` and `heard` are what has come through, so
a lost, repeated or swapped one is no step of `Tunnel`. `TunnelState`, `LiveEnds`,
`TunnelStart` and `Heard` (what the client was sent behind the `ok`) map the state of
`DataChannel` to it.

### Channel

`Channel` composes the client library with `DataChannel`: every step of the node, of
pion and of the TCP service is a step of `DataChannel` (`ElseStep`), and messages are
sent by `sendCmd` only, one `ClientSend` for one command. A `Key` is one method call;
`at` is where it stands, `listening` are the calls whose handler and timer are set.
One message event calls all handlers (`Event`), and the calls they resolve go on
before the next event or timer (`Quiet`), as promises do. When `dc.send` throws, the
handler and timer stay, as in the code. The history variables `overlap` and `late`
say whether the application has made a call before an earlier one returned, and
whether a command has timed out: most of what the library promises holds without
these two (`Orderly`), and `VerifiedByOwnProof`, `PipeModeSilent` and `CallsReturn`
hold with them.

### Registration

An `Attempt` is one call of `connectCoordinator`, a `Session` one call of
`handleNodeWS`; `KeyOf` says whose attempt it is. A random is a set of bits, so that
`xor32` is a real symmetric difference and two pairs of randoms can have the same
joint value; a hash or a node id is a term, and a signature a record of a key and what
was signed. Drawing a random takes a fresh one: randoms of 256 bits do not repeat.
The network is external: it keeps every hello, challenge and registration that was
ever sent, and any session or attempt may read any of them, so messages are delayed,
duplicated, recorded and delivered to another connection. A read of something else,
a deadline or a lost connection ends an attempt or a session. Every message is one
that the program itself has sent.

### Dial

`who` is the client: the library's `dial`, `cli-client --coordinator` or `cli-client
--signal`, whose signalling server is not in the repository. `try` numbers the tries of
`dial`; each has a peer connection at the client (`cpc`) and one at the node (`npc`),
and a request of `OfferExchange`, whose actions are conjuncts of the client's. The
registry is what the listings show; nodes come and go, so the node picked from
`GET /services` may be gone when the offer is posted. `pc.close()` fires no event: a
connection that the library closes is `closed` and its listeners stay silent. The
listeners of `dialOnce` and `createChannel` are never removed, so a later failure
runs both, that of `dialOnce` first, which closes the connection.

### CliClient

What the echo server writes for message *m* is two halves, `2m-1` and `2m`: the node's
read of the TCP stream returns any part of what has come, and each read is one message
to the client (`Delivers`). `received` is the channel that `OnMessage` fills and the
program reads with a timer; a full one holds the read loop. `link` is `lost` when the
connection has broken and `closed` when pion knows, which is when `SendText` fails.
`got` is a history variable. The node's command loop refuses a bare service name, which
is what `--service` is documented to hold; `service = "connect"` is a `--service` that
holds the whole command.

### Backoff

One action is one turn of the loop of `runCoordinator`. Times are whole numbers of a
unit, of which there are `Second` in a second, for any positive `Second`; the code's
step with its random factor is a relation between two delays (`NextBackoff`), so that
no division is rounded.

## Runs

| Run | Checks | Instance |
|---|---|---|
| `CoordinatorReconnect` | `NoDeadEntry`, `ListedUnlessReconnected` | 2 connections of one node, 1 request, 1 unread ping each |
| `CoordinatorOffers` | `IInv`, `NoLeakedWaiter`, `ReaderNeverBlocks`, `ImplementsExchange`, `OffersFinish`, `DropHandled`, `RegistryAvailable` | 1 connection, 2 requests, 1 unread ping, fair |
| `StaleUnregister` | violates `ListedWhileConnected` | 2 connections of one node |
| `StuckOffer` | violates `OfferTimesOut` | 1 connection, 2 requests, fair |
| `Keepalive` | `LiveNodeKept`, `VanishedNodeDropped`, `IInv` | unit 15 s: ping 4, drop 12, prune 2, delay up to 7, 9 minutes |
| `NodeClient` | `IInv`, `CleanExit`, `ShutdownCompletes`, `Reconnects`, `NoPingerLeak` | 2 connections, 2 offers, fair |
| `NodePanic` | violates `NeverCrashes` | 1 connection, 2 offers |
| `DataChannel` | `IInv`, `NoSendOnClosed`, `ImplementsTunnel`, `DownloadIntact`, `SignedOnce`, `RepliesThenBytes`, `ChannelEnds`, `ServiceEndReachesClient`, `ReadLoopLeaves` | 2 secrets, `buf` of 1, 3 messages, 2 chunks, fair |
| `Channel` | `ClientIInv`, `ModesAgree`, `CommandsStayOut`, `VerifyCompletes`, `VerifiedByOwnProof`, `PipeModeSilent`, `CallsReturn` | 2 method calls, `buf` of 2, 1 chunk, fair |
| `ChannelLateAnswer` | violates `ConnectsWhatWasAsked` | the same |
| `Registration` | `RegisteredInOneHandshake`, `RegistersOnce` | 2 keys, 3 attempts, 2 sessions, randoms of 2 bits |
| `Clients` | `OneLivePeer`, `PassIsPaired`, `DialSettles`, `CreateSettles`, `CliExits` | 3 clients in turn, 2 nodes, 2 tries, 3 messages, `received` of 2, fair |

**Bounds.** Two connections are enough for an old and a new handler of one node;
two requests for one that writes while another waits, is answered or times out. An
offer to a node that is not there is one made before it registers. A third of any of them adds no
new pair of racing goroutines, and the theorems do not depend on the number.
`MaxPings` bounds unread pings: a second unread ping is handled as the first.
Keepalive's clock stops at 36 units, three times `DropAfter`, enough for a node to
vanish at any phase of the three tickers and be dropped.

In `DataChannel` a `buf` of one stands for 256: with three messages one can be
handled, one in `buf` and one held by a blocked `OnMessage`, which is all that a
larger buffer can show; three messages are also a challenge, its opening and a second
opening or a `connect`, and a `connect` with two messages behind it. Of two chunks one can
be lost, or both be swapped. Two method calls
in `Channel` are enough for one to meet another's late or shared answer; four
messages are all they can send.

In `Registration` three attempts, two with one key, are one that is recorded, one of the
same node beside it and one of another node; two sessions are the one that a recording
comes from and the one it goes to. Four randoms of two bits leave one that was not
drawn for each of the three attempts or for the two sessions, and let two different
pairs have one xor. In `Clients` one reply can wait in
`received`, one be cut in two and one be late when the third message is sent; a
`received` of two fills up. Two nodes make the order of the listing matter, and a
node picked from it can vanish.

**Deadlock.** The runs of `Coordinator` do not check for deadlock: every connection
and request is used once, so a finished system stops, and the coordinator itself can
hang (`StuckOffer`). `Keepalive` stops at `MaxTime`, `NodeClient` when the process
ends, `DataChannel` when the channel is closed, `Registration` when every attempt and
session is over. `Clients` checks for it: nodes come and go for ever.

**Fairness.** `ServerFairness` says that goroutines run. Acquiring `c.mu` is
strongly fair: Go's mutexes hand over to a waiter that has starved for 1 ms.
An offer's write to a silent peer is not fair, since it may block, and neither is
the close frame queued behind it. `KernelFairness` says that the kernel gives up a
silent peer in the end. Nothing is assumed of nodes, clients or the network: a
node need not answer. In `NodeClient` a `select` does not prefer one ready case for
ever (Go chooses at random), and a coordinator that is there answers a hello or
closes, which its own 15 s deadline ensures. In `DataChannel` goroutines run, a dial
ends, and a browser that has not vanished answers the close of a channel; clients and
services need not send or close anything, and a service that is up reads what it is
sent. In `Channel` nothing is assumed of the node or the network: `CallsReturn` needs
only the browser's timers and promises. In `Clients` (`DialFairness`, `Fairness`) the
client's own steps are fair, its timers among them; gathering ends, also for the second
try of `dial` and for `cli-client`, which have no timer there; and a connection that is
coming up gets up or fails, which ICE's own timers ensure. Nothing is assumed of the
coordinator, the signalling server, nodes, the far end or the echo server. A reply to a
listing or an offer may therefore never come, and no client has a time-out for it
(`cli-client/main.go` 87, 171, 202; `fetch` in the library): `DialSettles` and `CliExits`
say that the client settles or stays in exactly that wait (`AwaitsReply`) for ever.

**The violations** are disagreements between the code and what it or its
documentation says; `findings` in `PROJECT.json` quotes both sides.

* `StaleUnregister`: `unregisterNode(id)` deletes the entry of the id, not its own.
  When a node reconnects before the coordinator has noticed the loss of the old
  connection, the old handler's deferred call unlists the new connection.
* `StuckOffer`: the reply to `MsgClose` and an offer's write panic in each other's
  presence; in `handleOffer` the panic leaves `n.mu` locked, and the next request
  on that connection, then the pruner and with it `c.mu`, wait for ever.
* `NodePanic`: the node's goroutines write concurrently; gorilla's panic ends the
  process.
* `ChannelLateAnswer`: the next message is taken for the answer to the command that
  waits. The late `ok` of a `connect()` that has timed out resolves a second
  `connect()`, for another service.

**Seen in the models without a run of their own.**

* Writes of the coordinator have no deadline and are made under `n.mu`; the pruner
  waits for `n.mu` under `c.mu`. One silent peer with a full socket buffer blocks the
  registry until the kernel gives up, though `main.go:305-306` leaves drops to the read
  deadline. `DropHandled` and `RegistryAvailable` hold because `KernelFairness` has the
  kernel give up.
* `main.go:277` of the node expects `dc.Close` to trigger `OnClose`. A read loop that is
  blocked in `buf <- data`, when nobody is left to drain `buf`, never gets there.
  `ReadLoopLeaves` shows that this is the only way, short of a client that vanishes.
* `cli-client` sends the bare service name first, which the node's command loop answers
  with an error. `PassMeansConnect` proves that it passes through the coordinator only
  when `--service` is a `connect` command; `test-coordinator.sh:95` and its listing
  lookup expect the name. With such a `--service` the lookup in `/services` finds no
  node, unless one has a service of that very name, so `--node` is needed as well.
* After a first try of `dial` that failed when the node had already answered, the node
  has a second peer connection for one dial, and nothing in its `handleOffer` closes the
  first: `OneLivePeer` is a promise of the client's side only.
* `createChannel` that waits when the application calls `close()` never settles:
  `pc.close()` fires no `connectionstatechange`. `CreateSettles` excludes that case.
* The random factor is applied after the cap of the backoff: the delay reaches 80 s,
  where the constant says 60 s is the cap (`Bounded`).
* `README.md:76` of the repository shows a `publicKey` in `GET /nodes`; `handleNodes`
  (`main.go:311-331`) sends id and services only, and `null` when there is no node.
* `VerifyRegistration` does not look at `reg.NodeID`, and `handleNodeWS` registers that id
  (`main.go:215`) without comparing it with the key or with the hello's, where
  `README.md:82` of the repository says that the node authenticates. The node program
  puts the id of its key into both messages, and only its messages are in the model;
  `RegisteredInOneHandshake` therefore claims which attempt a session registers, not
  under which id.
* A reply of the echo server that the node's reads cut in two is two replies to
  `cli-client`, which then prints PASS with the second half taken for the next reply:
  `PassIsPaired` is about runs that took whole lines.
* When the service ends, `cleanup` closes the channel, and what the client sent that is
  still in `buf` is dropped; `Tunnel` does not promise it.

Each property of a passing run has a mutant beside the definition it changes
(`\* Mutant:`), a plausible bug that breaks the property.

## Proofs

TLAPS proves, for all values of the constants that satisfy the named assumptions
(`ConstantsAssumption`, `TimingAssumption`, `MaxConnsAssumption`,
`ChannelAssumption`, `RegistrationAssumption`, `NodeAssumption`,
`MessagesAssumption`):

* `CoordinatorProofs`: `TypeCorrect`; `Invariance` of `IInv`; and from it
  `RegistryLive`, `ListedWhileUp`, `WritersExclude`, `NoWaiterLeaks`, `ReaderRuns`
  and `Refinement` (`Spec => Exchange!Spec`).
* `KeepaliveProofs`: `LiveNodesStay`, `VanishedNodesGo`, `SilenceIsBounded`.
* `NodeClientProofs`: `AtMostOneConnection`, `ShutdownIsClean`.
* `DataChannelProofs`: `Invariance` of `IInv`; `NeverSendsOnClosed`, `UploadCorrect`,
  `DownloadCorrect`, `ProofsFresh`, `ModesInOrder` and `Refinement`
  (`Spec => Bridge!Spec`, where `Bridge` is `Tunnel`).
* `ChannelProofs`: `LibraryIsClient` (`ChannelSpec => Spec`); `ClientInvariance` of
  `ClientIInv`; `ModesCorrect`, `NoCommandInPipe`, `VerifyCorrect`,
  `IdentityByOwnProof` and the action property `SilentInPipeMode`.
* `RegistrationProofs`: `Invariance` of `IInv`; `OneHandshake`, `ReplayResistant` and
  `Complete`.
* `CliClientProofs`: `Invariance` of `IInv`; `OnePeer`, `PassMeansPaired` and
  `PassMeansConnect`.
* `Backoff`: `Bounded` and `DoesNotCollapse`, for any positive `Second`.

**The inductive invariant of Coordinator.** That the read loop never blocks on
`p.ch` follows from an answer being in one place only (`AnswerInOnePlace`): still
expected in `n.pending`, in the hands of one read loop, or in the channel. The
lookup deletes the waiter under `n.mu`, so only one read loop can hold it. That
needs `WaiterOwned` (a waiter sits in the table of the connection its request looked
up, and only while that request runs) and `TargetKnown`. `AnswersGenuine` carries
the request of each answer from the node to the caller and gives the refinement.
`NoDeadEntry` needs that the pruner's sweep, a copy of the registry, contains only
connections that have registered (`SweepStarted`). One lemma per conjunct proves
that every action preserves it, given the conjuncts before the step.

**Keepalive.** `IInv` says that the oldest unhandled ping is at most one interval
after `lastSeen` and no more than `MaxDelay` old, that ticks are whole intervals
apart, and that the deadline lies between `lastSeen + DropAfter` and the last
moment a message could come plus `DropAfter`. `PingInterval + MaxDelay < DropAfter`
then keeps both timers from firing on a live node.

**NodeClient.** `IInv` adds to the two properties that connections are numbered in
the order they are dialled, that no goroutine exists for one not dialled yet, and
that a served connection is open, closed gracefully, or lost.

**DataChannel.** `Numbered` says that `wire`, the held message and `buf` hold the last
messages of the client in order, so that the next one taken has the number
`Taken + 1`. The bridge starts with the message after its `connect`
(`BridgeTakesOver`) and therefore writes each later one in its place. When `buf` is
closed, the read loop has ended and the wire is empty (`EndsInOrder`): a writer that
then finds `buf` empty has written everything. The random of a challenge in progress
is younger than every proof (`ChallengeFresh`). Before the connection exists neither
`ok` nor bytes have been sent (`OkSent`), and after it the command loop is gone.
`RepliesCounted` says that reply *n* answers message *n*, so that `ok` is the reply to the
`connect` that was obeyed. `DownloadCounted` says that the client has been sent what was
read from the socket, that is, all chunks but the last ones, which `unread` holds in
order: the next one read has the next number (`DownloadInOrder`), and at the end of the
stream nothing is unread (`DownloadComplete`). `CutFirst` says that whatever ends a goroutine of the bridge or closes
`conn` or `dc` has set `cut` first. `Refinement` needs it for `Breaks`: the first to end
does so because of an end that has left. The one step that ends the tunnel has all the
numbers of its end: `WriterEnds` that of `Numbered` with empty queues, `ReadTcpEnds` that
of `DownloadCounted`.

**Channel.** The library is one of the clients that `DataChannel` leaves free
(`LibraryIsClient`), so `IInv` holds of its node. Whatever the application does, a call
has its handler or its answer and never both, and an answer at hand is the last event
(`HandlersMatch`, `AnswersHeard`): from that, and `SignedOnce`, a verified identity rests on
a proof for the call's own random. The rest needs an application that awaits each call and
has had no time-out (`Orderly`). Then one call is at work (`OneAtATime`), nothing follows a
`connect` (`NothingAfterConnect`), every command but the last is answered (`Answered`), and
what is on its way is the command of the call that waits (`Asked`); by `RepliesCounted` the
next event is therefore the answer to it. `ConnectWaits` and `ProofDue` say what that
answer is worth to a `connect()` and a `verifyIdentity()`. These five hold while commands can
be sent (`InStep`), which is over once the channel is closed; an answer that came just
before is still taken, and `AnswersOwn` says that it too is the call's own.

**Registration.** `Fresh` says that a random belongs to one attempt or session, `Sent`
that whatever was read has been sent, `Decided` that a session is registered or refused
as its three messages say. From a commitment that opens follows the attempt (no two
attempts have one random); from a proof over the joint random and the attempt's own
random follows, since xor can be undone, that the attempt read this session's
challenge. One message therefore fits one session.

**Dial and CliClient.** `OneLivePeer` is not inductive: a new try must know that the
ones before it are over (`TryInv`), which is where the close in `dialOnce`'s listener is
needed. `PairInv` says that, while no reply has timed out and each one taken was a whole
line, what is left between the echo server and the client is the reply to the current
message or nothing (`Outstanding`); a half taken for a reply gives up the claim, and a
time-out makes the run fail. `HandshakeInv` says that nothing of a message exists
before the acknowledgement was taken, so the first reply cannot be mistaken either.

**Backoff.** In units of a second the step is `d (180 - d) / 120` times a factor of 0.8
to 1.2. The upper bound is where that is the identity at 1.2, `d = 80`; the lower bound
holds because at 0.8 the step grows up to `d = 30` and from there stays above 30. Both
are sign conditions on products such as `(80 S - d) (100 S - d)`, which the proof gives
names, since the arithmetic left is then linear.

**Only model-checked:** the liveness properties, `OffersFinish`, `DropHandled` and
`RegistryAvailable`, `ShutdownCompletes`, `Reconnects` and `NoPingerLeak`, `ChannelEnds`,
`ServiceEndReachesClient` and `ReadLoopLeaves`, `CallsReturn`, `DialSettles`,
`CreateSettles` and `CliExits`: they rest on fairness, and with it on ENABLED, which the
prover does not handle. Every invariant and action property of a passing run is
proved. **Only proved:** `Backoff`, whose values are unbounded, and `Complete`, that no
session refuses the node it talks to.

## Not modelled

Configuration parsing, key files and the command lines: sequential start-up code whose
result is one record, with nothing that runs beside it. The landing and demo pages: user
interface. The rate estimate of `sdpTracker` (`landing.go` 15-47): an exponential
average in floating point for display, which no other part reads; its calls are counted
in `Coordinator`. The cryptographic primitives are ideal. WebRTC (pion), the browser,
gorilla/websocket, `net/http` and the kernel are external: they appear as the outcomes
the code has to handle.

## Plan

What is modelled is what the code decides; the plan has proofs left.

1. `NodeClient` and `Registration`: an abstract node that is registered at most once, as
   `Tunnel` and `OfferExchange` are for a channel and a request.
2. For the waits that liveness rests on, the invariant part: in every state that is not
   final, whose step is due.
