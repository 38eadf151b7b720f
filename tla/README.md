# Verification of the Inter-Relay Network (IRN)

IRN is a relay: nodes form a peer-to-peer network with libp2p and gossip
messages, subscriptions and acknowledgements to each other. Its own logic is
Episub (`src/src/network/episub`): a HyParView membership layer and a PlumTree
broadcast tree per topic, on top of one connection handler per peer. Around it,
a network task, a websocket service for clients and a message bus exchange
events through a main loop. This project models both in TLA+, checks them with
TLC on small instances and proves most of their safety properties with TLAPS
for all instances.

Paths below are relative to the repository's `src/network/` directory unless
they start with `src/`.

## The system

| component | state | operations | talks to |
|---|---|---|---|
| HyParView (`episub/view.rs`) | active and passive peer sets, queue of events, two timers | one handler per control message, join, disconnect, shuffle and tick timers, poll | the swarm (dials, messages), the topic mesh (PeerAdded, PeerRemoved) |
| PlumTree (`episub/tree.rs`) | eager and lazy peers, caches of received and observed messages, queue of events, timer | publish, MESSAGE, IHAVE, PRUNE, GRAFT, neighbour up and down, IHAVE batches, repair | the topic mesh, the application |
| message cache (`episub/cache.rs`) | a map by id and a queue by time | insert, get, range read, prune | PlumTree |
| topic mesh (`episub/topic.rs`) | one view, one tree | routes messages, orders the queues, tells the tree of peer changes | Episub |
| Episub behaviour (`episub/behaviour.rs`) | topics, pending topics, early peers, banned peers, addresses | subscribe, publish, connection events, message delivery, poll | libp2p's swarm |
| connection handler (`episub/handler.rs`) | inbound and outbound substream states, queue, keep-alive | upgrades, send queue, the two poll loops | libp2p's connection task |
| configuration (`episub/config.rs`) | view sizes, windows | derived sizes | all of Episub |
| network task (`mod.rs`) | two unbounded channels | select loop between swarm and commands | Episub, main loop |
| message bus, RPC service, main loop (`src/bus.rs`, `src/rpc`, `src/main.rs`) | sockets by topic, event queues | select over three sources | the network task |
| wire format, keys, storage stub, command line | none that lives | encoding, parsing | |

What is hard to test here:

* Everything a view does is queued and leaves one event per poll. Between the
  handler that queued an event and the poll that emits it, connections open
  and close, the peer may leave and come back, and other messages arrive.
* Two nodes may hold several connections to each other, dialed by either side
  and for three different reasons, one of which has a handler that closes it
  by itself. A close of one of them is handled like a close of all.
* libp2p silently drops a message for a peer that is not connected.
* Handlers draw at random, and their limits are guarded in some places and
  not in others.
* The broadcast tree and the membership view are told of changes at different
  times.
* The handler is a pair of state machines that take their state out of a field
  and must put one back in every arm.
* Broadcast relies on time: announcements age between two windows, records
  expire, and the links change under the messages that repair them.
* A node has peers and subscriptions before it has an address, and loses
  addresses later; the network task unwraps what fails meanwhile.
* The main loop sleeps until a waker it has registered is used, and two of its
  three sources register none.

What makes each component correct:

* HyParView: both views stay within their limits, a node is not its own
  neighbour, an active peer is reachable or about to be dropped, the traffic
  a join sets off ends, links are known at both ends.
* Cache: its two fields agree, range reads are exact, it forgets by age.
* Mesh: every active peer takes part in the dissemination, passive peers do
  not.
* Handler: messages leave once and in order, the queue drains, no panic.
* Broadcast: a message that one node has reaches its neighbours within a known
  time, and no application gets it twice or gets its own.
* Episub: every topic asked for is joined under a usable address, early peers
  are asked, banned peers are not, no panic on any order of connection, ban and
  address events.
* Relay: requests of clients are neither lost, doubled nor reordered, and
  are published.

## Modules

| module | models | notes |
|---|---|---|
| `HyParView` | `episub/view.rs`, the sizes of `config.rs`, the routing of `topic.rs` | operators from a view to the set of views a handler can leave |
| `Overlay` | all nodes of a topic, with the connection events of `behaviour.rs` and libp2p | EXTENDS `HyParView` |
| `MCOverlay` | bootstrap graphs for TLC | |
| `ExpiringCache` | `episub/cache.rs` | operators |
| `CacheUse` | a cache as PlumTree uses it | EXTENDS `ExpiringCache`, instantiates `ExpiringMap` |
| `ExpiringMap` | what a cache promises | abstract specification |
| `PlumTree` | `episub/tree.rs` | operators, EXTENDS `ExpiringCache` |
| `TopicMesh` | `episub/topic.rs`: one view and one tree | EXTENDS `HyParView`, `PlumTree` |
| `MCTopicMesh` | peers and symmetry for TLC | |
| `Broadcast` | all nodes of a topic: one tree each (`tree.rs`, the tree's part of `topic.rs`) | EXTENDS `PlumTree`, instantiates `BroadcastService` |
| `BroadcastService` | what a topic promises to applications | abstract specification |
| `MCBroadcast` | links, messages and symmetry for TLC | |
| `EpisubHandler` | `episub/handler.rs` | a state machine |
| `Episub` | `episub/behaviour.rs` | operators on the record of the struct |
| `Relay` | `mod.rs`, `src/rpc`, `src/bus.rs`, `src/main.rs`, `src/optstream.rs` | EXTENDS `Episub` |
| `HyParViewProofs`, `OverlayProofs`, `CacheProofs`, `PlumTreeProofs`, `MeshProofs`, `BroadcastProofs`, `HandlerProofs`, `RelayProofs` | theorems about the modules above | lemmas about operators in `HyParViewProofs` and `PlumTreeProofs`, the others about a specification |

### HyParView and Overlay

A view is the record of the struct's two sets and its queue. A handler is
synchronous, so one operator is one atomic step; a random draw is one element
of the resulting set. A loop that sends the same message to a set of peers is
one queue entry with the set of targets, taken one target at a time in any
order, because the code iterates over a HashSet.

`Overlay` adds the network. A connection is known by who dialed whom and why:
from a bootstrap address, for an active peer, or for a shuffle reply (with the
temporary handler, whose keep-alive is No until a send has to wait). Messages
stay in order on one connection. A closed connection loses what was under way
on it, and each end gets its own ConnectionClosed later. `NotifyHandler::Any`
may take any open connection; without one the message is dropped. A dial with
`PeerCondition::Disconnected` does nothing when a connection is open. Two dials
from one node to another for the same reason that are under way at once are
merged. `Poll` is one poll of a node: the shuffle timer, the tick timer, then
one event of the queue.

In this module every node is subscribed to the one topic and knows its
address, every peer follows the protocol and is authorized.

### ExpiringCache, CacheUse, ExpiringMap

The cache is the map and the queue. `Positions` is the binary search: any of
several entries with the time looked for, or the gap. `CacheUse` is every
interleaving of offers, prunes and the clock, and `ExpiringMap` states the
promise: first time and shortest path of each id, forgotten by first time. The
refinement mapping takes the hop from the map and the time from the queue.

### PlumTree and TopicMesh

The tree's operators follow `tree.rs` method by method. `TopicMesh` drives one
node's view and tree by an environment that sends whatever a peer of the
protocol can send: PRUNE and GRAFT come only from peers the tree has had, a
shuffle reply only after a shuffle, priorities are always LOW because the
priority is computed from an active view that already holds the new peer
(`OverlayInvariant` proves it). `poll` takes the view's queue first and the
tree's only when that is empty, as the code does.

### Broadcast and BroadcastService

Every node has a `PlumTree`; a step is one call into one tree (`publish`, a
received message, a tick, a peer that comes or goes) with the polls that hand
its events to the connections, or an event of the network. Messages stay in
order on a link, except that those of one event (the replays of a GRAFT, the
announcements of an IHAVE) come in any order.

Of the overlay the module keeps what a tree sees of it. `Link` is who can be an
active peer of whom, `up` the open connections and `peers` the active peers that
a tree was told of. A connection is lost with what is under way on it
(`ConnectionLost`) and may be dialed again (`ConnectionOpened`). `NeighborDown`
is `inject_neighbor_down`, called for a peer whose connection is gone or whom
the view drops while it is open, and `NeighborUp` is `inject_neighbor_up`, when
the view takes the peer in again; the two ends do this independently of each
other. A tree is told of a peer here when it is connected: in the code the dial
may still be under way, and what the tree sends meanwhile is dropped, as it is
for a peer whose loss has not been noticed, which the model has. Losses and
evictions are bounded by `MaxChanges`. In the beginning earlier traffic has
pruned some of the links on both ends (`Pruned`): with three messages that cross
in a triangle every such choice comes about.

Time is counted in ticks. The code promises nothing about how long a message
takes or how often a node is polled (PlumTree registers no timer, so a tick is
noticed when something else polls the behaviour). `Advance` assumes the best
case: a message is handled in the instant it is sent in and every node ticks
once in each instant, in any order with the rest. The bounds on time that the
run establishes hold under this assumption only.

`BroadcastService` has three actions. `Release` and `HandOver`: an application is
handed a message that somebody else has published, once. `Age`: a published
message may be forgotten, and of an old one the service promises only that
somebody has published it. The refinement mapping is the identity on `author`
and `log`; old are the messages published a history window ago or earlier.

### Episub and Relay

An Episub is the record of the struct. Its meshes keep what the behaviour looks
at: active peers, peers that were sent a JOIN, and the addresses the mesh was
created with. What a valid message or a timer does to the active set is free,
since `TopicMesh` and `Overlay` model it.

`Relay` is one node. The swarm calls the behaviour in any order (connections,
dials that fail, listeners that come and go, messages of four kinds); `Poll`
first runs `update_local_node_info` and then emits one event, its own before
those of the meshes. The network task alternates between the swarm and its
commands and dies where the code unwraps an error. The websocket service is a
queue, a number of server tasks and the sockets; `Shared` is the reference
count that `Arc::get_mut` looks at. The server tasks and sockets are external:
a server may end at any time (bind panics, or serve returns and is unwrapped),
a client may do anything its socket allows. The main loop takes one ready event
per step and sleeps when none is; `main` says whether something will wake it.
It ends when a command meets a dead network task, and the process with it.

A peer has at most one dialed and one accepted connection at a time, and any
number of them one after the other. Of a payload the model knows whether it can
be decompressed. `enable_compression` is on in the relay, and a peer that runs
with it off (`world.plain`) sends payloads that `decode_all` refuses; only such a
peer does, because a node with compression passes on what it has decompressed
itself. The first copy of such a message ends the network task
(`ReceivePanics`, `episub/tree.rs` 132). `PlumTree`, `TopicMesh` and `Broadcast`
are about payloads that can be decompressed.

### EpisubHandler

One step per turn of a poll loop. The outcome of a stream operation is free.
`Poisoned` is what an arm leaves when it puts nothing back.

## Runs

| run | instance | checks | result |
|---|---|---|---|
| `overlay_join` | 4 nodes, limit 2, one dials the three others; 1 tick, 1 shuffle, 1 failed dial, fair | TypeOK, ActiveBound, ActiveReachable, Quiesces | holds |
| `overlay_churn` | 2 nodes that dial each other; 1 tick, 1 shuffle, 1 lost connection, 1 failed dial, fair | NotOwnNeighbour, ActiveReachable, Quiesces | holds |
| `overlay_symmetry` | 3 nodes, two dial the third, no fault | LinksSymmetric | violated |
| `cache` | 3 ids, hops 0 to 2, 4 instants, window 1 | TypeOK, Sorted, SameIds, WindowExact, ImplementsMap | holds |
| `handler` | 3 messages out, 1 in, fair | TypeOK, InOrder, OutboundNeverPanics, QueueDrains | holds |
| `handler_panic` | 1 message each way | NeverPanics | violated |
| `handler_temporary` | 2 messages out, 1 in | TemporaryOnlyReplies | violated |
| `mesh` | 1 node, 3 peers, limit 2, 3 calls, 1 timer | TypeOK, ActiveInTree, PassiveBound | holds |
| `mesh_shuffle` | as `mesh` | ExcessOnly | violated |
| `broadcast` | 3 nodes in a triangle with one eager link, 2 messages three instants apart by any nodes, 1 lost connection or dropped peer, reconnections, 8 instants, lazy push window 4, history window 7 | TypeOK, HopBound, OneSide, DeliveredInTime, ImplementsService | holds |
| `relay` | 1 peer with a dialed and an accepted connection, a loopback and a public address, 1 client, 1 server; 1 message of the peer, 1 delivery, 2 requests, fair | TypeOK, PanicCause, RequestsKept, TopicsReachable, BannedNotAsked, EarlyAsked | holds |
| `relay_rpc` | the same without messages of the peer, 1 request, fair | MessagesPublished | violated |

Bounds. A limit of 2 for the active view is the smallest the configuration
allows; with four nodes (or three peers) one peer more than the limit wants in,
so evictions, refusals and merges over the limit all happen. The ticks,
shuffles, losses and failures of a behaviour are bounded by a budget; two nodes
suffice for what several connections of one pair can do to each other. Three
calls of the environment are enough for a peer to come, go and send in between
while its events wait. Three ids and four instants give equal, older and
younger entries on both sides of every cutoff. A triangle is the smallest
graph with a cycle to prune and a second announcer. The second message is
published when the first can be under repair, and eight instants let both be
repaired over two hops and the first grow older than the history window. One
loss or eviction is enough for a peer to leave, PRUNE or GRAFT from outside and
come back; several at once, and all choices of pruned links, are left to the
theorems below. One message of a peer that connects again and again can ban it
before or after the node has an address, or end the task; two requests of
one client are a message and a subscription in either order. A subscription
that displaces another needs a second client and is not reached.
The mesh runs use the symmetry of
the peers and the broadcast run that of the nodes, which nothing tells apart;
their properties are invariants, one action property and a refinement without
liveness, all sound under symmetry.

These instances may stop: the overlay when it is quiet and its budget
spent, the mesh when its calls are spent, the broadcast at its last instant,
the handler when it is closed or has panicked, the relay when main has returned.
Deadlock is not checked there.

Fairness. `Overlay`: the swarm task is polled whenever it has something to do,
a dial is decided, a message on an open connection arrives, a closed connection
is reported, a temporary connection without traffic is closed; timers and
faults need not happen. `EpisubHandler`: the connection task polls the handler,
an upgrade is decided, and a stream that is polled again and again is ready or
fails in the end (strong fairness, since each poll in between leaves and
re-enters the state). `Relay`: the runtime runs the network task while the
behaviour has something to emit or a command waits, and the main loop while
it is awake; peers, clients, listeners and servers need not act. All of these are what tokio and libp2p do for a live
task; no assumption says that a fault does not happen.

## What the violated properties show

* `LinksSymmetric`: NEIGHBOR is queued directly behind the Dial of the same
  peer (`episub/view.rs` 452-477). Without an open connection it is dropped,
  and nothing repeats it when the dial succeeds. The dialer keeps a peer that
  never hears of the link, against "Links in the overlay are symmetric"
  (`episub/view.rs` 89). A LOW request at a full peer has the same end: it is
  ignored (292-295), although the comment there announces a DISCONNECT.
* `NeverPanics`: the error arm of the inbound loop (`episub/handler.rs`
  200-202) puts no state back and the loop meets `unreachable!()` (237-239).
* `TemporaryOnlyReplies`: a send or a flush that has to wait sets keep-alive to
  Yes (`episub/handler.rs` 296, 313), on a temporary handler too, and
  `inject_event` asks for nothing else (136-147): from then on the connection
  takes every message and stays open, against "used only for shuffle reply,
  then the connection is closed" (82) and "Don't permit any outgoing message
  other than shuffle reply" (137-140).
* `ExcessOnly`: `while len > max { passive.drain().next(); }` empties the
  passive view (`episub/view.rs` 433-435), against "remove any excess nodes"
  (431).
* `MessagesPublished`: `RpcService::poll_next` reads its queue only when
  `Arc::get_mut` succeeds (`src/rpc/service.rs` 132), and every server task
  holds a clone of the Arc. While the service is up the requests of its clients
  stay in the queue, against "all messages send between endpoints are
  published" (`mod.rs` 125-127). When the last clone goes nothing wakes the main
  loop either: requests are then taken with the next network event.

## What the passing runs show about the limits of the code

* `DeliveredInTime` holds with two exceptions, both reached. The cache of
  announcements keeps the first announcer only (`episub/tree.rs` 190-196); when
  that connection is lost the message is not asked from the others. And a GRAFT
  that arrives between the push of another message and the tick that would
  announce it makes the link eager (203-206), so that this message is neither
  pushed nor announced on it.
* The repair takes four ticks: a message is announced in the instant after it
  was received, since the window of `publish_ihaves` ends before the present
  one; it is asked for three ticks later, when the announcement is older than
  two. This needs a lazy push window of more than three ticks: with three, an
  announcement can leave the window in the instant it becomes old enough.
* `OneSide` names the one way in which a tree comes to disagree with its view.
  `inject_prune` and `inject_graft` do not ask whether the sender is an active
  peer (`episub/tree.rs` 198-206). Handled after PeerRemoved, they leave a peer
  that is gone in a set, so that a passive peer is pushed or announced to; and
  when it comes back `inject_neighbor_up` (54-56) makes it eager without
  removing it from `lazy`, so that it is on both sides until the next PRUNE,
  GRAFT or PeerRemoved. TLC reaches both; without the exception the
  property is violated.
* `HopBound` and `ImplementsService` hold for messages younger than the history
  window. The code forgets a message by the age of the record, while a message
  may travel for longer: every hop can take the lazy push window and the time
  of a repair. With the relay's configuration (a tick of 200 ms, windows of 25
  and 150 ticks) a chain of about six slow hops is enough for a copy to come
  back to a node that has forgotten the message, which delivers it again, even
  to its author. The code does not check its configuration for this.
* `PanicCause` names the three ways the network task dies. Before the node has
  an address: an early peer banned meanwhile, and a request that reaches
  `publish` while the topics are pending. Afterwards: a payload that cannot be
  decompressed, from a peer that is not banned. The main loop does not notice
  until it has a command for the task. (Left out: the end of the process, and
  arithmetic on a hop count of 2^32 - 1, which overflows in a debug build.)

## Proofs

Every theorem is proved for all values of the constants under the assumptions
at the end of this section. Each specification has one inductive invariant, a
lemma per action that it is kept, and its properties as consequences.

### HyParViewProofs

`DispatchGood`: a good view stays good, handler by handler, whatever the handler
draws: the active view within `MaxActive` and without its owner, the passive
view within `MaxPassive`, and a queue of well-formed events without a NEIGHBOR
of high priority.

`DispatchGrows`: a handler only appends to the queue; of a peer it makes active
the last event is PeerAdded, with a Dial among the events it appends unless the
peer is the sender; of a peer that stays active it says nothing. Both results
serve the overlay and the mesh.

### OverlayProofs

The limit of the active view is not inductive by itself: `inject_neighbor`
admits a HIGH request into a full view, and `free_up_active_slot` need not free
a slot because it draws from the passive view. `OverlayInv` therefore adds that
no HIGH request is in any queue or on any connection, which holds because the
priority is read after the insertion. The second unguarded insertion, at the
end of a shuffle's walk, is safe because it happens only when the active view
holds nobody but the sender and the origin, and `MaxActive >= 2`. From
`OverlayInvariant` follow `TypeCorrect` (TypeOK), `ActiveBounded` (ActiveBound),
`PassiveBounded` (PassiveBound) and `NeverOwnNeighbour` (NotOwnNeighbour). The
passive limit of the overlay is reached only with more nodes than TLC can take;
the mesh run checks it against an environment that reaches it.

`AlwaysReachable` (ActiveReachable) needs `ReachInv`: an active peer is
connected, dialed as an active peer, in the queue with a dial to come, or about
to be reported lost; and messages are under way on open connections only, from
one of their ends. The second part is what makes the first inductive: the
sender of a NEIGHBOR becomes active without a dial, so the connection it came
on must still be open. A dial from the bootstrap list does not count for the
first part, since its failure is not reported to the view.

### CacheProofs

`CacheInv` is the types, `Sorted`, `SameIds` and that no entry is later than the
clock, without which an insertion at the end would not keep the order. From it
follow these invariants and `WindowExact`, for each place the binary search can
return, and `CacheImplementsMap`: the cache implements `ExpiringMap`, step by
step. The mapped map is a function of the queue, which is one because no id is
in the queue twice.

### PlumTreeProofs, MeshProofs, BroadcastProofs

`PlumTreeProofs` says of every method of the tree which peers it moves between
the two sets and that it leaves the rest.

`MeshInv` joins a good view to a tree by `Told`: of an active peer either the
tree knows and no event about it waits, or the last event about it that waits
is PeerAdded. "The last" is needed because a peer can leave and return while
its events wait. From it follow `MeshTypes`, `MeshPassiveBounded` and
`MeshActiveInTree`.

`BroadcastInv` says that every active peer of a node is on a side, that nobody is
on two sides or on one without being a peer except the strays (whose PRUNE or
GRAFT was handled while they were away), that messages are under way on open
connections only, and that the caches are well typed, since replays and
announcements are made from them. From it follow `BroadcastTypes` and
`ServedOnce` (OneSide).

The other three properties of the broadcast follow from `TraceInv`, which says
where a message can be while it is younger than the history window (`Fresh`).
That is the whole argument for at-most-once delivery: a record is kept for a
history window from the instant in which the node had the message, which is
not before it was published, so whoever gets a copy, an announcement or a GRAFT
of a fresh message remembers it if it has ever had it. No hypothesis relates the
windows to the number of nodes. `TraceInv` consists of

* `KeptGood`: a record of a fresh message is of the instant in which the node
  first had it (`since`), and its path is not longer than the number of nodes
  that have had it (`Count`);
* `SinceGood`: a node has no message before it was published, and remembers it
  while it is fresh;
* `HeardGood` and `Asking`: an announcement is of a message its sender has had;
  while the message is missing, the announcement is younger than three
  instants, or the GRAFT or its answer is under way in the third, or the
  connection of the announcer was lost since;
* `Travels`: the path of everything under way, and that a GRAFT asks for what
  its receiver has had;
* `BooksGood`: authors and applications have had their messages;
* `OwedGood`: a message is owed to a peer over an open connection;
* `Progress` and `Underway`: for four instants, a node that has a message and an
  active peer that has not are joined by a copy under way, a lazy side
  before its tick, an announcement under way or a record of one.

`PathsBounded` (HopBound), `RepairedInTime` (DeliveredInTime) and
`BroadcastImplementsService` (ImplementsService) follow. For the last one a
first copy of a fresh message is a `HandOver`, since the node has not had it;
`publish` is a `Release`, the passing of time is an `Age`, and every other step
leaves `author` and `log` alone. `RepairedInTime` states one hypothesis,
`LazyPushWindow > 3` (the relay has 25 ticks). The parts of `TraceInv` were
checked by TLC before they were proved, with history windows of 3, 4 and 7
instants and lazy push windows of 3 and 4.

### HandlerProofs

`HandlerInv`: what the handler took is what it sent, then the message in hand,
then its queue. An upgrade is under way only in the state that asked for one,
and an outbound error closes the connection, so that the Poisoned state is
never met. From it follow `NothingLost` (InOrder) and `OutboundUnreachable`
(OutboundNeverPanics).

### RelayProofs

`RelayInv` follows a request through the relay: a command to publish waits for
the network task only after the service's state is no longer shared, so that
what the task can panic of is known when it takes the command. Of the behaviour
it says that an early peer has an address or is banned, that no banned peer has
one, and that topics are all pending or all joined under reachable addresses, so
that a payload can end the task only when the node has its address.
From it follow `RelayTypes`, `RelayTopicsReachable`, `RelayPanicCause` and the
action property `RelayBannedNotAsked`. `RelayRequestsKept` adds the equation
between accepted requests and those at each stage of their way; `Of` is a
recursive function, and its lemmas are about a queue with one element more or
the first one less.

### Recursion

The recursive functions (`Of`, the flattening of batches) are reasoned about by
least counterexample: `WFMin` gives the least number at which a fact fails, and
the defining equation contradicts it (`Least`, `AllUpTo` and `AllFromOne` in the
proof modules). This avoids the induction theorems, which take an operator.

### Assumptions

The sets of nodes and of bootstrap peers are finite, `MaxActive >= 2` (which
`max_active_view_size()` gives for two nodes or more and a factor of one or
more), a bootstrap address is not one's own, the lazy push window is longer than
two ticks (otherwise the bounds of the range that `repair_tree` reads could cross,
which panics in `VecDeque::range`), the loopback
addresses are addresses, the topics include the two that requests go to, a
link joins two nodes, and the broadcast has at least one instant, counted in
ticks. The other parameters are natural numbers. TLC evaluates all of them in
the runs.

### Only model-checked

* `Quiesces`, `QueueDrains` and `EarlyAsked` are liveness properties, outside
  what TLAPS can prove.
* The five violated properties, whose counterexamples are the result.

## Not modelled

Payloads, beyond whether they can be parsed and decompressed, and the wire
format; addresses in the membership layer;
authorization, since the relay configures an authorizer that allows everybody.
Functions without a caller: `Episub::_unsubscibe`, `MessageBus::_send_message`
and `_drop_subscription`, the handler's `_Closing` state; with them the
acknowledgements, which nothing sends. Storage is a stub, keys and command line
have no behaviour; the two logarithms of `config.rs` are constants.
PROJECT.json lists every part with the reason, and the hazards no property
covers.

## Open ends

1. For how long a copy of a message can travel in a given graph, and so which
   history window keeps it from coming back.
2. The tree that is told of a peer before its dial is decided: `Broadcast` tells
   it of connected peers only, `TopicMesh` has the other order for one node.
3. Liveness of the overlay, the handler and the relay for every instance.
