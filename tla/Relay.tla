-------------------------------- MODULE Relay --------------------------------
(***************************************************************************)
(* A relay node around its network behaviour: the network task             *)
(* (network/mod.rs), the websocket service (rpc/), the message bus         *)
(* (bus.rs) and the main loop that moves events between them (main.rs).    *)
(*                                                                         *)
(* Two tasks and the clients of the service run concurrently: a step is    *)
(* one turn of a select! loop, one callback of the swarm, or one request.  *)
(***************************************************************************)
EXTENDS Episub

CONSTANTS
  Bootstrap,    \* the peers whose addresses the node is started with
  Client,       \* clients of the websocket service
  Subject,      \* what clients subscribe to, the topics of the message bus
  RpcServers,   \* the number of addresses the service listens on
  MaxReceived,  \* bound: messages from peers
  MaxGossip,    \* bound: payloads the topics deliver
  MaxRequests   \* bound: requests of clients

ASSUME RelayAssumption ==
  /\ Bootstrap \subseteq Peer /\ IsFiniteSet(Bootstrap)
  /\ {"message", "subscribe"} \subseteq Topic
  /\ {RpcServers, MaxReceived, MaxGossip, MaxRequests} \subseteq Nat

\* A connection, or the dial it comes from.  Bound: a peer has one of each
\* kind at a time, any number of them one after the other.
Connection == [peer : Peer, dialed : BOOLEAN]

Connect(p) == [type |-> "Connect", peer |-> p]
Gossip(t, x) == [type |-> "Gossip", topic |-> t, payload |-> x]

\* RpcEvent: a message, named by the client that sent it; a subscription,
\* with the socket that asked for it.
RpcMessage(c) == [topic |-> "message", payload |-> c]
RpcSubscription(s, c) == [topic |-> "subscribe", payload |-> s, socket |-> c]

VARIABLES
  node,       \* the Episub
  conn,       \* conn[c]: how far connection c is
  listening,  \* the addresses the swarm listens on
  task,       \* the network task
  netin,      \* network events for the main loop: their topics
  netout,     \* commands for the network task
  rpc,        \* the websocket service
  bus,        \* the message bus
  main,       \* the main loop
  accepted,   \* the requests taken from clients, oldest first (history)
  published,  \* the payloads published on the topics (history)
  world       \* peers and clients: what they may still send, and the peers
              \* that run with enable_compression off

swarm == <<node, conn, listening>>
network == <<swarm, task, netin, netout, published>>
clients == <<rpc, accepted>>
vars == <<network, clients, bus, main, world>>

World == [received : 0 .. MaxReceived, gossip : 0 .. MaxGossip,
           requests : 0 .. MaxRequests, plain : SUBSET Peer]

Init ==
  /\ node = EmptyEpisub
  /\ conn = [c \in Connection |-> "none"]
  /\ listening = {}
  /\ task = "starting"
  /\ netin = << >>
  /\ netout = << >>
  /\ rpc = [servers |-> 0, queue |-> << >>,
            socket |-> [c \in Client |-> "unused"]]
  /\ bus = [topics |-> << >>, out |-> << >>]
  /\ main = "starting"
  /\ accepted = << >>
  /\ published = << >>
  /\ \E plain \in SUBSET Peer :
       world = [received |-> MaxReceived, gossip |-> MaxGossip,
                requests |-> MaxRequests, plain |-> plain]

Wake == IF main = "asleep" THEN "awake" ELSE main

Use(what) == world[what] > 0 /\ world' = [world EXCEPT ![what] = @ - 1]

-----------------------------------------------------------------------------
(* Network::new and the start of main: subscribe to every topic, spawn the *)
(* task, queue the bootstrap dials, start the service.                     *)

SubscribeTo(t) ==
  /\ task = "starting"
  /\ t \notin node.pending
  /\ node' = Subscribe(node, t)
  /\ UNCHANGED <<conn, listening, task, netin, netout, published, clients,
                 bus, main, world>>

Start ==
  /\ task = "starting"
  /\ node.pending = Topic
  /\ task' = "running"
  /\ \E dials \in [1 .. Cardinality(Bootstrap) -> Bootstrap] :
       /\ {dials[i] : i \in DOMAIN dials} = Bootstrap
       /\ netout' = [i \in DOMAIN dials |-> Connect(dials[i])]
  /\ rpc' = [rpc EXCEPT !.servers = RpcServers]
  /\ main' = "awake"
  /\ UNCHANGED <<swarm, netin, published, accepted, bus, world>>

-----------------------------------------------------------------------------
(* Callbacks of the swarm.                                                 *)

SwarmUnchanged ==
  UNCHANGED <<task, netin, netout, published, clients, bus, main>>

\* No connection of this kind, and the swarm has taken every close that was
\* meant for the one before: a close names one connection.
Free(c) ==
  /\ conn[c] = "none"
  /\ \A i \in DOMAIN node.out : node.out[i] # CloseConnection(c.peer, c)

ConnectionEstablished(c) ==
  /\ task = "running"
  /\ IF c.dialed THEN conn[c] = "dialing" ELSE Free(c)
  /\ conn' = [conn EXCEPT ![c] = "open"]
  /\ node' = Established(node, c.peer, c, c.dialed)
  /\ UNCHANGED <<listening, world>> /\ SwarmUnchanged

\* A dial of an address names no peer, and one that the swarm refuses
\* because the peer is connected is not counted.
DialFails(c) ==
  /\ task = "running"
  /\ conn[c] = "dialing"
  /\ conn' = [conn EXCEPT ![c] = "none"]
  /\ node' \in {node, DialFailure(node, c.peer)}
  /\ UNCHANGED <<listening, world>> /\ SwarmUnchanged

\* The end of a connection that the behaviour, or the remote, has closed.
ConnectionClosed(c) ==
  /\ task = "running"
  /\ conn[c] \in {"open", "closing"}
  /\ conn' = [conn EXCEPT ![c] = "none"]
  /\ node' = Closed(node, c.peer)
  /\ UNCHANGED <<listening, world>> /\ SwarmUnchanged

ListenOn(a) ==
  /\ task = "running"
  /\ a \notin listening
  /\ listening' = listening \cup {a}
  /\ node' = NewListenAddr(node, a)
  /\ UNCHANGED <<conn, world>> /\ SwarmUnchanged

ListenerExpires(a) ==
  /\ task = "running"
  /\ a \in listening
  /\ listening' = listening \ {a}
  /\ node' = ExpiredListenAddr(node, a)
  /\ UNCHANGED <<conn, world>> /\ SwarmUnchanged

\* A connection that is being closed can still have messages under way.
Arrives(c, kind) ==
  /\ task = "running"
  /\ conn[c] \in {"open", "closing"}
  /\ kind = "undecodable" => c.peer \in world.plain
  /\ Use("received")

Receive(c, t, kind) ==
  /\ Arrives(c, kind)
  /\ ~InjectPanics(node, c.peer, t, kind)
  /\ node' \in Injected(node, c.peer, c, t, kind)
  /\ UNCHANGED <<conn, listening>> /\ SwarmUnchanged

-----------------------------------------------------------------------------
(* The network task: swarm.next(), which polls the behaviour, and commands.*)

Panic ==
  /\ task' = "panicked"
  /\ netout' = << >>
  /\ main' = Wake
  /\ UNCHANGED <<swarm, netin, published, clients, bus>>

ReceivePanics(c, t, kind) ==
  /\ Arrives(c, kind)
  /\ InjectPanics(node, c.peer, t, kind)
  /\ Panic

PollPanics ==
  /\ task = "running"
  /\ UpdatePanics(node, listening)
  /\ Panic /\ UNCHANGED world

\* The swarm takes a queued event: of those the relay has, only a close
\* changes anything here.
EmitEvent(e) ==
  /\ e.out # << >>
  /\ node' = [e EXCEPT !.out = Tail(@)]
  /\ conn' = [c \in Connection |->
                IF /\ conn[c] = "open"
                   /\ Head(e.out).type = "CloseConnection"
                   /\ Head(e.out).conn = c
                THEN "closing" ELSE conn[c]]
  /\ UNCHANGED <<netin, main, world>>

\* A mesh has nothing for the swarm, or dials a peer that is not connected,
\* or delivers a payload, which the task forwards if it can be parsed.
MeshQuiet(e) ==
  /\ e # node
  /\ UNCHANGED <<conn, netin, main, world>>

MeshDials(e, c) ==
  /\ e.known
  /\ c.dialed
  /\ Free(c)
  /\ \A d \in Connection : d.peer = c.peer => conn[d] \notin {"open", "closing"}
  /\ conn' = [conn EXCEPT ![c] = "dialing"]
  /\ UNCHANGED <<netin, main, world>>

MeshDelivers(e, t, parsed) ==
  /\ t \in DOMAIN e.topics
  /\ Use("gossip")
  /\ netin' = IF parsed THEN Append(netin, t) ELSE netin
  /\ main' = IF parsed THEN Wake ELSE main
  /\ UNCHANGED conn

MeshEvent(e) ==
  /\ e.out = << >>
  /\ node' = e
  /\ \/ MeshQuiet(e)
     \/ \E c \in Connection : MeshDials(e, c)
     \/ \E t \in Topic, parsed \in BOOLEAN : MeshDelivers(e, t, parsed)

Poll ==
  /\ task = "running"
  /\ ~UpdatePanics(node, listening)
  /\ \/ EmitEvent(UpdateLocalNode(node, listening))
     \/ MeshEvent(UpdateLocalNode(node, listening))
  /\ UNCHANGED <<listening, task, netout, published, clients, bus>>

NextCommand(type) == task = "running" /\ netout # << >> /\ Head(netout).type = type

\* NetworkCommand::Connect: an error of swarm.dial() is logged.
TakeConnect ==
  /\ NextCommand("Connect")
  /\ netout' = Tail(netout)
  /\ LET c == [peer |-> Head(netout).peer, dialed |-> TRUE]
     IN  conn' \in {conn} \cup (IF Free(c)
                                THEN {[conn EXCEPT ![c] = "dialing"]} ELSE {})
  /\ UNCHANGED <<node, listening, task, netin, published, clients, bus, main,
                 world>>

\* NetworkCommand::GossipMessage and GossipSubscription.
TakeGossip ==
  /\ NextCommand("Gossip")
  /\ CanPublish(node, Head(netout).topic)
  /\ netout' = Tail(netout)
  /\ published' = Append(published, Head(netout))
  /\ UNCHANGED <<swarm, task, netin, clients, bus, main, world>>

\* The error of publish() is unwrapped.
GossipPanics ==
  /\ NextCommand("Gossip")
  /\ ~CanPublish(node, Head(netout).topic)
  /\ Panic /\ UNCHANGED world

NetworkTask == PollPanics \/ Poll \/ TakeConnect \/ TakeGossip \/ GossipPanics

-----------------------------------------------------------------------------
(* The websocket service.  Its state is shared, through an Arc, by the     *)
(* server tasks, the tasks of open sockets and the main loop.              *)

Shared == rpc.servers > 0 \/ \E c \in Client : rpc.socket[c] = "open"

OpenSocket(c) ==
  /\ rpc.servers > 0
  /\ rpc.socket[c] = "unused"
  /\ rpc' = [rpc EXCEPT !.socket[c] = "open"]
  /\ UNCHANGED <<network, accepted, bus, main, world>>

CloseSocket(c) ==
  /\ rpc.socket[c] = "open"
  /\ rpc' = [rpc EXCEPT !.socket[c] = "closed"]
  /\ UNCHANGED <<network, accepted, bus, main, world>>

\* irn_publish: the socket stays with its task.
SendMessage(c) ==
  /\ rpc.socket[c] = "open"
  /\ Use("requests")
  /\ rpc' = [rpc EXCEPT !.queue = Append(@, RpcMessage(c))]
  /\ accepted' = Append(accepted, Gossip("message", c))
  /\ UNCHANGED <<network, bus, main>>

\* irn_subscribe: the socket leaves with the event and its task ends.
SendSubscription(c, s) ==
  /\ rpc.socket[c] = "open"
  /\ Use("requests")
  /\ rpc' = [rpc EXCEPT !.queue = Append(@, RpcSubscription(s, c)),
                        !.socket[c] = "moved"]
  /\ accepted' = Append(accepted, Gossip("subscribe", s))
  /\ UNCHANGED <<network, bus, main>>

\* bind() panics, or serve() returns and its result is unwrapped.
ServerEnds ==
  /\ rpc.servers > 0
  /\ rpc' = [rpc EXCEPT !.servers = @ - 1]
  /\ UNCHANGED <<network, accepted, bus, main, world>>

-----------------------------------------------------------------------------
(* The main loop: one turn of its select!.                                 *)

\* A command for a network task that is gone is an error, with which main
\* returns.
SendCommand(command) ==
  IF task = "panicked" THEN main' = "exited" /\ UNCHANGED netout
  ELSE netout' = Append(netout, command) /\ UNCHANGED main

\* network::handle!: only logs, as drop_message() does nothing.
TakeNetworkEvent ==
  /\ main = "awake"
  /\ netin # << >>
  /\ netin' = Tail(netin)
  /\ UNCHANGED <<swarm, task, netout, published, clients, bus, main, world>>

\* Mutant: the event is taken from the queue before select! has chosen, and
\* is lost when another branch is ready.
TakeBusEventUnchosen ==
  /\ main = "awake"
  /\ bus.out # << >>
  /\ bus' = [bus EXCEPT !.out = Tail(@)]
  /\ IF netin # << >> THEN UNCHANGED <<netout, main>>
     ELSE SendCommand(Gossip("subscribe", Head(bus.out)))
  /\ UNCHANGED <<swarm, task, netin, published, clients, world>>

\* bus::handle!.
TakeBusEvent ==
  /\ main = "awake"
  /\ bus.out # << >>
  /\ bus' = [bus EXCEPT !.out = Tail(@)]
  /\ SendCommand(Gossip("subscribe", Head(bus.out)))
  /\ UNCHANGED <<swarm, task, netin, published, clients, world>>

\* rpc::handle! for RpcEvent::Message.
HandleMessage(service, request) ==
  /\ SendCommand(Gossip("message", request.payload))
  /\ rpc' = service
  /\ UNCHANGED bus

\* rpc::handle! for RpcEvent::_Subscription: create_subscription() keeps the
\* socket, drops the one it had for the same subject, and queues the event.
HandleSubscription(service, request) ==
  LET s == request.payload
      displaced == IF s \in DOMAIN bus.topics THEN {bus.topics[s]} ELSE {}
  IN  /\ bus' = [topics |-> [x \in DOMAIN bus.topics \cup {s} |->
                              IF x = s THEN request.socket ELSE bus.topics[x]],
                 out |-> Append(bus.out, s)]
      /\ rpc' = [service EXCEPT !.socket = [c \in Client |->
                   IF c \in displaced THEN "closed" ELSE @[c]]]
      /\ UNCHANGED <<netout, main>>

\* RpcService::poll_next: Arc::get_mut() is None while the state is shared.
TakeRpcEvent ==
  /\ main = "awake"
  /\ ~Shared
  /\ rpc.queue # << >>
  /\ LET request == Head(rpc.queue)
         service == [rpc EXCEPT !.queue = Tail(@)]
     IN  \/ request.topic = "message" /\ HandleMessage(service, request)
         \/ request.topic = "subscribe" /\ HandleSubscription(service, request)
  /\ UNCHANGED <<swarm, task, netin, published, accepted, world>>

\* Nothing is ready.  Only network events wake the loop: the bus registers
\* no waker, and the service does only when nobody is left to use its queue.
Sleep ==
  /\ main = "awake"
  /\ netin = << >>
  /\ bus.out = << >>
  /\ Shared \/ rpc.queue = << >>
  /\ main' = "asleep"
  /\ UNCHANGED <<network, clients, bus, world>>

MainLoop == TakeNetworkEvent \/ TakeBusEvent \/ TakeRpcEvent \/ Sleep

-----------------------------------------------------------------------------

Environment ==
  \/ \E c \in Connection : \/ ConnectionEstablished(c)
                           \/ DialFails(c)
                           \/ ConnectionClosed(c)
                           \/ \E t \in Topic, kind \in MessageKind :
                                Receive(c, t, kind) \/ ReceivePanics(c, t, kind)
  \/ \E a \in Address : ListenOn(a) \/ ListenerExpires(a)
  \/ \E c \in Client : \/ OpenSocket(c) \/ CloseSocket(c)
                       \/ SendMessage(c)
                       \/ \E s \in Subject : SendSubscription(c, s)
  \/ ServerEnds

\* When main returns the process ends, and every task with it.
Next ==
  /\ main # "exited"
  /\ \/ \E t \in Topic : SubscribeTo(t)
     \/ Start
     \/ Environment
     \/ NetworkTask
     \/ MainLoop

Spec == Init /\ [][Next]_vars

\* The runtime runs both tasks whenever there is something for them.  Peers,
\* clients, listeners and servers need not do anything.
Fairness ==
  /\ \A t \in Topic : WF_vars(SubscribeTo(t))
  /\ WF_vars(Start)
  /\ WF_vars(Poll /\ node' # node)
  /\ WF_vars(PollPanics)
  /\ WF_vars(TakeConnect)
  /\ WF_vars(TakeGossip \/ GossipPanics)
  /\ WF_vars(MainLoop)

FairSpec == Spec /\ Fairness

-----------------------------------------------------------------------------

Mesh == [active : SUBSET Peer, asked : SUBSET Peer, addresses : SUBSET Address]

SwarmAction ==
  {CloseConnection(c.peer, c) : c \in Connection} \cup {Disconnect(p) : p \in Peer}
    \cup {Subscribed(t) : t \in Topic}

\* Every variable has its type, and a close names the one connection it is
\* for.
TypeOK ==
  /\ node.known \in BOOLEAN /\ node.addresses \subseteq Address
  /\ DOMAIN node.topics \subseteq Topic
  /\ \A t \in DOMAIN node.topics : node.topics[t] \in Mesh
  /\ node.pending \subseteq Topic
  /\ \A s \in {node.early, node.banned, node.addressed} : s \subseteq Peer
  /\ node.out \in Seq(SwarmAction)
  /\ conn \in [Connection -> {"none", "dialing", "open", "closing"}]
  /\ listening \subseteq Address
  /\ task \in {"starting", "running", "panicked"}
  /\ netin \in Seq(Topic)
  /\ rpc.servers \in 0 .. RpcServers
  /\ rpc.socket \in [Client -> {"unused", "open", "moved", "closed"}]
  /\ DOMAIN bus.topics \subseteq Subject
  /\ \A s \in DOMAIN bus.topics : bus.topics[s] \in Client
  /\ bus.out \in Seq(Subject)
  /\ main \in {"starting", "awake", "asleep", "exited"}
  /\ world \in World

\* The network task dies of three things only.  Before the node has an
\* address: an early peer that was banned meanwhile has no address to join
\* through (behaviour.rs 522), or a request arrives while the topics are
\* pending (network/mod.rs 211, 219), which takes the service to be gone.
\* Afterwards: a peer that is not banned sends a payload that it did not
\* compress (tree.rs 132).  Losing, closing or failing to open connections
\* never kills it.
PanicCause ==
  task = "panicked" =>
    IF node.known THEN world.plain \ node.banned # {}
    ELSE \/ node.early \cap node.banned # {}
         \/ ~Shared /\ accepted # << >>

IsOf(t, r) == "topic" \in DOMAIN r /\ r.topic = t

\* The payloads of topic t among commands or requests, in their order.
Of(t, s) ==
  LET upTo[i \in 0 .. Len(s)] ==
        IF i = 0 THEN << >>
        ELSE IF IsOf(t, s[i]) THEN Append(upTo[i - 1], s[i].payload) ELSE upTo[i - 1]
  IN  upTo[Len(s)]

\* No request that was accepted is lost, doubled or overtaken by a later one
\* of its kind on its way through the service's queue, the bus and the
\* command channel, while the network task lives (service.rs 94-114,
\* bus.rs 43-48, rpc/mod.rs 17-27, network/mod.rs 204-219).
RequestsKept ==
  task # "panicked" =>
    \A t \in {"message", "subscribe"} :
      Of(t, accepted) =
        Of(t, published) \o Of(t, netout)
          \o (IF t = "subscribe" THEN bus.out ELSE << >>) \o Of(t, rpc.queue)

\* Every topic that was subscribed to waits for an address, or has a mesh
\* that tells other nodes where this one is: "localhost is meaningless when
\* advertised to remote nodes" (behaviour.rs 439-490, 526-528).
TopicsReachable ==
  task # "starting" =>
    IF node.known
    THEN /\ node.pending = {}
         /\ \A t \in Topic : /\ t \in DOMAIN node.topics
                             /\ node.topics[t].addresses # {}
                             /\ node.topics[t].addresses \cap Loopback = {}
    ELSE node.pending = Topic /\ DOMAIN node.topics = {}

AskedOf(t) == IF t \in DOMAIN node.topics THEN node.topics[t].asked ELSE {}

\* A banned peer is never asked to let the node join, however often it is
\* dialed, before or after the node knows its address: "connections [are]
\* rejected" (behaviour.rs 79-81).
BannedNotAsked ==
  [][\A t \in Topic : (AskedOf(t)' \ AskedOf(t)) \cap node.banned = {}]_vars

\* "Once we get a listen address, we send a join request to them"
\* (behaviour.rs 92-99): a peer dialed early is asked in every topic, unless
\* the address goes away again or the task panics.
EarlyAsked ==
  \A p \in Peer :
    (p \in node.early) ~>
      \/ \A t \in Topic : p \in AskedOf(t)
      \/ listening \subseteq Loopback
      \/ task = "panicked"
      \/ main = "exited"

\* "All messages send between endpoints are published" (network/mod.rs
\* 125-127): one that a client has sent reaches the topic, unless the relay
\* or its service breaks down.
MessagesPublished ==
  \A c \in Client :
    (\E i \in DOMAIN rpc.queue : rpc.queue[i] = RpcMessage(c)) ~>
      \/ \E i \in DOMAIN published : published[i] = Gossip("message", c)
      \/ rpc.servers = 0
      \/ task = "panicked"
      \/ main = "exited"
=============================================================================
