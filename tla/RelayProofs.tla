----------------------------- MODULE RelayProofs -----------------------------
(***************************************************************************)
(* The relay keeps its types, its topics are reachable once it knows its   *)
(* address, its network task dies of three causes only, no banned peer is    *)
(* asked to let it join and no accepted request is lost or overtaken, for  *)
(* any number of topics, peers, addresses, clients and requests.           *)
(*                                                                         *)
(* The inductive invariant follows a request through the relay: that a     *)
(* command to publish waits for the network task says that the service is  *)
(* gone, so that the state it can panic in is known when it is taken.  Of  *)
(* the behaviour it says that an early peer has an address unless it was   *)
(* banned, and that no banned peer has one.                                *)
(***************************************************************************)
EXTENDS Relay, WellFoundedInduction, SequenceTheorems, FiniteSetTheorems, TLAPS

Meshes == UNION {[T -> Mesh] : T \in SUBSET Topic}

EpisubState ==
  [known : BOOLEAN, addresses : SUBSET Address, topics : Meshes,
   pending : SUBSET Topic, early : SUBSET Peer, banned : SUBSET Peer,
   addressed : SUBSET Peer, out : Seq(SwarmAction)]

\* The mesh gives other nodes an address they can reach.
Reachable(mesh) == mesh.addresses # {} /\ mesh.addresses \cap Loopback = {}

\* What the methods of the behaviour keep.  Only peers with an address, or
\* banned since, are early; a ban takes the address away.
GoodNode(e) ==
  /\ e \in EpisubState
  /\ e.addressed \cap e.banned = {}
  /\ e.known => /\ e.early = {} /\ e.pending = {}
                /\ DOMAIN e.topics = Topic
                /\ \A t \in Topic : Reachable(e.topics[t])
  /\ ~e.known => /\ DOMAIN e.topics = {}
                 /\ e.early \subseteq e.addressed \cup e.banned

Command ==
  {Connect(p) : p \in Peer}
    \cup {Gossip("message", c) : c \in Client}
    \cup {Gossip("subscribe", s) : s \in Subject}

Request ==
  {RpcMessage(c) : c \in Client} \cup {RpcSubscription(s, c) : s \in Subject, c \in Client}

RpcState ==
  [servers : 0 .. RpcServers, queue : Seq(Request),
   socket : [Client -> {"unused", "open", "moved", "closed"}]]

BusState ==
  [topics : UNION {[S -> Client] : S \in SUBSET Subject}, out : Seq(Subject)]

\* The network, as far as the node is concerned.
SwarmGood ==
  /\ GoodNode(node)
  /\ conn \in [Connection -> {"none", "dialing", "open", "closing"}]
  /\ listening \subseteq Address
  /\ task \in {"starting", "running", "panicked"}
  /\ task = "starting" => ~node.known
  /\ task # "starting" /\ ~node.known => node.pending = Topic

\* Nothing happens at the service before the node has started.
QuietStart ==
  /\ task = "starting" <=> main = "starting"
  /\ task = "starting" =>
       /\ netout = << >> /\ rpc.servers = 0 /\ accepted = << >>
       /\ \A c \in Client : rpc.socket[c] = "unused"

QueuesTyped ==
  /\ netin \in Seq(Topic) /\ netout \in Seq(Command)
  /\ rpc \in RpcState /\ bus \in BusState
  /\ main \in {"starting", "awake", "asleep", "exited"}
  /\ accepted \in Seq(Command) /\ published \in Seq(Command)
  /\ world \in World

\* Requests leave the service only when it is gone.
Requested == ~Shared /\ accepted # << >>
LateRequests ==
  /\ rpc.queue # << >> => accepted # << >>
  /\ bus.out # << >> => Requested
  /\ \A i \in DOMAIN netout : netout[i].type = "Gossip" => Requested

RelayInv ==
  /\ SwarmGood /\ QueuesTyped /\ QuietStart /\ LateRequests /\ PanicCause

-----------------------------------------------------------------------------
(* The methods of the behaviour.                                           *)

\* The fields of a state have their types.
LEMMA Fields ==
  ASSUME NEW e \in EpisubState
  PROVE  /\ e.known \in BOOLEAN /\ e.addresses \subseteq Address
         /\ e.topics \in [DOMAIN e.topics -> Mesh] /\ DOMAIN e.topics \subseteq Topic
         /\ e.pending \subseteq Topic /\ e.early \subseteq Peer
         /\ e.banned \subseteq Peer /\ e.addressed \subseteq Peer
         /\ e.out \in Seq(SwarmAction)
BY DEF EpisubState, Meshes

\* One field is replaced by a value of its type.
LEMMA Replace ==
  ASSUME NEW e \in EpisubState
  PROVE  /\ \A x \in Meshes : [e EXCEPT !.topics = x] \in EpisubState
         /\ \A x \in SUBSET Topic : [e EXCEPT !.pending = x] \in EpisubState
         /\ \A x \in SUBSET Address : [e EXCEPT !.addresses = x] \in EpisubState
         /\ \A x \in SUBSET Peer : [e EXCEPT !.early = x] \in EpisubState
         /\ \A x \in SUBSET Peer : [e EXCEPT !.addressed = x] \in EpisubState
         /\ \A x \in Seq(SwarmAction) : [e EXCEPT !.out = x] \in EpisubState
BY DEF EpisubState

\* An event is queued and nothing else changes.
LEMMA PushGood ==
  ASSUME NEW e, GoodNode(e), NEW a \in SwarmAction
  PROVE  GoodNode(PushEvent(e, a))
<1>1. Append(e.out, a) \in Seq(SwarmAction)
  BY Fields, AppendProperties DEF GoodNode
<1>2. PushEvent(e, a) \in EpisubState
  BY <1>1, Replace DEF GoodNode, PushEvent
<1> QED BY <1>2 DEF GoodNode, PushEvent, EpisubState

\* force_disconnect.
LEMMA ForceDisconnectGood ==
  ASSUME NEW e, GoodNode(e), NEW c \in Connection
  PROVE  GoodNode(ForceDisconnect(e, c.peer, c))
<1>1. CloseConnection(c.peer, c) \in SwarmAction
  BY DEF SwarmAction
<1> QED BY <1>1, PushGood DEF ForceDisconnect

\* ban: the peer loses its address.
LEMMA BanGood ==
  ASSUME NEW e, GoodNode(e), NEW c \in Connection
  PROVE  GoodNode(Ban(e, c.peer, c))
<1> DEFINE p == c.peer
           d == [e EXCEPT !.addressed = @ \ {p}, !.banned = @ \cup {p}]
<1>1. p \in Peer
  BY DEF Connection
<1>2. d \in EpisubState
  BY <1>1 DEF GoodNode, EpisubState
<1>3. GoodNode(d)
  BY <1>1, <1>2 DEF GoodNode, EpisubState
<1> HIDE DEF d, p
<1> QED BY <1>3, ForceDisconnectGood DEF Ban, d, p

\* The meshes are replaced by others with the same addresses.
LEMMA TopicsGood ==
  ASSUME NEW e, GoodNode(e), NEW f \in [DOMAIN e.topics -> Mesh],
         \A t \in DOMAIN e.topics : f[t].addresses = e.topics[t].addresses
  PROVE  GoodNode([e EXCEPT !.topics = f])
<1>1. f \in Meshes
  BY Fields DEF GoodNode, Meshes
<1>2. [e EXCEPT !.topics = f] \in EpisubState
  BY <1>1, Replace DEF GoodNode
<1> QED BY <1>2 DEF GoodNode, EpisubState, Reachable

\* JOIN requests are noted in the meshes.
LEMMA RequestJoinsGood ==
  ASSUME NEW e, GoodNode(e), NEW S \in SUBSET Peer
  PROVE  /\ GoodNode(RequestJoins(e, S))
         /\ RequestJoins(e, S).known = e.known
         /\ DOMAIN RequestJoins(e, S).topics = DOMAIN e.topics
         /\ RequestJoins(e, S).banned = e.banned
         /\ \A t \in DOMAIN e.topics : \A p \in RequestJoins(e, S).topics[t].asked :
              p \in e.topics[t].asked \/ (p \in S /\ StarvingFor(e.topics[t], p))
<1> DEFINE f == [t \in DOMAIN e.topics |->
                   [e.topics[t] EXCEPT !.asked =
                      @ \cup {p \in S : StarvingFor(e.topics[t], p)}]]
<1>1. \A t \in DOMAIN e.topics : e.topics[t] \in Mesh
  BY Fields DEF GoodNode
<1>2. \A t \in DOMAIN e.topics :
        /\ f[t] \in Mesh /\ f[t].addresses = e.topics[t].addresses
        /\ f[t].asked = e.topics[t].asked \cup {p \in S : StarvingFor(e.topics[t], p)}
  BY <1>1 DEF Mesh
<1>3. f \in [DOMAIN e.topics -> Mesh]
  BY <1>2
<1>4. RequestJoins(e, S) = [e EXCEPT !.topics = f]
  BY DEF RequestJoins
<1> HIDE DEF f
<1>5. GoodNode(RequestJoins(e, S))
  BY <1>2, <1>3, <1>4, TopicsGood
<1>6. /\ RequestJoins(e, S).topics = f
      /\ RequestJoins(e, S).known = e.known /\ RequestJoins(e, S).banned = e.banned
  BY <1>4 DEF GoodNode, EpisubState
<1>7. \A t \in DOMAIN e.topics : \A p \in f[t].asked :
        p \in e.topics[t].asked \/ (p \in S /\ StarvingFor(e.topics[t], p))
  BY <1>2
<1>8. DOMAIN f = DOMAIN e.topics
  BY <1>3
<1> HIDE <1>2
<1> QED BY <1>5, <1>6, <1>7, <1>8

\* disconnected() on every mesh.
LEMMA LoseActiveGood ==
  ASSUME NEW e, GoodNode(e), NEW p
  PROVE  /\ GoodNode(LoseActive(e, p))
         /\ LoseActive(e, p).known = e.known
         /\ LoseActive(e, p).pending = e.pending
         /\ DOMAIN LoseActive(e, p).topics = DOMAIN e.topics
         /\ \A t \in DOMAIN e.topics :
              LoseActive(e, p).topics[t].asked = e.topics[t].asked
<1> DEFINE f == [t \in DOMAIN e.topics |-> [e.topics[t] EXCEPT !.active = @ \ {p}]]
<1>1. \A t \in DOMAIN e.topics : e.topics[t] \in Mesh
  BY Fields DEF GoodNode
<1>2. \A t \in DOMAIN e.topics :
        /\ f[t] \in Mesh /\ f[t].addresses = e.topics[t].addresses
        /\ f[t].asked = e.topics[t].asked
  BY <1>1 DEF Mesh
<1>3. f \in [DOMAIN e.topics -> Mesh]
  BY <1>2
<1>4. LoseActive(e, p) = [e EXCEPT !.topics = f]
  BY DEF LoseActive
<1> HIDE DEF f
<1>5. GoodNode(LoseActive(e, p))
  BY <1>2, <1>3, <1>4, TopicsGood
<1>6. /\ LoseActive(e, p).topics = f
      /\ LoseActive(e, p).known = e.known /\ LoseActive(e, p).pending = e.pending
  BY <1>4 DEF GoodNode, EpisubState
<1> QED BY <1>2, <1>3, <1>5, <1>6

\* The peers asked in topic t.
AskedIn(e, t) == IF t \in DOMAIN e.topics THEN e.topics[t].asked ELSE {}

\* The step from e to d asks no banned peer.
NoBannedAsked(e, d) ==
  \A t \in Topic : (AskedIn(d, t) \ AskedIn(e, t)) \cap e.banned = {}

\* What every callback guarantees.
Kept(e, d) ==
  GoodNode(d) /\ d.known = e.known /\ d.pending = e.pending /\ NoBannedAsked(e, d)

\* An event in the queue, a connection closed by force and a ban leave the
\* topics alone.
LEMMA DisconnectKept ==
  ASSUME NEW e, GoodNode(e), NEW c \in Connection
  PROVE  /\ Kept(e, ForceDisconnect(e, c.peer, c))
         /\ Kept(e, Ban(e, c.peer, c))
         /\ Kept(e, ForceDisconnect(PushEvent(e, Disconnect(c.peer)), c.peer, c))
<1> DEFINE d1 == ForceDisconnect(e, c.peer, c)
           d2 == Ban(e, c.peer, c)
           d3 == ForceDisconnect(PushEvent(e, Disconnect(c.peer)), c.peer, c)
<1>1. GoodNode(d1) /\ GoodNode(d2)
  BY ForceDisconnectGood, BanGood
<1>2. GoodNode(d3)
  <2>1. Disconnect(c.peer) \in SwarmAction
    BY DEF SwarmAction, Connection
  <2> QED BY <2>1, PushGood, ForceDisconnectGood
<1>3. /\ d1.topics = e.topics /\ d1.known = e.known /\ d1.pending = e.pending
      /\ d2.topics = e.topics /\ d2.known = e.known /\ d2.pending = e.pending
      /\ d3.topics = e.topics /\ d3.known = e.known /\ d3.pending = e.pending
  BY DEF ForceDisconnect, Ban, PushEvent, GoodNode, EpisubState
<1> HIDE DEF d1, d2, d3
<1>4. Kept(e, d1) /\ Kept(e, d2) /\ Kept(e, d3)
  BY <1>1, <1>2, <1>3 DEF Kept, NoBannedAsked, AskedIn
<1> QED BY <1>4 DEF d1, d2, d3

\* inject_connection_established: the peer that is asked is not banned.
LEMMA EstablishedKept ==
  ASSUME NEW e, GoodNode(e), NEW c \in Connection
  PROVE  Kept(e, Established(e, c.peer, c, c.dialed))
<1> DEFINE p == c.peer
           k == [e EXCEPT !.addressed = @ \cup {p}]
           x == [k EXCEPT !.early = @ \cup {p}]
           d == Established(e, p, c, c.dialed)
<1>1. p \in Peer /\ c.dialed \in BOOLEAN
  BY DEF Connection
<1>2. CASE p \in e.banned
  BY <1>2, DisconnectKept DEF Established
<1>3. CASE p \notin e.banned
  <2>1. k \in EpisubState
    BY <1>1, Fields, Replace DEF GoodNode
  <2>2. GoodNode(k) /\ k.topics = e.topics /\ k.known = e.known /\ k.pending = e.pending
        /\ k.banned = e.banned
    BY <1>1, <1>3, <2>1 DEF GoodNode, EpisubState
  <2>3. CASE ~c.dialed
    <3>1. d = k
      BY <1>3, <2>3 DEF Established
    <3> QED BY <2>2, <3>1 DEF Kept, NoBannedAsked, AskedIn
  <2>4. CASE c.dialed /\ k.known
    <3>1. d = RequestJoins(k, {p})
      BY <1>3, <2>4 DEF Established
    <3> HIDE DEF k, d
    <3>2. /\ GoodNode(d) /\ d.known = k.known
          /\ DOMAIN d.topics = DOMAIN k.topics /\ d.pending = {} /\ k.pending = {}
          /\ \A t \in DOMAIN k.topics :
               d.topics[t].asked \subseteq k.topics[t].asked \cup {p}
      <4>1. /\ GoodNode(d) /\ d.known = k.known
            /\ DOMAIN d.topics = DOMAIN k.topics
            /\ \A t \in DOMAIN k.topics : \A q \in d.topics[t].asked :
                 q \in k.topics[t].asked \/ q \in {p}
        BY <1>1, <2>2, <3>1, RequestJoinsGood
      <4> QED BY <2>4, <4>1, <2>2 DEF GoodNode
    <3>3. NoBannedAsked(e, d)
      BY <1>3, <2>2, <3>2 DEF NoBannedAsked, AskedIn
    <3> QED BY <2>2, <3>2, <3>3 DEF Kept, d
  <2>5. CASE c.dialed /\ ~k.known
    <3>1. d = x
      BY <1>3, <2>5 DEF Established
    <3>2. x \in EpisubState
      BY <1>1, <2>1 DEF EpisubState
    <3>3. GoodNode(x) /\ x.topics = e.topics /\ x.known = e.known /\ x.pending = e.pending
      BY <1>1, <1>3, <2>1, <2>2, <2>5, <3>2 DEF GoodNode, EpisubState
    <3> QED BY <3>1, <3>3 DEF Kept, NoBannedAsked, AskedIn
  <2> QED BY <1>1, <2>3, <2>4, <2>5
<1> QED BY <1>2, <1>3

\* inject_connection_closed and inject_dial_failure ask nobody.
LEMMA LoseActiveKept ==
  ASSUME NEW e, GoodNode(e), NEW p
  PROVE  Kept(e, LoseActive(e, p))
<1> DEFINE d == LoseActive(e, p)
<1>1. /\ GoodNode(d) /\ d.known = e.known /\ d.pending = e.pending
      /\ DOMAIN d.topics = DOMAIN e.topics
      /\ \A t \in DOMAIN e.topics : d.topics[t].asked = e.topics[t].asked
  BY LoseActiveGood
<1> HIDE DEF d
<1> QED BY <1>1 DEF Kept, NoBannedAsked, AskedIn, d

\* inject_new_listen_addr and inject_expired_listen_addr.
LEMMA ListenKept ==
  ASSUME NEW e, GoodNode(e), NEW a \in Address
  PROVE  Kept(e, NewListenAddr(e, a)) /\ Kept(e, ExpiredListenAddr(e, a))
<1>1. ASSUME NEW x \in SUBSET Address
      PROVE  Kept(e, [e EXCEPT !.addresses = x])
  <2> DEFINE d == [e EXCEPT !.addresses = x]
  <2>1. d \in EpisubState
    BY Replace DEF GoodNode
  <2>2. GoodNode(d) /\ d.topics = e.topics /\ d.known = e.known /\ d.pending = e.pending
    BY <2>1 DEF GoodNode, EpisubState
  <2> HIDE DEF d
  <2> QED BY <2>2 DEF Kept, NoBannedAsked, AskedIn, d
<1>2. Kept(e, e)
  BY DEF Kept, NoBannedAsked
<1>3. /\ e.addresses \cup Advertised({a}) \in SUBSET Address
      /\ e.addresses \ {a} \in SUBSET Address
  BY Fields DEF GoodNode, Advertised
<1> QED BY <1>1, <1>2, <1>3 DEF NewListenAddr, ExpiredListenAddr

\* inject_event: what a message does to the membership of a mesh is no JOIN.
LEMMA InjectedKept ==
  ASSUME NEW e, GoodNode(e), NEW c \in Connection, NEW t \in Topic,
         NEW kind \in MessageKind,
         NEW d \in Injected(e, c.peer, c, t, kind)
  PROVE  Kept(e, d)
<1>1. Kept(e, e)
  BY DEF Kept, NoBannedAsked
<1>2. ASSUME t \in DOMAIN e.topics, NEW A \in SUBSET Peer
      PROVE  Kept(e, [e EXCEPT !.topics[t].active = A])
  <2> DEFINE f == [e.topics EXCEPT ![t].active = A]
             x == [e EXCEPT !.topics = f]
  <2>1. e.topics \in [DOMAIN e.topics -> Mesh]
    BY Fields DEF GoodNode
  <2>2. f \in [DOMAIN e.topics -> Mesh]
    BY <1>2, <2>1 DEF Mesh
  <2>3. \A u \in DOMAIN e.topics : /\ f[u].addresses = e.topics[u].addresses
                                   /\ f[u].asked = e.topics[u].asked
    BY <1>2, <2>1 DEF Mesh
  <2>4. [e EXCEPT !.topics[t].active = A] = x
    BY DEF GoodNode, EpisubState
  <2> HIDE DEF f
  <2>5. GoodNode(x)
    BY <2>2, <2>3, TopicsGood
  <2>6. x.topics = f /\ x.known = e.known /\ x.pending = e.pending
    BY DEF GoodNode, EpisubState
  <2> HIDE DEF x
  <2>7. Kept(e, x)
    BY <2>2, <2>3, <2>5, <2>6 DEF Kept, NoBannedAsked, AskedIn
  <2> QED BY <2>4, <2>7
<1>3. CASE t \in DOMAIN e.topics
  <2>1. e.topics[t].active \in SUBSET Peer
    BY <1>3, Fields DEF GoodNode, Mesh
  <2>2. \A q \in Peer : /\ e.topics[t].active \cup {q} \in SUBSET Peer
                        /\ e.topics[t].active \ {q} \in SUBSET Peer
    BY <2>1
  <2> QED BY <1>1, <1>2, <1>3, <2>2, DisconnectKept DEF Injected
<1>4. CASE t \notin DOMAIN e.topics
  BY <1>4, DisconnectKept DEF Injected
<1> QED BY <1>3, <1>4

\* The node adopts an address: every pending topic gets a mesh that knows it,
\* in which nobody was asked yet.
LEMMA IdentifiedGood ==
  ASSUME NEW e, GoodNode(e), ~e.known, e.pending = Topic,
         NEW listened \in SUBSET Address, Adopts(e, listened)
  PROVE  LET i == Identified(e, listened) IN
         /\ GoodNode(i) /\ i.known
         /\ i.addressed = e.addressed /\ i.banned = e.banned
         /\ \A t \in Topic : i.topics[t].asked = {}
<1> DEFINE A == Advertised(listened)
           f == [t \in Topic |-> [active |-> {}, asked |-> {}, addresses |-> A]]
           i == Identified(e, listened)
<1>1. A \subseteq Address /\ A # {} /\ A \cap Loopback = {}
  BY DEF Adopts, Advertised
<1>2. f \in [Topic -> Mesh] /\ f \in Meshes
  BY <1>1 DEF Mesh, Meshes
<1>3. DOMAIN e.topics = {}
  BY DEF GoodNode
<1>4. i.topics = f
  BY <1>3 DEF Identified, CreateMeshes, GoodNode, EpisubState
<1>5. /\ i = [i EXCEPT !.topics = f]
      /\ i.known = TRUE /\ i.addresses = A /\ i.pending = {} /\ i.early = {}
      /\ i.banned = e.banned /\ i.addressed = e.addressed /\ i.out = e.out
  BY <1>4 DEF Identified, CreateMeshes, GoodNode, EpisubState
<1>6. i \in EpisubState
  <2> DEFINE k == [e EXCEPT !.known = TRUE, !.addresses = A]
  <2>1. k \in EpisubState /\ k.topics = e.topics /\ k.addresses = A /\ k.pending = Topic
    BY <1>1 DEF GoodNode, EpisubState
  <2>2. CreateMeshes(k, k.pending) = [k EXCEPT !.topics = f]
    BY <1>3, <2>1 DEF CreateMeshes
  <2>3. i = [CreateMeshes(k, k.pending) EXCEPT !.pending = {}, !.early = {}]
    BY DEF Identified
  <2> HIDE DEF k, f, i
  <2>4. CreateMeshes(k, k.pending) \in EpisubState
    BY <1>2, <2>1, <2>2, Replace
  <2> QED BY <2>3, <2>4 DEF EpisubState
<1>7. \A t \in Topic : Reachable(f[t]) /\ f[t].asked = {}
  BY <1>1 DEF Reachable
<1> HIDE DEF f, i
<1>8. GoodNode(i)
  BY <1>2, <1>4, <1>5, <1>6, <1>7 DEF GoodNode
<1> QED BY <1>4, <1>5, <1>7, <1>8 DEF i

\* update_local_node_info: it either panics or asks early peers that have an
\* address, and those are not banned.
LEMMA UpdateGood ==
  ASSUME NEW e, GoodNode(e), ~e.known => e.pending = Topic,
         NEW listened \in SUBSET Address, ~UpdatePanics(e, listened)
  PROVE  LET d == UpdateLocalNode(e, listened) IN
         /\ GoodNode(d) /\ NoBannedAsked(e, d)
         /\ d = e \/ d.known
<1> DEFINE i == Identified(e, listened)
           d == UpdateLocalNode(e, listened)
<1>1. CASE ~Adopts(e, listened)
  BY <1>1 DEF UpdateLocalNode, NoBannedAsked
<1>2. CASE Adopts(e, listened)
  <2>1. ~e.known /\ e.pending = Topic
    BY <1>2 DEF Adopts
  <2>2. /\ GoodNode(i) /\ i.known
        /\ i.addressed = e.addressed /\ i.banned = e.banned
        /\ \A t \in Topic : i.topics[t].asked = {}
    BY <1>2, <2>1, IdentifiedGood
  <2>3. e.early \in SUBSET Peer
    BY Fields DEF GoodNode
  <2>4. d = RequestJoins(i, e.early)
    BY <1>2 DEF UpdateLocalNode
  <2>5. ~JoinPanics(i, e.early)
    BY <1>2 DEF UpdatePanics
  <2> HIDE DEF i, d
  <2>6. /\ GoodNode(d) /\ d.known = i.known /\ DOMAIN d.topics = DOMAIN i.topics
        /\ \A t \in DOMAIN i.topics : \A p \in d.topics[t].asked :
             p \in i.topics[t].asked \/ (p \in e.early /\ StarvingFor(i.topics[t], p))
    BY <2>2, <2>3, <2>4, RequestJoinsGood
  <2>7. DOMAIN i.topics = Topic
    BY <2>2 DEF GoodNode
  <2>8. \A t \in Topic : d.topics[t].asked \subseteq e.addressed
    BY <2>2, <2>5, <2>6, <2>7 DEF JoinPanics
  <2>9. NoBannedAsked(e, d)
    BY <2>6, <2>7, <2>8 DEF NoBannedAsked, AskedIn, GoodNode
  <2> QED BY <2>2, <2>6, <2>9 DEF d
<1> QED BY <1>1, <1>2

\* An early peer that the join cannot find an address of was banned.
LEMMA UpdatePanicsBanned ==
  ASSUME NEW e, GoodNode(e), ~e.known => e.pending = Topic,
         NEW listened \in SUBSET Address, UpdatePanics(e, listened)
  PROVE  ~e.known /\ e.early \cap e.banned # {}
<1> DEFINE i == Identified(e, listened)
<1>1. Adopts(e, listened) /\ ~e.known /\ e.pending = Topic
  BY DEF UpdatePanics, Adopts
<1>2. i.addressed = e.addressed
  BY <1>1, IdentifiedGood
<1>3. PICK p \in e.early \ e.addressed : TRUE
  BY <1>2 DEF UpdatePanics, JoinPanics
<1> QED BY <1>1, <1>3 DEF GoodNode

-----------------------------------------------------------------------------
(* The steps of the relay.  AskingGood is the action property that no      *)
(* banned peer is asked, as the steps give it.                             *)

AskingGood == NoBannedAsked(node, node')

\* Messages and requests are spent one by one.
LEMMA WorldSpends ==
  ASSUME world \in World, NEW what \in {"received", "gossip", "requests"}, Use(what)
  PROVE  world' \in World /\ world'.plain = world.plain
<1>1. \A w \in {"received", "gossip", "requests"} : world[w] \in Nat
  BY DEF World
<1>2. world' = [world EXCEPT ![what] = @ - 1] /\ world[what] > 0
  BY DEF Use
<1>3. CASE what = "received"
  BY <1>1, <1>2, <1>3, RelayAssumption DEF World
<1>4. CASE what = "gossip"
  BY <1>1, <1>2, <1>4, RelayAssumption DEF World
<1>5. CASE what = "requests"
  BY <1>1, <1>2, <1>5, RelayAssumption DEF World
<1> QED BY <1>3, <1>4, <1>5

\* The bounds are numbers, and every counter may be full or empty.
LEMMA Bounds ==
  /\ 0 \in 0 .. RpcServers /\ RpcServers \in 0 .. RpcServers
  /\ MaxReceived \in 0 .. MaxReceived /\ MaxGossip \in 0 .. MaxGossip
  /\ MaxRequests \in 0 .. MaxRequests
<1>1. /\ RpcServers \in Nat /\ MaxReceived \in Nat /\ MaxGossip \in Nat
      /\ MaxRequests \in Nat
  BY RelayAssumption
<1> QED BY <1>1

\* A node that was just made.
LEMMA InitRelay == Init => RelayInv
<1> SUFFICES ASSUME Init PROVE RelayInv
  OBVIOUS
<1>1. /\ << >> \in Seq(SwarmAction) /\ << >> \in Seq(Topic) /\ << >> \in Seq(Command)
      /\ << >> \in Seq(Request) /\ << >> \in Seq(Subject)
  BY EmptySeq
<1>2. << >> \in Meshes /\ << >> \in UNION {[S -> Client] : S \in SUBSET Subject}
      /\ DOMAIN << >> = {}
  <2>1. << >> \in [{} -> Mesh] /\ << >> \in [{} -> Client] /\ DOMAIN << >> = {}
    OBVIOUS
  <2> QED BY <2>1 DEF Meshes
<1>3. EmptyEpisub \in EpisubState
  BY <1>1, <1>2 DEF EmptyEpisub, EpisubState
<1>4. GoodNode(node)
  BY <1>2, <1>3 DEF Init, GoodNode, EmptyEpisub
<1>5. SwarmGood
  BY <1>4 DEF Init, SwarmGood, EmptyEpisub
<1>6. QueuesTyped
  <2>1. rpc \in RpcState
    BY <1>1, Bounds DEF Init, RpcState
  <2>2. bus \in BusState
    BY <1>1, <1>2 DEF Init, BusState
  <2>3. world \in World
    <3>1. PICK S \in SUBSET Peer :
            world = [received |-> MaxReceived, gossip |-> MaxGossip,
                     requests |-> MaxRequests, plain |-> S]
      BY DEF Init
    <3> QED BY <3>1, Bounds DEF World
  <2> QED BY <1>1, <2>1, <2>2, <2>3 DEF Init, QueuesTyped
<1>7. QuietStart /\ LateRequests
  BY DEF Init, QuietStart, LateRequests
<1> QED BY <1>5, <1>6, <1>7 DEF Init, RelayInv, PanicCause

\* Subscriptions before the start only add to the pending topics.
LEMMA SubscribeToKeeps ==
  ASSUME RelayInv, NEW t \in Topic, SubscribeTo(t)
  PROVE  RelayInv' /\ AskingGood
<1> DEFINE d == [node EXCEPT !.pending = @ \cup {t}]
<1>1. GoodNode(node) /\ ~node.known /\ task = "starting"
  BY DEF RelayInv, SwarmGood, SubscribeTo
<1>2. node' = d
  BY <1>1 DEF SubscribeTo, Subscribe, GoodNode
<1>3. d \in EpisubState
  BY <1>1, Fields, Replace DEF GoodNode
<1>4. GoodNode(d) /\ d.topics = node.topics /\ d.known = node.known
  BY <1>1, <1>3 DEF GoodNode, EpisubState
<1> HIDE DEF d
<1>5. SwarmGood'
  BY <1>1, <1>2, <1>4 DEF RelayInv, SwarmGood, SubscribeTo
<1>6. AskingGood
  BY <1>2, <1>4 DEF AskingGood, NoBannedAsked, AskedIn
<1>7. QueuesTyped' /\ QuietStart' /\ LateRequests'
  BY DEF RelayInv, SubscribeTo, clients, QueuesTyped, QuietStart, LateRequests,
     Requested, Shared
<1> QED BY <1>1, <1>5, <1>6, <1>7 DEF RelayInv, PanicCause, SubscribeTo

\* The start queues one dial for every bootstrap address.
LEMMA StartKeeps ==
  ASSUME RelayInv, Start
  PROVE  RelayInv' /\ AskingGood
<1>1. /\ task = "starting" /\ node' = node /\ ~node.known /\ node.pending = Topic
      /\ netin' = netin /\ published' = published /\ accepted' = accepted
      /\ bus' = bus /\ world' = world /\ conn' = conn /\ listening' = listening
      /\ rpc' = [rpc EXCEPT !.servers = RpcServers]
  BY DEF RelayInv, SwarmGood, Start, swarm
<1>2. PICK dials \in [1 .. Cardinality(Bootstrap) -> Bootstrap] :
        netout' = [i \in DOMAIN dials |-> Connect(dials[i])]
  BY DEF Start
<1> DEFINE n == Cardinality(Bootstrap)
<1>3. n \in Nat
  BY RelayAssumption, FS_CardinalityType
<1> HIDE DEF n
<1>4. netout' = [i \in 1 .. n |-> Connect(dials[i])]
      /\ \A i \in 1 .. n : Connect(dials[i]) \in Command
  BY <1>2, RelayAssumption DEF n, Command
<1>5. netout' \in Seq(Command)
  BY <1>3, <1>4
<1>6. \A i \in DOMAIN netout' : netout'[i].type # "Gossip"
  BY <1>4 DEF Connect
<1>7. rpc' \in RpcState /\ rpc'.queue = rpc.queue
  BY <1>1, Bounds DEF RelayInv, QueuesTyped, RpcState
<1>8. SwarmGood'
  BY <1>1 DEF RelayInv, SwarmGood, Start
<1>9. QueuesTyped'
  BY <1>1, <1>5, <1>7 DEF RelayInv, QueuesTyped, Start
<1>10. QuietStart' /\ LateRequests'
  BY <1>1, <1>6, <1>7 DEF RelayInv, QuietStart, LateRequests, Start, Requested
<1> QED BY <1>1, <1>8, <1>9, <1>10 DEF RelayInv, PanicCause, Start, AskingGood,
     NoBannedAsked

\* A callback of the swarm that keeps the node good keeps the rest.
LEMMA CallbackKeeps ==
  ASSUME RelayInv, task = "running", Kept(node, node'), SwarmUnchanged,
         conn' \in [Connection -> {"none", "dialing", "open", "closing"}],
         listening' \subseteq Address, world' \in World
  PROVE  RelayInv' /\ AskingGood
<1>1. SwarmGood' /\ AskingGood
  BY DEF RelayInv, SwarmGood, SwarmUnchanged, Kept, AskingGood
<1>2. QueuesTyped' /\ QuietStart' /\ LateRequests'
  BY DEF RelayInv, SwarmUnchanged, clients, QueuesTyped, QuietStart, LateRequests,
     Requested, Shared
<1> QED BY <1>1, <1>2 DEF RelayInv, PanicCause, SwarmUnchanged

\* The callbacks.
LEMMA CallbacksKeep ==
  ASSUME RelayInv, NEW c \in Connection,
         \/ ConnectionEstablished(c) \/ DialFails(c) \/ ConnectionClosed(c)
         \/ \E t \in Topic, kind \in MessageKind : Receive(c, t, kind)
  PROVE  RelayInv' /\ AskingGood
<1>1. /\ GoodNode(node) /\ listening \subseteq Address /\ world \in World
      /\ conn \in [Connection -> {"none", "dialing", "open", "closing"}]
  BY DEF RelayInv, SwarmGood, QueuesTyped
<1>2. CASE ConnectionEstablished(c)
  <2>1. Kept(node, node')
    BY <1>1, <1>2, EstablishedKept DEF ConnectionEstablished
  <2> QED BY <1>1, <1>2, <2>1, CallbackKeeps DEF ConnectionEstablished
<1>3. CASE DialFails(c)
  <2>1. Kept(node, node')
    BY <1>1, <1>3, LoseActiveKept DEF DialFails, DialFailure, Kept, NoBannedAsked
  <2> QED BY <1>1, <1>3, <2>1, CallbackKeeps DEF DialFails
<1>4. CASE ConnectionClosed(c)
  <2>1. Kept(node, node')
    BY <1>1, <1>4, LoseActiveKept DEF ConnectionClosed, Closed
  <2> QED BY <1>1, <1>4, <2>1, CallbackKeeps DEF ConnectionClosed
<1>5. ASSUME NEW t \in Topic, NEW kind \in MessageKind,
             Receive(c, t, kind)
      PROVE  RelayInv' /\ AskingGood
  <2>1. Kept(node, node')
    BY <1>1, <1>5, InjectedKept DEF Receive
  <2>2. world' \in World
    BY <1>1, <1>5, WorldSpends DEF Receive, Arrives
  <2> QED BY <1>1, <1>5, <2>1, <2>2, CallbackKeeps DEF Receive, Arrives
<1> QED BY <1>2, <1>3, <1>4, <1>5

\* Listeners come and go.
LEMMA ListenersKeep ==
  ASSUME RelayInv, NEW a \in Address, ListenOn(a) \/ ListenerExpires(a)
  PROVE  RelayInv' /\ AskingGood
<1>1. /\ GoodNode(node) /\ listening \subseteq Address /\ world \in World
      /\ conn \in [Connection -> {"none", "dialing", "open", "closing"}]
  BY DEF RelayInv, SwarmGood, QueuesTyped
<1>2. Kept(node, node')
  BY <1>1, ListenKept DEF ListenOn, ListenerExpires
<1> QED BY <1>1, <1>2, CallbackKeeps DEF ListenOn, ListenerExpires

-----------------------------------------------------------------------------
(* The network task.                                                       *)

\* Waking the main loop changes nothing else about it.
LEMMA Wakes ==
  ASSUME RelayInv
  PROVE  /\ Wake \in {"starting", "awake", "asleep", "exited"}
         /\ Wake = "starting" <=> main = "starting"
BY DEF RelayInv, QueuesTyped, Wake

\* The task panics for a cause, and takes its commands with it.
LEMMA PanicKeeps ==
  ASSUME RelayInv, Panic, task = "running",
         world' \in World, world'.plain = world.plain,
         IF node.known THEN world.plain \ node.banned # {}
         ELSE node.early \cap node.banned # {} \/ Requested
  PROVE  RelayInv' /\ AskingGood
<1>1. SwarmGood'
  BY DEF RelayInv, SwarmGood, Panic, swarm
<1>2. << >> \in Seq(Command) /\ DOMAIN << >> = {}
  BY EmptySeq
<1>3. QueuesTyped'
  BY <1>2, Wakes DEF RelayInv, QueuesTyped, Panic, clients
<1>4. QuietStart'
  BY Wakes DEF RelayInv, QuietStart, Panic
<1>5. LateRequests' /\ PanicCause'
  BY <1>2 DEF RelayInv, LateRequests, PanicCause, Panic, clients, swarm, Requested, Shared
<1>6. AskingGood
  BY DEF Panic, swarm, AskingGood, NoBannedAsked
<1> QED BY <1>1, <1>3, <1>4, <1>5, <1>6 DEF RelayInv

\* unwrap() of a missing address, in poll().
LEMMA PollPanicsKeeps ==
  ASSUME RelayInv, PollPanics
  PROVE  RelayInv' /\ AskingGood
<1>1. ~node.known /\ node.early \cap node.banned # {}
  BY UpdatePanicsBanned DEF RelayInv, SwarmGood, PollPanics
<1>2. world' \in World /\ world' = world
  BY DEF PollPanics, RelayInv, QueuesTyped
<1> QED BY <1>1, <1>2, PanicKeeps DEF PollPanics

\* unwrap() of a payload that is not compressed, in inject_event(): the mesh
\* is there, so the node has its address.
LEMMA ReceivePanicsKeeps ==
  ASSUME RelayInv, NEW c \in Connection, NEW t \in Topic, NEW kind \in MessageKind,
         ReceivePanics(c, t, kind)
  PROVE  RelayInv' /\ AskingGood
<1>1. node.known
  BY DEF ReceivePanics, InjectPanics, RelayInv, SwarmGood, GoodNode
<1>2. c.peer \in world.plain \ node.banned /\ task = "running"
  BY DEF ReceivePanics, Arrives, InjectPanics
<1>3. world' \in World /\ world'.plain = world.plain
  BY WorldSpends DEF ReceivePanics, Arrives, RelayInv, QueuesTyped
<1> QED BY <1>1, <1>2, <1>3, PanicKeeps DEF ReceivePanics

\* unwrap() of a failed publish(): the topic is pending, because the node has
\* no address, and the request has left the service.
LEMMA GossipPanicsKeeps ==
  ASSUME RelayInv, GossipPanics
  PROVE  RelayInv' /\ AskingGood
<1>1. /\ task = "running" /\ netout # << >> /\ netout \in Seq(Command)
      /\ Head(netout).type = "Gossip" /\ Head(netout).topic \notin DOMAIN node.topics
  BY DEF GossipPanics, NextCommand, CanPublish, RelayInv, QueuesTyped
<1>2. Head(netout) \in Command /\ 1 \in DOMAIN netout /\ Head(netout) = netout[1]
  BY <1>1, HeadTailProperties, EmptySeq, LenProperties
<1>3. Head(netout).topic \in Topic
  BY <1>1, <1>2, RelayAssumption DEF Command, Connect, Gossip
<1>4. ~node.known
  BY <1>1, <1>3 DEF RelayInv, SwarmGood, GoodNode
<1>5. Requested
  BY <1>1, <1>2 DEF RelayInv, LateRequests
<1>6. world' \in World /\ world' = world
  BY DEF GossipPanics, RelayInv, QueuesTyped
<1> QED BY <1>1, <1>4, <1>5, <1>6, PanicKeeps DEF GossipPanics

\* poll(): the address is adopted, an event is emitted, or a mesh acts.
LEMMA PollKeeps ==
  ASSUME RelayInv, Poll
  PROVE  RelayInv' /\ AskingGood
<1> DEFINE e == UpdateLocalNode(node, listening)
<1>1. /\ task = "running" /\ GoodNode(node) /\ listening \in SUBSET Address
      /\ ~node.known => node.pending = Topic
      /\ ~UpdatePanics(node, listening)
  BY DEF RelayInv, SwarmGood, Poll
<1>2. GoodNode(e) /\ NoBannedAsked(node, e) /\ (e = node \/ e.known)
  BY <1>1, UpdateGood
<1>3. EmitEvent(e) \/ MeshEvent(e)
  BY DEF Poll
<1>4. /\ listening' = listening /\ task' = task /\ netout' = netout
      /\ published' = published /\ rpc' = rpc /\ accepted' = accepted /\ bus' = bus
  BY DEF Poll, clients
<1> HIDE DEF e
<1>5. /\ GoodNode(node') /\ AskingGood
      /\ node'.known => e.known
      /\ ~node'.known => ~e.known /\ node'.pending = e.pending
  <2>1. CASE EmitEvent(e)
    <3>1. Tail(e.out) \in Seq(SwarmAction) /\ node' = [e EXCEPT !.out = Tail(@)]
      BY <1>2, <2>1, Fields, HeadTailProperties DEF GoodNode, EmitEvent
    <3>2. node' \in EpisubState
      BY <1>2, <3>1, Replace DEF GoodNode
    <3>3. /\ node'.topics = e.topics /\ node'.known = e.known /\ node'.pending = e.pending
          /\ node'.early = e.early /\ node'.banned = e.banned
          /\ node'.addressed = e.addressed
      BY <1>2, <3>1 DEF GoodNode, EpisubState
    <3>4. GoodNode(node')
      BY <1>2, <3>2, <3>3 DEF GoodNode
    <3> QED BY <1>2, <3>3, <3>4 DEF AskingGood, NoBannedAsked, AskedIn
  <2>2. CASE MeshEvent(e)
    BY <1>2, <2>2 DEF MeshEvent, AskingGood
  <2> QED BY <1>3, <2>1, <2>2
<1>6. conn' \in [Connection -> {"none", "dialing", "open", "closing"}]
  BY <1>3 DEF RelayInv, SwarmGood, EmitEvent, MeshEvent, MeshQuiet, MeshDials, MeshDelivers
<1>7. SwarmGood'
  BY <1>1, <1>2, <1>4, <1>5, <1>6 DEF SwarmGood
<1>8. /\ netin' \in Seq(Topic) /\ world' \in World
      /\ main' \in {"starting", "awake", "asleep", "exited"}
      /\ main' = "starting" <=> main = "starting"
  <2>1. netin \in Seq(Topic) /\ world \in World
        /\ main \in {"starting", "awake", "asleep", "exited"}
    BY DEF RelayInv, QueuesTyped
  <2>2. CASE UNCHANGED <<netin, main, world>>
    BY <2>1, <2>2
  <2>3. ASSUME NEW t \in Topic, NEW parsed \in BOOLEAN, MeshDelivers(e, t, parsed)
        PROVE  /\ netin' \in Seq(Topic) /\ world' \in World
               /\ main' \in {"starting", "awake", "asleep", "exited"}
               /\ main' = "starting" <=> main = "starting"
    <3>1. Append(netin, t) \in Seq(Topic)
      BY <2>1, AppendProperties
    <3>2. world' \in World
      BY <2>1, <2>3, WorldSpends DEF MeshDelivers
    <3> QED BY <2>1, <2>3, <3>1, <3>2, Wakes DEF MeshDelivers
  <2> QED BY <1>3, <2>2, <2>3 DEF EmitEvent, MeshEvent, MeshQuiet, MeshDials
<1>9. QueuesTyped' /\ QuietStart' /\ LateRequests'
  BY <1>1, <1>4, <1>8 DEF RelayInv, QueuesTyped, QuietStart, LateRequests, Requested, Shared
<1> QED BY <1>1, <1>4, <1>5, <1>7, <1>9 DEF RelayInv, PanicCause

\* A command leaves the front of the channel.
LEMMA CommandTaken ==
  ASSUME RelayInv, netout # << >>
  PROVE  /\ Head(netout) \in Command /\ Tail(netout) \in Seq(Command)
         /\ \A i \in DOMAIN Tail(netout) : Tail(netout)[i].type = "Gossip" => Requested
<1>1. netout \in Seq(Command)
  BY DEF RelayInv, QueuesTyped
<1>2. /\ Head(netout) \in Command /\ Tail(netout) \in Seq(Command)
      /\ Len(Tail(netout)) = Len(netout) - 1
      /\ \A i \in 1 .. Len(Tail(netout)) : Tail(netout)[i] = netout[i + 1]
  BY <1>1, HeadTailProperties
<1>3. /\ DOMAIN netout = 1 .. Len(netout) /\ Len(netout) \in Nat
      /\ DOMAIN Tail(netout) = 1 .. Len(Tail(netout))
  BY <1>1, <1>2, LenProperties
<1>4. \A i \in 1 .. Len(Tail(netout)) : i + 1 \in DOMAIN netout
  BY <1>2, <1>3
<1> QED BY <1>2, <1>3, <1>4 DEF RelayInv, LateRequests

\* Commands that do not panic.
LEMMA CommandsKeep ==
  ASSUME RelayInv, TakeConnect \/ TakeGossip
  PROVE  RelayInv' /\ AskingGood
<1>1. netout # << >> /\ netout' = Tail(netout) /\ task = "running"
  BY DEF TakeConnect, TakeGossip, NextCommand
<1>2. /\ node' = node /\ listening' = listening /\ task' = task /\ netin' = netin
      /\ rpc' = rpc /\ accepted' = accepted /\ bus' = bus /\ main' = main
      /\ world' = world
  BY DEF TakeConnect, TakeGossip, swarm, clients
<1>3. published' \in Seq(Command)
  <2>1. Head(netout) \in Command /\ published \in Seq(Command)
    BY <1>1, CommandTaken DEF RelayInv, QueuesTyped
  <2>2. Append(published, Head(netout)) \in Seq(Command)
    BY <2>1, AppendProperties
  <2> QED BY <2>1, <2>2 DEF TakeConnect, TakeGossip
<1>4. conn' \in [Connection -> {"none", "dialing", "open", "closing"}]
  BY DEF TakeConnect, TakeGossip, swarm, RelayInv, SwarmGood
<1>5. SwarmGood'
  BY <1>2, <1>4 DEF RelayInv, SwarmGood
<1>6. QueuesTyped'
  BY <1>1, <1>2, <1>3, CommandTaken DEF RelayInv, QueuesTyped
<1>7. QuietStart' /\ LateRequests'
  BY <1>1, <1>2, CommandTaken DEF RelayInv, QuietStart, LateRequests, Requested, Shared
<1> QED BY <1>1, <1>2, <1>5, <1>6, <1>7 DEF RelayInv, PanicCause, AskingGood, NoBannedAsked

-----------------------------------------------------------------------------
(* The service and the main loop.                                          *)

\* A step of the service or of the main loop that does not touch the swarm,
\* reopens nothing and forgets no request.
LEMMA ServiceKeeps ==
  ASSUME RelayInv, UNCHANGED <<swarm, task, netin, published>>, task # "starting",
         netout' \in Seq(Command), rpc' \in RpcState, bus' \in BusState,
         main' \in {"awake", "asleep", "exited"}, accepted' \in Seq(Command),
         world' \in World, world'.plain = world.plain,
         LateRequests', Requested => Requested'
  PROVE  RelayInv' /\ AskingGood
<1>1. SwarmGood' /\ AskingGood
  BY DEF RelayInv, SwarmGood, swarm, AskingGood, NoBannedAsked
<1>2. QueuesTyped' /\ QuietStart'
  BY DEF RelayInv, QueuesTyped, QuietStart
<1>3. PanicCause'
  BY DEF RelayInv, PanicCause, swarm, Requested
<1> QED BY <1>1, <1>2, <1>3 DEF RelayInv

\* While the service is shared, no request has left it.
LEMMA NothingLeft ==
  ASSUME RelayInv, Shared
  PROVE  /\ bus.out = << >> /\ ~Requested /\ task # "starting"
         /\ \A i \in DOMAIN netout : netout[i].type # "Gossip"
<1>1. ~Requested
  BY DEF Requested
<1>2. task # "starting"
  BY DEF RelayInv, QuietStart, Shared
<1> QED BY <1>1, <1>2 DEF RelayInv, LateRequests

\* Sockets open and close, requests arrive and servers end while the service
\* is shared.
LEMMA ClientsKeep ==
  ASSUME RelayInv,
         \/ \E c \in Client : \/ OpenSocket(c) \/ CloseSocket(c) \/ SendMessage(c)
                              \/ \E s \in Subject : SendSubscription(c, s)
         \/ ServerEnds
  PROVE  RelayInv' /\ AskingGood
<1>1. /\ rpc \in RpcState /\ accepted \in Seq(Command) /\ netout \in Seq(Command)
      /\ bus \in BusState /\ world \in World
      /\ main \in {"starting", "awake", "asleep", "exited"}
  BY DEF RelayInv, QueuesTyped
<1>2. Shared
  BY DEF Shared, OpenSocket, CloseSocket, SendMessage, SendSubscription, ServerEnds
<1>3. /\ bus.out = << >> /\ ~Requested /\ task # "starting"
      /\ \A i \in DOMAIN netout : netout[i].type # "Gossip"
  BY <1>2, NothingLeft
<1>4. main \in {"awake", "asleep", "exited"}
  BY <1>1, <1>3 DEF RelayInv, QuietStart
<1>5. ASSUME NEW c \in Client, OpenSocket(c) \/ CloseSocket(c)
      PROVE  RelayInv' /\ AskingGood
  <2>1. rpc' \in RpcState /\ rpc'.queue = rpc.queue
    BY <1>1, <1>5 DEF OpenSocket, CloseSocket, RpcState
  <2>2. LateRequests'
    BY <1>3, <1>5, <2>1 DEF RelayInv, LateRequests, OpenSocket, CloseSocket, network
  <2> QED BY <1>1, <1>3, <1>4, <1>5, <2>1, <2>2, ServiceKeeps
          DEF OpenSocket, CloseSocket, network
<1>6. ASSUME NEW r \in Request, NEW g \in Command, Use("requests"),
             rpc' \in RpcState, accepted' = Append(accepted, g),
             UNCHANGED <<network, bus, main>>
      PROVE  RelayInv' /\ AskingGood
  <2>1. accepted' \in Seq(Command) /\ accepted' # << >>
    BY <1>1, <1>6, AppendProperties
  <2>2. world' \in World /\ world'.plain = world.plain
    BY <1>1, <1>6, WorldSpends
  <2>3. LateRequests'
    BY <1>3, <1>6, <2>1 DEF LateRequests, network
  <2> QED BY <1>1, <1>3, <1>4, <1>6, <2>1, <2>2, <2>3, ServiceKeeps DEF network
<1>7. ASSUME NEW c \in Client, SendMessage(c)
      PROVE  RelayInv' /\ AskingGood
  <2>1. RpcMessage(c) \in Request /\ Gossip("message", c) \in Command
    BY DEF Request, Command
  <2>2. rpc' \in RpcState
    BY <1>1, <1>7, <2>1, AppendProperties DEF SendMessage, RpcState
  <2> QED BY <1>6, <1>7, <2>1, <2>2 DEF SendMessage
<1>8. ASSUME NEW c \in Client, NEW s \in Subject, SendSubscription(c, s)
      PROVE  RelayInv' /\ AskingGood
  <2>1. RpcSubscription(s, c) \in Request /\ Gossip("subscribe", s) \in Command
    BY DEF Request, Command
  <2>2. rpc' \in RpcState
    BY <1>1, <1>8, <2>1, AppendProperties DEF SendSubscription, RpcState
  <2> QED BY <1>6, <1>8, <2>1, <2>2 DEF SendSubscription
<1>9. CASE ServerEnds
  <2>1. rpc.servers - 1 \in 0 .. RpcServers
    BY <1>1, <1>9, Bounds DEF ServerEnds, RpcState
  <2>2. rpc' \in RpcState /\ rpc'.queue = rpc.queue
    BY <1>1, <1>9, <2>1 DEF ServerEnds, RpcState
  <2>3. LateRequests'
    BY <1>3, <1>9, <2>2 DEF RelayInv, LateRequests, ServerEnds, network
  <2> QED BY <1>1, <1>3, <1>4, <1>9, <2>2, <2>3, ServiceKeeps DEF ServerEnds, network
<1> QED BY <1>5, <1>7, <1>8, <1>9

\* A command that is sent is at the end of the channel, or main is over.
LEMMA CommandSent ==
  ASSUME RelayInv, main = "awake", NEW g \in Command, SendCommand(g)
  PROVE  /\ netout' \in Seq(Command) /\ main' \in {"awake", "asleep", "exited"}
         /\ Requested /\ Requested' =>
              \A i \in DOMAIN netout' : netout'[i].type = "Gossip" => Requested'
<1>1. netout \in Seq(Command)
  BY DEF RelayInv, QueuesTyped
<1> QED BY <1>1, AppendProperties DEF SendCommand

\* bus::handle!.
LEMMA TakeBusEventKeeps ==
  ASSUME RelayInv, TakeBusEvent
  PROVE  RelayInv' /\ AskingGood
<1>1. /\ main = "awake" /\ task # "starting" /\ bus.out # << >> /\ Requested
      /\ bus \in BusState /\ rpc \in RpcState /\ accepted \in Seq(Command)
      /\ world \in World
  BY DEF TakeBusEvent, RelayInv, QuietStart, LateRequests, QueuesTyped
<1>2. bus.out \in Seq(Subject) /\ Head(bus.out) \in Subject /\ Tail(bus.out) \in Seq(Subject)
  BY <1>1, HeadTailProperties DEF BusState
<1>3. Gossip("subscribe", Head(bus.out)) \in Command
  BY <1>2 DEF Command
<1>4. bus' \in BusState
  BY <1>1, <1>2 DEF TakeBusEvent, BusState
<1>5. Requested'
  BY <1>1 DEF Requested, Shared, TakeBusEvent, clients
<1>6. LateRequests'
  BY <1>1, <1>3, <1>5, CommandSent DEF LateRequests, TakeBusEvent, RelayInv, Requested
<1> QED BY <1>1, <1>3, <1>4, <1>5, <1>6, CommandSent, ServiceKeeps DEF TakeBusEvent, clients

\* rpc::handle!: the service is gone, and a displaced socket is closed.
LEMMA TakeRpcEventKeeps ==
  ASSUME RelayInv, TakeRpcEvent
  PROVE  RelayInv' /\ AskingGood
<1> DEFINE request == Head(rpc.queue)
           service == [rpc EXCEPT !.queue = Tail(@)]
<1>1. /\ main = "awake" /\ task # "starting" /\ ~Shared /\ rpc.queue # << >>
      /\ Requested
      /\ bus \in BusState /\ rpc \in RpcState /\ accepted \in Seq(Command)
      /\ world \in World /\ netout \in Seq(Command)
  BY DEF TakeRpcEvent, RelayInv, QuietStart, LateRequests, QueuesTyped, Requested
<1>2. /\ UNCHANGED <<swarm, task, netin, published, accepted, world>>
      /\ \/ request.topic = "message" /\ HandleMessage(service, request)
         \/ request.topic = "subscribe" /\ HandleSubscription(service, request)
  BY DEF TakeRpcEvent
<1>3. request \in Request /\ Tail(rpc.queue) \in Seq(Request)
  BY <1>1, HeadTailProperties DEF RpcState
<1>4. service \in RpcState /\ service.servers = rpc.servers /\ service.socket = rpc.socket
  BY <1>1, <1>3 DEF RpcState
<1> HIDE DEF request, service
<1>5. CASE request.topic = "message" /\ HandleMessage(service, request)
  <2>1. Gossip("message", request.payload) \in Command
    BY <1>3, <1>5 DEF Request, RpcMessage, RpcSubscription, Command
  <2>2. Requested'
    BY <1>1, <1>2, <1>4, <1>5 DEF Requested, Shared, HandleMessage
  <2>3. LateRequests'
    BY <1>1, <1>5, <2>1, <2>2, CommandSent DEF LateRequests, HandleMessage, Requested
  <2> QED BY <1>1, <1>2, <1>4, <1>5, <2>1, <2>2, <2>3, CommandSent, ServiceKeeps
          DEF HandleMessage
<1>6. CASE request.topic = "subscribe" /\ HandleSubscription(service, request)
  <2> DEFINE s == request.payload
             T == DOMAIN bus.topics \cup {s}
             f == [x \in T |-> IF x = s THEN request.socket ELSE bus.topics[x]]
             displaced == IF s \in DOMAIN bus.topics THEN {bus.topics[s]} ELSE {}
             g == [c \in Client |-> IF c \in displaced THEN "closed" ELSE rpc.socket[c]]
  <2>1. s \in Subject /\ request.socket \in Client
    BY <1>3, <1>6 DEF Request, RpcMessage, RpcSubscription
  <2>2. /\ bus' = [topics |-> f, out |-> Append(bus.out, s)]
        /\ rpc' = [service EXCEPT !.socket = g]
        /\ netout' = netout /\ main' = main
    BY <1>4, <1>6 DEF HandleSubscription
  <2>3. bus' \in BusState
    <3>1. Append(bus.out, s) \in Seq(Subject)
      BY <1>1, <2>1, AppendProperties DEF BusState
    <3>2. /\ DOMAIN bus.topics \subseteq Subject
          /\ \A x \in DOMAIN bus.topics : bus.topics[x] \in Client
      BY <1>1 DEF BusState
    <3>3. T \in SUBSET Subject /\ f \in [T -> Client]
      BY <2>1, <3>2
    <3> HIDE DEF f, T
    <3> QED BY <2>2, <3>1, <3>3 DEF BusState
  <2>4. /\ g \in [Client -> {"unused", "open", "moved", "closed"}]
        /\ \A c \in Client : g[c] = "open" => rpc.socket[c] = "open"
    BY <1>1 DEF RpcState
  <2> HIDE DEF g, f
  <2>5. rpc' \in RpcState /\ rpc'.servers = rpc.servers /\ rpc'.socket = g
    BY <1>4, <2>2, <2>4 DEF RpcState
  <2>6. Requested'
    BY <1>1, <1>2, <2>4, <2>5 DEF Requested, Shared
  <2>7. LateRequests'
    BY <2>2, <2>6 DEF LateRequests, Requested
  <2> QED BY <1>1, <1>2, <2>2, <2>3, <2>5, <2>6, <2>7, ServiceKeeps
<1> QED BY <1>2, <1>5, <1>6

\* Network events are dropped, and the loop goes to sleep.
LEMMA IdleKeeps ==
  ASSUME RelayInv, TakeNetworkEvent \/ Sleep
  PROVE  RelayInv' /\ AskingGood
<1>1. /\ task' = task /\ node' = node /\ conn' = conn /\ listening' = listening
      /\ netout' = netout /\ published' = published /\ rpc' = rpc
      /\ accepted' = accepted /\ bus' = bus /\ world' = world
      /\ main = "awake" /\ main' \in {"awake", "asleep"}
  BY DEF TakeNetworkEvent, Sleep, network, swarm, clients
<1>2. netin' \in Seq(Topic)
  BY HeadTailProperties DEF TakeNetworkEvent, Sleep, network, RelayInv, QueuesTyped
<1>3. SwarmGood' /\ AskingGood
  BY <1>1 DEF RelayInv, SwarmGood, AskingGood, NoBannedAsked
<1>4. QueuesTyped'
  BY <1>1, <1>2 DEF RelayInv, QueuesTyped
<1>5. QuietStart' /\ LateRequests' /\ PanicCause'
  BY <1>1 DEF RelayInv, QuietStart, LateRequests, PanicCause, Requested, Shared
<1> QED BY <1>3, <1>4, <1>5 DEF RelayInv

-----------------------------------------------------------------------------

\* Every step keeps the invariant and asks no banned peer.
LEMMA RelayStep ==
  ASSUME RelayInv, Next
  PROVE  RelayInv' /\ AskingGood
<1>1. CASE \E t \in Topic : SubscribeTo(t)
  BY <1>1, SubscribeToKeeps
<1>2. CASE Start
  BY <1>2, StartKeeps
<1>3. CASE Environment
  <2>1. CASE \E c \in Connection :
               \/ ConnectionEstablished(c) \/ DialFails(c) \/ ConnectionClosed(c)
               \/ \E t \in Topic, kind \in MessageKind :
                    Receive(c, t, kind) \/ ReceivePanics(c, t, kind)
    BY <2>1, CallbacksKeep, ReceivePanicsKeeps
  <2>2. CASE \E a \in Address : ListenOn(a) \/ ListenerExpires(a)
    BY <2>2, ListenersKeep
  <2>3. CASE \/ \E c \in Client : \/ OpenSocket(c) \/ CloseSocket(c)
                                  \/ SendMessage(c)
                                  \/ \E s \in Subject : SendSubscription(c, s)
             \/ ServerEnds
    BY <2>3, ClientsKeep
  <2> QED BY <1>3, <2>1, <2>2, <2>3 DEF Environment
<1>4. CASE NetworkTask
  BY <1>4, PollPanicsKeeps, PollKeeps, CommandsKeep, GossipPanicsKeeps DEF NetworkTask
<1>5. CASE MainLoop
  BY <1>5, IdleKeeps, TakeBusEventKeeps, TakeRpcEventKeeps DEF MainLoop
<1> QED BY <1>1, <1>2, <1>3, <1>4, <1>5 DEF Next

\* A step that changes nothing keeps the invariant.
LEMMA RelayStutter ==
  ASSUME RelayInv, UNCHANGED vars
  PROVE  RelayInv'
<1>1. SwarmGood' /\ QueuesTyped' /\ QuietStart' /\ LateRequests'
  BY DEF RelayInv, vars, network, swarm, clients, SwarmGood, QueuesTyped, QuietStart,
     LateRequests, Requested, Shared
<1>2. PanicCause'
  BY DEF RelayInv, PanicCause, vars, network, swarm, clients, Shared
<1> QED BY <1>1, <1>2 DEF RelayInv

\* The invariant holds in every state of the relay.
THEOREM RelayInvariant == Spec => []RelayInv
<1>1. RelayInv /\ [Next]_vars => RelayInv'
  BY RelayStep, RelayStutter
<1> QED BY <1>1, InitRelay, PTL DEF Spec

\* Every variable keeps its type, whatever peers and clients do.
THEOREM RelayTypes == Spec => []TypeOK
<1>1. RelayInv => TypeOK
  <2> SUFFICES ASSUME RelayInv PROVE TypeOK
    OBVIOUS
  <2>1. /\ node.known \in BOOLEAN /\ node.addresses \subseteq Address
        /\ node.topics \in [DOMAIN node.topics -> Mesh] /\ DOMAIN node.topics \subseteq Topic
        /\ node.pending \subseteq Topic /\ node.early \subseteq Peer
        /\ node.banned \subseteq Peer /\ node.addressed \subseteq Peer
        /\ node.out \in Seq(SwarmAction)
    BY Fields DEF RelayInv, SwarmGood, GoodNode
  <2>2. /\ DOMAIN bus.topics \subseteq Subject /\ bus.out \in Seq(Subject)
        /\ \A s \in DOMAIN bus.topics : bus.topics[s] \in Client
    BY DEF RelayInv, QueuesTyped, BusState
  <2>3. /\ rpc.servers \in 0 .. RpcServers
        /\ rpc.socket \in [Client -> {"unused", "open", "moved", "closed"}]
    BY DEF RelayInv, QueuesTyped, RpcState
  <2> QED BY <2>1, <2>2, <2>3 DEF RelayInv, SwarmGood, QueuesTyped, TypeOK
<1> QED BY <1>1, RelayInvariant, PTL

\* Once the node knows its address every topic has a mesh, and each tells
\* others an address that is not a loopback one (behaviour.rs 439-490).
THEOREM RelayTopicsReachable == Spec => []TopicsReachable
<1>1. RelayInv => TopicsReachable
  BY DEF RelayInv, SwarmGood, GoodNode, Reachable, TopicsReachable
<1> QED BY <1>1, RelayInvariant, PTL

\* The network task panics before the node has an address because of an
\* early peer that was banned or of a request that left a dead service, and
\* afterwards because of a payload that a peer in good standing has not
\* compressed (behaviour.rs 522, network/mod.rs 211 and 219, tree.rs 132).
THEOREM RelayPanicCause == Spec => []PanicCause
<1>1. RelayInv => PanicCause
  BY DEF RelayInv
<1> QED BY <1>1, RelayInvariant, PTL

\* No step asks a banned peer to let the node join (behaviour.rs 79-81,
\* 195-240, 439-524).
THEOREM RelayBannedNotAsked == Spec => BannedNotAsked
<1> DEFINE A == \A t \in Topic : (AskedOf(t)' \ AskedOf(t)) \cap node.banned = {}
<1>1. RelayInv /\ [Next]_vars => [A]_vars
  <2> SUFFICES ASSUME RelayInv, Next PROVE A
    OBVIOUS
  <2>1. AskingGood
    BY RelayStep
  <2> QED BY <2>1 DEF AskingGood, NoBannedAsked, AskedIn, AskedOf
<1> QED BY <1>1, RelayInvariant, PTL DEF Spec, BannedNotAsked

-----------------------------------------------------------------------------
(* What Of computes.  Induction over the length of a sequence is done by a *)
(* least counterexample.                                                   *)

\* A set of natural numbers has a least element.
LEMMA Least ==
  ASSUME NEW S, S \subseteq Nat, S # {}
  PROVE  \E i \in S : \A j \in S : i =< j
<1> DEFINE R == OpToRel(<, Nat)
<1>1. \E i \in S : \A j \in S : ~ (<<j, i>> \in R)
  <2>1. IsWellFoundedOn(R, Nat)
    BY NatLessThanWellFounded
  <2> HIDE DEF R
  <2> QED BY <2>1, WFMin
<1>2. \A i, j \in Nat : ~ (<<j, i>> \in R) => i =< j
  BY DEF OpToRel
<1> HIDE DEF R
<1> QED BY <1>1, <1>2

\* A set of numbers up to n that holds with a number also the one after it,
\* and 0, is everything up to n.
LEMMA AllUpTo ==
  ASSUME NEW n \in Nat, NEW S, 0 \in S,
         \A i \in 1 .. n : i - 1 \in S => i \in S
  PROVE  0 .. n \subseteq S
<1> DEFINE T == (0 .. n) \ S
<1>1. CASE T = {}
  BY <1>1
<1>2. CASE T # {}
  <2>1. T \subseteq Nat
    OBVIOUS
  <2>2. PICK i \in T : \A j \in T : i =< j
    <3> HIDE DEF T
    <3> QED BY <1>2, <2>1, Least
  <2>3. i \in 1 .. n /\ i - 1 \in 0 .. n /\ ~(i =< i - 1)
    BY <2>2
  <2>4. i - 1 \in S
    BY <2>2, <2>3
  <2> QED BY <2>2, <2>3, <2>4
<1> QED BY <1>1, <1>2
\* The next value of the recursion of Of.
Turn(t, s, f, i) ==
  IF i = 0 THEN << >>
  ELSE IF IsOf(t, s[i]) THEN Append(f[i - 1], s[i].payload) ELSE f[i - 1]

\* f is the recursion, for the first n elements.
Selects(t, s, n, f) == f = [i \in 0 .. n |-> Turn(t, s, f, i)]

\* What a solution is at every place.
LEMMA SelectsAt ==
  ASSUME NEW t, NEW s, NEW n, NEW f, Selects(t, s, n, f)
  PROVE  DOMAIN f = 0 .. n /\ \A i \in 0 .. n : f[i] = Turn(t, s, f, i)
BY DEF Selects

\* The recursion has a solution.
LEMMA SolutionExists ==
  ASSUME NEW t, NEW s, NEW n \in Nat
  PROVE  \E f : Selects(t, s, n, f)
<1> DEFINE S == {m \in 0 .. n : \E f : Selects(t, s, m, f)}
<1>1. 0 \in S
  <2> DEFINE f == [i \in 0 .. 0 |-> << >>]
  <2>1. Selects(t, s, 0, f)
    BY DEF Selects, Turn
  <2> QED BY <2>1
<1>2. ASSUME NEW m \in 1 .. n, m - 1 \in S
      PROVE  m \in S
  <2>1. PICK f : Selects(t, s, m - 1, f)
    BY <1>2
  <2>2. DOMAIN f = 0 .. m - 1 /\ \A i \in 0 .. m - 1 : f[i] = Turn(t, s, f, i)
    BY <2>1, SelectsAt
  <2> DEFINE g == [i \in 0 .. m |-> IF i = m THEN Turn(t, s, f, m) ELSE f[i]]
  <2>3. \A i \in 0 .. m - 1 : g[i] = f[i]
    OBVIOUS
  <2>4. ASSUME NEW i \in 0 .. m
        PROVE  g[i] = Turn(t, s, g, i)
    <3>1. i = 0 \/ i - 1 \in 0 .. m - 1
      OBVIOUS
    <3>2. Turn(t, s, g, i) = Turn(t, s, f, i)
      BY <2>3, <3>1 DEF Turn
    <3>3. i = m \/ i \in 0 .. m - 1
      OBVIOUS
    <3> QED BY <2>2, <3>2, <3>3
  <2>5. Selects(t, s, m, g)
    BY <2>4 DEF Selects
  <2> QED BY <2>5
<1>3. 0 .. n \subseteq S
  <2> HIDE DEF S
  <2> QED BY <1>1, <1>2, AllUpTo
<1>4. n \in 0 .. n
  OBVIOUS
<1> QED BY <1>3, <1>4

\* The value of Of is the last one of its recursion.
LEMMA OfIsLast ==
  ASSUME NEW t, NEW S, NEW s \in Seq(S)
  PROVE  \E f : Selects(t, s, Len(s), f) /\ Of(t, s) = f[Len(s)]
<1> DEFINE g == CHOOSE f : Selects(t, s, Len(s), f)
<1>1. Len(s) \in Nat
  BY LenProperties
<1>2. Selects(t, s, Len(s), g)
  BY <1>1, SolutionExists
<1>3. Of(t, s) = g[Len(s)]
  BY DEF Of, Selects, Turn
<1> QED BY <1>2, <1>3

\* The recursion looks at nothing beyond the element it is at.
LEMMA SamePrefix ==
  ASSUME NEW t, NEW s, NEW u, NEW n \in Nat, NEW m \in Nat, n =< m,
         \A i \in 1 .. n : u[i] = s[i],
         NEW f, Selects(t, s, n, f), NEW g, Selects(t, u, m, g)
  PROVE  \A i \in 0 .. n : g[i] = f[i]
<1> DEFINE T == {i \in 0 .. n : g[i] = f[i]}
<1>1. /\ \A i \in 0 .. n : f[i] = Turn(t, s, f, i)
      /\ \A i \in 0 .. n : g[i] = Turn(t, u, g, i)
  <2>1. 0 .. n \subseteq 0 .. m
    OBVIOUS
  <2> QED BY <2>1, SelectsAt
<1>2. 0 \in T
  <2>1. 0 \in 0 .. n
    OBVIOUS
  <2>2. f[0] = Turn(t, s, f, 0) /\ g[0] = Turn(t, u, g, 0)
    BY <1>1, <2>1
  <2>3. g[0] = f[0]
    BY <2>2, Zenon DEF Turn
  <2> QED BY <2>1, <2>3
<1>3. ASSUME NEW i \in 1 .. n, i - 1 \in T
      PROVE  i \in T
  <2>1. i \in 0 .. n /\ i # 0
    OBVIOUS
  <2>2. f[i] = Turn(t, s, f, i) /\ g[i] = Turn(t, u, g, i)
    BY <1>1, <2>1
  <2>3. g[i - 1] = f[i - 1] /\ u[i] = s[i]
    BY <1>3
  <2>4. g[i] = f[i]
    BY <2>1, <2>2, <2>3 DEF Turn
  <2> QED BY <2>1, <2>4
<1>4. 0 .. n \subseteq T
  <2> HIDE DEF T
  <2> QED BY <1>2, <1>3, AllUpTo
<1> QED BY <1>4

\* An empty sequence has no payloads.
LEMMA OfEmpty ==
  ASSUME NEW t
  PROVE  Of(t, << >>) = << >>
<1>1. << >> \in Seq({}) /\ Len(<< >>) = 0
  BY EmptySeq
<1>2. PICK f : Selects(t, << >>, 0, f) /\ Of(t, << >>) = f[0]
  BY <1>1, OfIsLast
<1> QED BY <1>2 DEF Selects, Turn

\* The payload of an element at the end is the last payload.
LEMMA OfAppend ==
  ASSUME NEW t, NEW S, NEW s \in Seq(S), NEW x \in S
  PROVE  Of(t, Append(s, x)) = IF IsOf(t, x) THEN Append(Of(t, s), x.payload) ELSE Of(t, s)
<1> DEFINE u == Append(s, x)
           n == Len(s)
<1>1. n \in Nat /\ u \in Seq(S) /\ Len(u) = n + 1
      /\ (\A i \in 1 .. n : u[i] = s[i]) /\ u[n + 1] = x
  BY LenProperties, AppendProperties
<1> HIDE DEF u, n
<1>2. PICK f : Selects(t, s, n, f) /\ Of(t, s) = f[n]
  BY OfIsLast DEF n
<1>3. PICK g : Selects(t, u, n + 1, g) /\ Of(t, u) = g[n + 1]
  BY <1>1, OfIsLast
<1>4. g[n] = f[n]
  <2>1. n + 1 \in Nat /\ n =< n + 1 /\ n \in 0 .. n
    BY <1>1
  <2> DEFINE m == n + 1
  <2>2. m \in Nat /\ n =< m /\ Selects(t, u, m, g)
    BY <1>3, <2>1
  <2> HIDE DEF m
  <2>3. \A i \in 0 .. n : g[i] = f[i]
    BY <1>1, <1>2, <2>2, SamePrefix
  <2> QED BY <2>1, <2>3
<1>5. g[n + 1] = Turn(t, u, g, n + 1)
  <2>1. n + 1 \in 0 .. n + 1
    BY <1>1
  <2> QED BY <1>3, <2>1, SelectsAt
<1> QED BY <1>1, <1>2, <1>3, <1>4, <1>5 DEF Turn, u

\* Nothing of the topic is selected where there is nothing of it.
LEMMA OfNothing ==
  ASSUME NEW t, NEW S, NEW s \in Seq(S), \A i \in 1 .. Len(s) : ~IsOf(t, s[i])
  PROVE  Of(t, s) = << >>
<1> DEFINE n == Len(s)
<1>1. n \in Nat
  BY LenProperties
<1>2. PICK f : Selects(t, s, n, f) /\ Of(t, s) = f[n]
  BY OfIsLast
<1> DEFINE T == {i \in 0 .. n : f[i] = << >>}
<1>3. \A i \in 0 .. n : f[i] = Turn(t, s, f, i)
  BY <1>2, SelectsAt
<1>4. 0 \in T
  BY <1>1, <1>3 DEF Turn
<1>5. ASSUME NEW i \in 1 .. n, i - 1 \in T
      PROVE  i \in T
  BY <1>3, <1>5 DEF Turn
<1>6. 0 .. n \subseteq T
  <2> HIDE DEF T, n
  <2> QED BY <1>1, <1>4, <1>5, AllUpTo
<1> QED BY <1>1, <1>2, <1>6

\* The payloads are payloads, at every place of the recursion.
LEMMA SelectsTyped ==
  ASSUME NEW t, NEW s, NEW n \in Nat, NEW f, Selects(t, s, n, f), NEW P,
         \A i \in 1 .. n : IsOf(t, s[i]) => s[i].payload \in P
  PROVE  \A i \in 0 .. n : f[i] \in Seq(P)
<1> DEFINE T == {i \in 0 .. n : f[i] \in Seq(P)}
<1>1. \A i \in 0 .. n : f[i] = Turn(t, s, f, i)
  BY SelectsAt
<1>2. 0 \in T
  <2>1. 0 \in 0 .. n /\ f[0] = << >>
    BY <1>1 DEF Turn
  <2>2. << >> \in Seq(P)
    BY EmptySeq
  <2> QED BY <2>1, <2>2
<1>3. ASSUME NEW i \in 1 .. n, i - 1 \in T
      PROVE  i \in T
  <2>1. f[i] = Turn(t, s, f, i) /\ i # 0 /\ i \in 0 .. n
    BY <1>1
  <2>2. f[i - 1] \in Seq(P)
    BY <1>3
  <2>3. CASE IsOf(t, s[i])
    <3>1. f[i] = Append(f[i - 1], s[i].payload) /\ s[i].payload \in P
      BY <2>1, <2>3 DEF Turn
    <3>2. Append(f[i - 1], s[i].payload) \in Seq(P)
      BY <2>2, <3>1, AppendProperties
    <3> QED BY <2>1, <3>1, <3>2
  <2>4. CASE ~IsOf(t, s[i])
    BY <2>1, <2>2, <2>4 DEF Turn
  <2> QED BY <2>3, <2>4
<1>4. 0 .. n \subseteq T
  <2> HIDE DEF T
  <2> QED BY <1>2, <1>3, AllUpTo
<1> QED BY <1>4

\* The first payload of the topic comes from the head.
First(t, x) == IF IsOf(t, x) THEN <<x.payload>> ELSE << >>

\* Taking the head of a sequence takes its payload from the front.
LEMMA OfTail ==
  ASSUME NEW t, NEW S, NEW s \in Seq(S), s # << >>, NEW P,
         \A x \in S : IsOf(t, x) => x.payload \in P
  PROVE  Of(t, s) = First(t, Head(s)) \o Of(t, Tail(s))
<1> DEFINE u == Tail(s)
           n == Len(s)
           m == n - 1
           h == First(t, Head(s))
<1>1. /\ n \in Nat /\ m \in Nat /\ u \in Seq(S) /\ Len(u) = m /\ n = m + 1
      /\ Head(s) \in S /\ Head(s) = s[1]
      /\ \A i \in 1 .. m : u[i] = s[i + 1]
  BY EmptySeq, HeadTailProperties
<1>2. (\A i \in 1 .. n : s[i] \in S) /\ (\A i \in 1 .. m : u[i] \in S)
  BY <1>1, ElementOfSeq
<1>3. h \in Seq(P)
  BY <1>1 DEF First
<1> HIDE DEF u, n, m, h
<1>4. PICK f : Selects(t, s, n, f) /\ Of(t, s) = f[n]
  BY OfIsLast DEF n
<1>5. PICK g : Selects(t, u, m, g) /\ Of(t, u) = g[m]
  BY <1>1, OfIsLast
<1>6. \A i \in 0 .. n : f[i] = Turn(t, s, f, i)
  BY <1>4, SelectsAt
<1>7. \A i \in 0 .. m : g[i] = Turn(t, u, g, i)
  BY <1>5, SelectsAt
<1>8. \A i \in 0 .. m : g[i] \in Seq(P)
  BY <1>1, <1>2, <1>5, SelectsTyped
<1> DEFINE T == {i \in 0 .. m : f[i + 1] = h \o g[i]}
<1>9. 0 \in T
  <2>1. 0 \in 0 .. m /\ 0 \in 0 .. n /\ 1 \in 0 .. n
    BY <1>1
  <2>2. f[0] = << >> /\ g[0] = << >>
    BY <1>6, <1>7, <2>1 DEF Turn
  <2>3. f[1] = IF IsOf(t, s[1]) THEN Append(f[0], s[1].payload) ELSE f[0]
    BY <1>6, <2>1 DEF Turn
  <2>4. f[1] = h
    BY <1>1, <2>2, <2>3 DEF h, First
  <2>5. h \o << >> = h
    BY <1>3, ConcatEmptySeq
  <2>6. f[0 + 1] = h \o g[0]
    BY <2>2, <2>4, <2>5
  <2> QED BY <2>1, <2>6
<1>10. ASSUME NEW i \in 1 .. m, i - 1 \in T
       PROVE  i \in T
  <2>1. /\ i \in 0 .. m /\ i - 1 \in 0 .. m /\ i + 1 \in 0 .. n
        /\ i # 0 /\ i + 1 # 0 /\ (i + 1) - 1 = i /\ (i - 1) + 1 = i
    BY <1>1
  <2>2. f[i] = h \o g[i - 1] /\ g[i - 1] \in Seq(P)
    BY <1>8, <1>10, <2>1
  <2>3. s[i + 1] = u[i]
    BY <1>1
  <2>4. f[i + 1] = IF IsOf(t, u[i]) THEN Append(f[i], u[i].payload) ELSE f[i]
    BY <1>6, <2>1, <2>3 DEF Turn
  <2>5. g[i] = IF IsOf(t, u[i]) THEN Append(g[i - 1], u[i].payload) ELSE g[i - 1]
    BY <1>7, <2>1 DEF Turn
  <2>6. CASE IsOf(t, u[i])
    <3> DEFINE p == u[i].payload
    <3>1. p \in P
      BY <1>2, <2>6
    <3> HIDE DEF p
    <3>2. /\ Append(h \o g[i - 1], p) = (h \o g[i - 1]) \o <<p>>
          /\ Append(g[i - 1], p) = g[i - 1] \o <<p>>
      BY <1>3, <2>2, <3>1, ConcatProperties, AppendIsConcat
    <3>3. (h \o g[i - 1]) \o <<p>> = h \o (g[i - 1] \o <<p>>)
      <4>1. <<p>> \in Seq(P)
        BY <3>1
      <4> DEFINE r == g[i - 1]
      <4>2. r \in Seq(P)
        BY <2>2
      <4> HIDE DEF r
      <4>3. (h \o r) \o <<p>> = h \o (r \o <<p>>)
        BY <1>3, <4>1, <4>2, ConcatAssociative
      <4> QED BY <4>3 DEF r
    <3> QED BY <2>1, <2>2, <2>4, <2>5, <2>6, <3>2, <3>3 DEF p
  <2>7. CASE ~IsOf(t, u[i])
    BY <2>1, <2>2, <2>4, <2>5, <2>7
  <2> QED BY <2>6, <2>7
<1>11. 0 .. m \subseteq T
  <2> HIDE DEF T
  <2> QED BY <1>1, <1>9, <1>10, AllUpTo
<1>12. m \in 0 .. m
  BY <1>1
<1>13. f[m + 1] = h \o g[m]
  BY <1>11, <1>12
<1> QED BY <1>1, <1>4, <1>5, <1>13 DEF h, u

\* The payloads of a typed sequence are a sequence of payloads.
LEMMA OfTyped ==
  ASSUME NEW t, NEW S, NEW s \in Seq(S), NEW P,
         \A x \in S : IsOf(t, x) => x.payload \in P
  PROVE  Of(t, s) \in Seq(P)
<1>1. Len(s) \in Nat /\ \A i \in 1 .. Len(s) : s[i] \in S
  BY LenProperties, ElementOfSeq
<1>2. PICK f : Selects(t, s, Len(s), f) /\ Of(t, s) = f[Len(s)]
  BY OfIsLast
<1>3. Len(s) \in 0 .. Len(s)
  BY <1>1
<1>4. \A i \in 0 .. Len(s) : f[i] \in Seq(P)
  BY <1>1, <1>2, SelectsTyped
<1> QED BY <1>2, <1>3, <1>4

-----------------------------------------------------------------------------
(* No request is lost, doubled or overtaken.                               *)

Payload == Client \cup Subject
RequestTopic == {"message", "subscribe"}

\* Commands and requests carry payloads.
LEMMA Payloads ==
  ASSUME NEW t \in RequestTopic
  PROVE  /\ \A x \in Command : IsOf(t, x) => x.payload \in Payload
         /\ \A x \in Request : IsOf(t, x) => x.payload \in Payload
         /\ \A x \in Command \cup Request : First(t, x) \in Seq(Payload)
<1>1. \A x \in Command : IsOf(t, x) => x.payload \in Payload
  BY DEF Command, Connect, Gossip, IsOf, Payload
<1>2. \A x \in Request : IsOf(t, x) => x.payload \in Payload
  BY DEF Request, RpcMessage, RpcSubscription, IsOf, Payload
<1>3. \A x \in Command \cup Request : First(t, x) \in Seq(Payload)
  BY <1>1, <1>2 DEF First
<1> QED BY <1>1, <1>2, <1>3

\* What one command or request selects.
LEMMA FirstOf ==
  ASSUME NEW t \in RequestTopic
  PROVE  /\ \A p \in Peer : First(t, Connect(p)) = << >>
         /\ \A c : First(t, Gossip("message", c)) = IF t = "message" THEN <<c>> ELSE << >>
         /\ \A c : First(t, Gossip("subscribe", c)) = IF t = "subscribe" THEN <<c>> ELSE << >>
         /\ \A c : First(t, RpcMessage(c)) = IF t = "message" THEN <<c>> ELSE << >>
         /\ \A s, c : First(t, RpcSubscription(s, c))
                       = IF t = "subscribe" THEN <<s>> ELSE << >>
<1>1. \A p \in Peer : ~IsOf(t, Connect(p))
  BY DEF Connect, IsOf
<1>2. \A c : /\ (IsOf(t, Gossip("message", c)) <=> t = "message")
             /\ (IsOf(t, Gossip("subscribe", c)) <=> t = "subscribe")
             /\ Gossip("message", c).payload = c /\ Gossip("subscribe", c).payload = c
  BY DEF Gossip, IsOf
<1>3. \A c : (IsOf(t, RpcMessage(c)) <=> t = "message") /\ RpcMessage(c).payload = c
  BY DEF RpcMessage, IsOf
<1>4. \A s, c : /\ (IsOf(t, RpcSubscription(s, c)) <=> t = "subscribe")
                /\ RpcSubscription(s, c).payload = s
  BY DEF RpcSubscription, IsOf
<1> QED BY <1>1, <1>2, <1>3, <1>4 DEF First

\* An element at the end adds what it selects, one at the front takes it.
LEMMA OfEnds ==
  ASSUME NEW t \in RequestTopic, NEW S \in {Command, Request}, NEW s \in Seq(S)
  PROVE  /\ Of(t, s) \in Seq(Payload)
         /\ \A x \in S : Of(t, Append(s, x)) = Of(t, s) \o First(t, x)
         /\ s # << >> => Of(t, s) = First(t, Head(s)) \o Of(t, Tail(s))
<1>1. \A x \in S : IsOf(t, x) => x.payload \in Payload
  BY Payloads
<1>2. Of(t, s) \in Seq(Payload)
  BY <1>1, OfTyped
<1>3. ASSUME NEW x \in S
      PROVE  Of(t, Append(s, x)) = Of(t, s) \o First(t, x)
  <2>1. Of(t, Append(s, x)) = IF IsOf(t, x) THEN Append(Of(t, s), x.payload) ELSE Of(t, s)
    BY OfAppend
  <2>2. CASE IsOf(t, x)
    BY <1>1, <1>2, <2>1, <2>2, AppendIsConcat DEF First
  <2>3. CASE ~IsOf(t, x)
    BY <1>2, <2>1, <2>3, ConcatEmptySeq DEF First
  <2> QED BY <2>2, <2>3
<1>4. s # << >> => Of(t, s) = First(t, Head(s)) \o Of(t, Tail(s))
  BY <1>1, OfTail
<1> QED BY <1>2, <1>3, <1>4

\* Concatenation is associative, from the left.
LEMMA Assoc ==
  ASSUME NEW P, NEW a \in Seq(P), NEW f \in Seq(P), NEW b \in Seq(P)
  PROVE  a \o (f \o b) = (a \o f) \o b
BY ConcatAssociative

\* Concatenation, as an operator the provers do not look into.
Cat(x, y) == x \o y

\* What is used of it.
LEMMA CatProperties ==
  ASSUME NEW P
  PROVE  /\ \A x, y \in Seq(P) : Cat(x, y) \in Seq(P)
         /\ \A x, y, z \in Seq(P) : Cat(x, Cat(y, z)) = Cat(Cat(x, y), z)
         /\ \A x \in Seq(P) : Cat(x, << >>) = x /\ Cat(<< >>, x) = x
<1>1. \A x, y \in Seq(P) : Cat(x, y) \in Seq(P)
  BY ConcatProperties DEF Cat
<1>2. \A x, y, z \in Seq(P) : Cat(x, Cat(y, z)) = Cat(Cat(x, y), z)
  BY Assoc DEF Cat
<1>3. \A x \in Seq(P) : Cat(x, << >>) = x /\ Cat(<< >>, x) = x
  BY ConcatEmptySeq DEF Cat
<1> QED BY <1>1, <1>2, <1>3

\* A part f moves from the front of one stage to the end of the one before.
LEMMA Shift ==
  ASSUME NEW P, NEW a \in Seq(P), NEW b \in Seq(P), NEW f \in Seq(P), NEW c \in Seq(P)
  PROVE  Cat(Cat(a, b), Cat(f, c)) = Cat(Cat(a, Cat(b, f)), c)
<1>1. Cat(a, b) \in Seq(P)
  BY CatProperties
<1>2. Cat(Cat(a, b), f) = Cat(a, Cat(b, f))
  BY CatProperties
<1>3. Cat(Cat(a, b), Cat(f, c)) = Cat(Cat(Cat(a, b), f), c)
  BY <1>1, CatProperties
<1> QED BY <1>2, <1>3

\* A part moves to the end of the last stage but one.
LEMMA ShiftLast ==
  ASSUME NEW P, NEW a \in Seq(P), NEW b \in Seq(P), NEW c \in Seq(P), NEW f \in Seq(P),
         NEW d \in Seq(P)
  PROVE  Cat(Cat(Cat(a, b), c), Cat(f, d)) = Cat(Cat(Cat(a, b), Cat(c, f)), d)
<1>1. Cat(a, b) \in Seq(P) /\ Cat(Cat(a, b), c) \in Seq(P)
  BY CatProperties
<1>2. Cat(Cat(Cat(a, b), c), Cat(f, d)) = Cat(Cat(Cat(Cat(a, b), c), f), d)
  BY <1>1, CatProperties
<1>3. Cat(Cat(Cat(a, b), c), f) = Cat(Cat(a, b), Cat(c, f))
  BY <1>1, CatProperties
<1> QED BY <1>2, <1>3

\* A part moves past a stage that is empty unless the part is.
LEMMA ShiftPast ==
  ASSUME NEW P, NEW a \in Seq(P), NEW b \in Seq(P), NEW c \in Seq(P), NEW f \in Seq(P),
         NEW d \in Seq(P), f = << >> \/ c = << >>
  PROVE  Cat(Cat(Cat(a, b), c), Cat(f, d)) = Cat(Cat(Cat(a, Cat(b, f)), c), d)
<1>1. Cat(a, b) \in Seq(P) /\ Cat(b, f) \in Seq(P) /\ Cat(a, Cat(b, f)) \in Seq(P)
  BY CatProperties
<1>2. CASE f = << >>
  BY <1>2, CatProperties
<1>3. CASE c = << >>
  <2>1. Cat(Cat(a, b), c) = Cat(a, b) /\ Cat(Cat(a, Cat(b, f)), c) = Cat(a, Cat(b, f))
    BY <1>1, <1>3, CatProperties
  <2>2. Cat(Cat(a, b), Cat(f, d)) = Cat(Cat(Cat(a, b), f), d)
    BY <1>1, CatProperties
  <2>3. Cat(Cat(a, b), f) = Cat(a, Cat(b, f))
    BY CatProperties
  <2> QED BY <2>1, <2>2, <2>3
<1> QED BY <1>2, <1>3

\* A sequence is its head and the rest.
LEMMA HeadFirst ==
  ASSUME NEW S, NEW s \in Seq(S), s # << >>
  PROVE  s = <<Head(s)>> \o Tail(s)
<1>1. Len(s) \in Nat \ {0}
  BY EmptySeq
<1>2. SubSeq(s, 1, Len(s)) = <<s[1]>> \o SubSeq(s, 2, Len(s))
  BY <1>1, SubSeqRecursiveFirst, 1 \in 1 .. Len(s), Len(s) \in 1 .. Len(s), 1 + 1 = 2
<1>3. SubSeq(s, 1, Len(s)) = s /\ Tail(s) = SubSeq(s, 2, Len(s))
  BY SubSeqFull, TailIsSubSeq
<1> QED BY <1>2, <1>3

\* The stages a request of topic t goes through.
OnBus(t) == IF t = "subscribe" THEN bus.out ELSE << >>
Stages(t) == Of(t, published) \o Of(t, netout) \o OnBus(t) \o Of(t, rpc.queue)

\* RequestsKept, one topic at a time.
LEMMA ByTopic ==
  /\ RequestsKept <=> (task # "panicked" =>
                         \A t \in RequestTopic : Of(t, accepted) = Stages(t))
  /\ RequestsKept' <=> (task' # "panicked" =>
                          \A t \in RequestTopic : Of(t, accepted') = Stages(t)')
BY DEF RequestsKept, RequestTopic, Stages, OnBus

\* Every stage holds payloads.
LEMMA StagesTyped ==
  ASSUME RelayInv, NEW t \in RequestTopic
  PROVE  /\ published \in Seq(Command) /\ netout \in Seq(Command)
         /\ accepted \in Seq(Command) /\ rpc.queue \in Seq(Request)
         /\ bus.out \in Seq(Subject)
         /\ Of(t, accepted) \in Seq(Payload) /\ Of(t, published) \in Seq(Payload)
         /\ Of(t, netout) \in Seq(Payload) /\ OnBus(t) \in Seq(Payload)
         /\ Of(t, rpc.queue) \in Seq(Payload)
<1>1. /\ published \in Seq(Command) /\ netout \in Seq(Command)
      /\ accepted \in Seq(Command) /\ rpc.queue \in Seq(Request)
      /\ bus.out \in Seq(Subject)
  BY DEF RelayInv, QueuesTyped, RpcState, BusState
<1>2. /\ Of(t, accepted) \in Seq(Payload) /\ Of(t, published) \in Seq(Payload)
      /\ Of(t, netout) \in Seq(Payload) /\ Of(t, rpc.queue) \in Seq(Payload)
  BY <1>1, OfEnds
<1>3. OnBus(t) \in Seq(Payload)
  <2>1. bus.out \in Seq(Payload)
    BY <1>1, SeqMonotonic DEF Payload
  <2>2. << >> \in Seq(Payload)
    BY EmptySeq
  <2> QED BY <2>1, <2>2 DEF OnBus
<1> QED BY <1>1, <1>2, <1>3

\* The step leaves every stage as it is, or the task panics.
LEMMA UntouchedKept ==
  ASSUME RequestsKept,
         \/ task' = "panicked"
         \/ /\ task # "panicked"
            /\ UNCHANGED <<accepted, published, netout, bus>> /\ rpc'.queue = rpc.queue
  PROVE  RequestsKept'
BY ByTopic DEF Stages, OnBus

\* The dials of the start are no requests.
LEMMA StartKept ==
  ASSUME RelayInv, RelayInv', RequestsKept, Start
  PROVE  RequestsKept'
<1> SUFFICES ASSUME NEW t \in RequestTopic
             PROVE  Of(t, accepted') = Stages(t)'
  BY ByTopic
<1>1. /\ task = "starting" /\ netout = << >> /\ UNCHANGED <<accepted, published, bus>>
      /\ rpc'.queue = rpc.queue
  BY DEF RelayInv, QuietStart, QueuesTyped, RpcState, Start
<1>2. netout' \in Seq(Command)
  BY DEF RelayInv, QueuesTyped
<1>3. \A i \in 1 .. Len(netout') : ~IsOf(t, netout'[i])
  <2>1. PICK dials \in [1 .. Cardinality(Bootstrap) -> Bootstrap] :
          netout' = [i \in DOMAIN dials |-> Connect(dials[i])]
    BY DEF Start
  <2>2. \A i \in DOMAIN netout' : ~IsOf(t, netout'[i])
    BY <2>1 DEF Connect, IsOf
  <2> QED BY <1>2, <2>2, LenProperties
<1>4. Of(t, netout') = << >> /\ Of(t, netout) = << >>
  BY <1>1, <1>2, <1>3, OfNothing, OfEmpty
<1> QED BY <1>1, <1>4, ByTopic DEF Stages, OnBus

\* A request that is accepted is the last one of the queue.
LEMMA AcceptKept ==
  ASSUME RelayInv, RequestsKept, NEW g \in Command, NEW r \in Request,
         \A t \in RequestTopic : First(t, g) = First(t, r),
         accepted' = Append(accepted, g), rpc'.queue = Append(rpc.queue, r),
         UNCHANGED <<task, published, netout, bus>>
  PROVE  RequestsKept'
<1> SUFFICES ASSUME task # "panicked", NEW t \in RequestTopic
             PROVE  Of(t, accepted') = Stages(t)'
  BY ByTopic
<1> DEFINE x == Of(t, published) \o Of(t, netout) \o OnBus(t)
           q == Of(t, rpc.queue)
           f == First(t, g)
<1>1. f \in Seq(Payload) /\ q \in Seq(Payload) /\ x \in Seq(Payload)
  <2>1. f \in Seq(Payload)
    BY Payloads
  <2>2. q \in Seq(Payload)
    BY StagesTyped
  <2>3. Of(t, published) \o Of(t, netout) \in Seq(Payload) /\ OnBus(t) \in Seq(Payload)
    BY StagesTyped, ConcatProperties
  <2>4. x \in Seq(Payload)
    <3> DEFINE y == Of(t, published) \o Of(t, netout)
    <3> HIDE DEF y
    <3>1. y \o OnBus(t) \in Seq(Payload)
      BY <2>3, ConcatProperties DEF y
    <3> QED BY <3>1 DEF y
  <2> QED BY <2>1, <2>2, <2>4
<1>2. Of(t, accepted') = Of(t, accepted) \o f /\ Of(t, rpc'.queue) = q \o f
  BY StagesTyped, OfEnds
<1>3. Of(t, accepted) = x \o q
  BY ByTopic DEF Stages
<1>4. Stages(t)' = x \o (q \o f)
  BY <1>2 DEF Stages, OnBus
<1> HIDE DEF x, q, f
<1>5. Cat(x, Cat(q, f)) = Cat(Cat(x, q), f)
  BY <1>1, CatProperties
<1> QED BY <1>2, <1>3, <1>4, <1>5 DEF Cat

\* The network task publishes the first command, or dials.
LEMMA CommandsKept ==
  ASSUME RelayInv, RequestsKept, TakeConnect \/ TakeGossip
  PROVE  RequestsKept'
<1>1. /\ task = "running" /\ netout # << >> /\ netout' = Tail(netout)
      /\ UNCHANGED <<accepted, bus, rpc>>
  BY DEF TakeConnect, TakeGossip, NextCommand, clients
<1> SUFFICES ASSUME NEW t \in RequestTopic
             PROVE  Of(t, accepted') = Stages(t)'
  BY ByTopic
<1> DEFINE a == Of(t, published)
           b == Of(t, Tail(netout))
           f == First(t, Head(netout))
<1>2. /\ netout \in Seq(Command) /\ published \in Seq(Command)
      /\ Head(netout) \in Command /\ Tail(netout) \in Seq(Command)
  BY <1>1, StagesTyped, CommandTaken
<1>3. a \in Seq(Payload) /\ b \in Seq(Payload) /\ f \in Seq(Payload)
  BY <1>2, OfEnds, Payloads
<1>4. Of(t, netout) = f \o b
  BY <1>1, <1>2, OfEnds
<1>5. Of(t, published') = a \o f
  <2>1. CASE TakeGossip
    <3>1. published' = Append(published, Head(netout))
      BY <2>1 DEF TakeGossip
    <3> QED BY <1>2, <3>1, OfEnds
  <2>2. CASE TakeConnect
    <3>1. published' = published /\ Head(netout).type = "Connect"
      BY <2>2 DEF TakeConnect, NextCommand
    <3>2. \E p \in Peer : Head(netout) = Connect(p)
      BY <1>2, <3>1 DEF Command, Gossip
    <3>3. f = << >>
      BY <3>2, FirstOf
    <3> HIDE DEF a, f
    <3>4. a \o << >> = a
      BY <1>3, ConcatEmptySeq
    <3> QED BY <3>1, <3>3, <3>4 DEF a
  <2> QED BY <2>1, <2>2
<1>6. Of(t, accepted) = a \o (f \o b) \o OnBus(t) \o Of(t, rpc.queue)
  BY <1>1, <1>4, ByTopic DEF Stages
<1>7. Stages(t)' = (a \o f) \o b \o OnBus(t) \o Of(t, rpc.queue)
  BY <1>1, <1>5 DEF Stages, OnBus
<1> HIDE DEF a, b, f
<1>8. Cat(a, Cat(f, b)) = Cat(Cat(a, f), b)
  BY <1>3, CatProperties
<1> QED BY <1>1, <1>6, <1>7, <1>8 DEF Cat

\* The first event of the bus becomes the last command.
LEMMA BusKept ==
  ASSUME RelayInv, RequestsKept, TakeBusEvent
  PROVE  RequestsKept'
<1> SUFFICES ASSUME task # "panicked", NEW t \in RequestTopic
             PROVE  Of(t, accepted') = Stages(t)'
  BY ByTopic DEF TakeBusEvent
<1>1. /\ bus.out # << >> /\ bus'.out = Tail(bus.out)
      /\ netout' = Append(netout, Gossip("subscribe", Head(bus.out)))
      /\ UNCHANGED <<accepted, published, rpc>>
  BY DEF TakeBusEvent, SendCommand, clients, RelayInv, QueuesTyped, BusState
<1> DEFINE a == Of(t, published)
           b == Of(t, netout)
           c == IF t = "subscribe" THEN Tail(bus.out) ELSE << >>
           g == Gossip("subscribe", Head(bus.out))
           f == First(t, g)
<1>2. /\ bus.out \in Seq(Subject) /\ Head(bus.out) \in Subject
      /\ Tail(bus.out) \in Seq(Subject) /\ g \in Command
  <2>1. bus.out \in Seq(Subject)
    BY StagesTyped
  <2>2. Head(bus.out) \in Subject /\ Tail(bus.out) \in Seq(Subject)
    BY <1>1, <2>1, HeadTailProperties
  <2> QED BY <2>1, <2>2 DEF Command
<1>3. f = IF t = "subscribe" THEN <<Head(bus.out)>> ELSE << >>
  BY FirstOf
<1>4. a \in Seq(Payload) /\ b \in Seq(Payload) /\ f \in Seq(Payload)
  BY <1>2, StagesTyped, Payloads
<1>5. c \in Seq(Payload) /\ OnBus(t) = f \o c
  <2>1. bus.out = <<Head(bus.out)>> \o Tail(bus.out)
    BY <1>1, <1>2, HeadFirst
  <2>2. Tail(bus.out) \in Seq(Payload) /\ << >> \in Seq(Payload)
    BY <1>2, SeqMonotonic, EmptySeq DEF Payload
  <2>3. << >> \o << >> = << >>
    BY <2>2, ConcatEmptySeq
  <2> QED BY <1>3, <2>1, <2>2, <2>3 DEF OnBus
<1>6. Of(t, netout') = b \o f
  BY <1>1, <1>2, StagesTyped, OfEnds
<1>7. Of(t, accepted) = a \o b \o (f \o c) \o Of(t, rpc.queue)
  BY <1>5, ByTopic DEF Stages
<1>8. Stages(t)' = a \o (b \o f) \o c \o Of(t, rpc.queue)
  BY <1>1, <1>6 DEF Stages, OnBus
<1> HIDE DEF a, b, c, f, g
<1>9. Cat(Cat(a, b), Cat(f, c)) = Cat(Cat(a, Cat(b, f)), c)
  BY <1>4, <1>5, Shift
<1> QED BY <1>1, <1>7, <1>8, <1>9 DEF Cat

\* A message becomes the last command, a subscription the last event of the
\* bus; the bus holds no messages, so neither overtakes one of its kind.
LEMMA RpcKept ==
  ASSUME RelayInv, RequestsKept, TakeRpcEvent
  PROVE  RequestsKept'
<1> SUFFICES ASSUME task # "panicked", NEW t \in RequestTopic
             PROVE  Of(t, accepted') = Stages(t)'
  BY ByTopic DEF TakeRpcEvent
<1> DEFINE r == Head(rpc.queue)
           service == [rpc EXCEPT !.queue = Tail(@)]
           a == Of(t, published)
           b == Of(t, netout)
           c == OnBus(t)
           d == Of(t, Tail(rpc.queue))
           f == First(t, r)
<1>1. /\ rpc.queue # << >> /\ UNCHANGED <<accepted, published>>
      /\ \/ r.topic = "message" /\ HandleMessage(service, r)
         \/ r.topic = "subscribe" /\ HandleSubscription(service, r)
  BY DEF TakeRpcEvent
<1>2. /\ rpc \in RpcState /\ rpc.queue \in Seq(Request) /\ netout \in Seq(Command)
      /\ bus.out \in Seq(Subject)
  BY StagesTyped DEF RelayInv, QueuesTyped
<1>3. r \in Request /\ Tail(rpc.queue) \in Seq(Request)
  BY <1>1, <1>2, HeadTailProperties
<1>4. service.queue = Tail(rpc.queue) /\ service \in RpcState
  BY <1>2, <1>3 DEF RpcState
<1>5. a \in Seq(Payload) /\ b \in Seq(Payload) /\ c \in Seq(Payload)
  BY StagesTyped
<1>6. d \in Seq(Payload) /\ f \in Seq(Payload)
  BY <1>3, OfEnds, Payloads
<1>7. Of(t, rpc.queue) = f \o d
  BY <1>1, <1>2, OfEnds
<1>8. Of(t, accepted) = a \o b \o c \o (f \o d)
  BY <1>7, ByTopic DEF Stages
<1> HIDE DEF service
<1>9. CASE r.topic = "message" /\ HandleMessage(service, r)
  <2>1. PICK x \in Client : r = RpcMessage(x)
    BY <1>3, <1>9 DEF Request, RpcMessage, RpcSubscription
  <2>2. r.payload = x /\ Gossip("message", x) \in Command
    BY <2>1 DEF RpcMessage, Command
  <2>3. /\ netout' = Append(netout, Gossip("message", x))
        /\ rpc'.queue = Tail(rpc.queue) /\ bus' = bus
    BY <1>4, <1>9, <2>2 DEF HandleMessage, SendCommand
  <2>4. f = (IF t = "message" THEN <<x>> ELSE << >>) /\ First(t, Gossip("message", x)) = f
    BY <2>1, FirstOf
  <2>5. Of(t, netout') = b \o f
    BY <1>2, <2>2, <2>3, <2>4, OfEnds
  <2>6. Stages(t)' = a \o (b \o f) \o c \o d
    BY <1>1, <2>3, <2>5 DEF Stages, OnBus
  <2>7. f = << >> \/ c = << >>
    BY <2>4 DEF OnBus, RequestTopic
  <2> HIDE DEF a, b, c, d, f
  <2>8. Cat(Cat(Cat(a, b), c), Cat(f, d)) = Cat(Cat(Cat(a, Cat(b, f)), c), d)
    BY <1>5, <1>6, <2>7, ShiftPast
  <2> QED BY <1>1, <1>8, <2>6, <2>8 DEF Cat
<1>10. CASE r.topic = "subscribe" /\ HandleSubscription(service, r)
  <2>1. PICK x \in Subject, y \in Client : r = RpcSubscription(x, y)
    BY <1>3, <1>10 DEF Request, RpcMessage, RpcSubscription
  <2>2. r.payload = x
    BY <2>1 DEF RpcSubscription
  <2>3. /\ netout' = netout /\ bus'.out = Append(bus.out, x)
        /\ rpc'.queue = Tail(rpc.queue)
    BY <1>4, <1>10, <2>2 DEF HandleSubscription, RpcState
  <2>4. f = IF t = "subscribe" THEN <<x>> ELSE << >>
    BY <2>1, FirstOf
  <2>5. OnBus(t)' = c \o f
    <3>1. Append(bus.out, x) = bus.out \o <<x>>
      BY <1>2, AppendIsConcat
    <3>2. << >> \o << >> = << >>
      BY EmptySeq, ConcatEmptySeq
    <3> QED BY <2>3, <2>4, <3>1, <3>2 DEF OnBus
  <2>6. Stages(t)' = a \o b \o (c \o f) \o d
    BY <1>1, <2>3, <2>5 DEF Stages
  <2> HIDE DEF a, b, c, d, f
  <2>7. Cat(Cat(Cat(a, b), c), Cat(f, d)) = Cat(Cat(Cat(a, b), Cat(c, f)), d)
    BY <1>5, <1>6, ShiftLast
  <2> QED BY <1>1, <1>8, <2>6, <2>7 DEF Cat
<1> QED BY <1>1, <1>9, <1>10

\* Every other step of the network leaves the requests where they are.
LEMMA NetworkKept ==
  ASSUME RequestsKept, task \in {"starting", "running"},
         \/ \E t \in Topic : SubscribeTo(t)
         \/ \E c \in Connection : \/ ConnectionEstablished(c)
                                  \/ DialFails(c)
                                  \/ ConnectionClosed(c)
                                  \/ \E t \in Topic, kind \in MessageKind :
                                       Receive(c, t, kind) \/ ReceivePanics(c, t, kind)
         \/ \E a \in Address : ListenOn(a) \/ ListenerExpires(a)
         \/ PollPanics \/ Poll \/ GossipPanics
  PROVE  RequestsKept'
<1>1. \/ task' = "panicked"
      \/ UNCHANGED <<accepted, published, netout, bus, rpc>>
  BY DEF SubscribeTo, ConnectionEstablished, DialFails, ConnectionClosed, Receive,
         ReceivePanics, ListenOn, ListenerExpires, PollPanics, GossipPanics, Panic, Poll,
         SwarmUnchanged, clients
<1> QED BY <1>1, UntouchedKept

\* The steps of clients, servers and the idle main loop.
LEMMA ClientsKept ==
  ASSUME RelayInv, RequestsKept,
         \/ \E c \in Client : \/ OpenSocket(c) \/ CloseSocket(c)
                              \/ SendMessage(c)
                              \/ \E s \in Subject : SendSubscription(c, s)
         \/ ServerEnds \/ TakeNetworkEvent \/ Sleep
  PROVE  RequestsKept'
<1>1. rpc \in RpcState
  BY DEF RelayInv, QueuesTyped
<1>2. CASE task = "panicked"
  <2>1. task' = "panicked"
    BY <1>2 DEF OpenSocket, CloseSocket, SendMessage, SendSubscription, ServerEnds,
                TakeNetworkEvent, Sleep, network
  <2> QED BY <2>1, UntouchedKept
<1>3. CASE /\ task # "panicked"
           /\ \/ \E c \in Client : OpenSocket(c) \/ CloseSocket(c)
              \/ ServerEnds \/ TakeNetworkEvent \/ Sleep
  <2>1. rpc'.queue = rpc.queue
    BY <1>1, <1>3 DEF OpenSocket, CloseSocket, ServerEnds, TakeNetworkEvent, Sleep,
                      clients, RpcState
  <2>2. UNCHANGED <<accepted, published, netout, bus>>
    BY <1>3 DEF OpenSocket, CloseSocket, ServerEnds, TakeNetworkEvent, Sleep,
                network, clients
  <2> QED BY <1>3, <2>1, <2>2, UntouchedKept
<1>4. ASSUME NEW c \in Client, SendMessage(c)
      PROVE  RequestsKept'
  <2>1. /\ accepted' = Append(accepted, Gossip("message", c))
        /\ rpc'.queue = Append(rpc.queue, RpcMessage(c))
        /\ UNCHANGED <<task, published, netout, bus>>
    BY <1>1, <1>4 DEF SendMessage, network, RpcState
  <2>2. Gossip("message", c) \in Command /\ RpcMessage(c) \in Request
    BY DEF Command, Request
  <2>3. \A t \in RequestTopic : First(t, Gossip("message", c)) = First(t, RpcMessage(c))
    BY FirstOf
  <2> QED BY <2>1, <2>2, <2>3, AcceptKept
<1>5. ASSUME NEW c \in Client, NEW s \in Subject, SendSubscription(c, s)
      PROVE  RequestsKept'
  <2>1. /\ accepted' = Append(accepted, Gossip("subscribe", s))
        /\ rpc'.queue = Append(rpc.queue, RpcSubscription(s, c))
        /\ UNCHANGED <<task, published, netout, bus>>
    BY <1>1, <1>5 DEF SendSubscription, network, RpcState
  <2>2. Gossip("subscribe", s) \in Command /\ RpcSubscription(s, c) \in Request
    BY DEF Command, Request
  <2>3. \A t \in RequestTopic :
          First(t, Gossip("subscribe", s)) = First(t, RpcSubscription(s, c))
    BY FirstOf
  <2> QED BY <2>1, <2>2, <2>3, AcceptKept
<1> QED BY <1>2, <1>3, <1>4, <1>5

\* Every step keeps the requests.
LEMMA RequestsStep ==
  ASSUME RelayInv, RelayInv', RequestsKept, Next
  PROVE  RequestsKept'
<1>1. task \in {"starting", "running", "panicked"}
  BY DEF RelayInv, SwarmGood
<1>2. CASE \/ \E t \in Topic : SubscribeTo(t)
           \/ \E c \in Connection : \/ ConnectionEstablished(c)
                                    \/ DialFails(c)
                                    \/ ConnectionClosed(c)
                                    \/ \E t \in Topic, kind \in MessageKind :
                                         \/ Receive(c, t, kind)
                                         \/ ReceivePanics(c, t, kind)
           \/ \E a \in Address : ListenOn(a) \/ ListenerExpires(a)
           \/ PollPanics \/ Poll \/ GossipPanics
  <2>1. task \in {"starting", "running"}
    BY <1>2 DEF SubscribeTo, ConnectionEstablished, DialFails, ConnectionClosed, Receive,
                ReceivePanics, Arrives, ListenOn, ListenerExpires, PollPanics, GossipPanics, NextCommand, Poll
  <2> QED BY <1>2, <2>1, NetworkKept
<1>3. CASE \/ \E c \in Client : \/ OpenSocket(c) \/ CloseSocket(c)
                                \/ SendMessage(c)
                                \/ \E s \in Subject : SendSubscription(c, s)
           \/ ServerEnds \/ TakeNetworkEvent \/ Sleep
  BY <1>3, ClientsKept
<1>4. CASE Start
  BY <1>4, StartKept
<1>5. CASE TakeConnect \/ TakeGossip
  BY <1>5, CommandsKept
<1>6. CASE TakeBusEvent
  BY <1>6, BusKept
<1>7. CASE TakeRpcEvent
  BY <1>7, RpcKept
<1> QED BY <1>2, <1>3, <1>4, <1>5, <1>6, <1>7 DEF Next, Environment, NetworkTask, MainLoop

\* No accepted request is lost, doubled or overtaken by one of its kind on
\* its way through the service, the bus and the command channel, while the
\* network task lives (service.rs 94-114, bus.rs 43-48, rpc/mod.rs 17-27).
THEOREM RelayRequestsKept == Spec => []RequestsKept
<1>1. Init => RequestsKept
  <2> SUFFICES ASSUME Init, NEW t \in RequestTopic
               PROVE  Of(t, accepted) = Stages(t)
    BY ByTopic
  <2>1. /\ accepted = << >> /\ published = << >> /\ netout = << >>
        /\ bus.out = << >> /\ rpc.queue = << >>
    BY DEF Init
  <2>2. Of(t, << >>) = << >>
    BY OfEmpty
  <2>3. << >> \o << >> = << >>
    BY EmptySeq, ConcatEmptySeq
  <2> QED BY <2>1, <2>2, <2>3 DEF Stages, OnBus
<1>2. RelayInv /\ RelayInv' /\ RequestsKept /\ [Next]_vars => RequestsKept'
  <2>1. CASE Next
    BY <2>1, RequestsStep
  <2>2. CASE UNCHANGED vars
    BY <2>2, ByTopic DEF vars, network, clients, Stages, OnBus
  <2> QED BY <2>1, <2>2
<1> QED BY <1>1, <1>2, RelayInvariant, PTL DEF Spec
=============================================================================
