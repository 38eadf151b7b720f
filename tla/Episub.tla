------------------------------- MODULE Episub -------------------------------
(***************************************************************************)
(* The network behaviour of one node: episub/behaviour.rs.                 *)
(*                                                                         *)
(* An Episub is a record of the fields of the struct.  As in HyParView,    *)
(* an operator is one method of the code and returns the record the method *)
(* leaves behind.  Of a TopicMesh, which TopicMesh.tla and Broadcast.tla   *)
(* model, this module keeps what the behaviour looks at: the active peers, *)
(* the peers that were sent a JOIN, and the addresses the mesh was given   *)
(* for the local node.  The authorizer allows everybody, as the one that   *)
(* the network task configures.                                            *)
(***************************************************************************)
EXTENDS Naturals, Sequences, FiniteSets

CONSTANTS
  Topic,      \* the topics of the relay
  Peer,       \* the other nodes
  Address,    \* addresses the node can listen on
  Loopback,   \* the ones that is_local_address() filters out
  MinActive   \* config.min_active_view_size()

ASSUME EpisubAssumption == Loopback \subseteq Address /\ MinActive \in Nat

CloseConnection(p, c) == [type |-> "CloseConnection", peer |-> p, conn |-> c]
Disconnect(p) == [type |-> "NotifyHandler", peer |-> p]
Subscribed(t) == [type |-> "Subscribed", topic |-> t]

\* known: local_node.is_some(); addresses: those of local_node; addressed:
\* the keys of peer_addresses.
EmptyEpisub ==
  [known |-> FALSE, addresses |-> {}, topics |-> << >>, pending |-> {},
   early |-> {}, banned |-> {}, addressed |-> {}, out |-> << >>]

PushEvent(e, event) == [e EXCEPT !.out = Append(@, event)]

\* TopicMesh::new with a clone of local_node, for every topic of T that has
\* no mesh yet.
CreateMeshes(e, T) ==
  [e EXCEPT !.topics = [t \in DOMAIN e.topics \cup T |->
     IF t \in DOMAIN e.topics THEN e.topics[t]
     ELSE [active |-> {}, asked |-> {}, addresses |-> e.addresses]]]

\* A topic waits in pending_topics until the local address is known.
Subscribe(e, t) ==
  IF t \in DOMAIN e.topics THEN e
  ELSE IF e.known THEN PushEvent(CreateMeshes(e, {t}), Subscribed(t))
  ELSE [e EXCEPT !.pending = @ \cup {t}]

\* publish: Err(TopicNotSubscribed) otherwise.
CanPublish(e, t) == t \in DOMAIN e.topics

-----------------------------------------------------------------------------
(* JOIN requests, connections and bans.                                    *)

StarvingFor(mesh, p) == Cardinality(mesh.active) < MinActive /\ p \notin mesh.active

\* request_join_for_starving_topics for every peer of S: a JOIN changes
\* nothing that the next one looks at.
RequestJoins(e, S) ==
  [e EXCEPT !.topics = [t \in DOMAIN e.topics |->
     [e.topics[t] EXCEPT !.asked = @ \cup {p \in S : StarvingFor(e.topics[t], p)}]]]

\* "peer_addresses.get(&peer).unwrap()" in it.
JoinPanics(e, S) ==
  \E p \in S \ e.addressed : \E t \in DOMAIN e.topics : StarvingFor(e.topics[t], p)

\* Mutant: the close is for every connection of the peer.
ForceDisconnectAll(e, p, c) == PushEvent(e, CloseConnection(p, p))

\* force_disconnect: CloseConnection::One.
ForceDisconnect(e, p, c) == PushEvent(e, CloseConnection(p, c))

Ban(e, p, c) ==
  ForceDisconnect([e EXCEPT !.addressed = @ \ {p}, !.banned = @ \cup {p}], p, c)

\* Mutant: a banned peer's connection is closed and then treated like any
\* other.
EstablishedAnyway(e, p, c, dialed) ==
  LET k == [IF p \in e.banned THEN ForceDisconnect(e, p, c) ELSE e
              EXCEPT !.addressed = @ \cup {p}]
  IN  IF ~dialed THEN k
      ELSE IF k.known THEN RequestJoins(k, {p})
      ELSE [k EXCEPT !.early = @ \cup {p}]

\* inject_connection_established: a peer that was dialed is asked to let the
\* node join, at once or when the node knows its own address.
Established(e, p, c, dialed) ==
  LET k == [e EXCEPT !.addressed = @ \cup {p}]
  IN  IF p \in e.banned THEN ForceDisconnect(e, p, c)
      ELSE IF ~dialed THEN k
      ELSE IF k.known THEN RequestJoins(k, {p})
      ELSE [k EXCEPT !.early = @ \cup {p}]

\* disconnected() on every mesh.
LoseActive(e, p) ==
  [e EXCEPT !.topics = [t \in DOMAIN e.topics |->
                          [e.topics[t] EXCEPT !.active = @ \ {p}]]]

\* Mutant: the address of the peer is forgotten with its connection.
ClosedForgotten(e, p) == [LoseActive(e, p) EXCEPT !.addressed = @ \ {p}]

\* inject_connection_closed.
Closed(e, p) == LoseActive(e, p)

\* inject_dial_failure, for a dial that names the peer.
DialFailure(e, p) == LoseActive(e, p)

-----------------------------------------------------------------------------
(* Addresses.                                                              *)

\* The addresses of S that is_local_address() does not filter out.
Advertised(S) == S \ Loopback

NewListenAddr(e, a) ==
  IF e.known THEN [e EXCEPT !.addresses = @ \cup Advertised({a})] ELSE e

ExpiredListenAddr(e, a) ==
  IF e.known THEN [e EXCEPT !.addresses = @ \ {a}] ELSE e

Adopts(e, listened) == ~e.known /\ Advertised(listened) # {}

\* The node with its address and the meshes of the pending topics.
Identified(e, listened) ==
  LET k == [e EXCEPT !.known = TRUE, !.addresses = Advertised(listened)]
  IN  [CreateMeshes(k, k.pending) EXCEPT !.pending = {}, !.early = {}]

\* Mutant: loopback addresses are not filtered.
UpdateWithLoopback(e, listened) ==
  IF e.known \/ listened = {} THEN e
  ELSE LET k == [e EXCEPT !.known = TRUE, !.addresses = listened]
       IN  RequestJoins([CreateMeshes(k, k.pending) EXCEPT
                           !.pending = {}, !.early = {}], e.early)

\* Mutant: the early peers are drained and not asked.
UpdateWithoutJoins(e, listened) ==
  IF Adopts(e, listened) THEN Identified(e, listened) ELSE e

\* update_local_node_info, run by every poll.
UpdateLocalNode(e, listened) ==
  IF ~Adopts(e, listened) THEN e
  ELSE RequestJoins(Identified(e, listened), e.early)

UpdatePanics(e, listened) ==
  Adopts(e, listened) /\ JoinPanics(Identified(e, listened), e.early)

-----------------------------------------------------------------------------
(* inject_event: what it does with a message of topic t, which has no      *)
(* action ("empty"), which the mesh refuses ("invalid"), which the mesh    *)
(* takes ("valid"): then the membership layer may take in or drop a peer,  *)
(* the sender or one that the message names; or which is the first copy of *)
(* a payload that was not compressed ("undecodable").                      *)

MessageKind == {"empty", "invalid", "valid", "undecodable"}

\* "decode_all(payload.as_ref()).unwrap()" in the tree of the topic.
InjectPanics(e, p, t, kind) ==
  kind = "undecodable" /\ p \notin e.banned /\ t \in DOMAIN e.topics

Injected(e, p, c, t, kind) ==
  IF p \in e.banned THEN {ForceDisconnect(e, p, c)}
  ELSE IF kind = "empty" THEN {Ban(e, p, c)}
  ELSE IF t \notin DOMAIN e.topics
       THEN {ForceDisconnect(PushEvent(e, Disconnect(p)), p, c)}
  ELSE IF kind = "invalid" THEN {Ban(e, p, c)}
  ELSE {e} \cup {[e EXCEPT !.topics[t].active = @ \cup {q}] : q \in Peer}
           \cup {[e EXCEPT !.topics[t].active = @ \ {q}] : q \in Peer}
=============================================================================
