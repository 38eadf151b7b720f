------------------------------ MODULE HyParView ------------------------------
(***************************************************************************)
(* The membership layer of one topic on one node: episub/view.rs.          *)
(*                                                                         *)
(* A view is a record with the two peer sets of the struct HyParView and   *)
(* its queue of outgoing events.  Every handler of the code is an operator *)
(* that takes the local node n, its view v and the handler's arguments,    *)
(* and returns the SET of views the handler can leave behind: the code     *)
(* draws from rand::thread_rng(), and one element stands for each draw.    *)
(* The handlers are synchronous, so one operator is one atomic step.       *)
(*                                                                         *)
(* A peer is its peer id (AddressablePeer compares and hashes by peer_id   *)
(* only); its addresses decide nothing here and are left out.              *)
(***************************************************************************)
EXTENDS Naturals, Sequences, FiniteSets

CONSTANTS
  Node,               \* the peers that run the protocol
  MaxActive,          \* config.max_active_view_size()
  PassiveViewFactor,  \* config.passive_view_factor
  WalkLength          \* config.active_walk_length()

ASSUME NodeAssumption == IsFiniteSet(Node)
\* round(log2(network_size) + active_view_factor): 2 or more for every
\* network of at least two nodes with a factor of at least one.
ASSUME MaxActiveAssumption == MaxActive \in Nat /\ MaxActive >= 2
ASSUME PassiveViewFactorAssumption == PassiveViewFactor \in Nat
ASSUME WalkLengthAssumption == WalkLength \in Nat

MinActive == IF MaxActive \div 2 > 1 THEN MaxActive \div 2 ELSE 1
MaxPassive == MaxActive * PassiveViewFactor
ShuffleMax == MaxActive * 2

-----------------------------------------------------------------------------
(* Messages (rpc.proto) and the events a view hands to the swarm.          *)

Join(p, ttl) == [type |-> "JOIN", peer |-> p, ttl |-> ttl]
ForwardJoin(p, ttl) == [type |-> "FORWARDJOIN", peer |-> p, ttl |-> ttl]
Neighbor(p, priority) ==
  [type |-> "NEIGHBOR", peer |-> p, priority |-> priority]
Disconnect(alive) == [type |-> "DISCONNECT", alive |-> alive]
Shuffle(origin, nodes, ttl) ==
  [type |-> "SHUFFLE", origin |-> origin, nodes |-> nodes, ttl |-> ttl]
ShuffleReply(nodes) == [type |-> "SHUFFLEREPLY", nodes |-> nodes]

Ttl == 0 .. WalkLength
Message ==
       [type : {"JOIN", "FORWARDJOIN"}, peer : Node, ttl : Ttl]
  \cup [type : {"NEIGHBOR"}, peer : Node, priority : {"LOW", "HIGH"}]
  \cup [type : {"DISCONNECT"}, alive : BOOLEAN]
  \cup [type : {"SHUFFLE"}, origin : Node, nodes : SUBSET Node, ttl : Ttl]
  \cup [type : {"SHUFFLEREPLY"}, nodes : SUBSET Node]

Dial(p, temporary) == [type |-> "Dial", peer |-> p, temporary |-> temporary]
PeerAdded(p) == [type |-> "PeerAdded", peer |-> p]
PeerRemoved(p) == [type |-> "PeerRemoved", peer |-> p]
\* One NotifyHandler event per member of "to", queued by a loop over a
\* HashSet: the order inside the group is the set's, that is, any order.
NotifyHandler(to, msg) == [type |-> "NotifyHandler", to |-> to, msg |-> msg]

Event ==
       [type : {"Dial"}, peer : Node, temporary : BOOLEAN]
  \cup [type : {"PeerAdded", "PeerRemoved"}, peer : Node]
  \cup [type : {"NotifyHandler"}, to : (SUBSET Node) \ {{}}, msg : Message]

View == [active : SUBSET Node, passive : SUBSET Node, out : Seq(Event)]

EmptyView == [active |-> {}, passive |-> {}, out |-> << >>]

Push(v, e) == [v EXCEPT !.out = Append(@, e)]

\* A loop that queues msg for every member of "to".
Send(v, to, msg) == IF to = {} THEN v ELSE Push(v, NotifyHandler(to, msg))

\* choose_multiple(rng, k) over the distinct elements of S.
Samples(S, k) ==
  LET size == IF Cardinality(S) < k THEN Cardinality(S) ELSE k
  IN  {T \in SUBSET S : Cardinality(T) = size}

Overconnected(v) == Cardinality(v.active) >= MaxActive
Starved(v) == Cardinality(v.active) < MinActive

-----------------------------------------------------------------------------
(* Private helpers of the view.                                            *)

\* Mutant: as if the priority were computed before the insertion.
PriorityBeforeInsertion(active) ==
  IF Cardinality(active) = 1 THEN "HIGH" ELSE "LOW"

\* The priority is computed after the peer went into the active view, so it
\* is taken from a set that is never empty.
PriorityOf(active) == IF active = {} THEN "HIGH" ELSE "LOW"

\* Mutant: the local node is not excluded.
NewAnyPeer(n, v, p) == p \notin v.active

\* The two early ends of add_node_to_active_view.
NewPeer(n, v, p) == p # n /\ p \notin v.active

\* add_node_to_active_view: the peer is not taken out of the passive view.
AddActive(n, v, p, initiator) ==
  IF ~NewPeer(n, v, p) THEN v
  ELSE LET w == [v EXCEPT !.active = @ \cup {p}]
           d == IF initiator
                THEN Send(Push(w, Dial(p, FALSE)), {p},
                          Neighbor(n, PriorityOf(w.active)))
                ELSE w
       IN  Push(d, PeerAdded(p))

\* add_node_to_passive_view: insert, then evict one random member (the new
\* one included) when the view is over its limit.
AddPassive(n, v, p) ==
  LET q == v.passive \cup {p}
  IN  IF p = n THEN {v}
      ELSE IF Cardinality(q) > MaxPassive
           THEN {[v EXCEPT !.passive = q \ {r}] : r \in q}
           ELSE {[v EXCEPT !.passive = q]}

\* Mutant: the limit is not applied to a merge.
AddAllPassiveUnbounded(v, S) == {[v EXCEPT !.passive = @ \cup S]}

\* add_node_to_passive_view for every member of S, none of them n: each
\* insertion over the limit evicts one member, in any order, which leaves
\* any subset of the right size.
AddAllPassive(v, S) ==
  {[v EXCEPT !.passive = T] : T \in Samples(v.passive \cup S, MaxPassive)}

\* free_up_active_slot: the peer it moves is drawn from the PASSIVE view.
FreeUpActiveSlot(n, v) ==
  IF ~Overconnected(v) \/ v.passive = {} THEN {v}
  ELSE UNION {AddPassive(n,
                Push(Send([v EXCEPT !.active = @ \ {r}], {r},
                          Disconnect(TRUE)),
                     PeerRemoved(r)),
                r) : r \in v.passive}

\* The common tail of JOIN and FORWARDJOIN: active view if there is room,
\* passive view otherwise.
Admit(n, v, p) ==
  IF Overconnected(v) THEN AddPassive(n, v, p)
  ELSE {AddActive(n, v, p, TRUE)}

\* send_shuffle_reply: a temporary connection is dialed first when the
\* origin is not an active peer.
SendShuffleReply(v, origin, nodes) ==
  Send(IF origin \in v.active THEN v ELSE Push(v, Dial(origin, TRUE)),
       {origin}, ShuffleReply(nodes))

-----------------------------------------------------------------------------
(* Handlers of the control messages, one per inject_ function.             *)

\* Mutant: a walk one hop too long.
InitiateLongJoin(n, v, p) == Send(v, {p}, Join(n, WalkLength + 1))

InitiateJoin(n, v, p) == Send(v, {p}, Join(n, WalkLength))

InjectJoin(n, v, sender, p, ttl) ==
  IF p \in v.active THEN {v}
  ELSE {Send(w, w.active \ {p, sender}, ForwardJoin(p, ttl)) :
          w \in Admit(n, v, p)}

InjectForwardJoin(n, v, sender, p, ttl) ==
  IF p = n THEN {v}
  ELSE LET freed == IF ttl = 0 /\ p \notin v.active
                    THEN FreeUpActiveSlot(n, v) ELSE {v}
           admitted == UNION {Admit(n, w, p) : w \in freed}
       IN  IF ttl = 0 THEN admitted
           ELSE {Send(w, w.active \ {p, sender}, ForwardJoin(p, ttl - 1)) :
                   w \in admitted}

\* Mutant: the event is sent and the peer stays.
DeactivateInNameOnly(v, p) ==
  IF p \in v.active THEN Push(v, PeerRemoved(p)) ELSE v

\* Out of the active view, with the event that tells PlumTree.
Deactivate(v, p) ==
  IF p \in v.active
  THEN Push([v EXCEPT !.active = @ \ {p}], PeerRemoved(p))
  ELSE v

InjectDisconnect(n, v, p, alive) ==
  {Deactivate(w, p) :
     w \in IF ~alive THEN {[v EXCEPT !.passive = @ \ {p}]}
           ELSE IF p \in v.active THEN AddPassive(n, v, p)
           ELSE {v}}

\* A LOW request at a full view ends in inject_disconnect for a peer that is
\* not active: nothing is sent and nothing is stored.
InjectNeighbor(n, v, p, priority) ==
  IF p \in v.active THEN {v}
  ELSE IF ~Overconnected(v) THEN {AddActive(n, v, p, FALSE)}
  ELSE IF priority = "HIGH"
       THEN {AddActive(n, w, p, FALSE) : w \in FreeUpActiveSlot(n, v)}
       ELSE InjectDisconnect(n, v, p, TRUE)

\* The walk of a SHUFFLE goes on to one random neighbour; where it cannot go
\* on, the origin is added to the active view, full or not.
ForwardShuffle(n, v, from, ttl, nodes, origin) ==
  LET next == v.active \ {from, origin}
  IN  IF ttl = 0 THEN {v}
      ELSE IF next # {}
           THEN {Send(v, {p}, Shuffle(origin, nodes, ttl - 1)) : p \in next}
           ELSE {AddActive(n, v, origin, TRUE)}

InjectShuffle(n, v, from, ttl, nodes, origin) ==
  LET known == v.active \cup v.passive
      replied == {SendShuffleReply(v, origin, T) :
                    T \in Samples(known \ nodes, ShuffleMax)}
      merged == UNION {AddAllPassive(w, nodes \ (known \cup {n})) :
                         w \in replied}
  IN  UNION {ForwardShuffle(n, w, from, ttl, nodes, origin) : w \in merged}

\* Over the limit, the first "drain().next()" drops the whole passive view.
InjectShuffleReply(v, nodes) ==
  LET q == v.passive \cup nodes
  IN  {[v EXCEPT !.passive = IF Cardinality(q) > MaxPassive THEN {} ELSE q]}

-----------------------------------------------------------------------------
(* The periodic work of poll().                                            *)

\* send_shuffle: choose_multiple over active.chain(passive), where a peer in
\* both views takes two places and may be drawn once or twice.
SendShuffle(n, v, p) ==
  LET both == v.active \cap v.passive
      places == Cardinality(v.active) + Cardinality(v.passive)
      drawn == IF places < ShuffleMax THEN places ELSE ShuffleMax
  IN  {Send(v, {p}, Shuffle(n, S, WalkLength)) :
         S \in {T \in SUBSET (v.active \cup v.passive) :
                  /\ Cardinality(T) =< drawn
                  /\ drawn =< Cardinality(T) + Cardinality(T \cap both)}}

\* The shuffle timer fired and the sampled probability allowed the shuffle.
ShuffleTimer(n, v) ==
  IF v.active = {} THEN {v} ELSE UNION {SendShuffle(n, v, p) : p \in v.active}

\* maybe_move_random_passive_to_active.
TickTimer(n, v) ==
  IF ~Starved(v) \/ v.passive = {} THEN {v}
  ELSE {AddActive(n, [v EXCEPT !.passive = @ \ {r}], r, TRUE) :
          r \in v.passive}

\* out_events.pop_front() for a group of NotifyHandler events takes one
\* target; the group leaves the queue with its last one.
PopFor(v, p) ==
  LET e == Head(v.out)
      rest == e.to \ {p}
  IN  [v EXCEPT !.out = IF rest = {} THEN Tail(@)
                        ELSE <<NotifyHandler(rest, e.msg)>> \o Tail(@)]

Pop(v) == [v EXCEPT !.out = Tail(@)]

-----------------------------------------------------------------------------
(* TopicMesh::inject_rpc_call: the routing of a received message.  A       *)
(* NEIGHBOR that names somebody other than its sender is refused.          *)
Dispatch(n, v, from, m) ==
  CASE m.type = "JOIN" -> InjectJoin(n, v, from, m.peer, m.ttl)
    [] m.type = "FORWARDJOIN" -> InjectForwardJoin(n, v, from, m.peer, m.ttl)
    [] m.type = "NEIGHBOR" ->
         IF m.peer = from THEN InjectNeighbor(n, v, m.peer, m.priority)
         ELSE {v}
    [] m.type = "DISCONNECT" -> InjectDisconnect(n, v, from, m.alive)
    [] m.type = "SHUFFLE" ->
         InjectShuffle(n, v, from, m.ttl, m.nodes, m.origin)
    [] m.type = "SHUFFLEREPLY" -> InjectShuffleReply(v, m.nodes)
=============================================================================
