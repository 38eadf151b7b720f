------------------------------ MODULE TopicMesh ------------------------------
(***************************************************************************)
(* One topic on one node: episub/topic.rs, the HyParView and the PlumTree  *)
(* it owns.  The environment is every other peer and the swarm: it calls   *)
(* the mesh with any message a peer of the protocol can send, in any       *)
(* order, and reports connections lost and dials failed.                   *)
(*                                                                         *)
(* The membership layer changes at once; the tree learns of the change     *)
(* when poll() takes PeerAdded or PeerRemoved from the view's queue, and   *)
(* messages arrive in between.                                             *)
(***************************************************************************)
EXTENDS HyParView, PlumTree

CONSTANTS
  Self,       \* the local node
  Id,         \* message ids
  MaxHop,     \* bound: hops of a received message
  MaxInputs,  \* bound: calls of the environment
  MaxTicks    \* bound: tick and shuffle timers that fire, and instants

ASSUME MeshAssumption ==
  /\ Self \in Node
  /\ {MaxHop, MaxInputs, MaxTicks} \subseteq Nat

VARIABLES
  view,    \* nodes: HyParView
  tree,    \* tree: PlumTree
  met,     \* peers the tree has had: only they can PRUNE or GRAFT (history)
  asked,   \* a shuffle has left: only then are there replies (history)
  inputs,  \* calls the environment may still make
  ticks    \* timers that may still fire

vars == <<view, tree, met, asked, inputs, ticks>>

Peers == Node \ {Self}

\* Instants are counted by the timers that have fired.
Now == MaxTicks - ticks + 1

Init ==
  /\ view = EmptyView
  /\ tree = EmptyTree
  /\ met = {}
  /\ asked = FALSE
  /\ inputs = MaxInputs
  /\ ticks = MaxTicks

-----------------------------------------------------------------------------
(* Calls of the environment.                                               *)

\* What a peer can send: JOIN and NEIGHBOR name the sender, priorities are
\* LOW (a view that asks has just become non-empty), a SHUFFLE is not sent
\* to its origin, and a reply answers a shuffle with ShuffleMax peers at most.
MembershipCalls(from) ==
       {Join(from, WalkLength), Neighbor(from, "LOW")}
  \cup {Disconnect(alive) : alive \in BOOLEAN}
  \cup {ForwardJoin(p, ttl) : p \in Node \ {from}, ttl \in Ttl}
  \cup {Shuffle(o, S, ttl) : o \in Peers, S \in SUBSET Node, ttl \in Ttl}
  \cup {ShuffleReply(S) : S \in {T \in SUBSET Node :
                                 asked /\ Cardinality(T) =< ShuffleMax}}

\* inject_rpc_call for a membership message.
MembershipRpc(from) ==
  /\ \E m \in MembershipCalls(from) : view' \in Dispatch(Self, view, from, m)
  /\ UNCHANGED tree

\* inject_rpc_call for a message of the broadcast tree.  An IHAVE of several
\* messages is several calls: they touch one cache only.  PRUNE answers a
\* message and GRAFT an announcement that the tree has sent, perhaps before
\* the peer left it: the peer's caches outlive its neighbours.
TreeRpc(from) ==
  /\ \/ \E id \in Id, hop \in 1 .. MaxHop :
          tree' = InjectMessage(tree, from, id, hop, Now)
     \/ \E id \in Id, hop \in 0 .. MaxHop :
          tree' = InjectIHave(tree, from, id, hop, Now)
     \/ from \in met /\ tree' = InjectPrune(tree, from)
     \/ from \in met /\ \E ids \in SUBSET Id : tree' = InjectGraft(tree, from, ids)
  /\ UNCHANGED view

\* disconnected(): a connection was closed (alive) or a dial failed.
Disconnected(p, alive) ==
  /\ view' \in InjectDisconnect(Self, view, p, alive)
  /\ UNCHANGED tree

MeshInitiateJoin(p) ==
  /\ Starved(view) /\ p \notin view.active
  /\ view' = InitiateJoin(Self, view, p)
  /\ UNCHANGED tree

MeshPublish(id) ==
  /\ tree' = Publish(tree, Self, id, Now)
  /\ UNCHANGED view

Call ==
  /\ inputs > 0
  /\ inputs' = inputs - 1
  /\ UNCHANGED <<met, asked, ticks>>
  /\ \/ \E p \in Peers : \/ MembershipRpc(p)
                         \/ TreeRpc(p)
                         \/ MeshInitiateJoin(p)
                         \/ \E alive \in BOOLEAN : Disconnected(p, alive)
     \/ \E id \in Id : MeshPublish(id)

-----------------------------------------------------------------------------
(* poll(): the view first; the tree only when the view has nothing.        *)

\* The tree is told about the peer when the event leaves the view's queue.
Bubble(e) ==
  CASE e.type = "PeerAdded" -> InjectNeighborUp(tree, e.peer)
    [] e.type = "PeerRemoved" -> InjectNeighborDown(tree, e.peer)
    [] OTHER -> tree

IsShuffle(e) == e.type = "NotifyHandler" /\ e.msg.type = "SHUFFLE"

PollView(v) ==
  LET e == Head(v.out)
  IN  /\ v.out # << >>
      /\ tree' = Bubble(e)
      /\ view' \in IF e.type = "NotifyHandler" THEN {PopFor(v, p) : p \in e.to}
                  ELSE {Pop(v)}
      /\ asked' = (asked \/ (IsShuffle(e) /\ e.msg.origin = Self))

\* The tree's queue is taken a group at a time: the order inside a group
\* matters to nobody here.
PollTree(v, t) ==
  /\ v.out = << >>
  /\ view' = v
  /\ tree' = IF t.out = << >> THEN t ELSE [t EXCEPT !.out = Tail(@)]
  /\ UNCHANGED asked

\* Of the three timers, any may have fired when time has passed.
Poll(fired) ==
  /\ fired => ticks > 0
  /\ ticks' = IF fired THEN ticks - 1 ELSE ticks
  /\ \E u \in IF fired THEN {view} \cup ShuffleTimer(Self, view) ELSE {view} :
       \E v \in IF fired THEN {u} \cup TickTimer(Self, u) ELSE {u} :
         \/ PollView(v)
         \/ \E t \in IF fired THEN {tree} \cup TreeTick(tree, Now) ELSE {tree} :
              PollTree(v, t)
  /\ met' = met \cup tree'.eager
  /\ UNCHANGED inputs

Next == Call \/ \E fired \in BOOLEAN : Poll(fired)

Spec == Init /\ [][Next]_vars

-----------------------------------------------------------------------------

\* The view and the tree hold peers and events.
TypeOK ==
  /\ view \in View
  /\ tree.eager \subseteq Node /\ tree.lazy \subseteq Node
  /\ met \subseteq Node /\ asked \in BOOLEAN
  /\ inputs \in 0 .. MaxInputs
  /\ ticks \in 0 .. MaxTicks

\* The peer-change events that still wait for the tree.
Pending(p) ==
  {i \in DOMAIN view.out : view.out[i] \in {PeerAdded(p), PeerRemoved(p)}}

\* Every active peer takes part in the dissemination, eagerly or lazily, as
\* soon as the tree has heard the last event about it: a peer that leaves
\* and comes back while events wait is not lost to the tree (topic.rs
\* 170-187, tree.rs 54-62).
ActiveInTree ==
  \A p \in view.active :
    IF Pending(p) = {} THEN p \in tree.eager \cup tree.lazy
    ELSE \E i \in Pending(p) : /\ view.out[i] = PeerAdded(p)
                               /\ \A j \in Pending(p) : j =< i

\* No passive view grows past max_passive_view_size(), through evictions,
\* merges of shuffles and moves between the two views (view.rs 431-435,
\* 492-497).
PassiveBound == Cardinality(view.passive) =< MaxPassive

\* No active view grows past max_active_view_size(), although a shuffle that
\* ends its walk here admits its origin without a look at the size (view.rs
\* 413-417).
ActiveBound == Cardinality(view.active) =< MaxActive

\* "remove any excess nodes that put us above the maximum passive view size"
\* (view.rs 431-432): no step shrinks the passive view by more than the one
\* peer that a disconnect forgets or a tick promotes.
ExcessOnly ==
  [][Cardinality(view'.passive) + 1 >= Cardinality(view.passive)]_vars
=============================================================================
