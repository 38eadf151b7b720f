----------------------------- MODULE MeshProofs -----------------------------
(***************************************************************************)
(* The topic mesh keeps its types and the limits of its views, and every   *)
(* active peer takes part in the dissemination once the tree has heard the *)
(* last news of it, for any number of peers, messages, calls and ticks.    *)
(*                                                                         *)
(* The invariant says of an active peer what its last news in the queue    *)
(* is: that it was added, or, if there is none left, that the tree has it. *)
(* That no handler breaks it is what HyParViewProofs shows about Grows.    *)
(***************************************************************************)
EXTENDS TopicMesh, HyParViewProofs, PlumTreeProofs

\* The tree serves E, or will hear last of a peer that it was added.
Told(v, E) ==
  \A p \in v.active :
    \/ p \in E /\ \A i \in 1 .. Len(v.out) : ~About(v.out[i], p)
    \/ \E i \in 1 .. Len(v.out) : /\ v.out[i] = PeerAdded(p)
                                  /\ \A j \in i + 1 .. Len(v.out) : ~About(v.out[j], p)

TreeGood == IsTree(tree) /\ tree.eager \subseteq Node /\ tree.lazy \subseteq Node

MeshInv ==
  /\ GoodView(Self, view)
  /\ TreeGood
  /\ Told(view, tree.eager \cup tree.lazy)
  /\ met \subseteq Node
  /\ asked \in BOOLEAN
  /\ inputs \in 0 .. MaxInputs /\ ticks \in 0 .. MaxTicks

-----------------------------------------------------------------------------
(* News of the active view.                                                *)

\* A handler of the view queues the news it makes.
LEMMA ToldGrows ==
  ASSUME NEW n \in Node, NEW v, GoodView(n, v), NEW w, GoodView(n, w), NEW S,
         Grows(v, w, S), NEW E, Told(v, E)
  PROVE  Told(w, E)
<1> DEFINE a == Len(v.out)
           b == Len(w.out)
<1>1. a \in Nat /\ b \in Nat
  BY GoodFields
<1>2. b >= a /\ \A i \in 1 .. a : w.out[i] = v.out[i]
  BY DEF Grows
<1> SUFFICES ASSUME NEW p \in w.active
             PROVE  \/ p \in E /\ \A i \in 1 .. b : ~About(w.out[i], p)
                    \/ \E i \in 1 .. b : /\ w.out[i] = PeerAdded(p)
                                         /\ \A j \in i + 1 .. b : ~About(w.out[j], p)
  BY DEF Told
<1>3. \/ p \in v.active /\ \A i \in a + 1 .. b : ~About(w.out[i], p)
      \/ \E i \in a + 1 .. b : /\ w.out[i] = PeerAdded(p)
                               /\ \A j \in i + 1 .. b : ~About(w.out[j], p)
  BY DEF Grows
<1>4. CASE p \in v.active /\ \A i \in a + 1 .. b : ~About(w.out[i], p)
  <2>1. \/ p \in E /\ \A i \in 1 .. a : ~About(v.out[i], p)
        \/ \E i \in 1 .. a : /\ v.out[i] = PeerAdded(p)
                             /\ \A j \in i + 1 .. a : ~About(v.out[j], p)
    BY <1>4 DEF Told
  <2> HIDE DEF a, b
  <2>2. CASE p \in E /\ \A i \in 1 .. a : ~About(v.out[i], p)
    <3>1. ASSUME NEW i \in 1 .. b PROVE ~About(w.out[i], p)
      <4>1. (i \in 1 .. a /\ w.out[i] = v.out[i]) \/ i \in a + 1 .. b
        BY <1>1, <1>2
      <4> QED BY <1>4, <2>2, <4>1
    <3> QED BY <2>2, <3>1
  <2>3. CASE \E i \in 1 .. a : /\ v.out[i] = PeerAdded(p)
                               /\ \A j \in i + 1 .. a : ~About(v.out[j], p)
    <3>1. PICK i \in 1 .. a : /\ v.out[i] = PeerAdded(p)
                              /\ \A j \in i + 1 .. a : ~About(v.out[j], p)
      BY <2>3
    <3>2. i \in 1 .. b /\ w.out[i] = PeerAdded(p)
      BY <1>1, <1>2, <3>1
    <3>3. ASSUME NEW j \in i + 1 .. b PROVE ~About(w.out[j], p)
      <4>1. \/ j \in i + 1 .. a /\ w.out[j] = v.out[j]
            \/ j \in a + 1 .. b
        BY <1>1, <1>2
      <4> QED BY <1>4, <3>1, <4>1
    <3> QED BY <3>2, <3>3
  <2> QED BY <2>1, <2>2, <2>3
<1>5. CASE \E i \in a + 1 .. b : /\ w.out[i] = PeerAdded(p)
                                 /\ \A j \in i + 1 .. b : ~About(w.out[j], p)
  <2>1. \A i \in a + 1 .. b : i \in 1 .. b
    <3> HIDE DEF a, b
    <3> QED BY <1>1
  <2> HIDE DEF a, b
  <2> QED BY <1>5, <2>1
<1> QED BY <1>3, <1>4, <1>5

\* The tree may serve more peers.
LEMMA ToldMore ==
  ASSUME NEW v, NEW E, NEW F, Told(v, E), E \subseteq F
  PROVE  Told(v, F)
BY DEF Told

\* The first event leaves the queue and the tree hears it.
LEMMA ToldPop ==
  ASSUME NEW n \in Node, NEW v, GoodView(n, v), v.out # << >>, NEW E, Told(v, E),
         NEW F, NEW w, w.active = v.active, w.out = Tail(v.out),
         \A p \in E : p \in F \/ Head(v.out) = PeerRemoved(p),
         \A p : Head(v.out) = PeerAdded(p) => p \in F
  PROVE  Told(w, F)
<1> DEFINE a == Len(v.out)
           b == Len(w.out)
<1>1. /\ a \in Nat \ {0} /\ b = a - 1 /\ Head(v.out) = v.out[1]
      /\ \A i \in 1 .. b : w.out[i] = v.out[i + 1]
  BY GoodFields
<1> SUFFICES ASSUME NEW p \in w.active
             PROVE  \/ p \in F /\ \A i \in 1 .. b : ~About(w.out[i], p)
                    \/ \E i \in 1 .. b : /\ w.out[i] = PeerAdded(p)
                                         /\ \A j \in i + 1 .. b : ~About(w.out[j], p)
  BY DEF Told
<1>2. \/ p \in E /\ \A i \in 1 .. a : ~About(v.out[i], p)
      \/ \E i \in 1 .. a : /\ v.out[i] = PeerAdded(p)
                           /\ \A j \in i + 1 .. a : ~About(v.out[j], p)
  BY DEF Told
<1> HIDE DEF a, b
<1>3. CASE p \in E /\ \A i \in 1 .. a : ~About(v.out[i], p)
  <2>1. 1 \in 1 .. a /\ \A i \in 1 .. b : i + 1 \in 1 .. a
    BY <1>1
  <2>2. p \in F
    BY <1>1, <1>3, <2>1 DEF About
  <2> QED BY <1>1, <1>3, <2>1, <2>2
<1>4. CASE \E i \in 1 .. a : /\ v.out[i] = PeerAdded(p)
                             /\ \A j \in i + 1 .. a : ~About(v.out[j], p)
  <2>1. PICK i \in 1 .. a : /\ v.out[i] = PeerAdded(p)
                            /\ \A j \in i + 1 .. a : ~About(v.out[j], p)
    BY <1>4
  <2>2. CASE i = 1
    <3>1. p \in F
      BY <1>1, <2>1, <2>2
    <3>2. \A j \in 1 .. b : j + 1 \in i + 1 .. a
      BY <1>1, <2>2
    <3> QED BY <1>1, <2>1, <3>1, <3>2
  <2>3. CASE i # 1
    <3>1. i - 1 \in 1 .. b /\ w.out[i - 1] = PeerAdded(p)
      <4>1. i - 1 \in 1 .. b /\ i - 1 + 1 = i
        BY <1>1, <2>3
      <4> QED BY <1>1, <2>1, <4>1
    <3>2. \A j \in i - 1 + 1 .. b : j \in 1 .. b /\ j + 1 \in i + 1 .. a
      BY <1>1, <2>3
    <3>3. \A j \in i - 1 + 1 .. b : ~About(w.out[j], p)
      BY <1>1, <2>1, <3>2
    <3> QED BY <3>1, <3>3
  <2> QED BY <2>2, <2>3
<1> QED BY <1>2, <1>3, <1>4

\* One target of a group of messages leaves the queue.
LEMMA ToldPopFor ==
  ASSUME NEW n \in Node, NEW v, GoodView(n, v), v.out # << >>, NEW E, Told(v, E),
         Head(v.out).type = "NotifyHandler", NEW q
  PROVE  Told(PopFor(v, q), E)
<1> DEFINE e == Head(v.out)
           rest == e.to \ {q}
           tail == IF rest = {} THEN Tail(v.out)
                   ELSE <<NotifyHandler(rest, e.msg)>> \o Tail(v.out)
           w == PopFor(v, q)
<1>1. v \in LowView /\ v.out \in Seq(LowEvent)
  BY GoodFields DEF GoodView
<1>2. w.out = tail /\ w.active = v.active
  BY <1>1 DEF PopFor, LowView
<1>3. \A p : Head(v.out) # PeerAdded(p) /\ Head(v.out) # PeerRemoved(p)
  BY DEF PeerAdded, PeerRemoved
<1>4. CASE rest = {}
  <2>1. w.out = Tail(v.out)
    BY <1>2, <1>4
  <2> HIDE DEF w, e
  <2>2. Told(w, E)
    BY <1>2, <1>3, <2>1, ToldPop
  <2> QED BY <2>2 DEF w
<1>5. CASE rest # {}
  <2> DEFINE m == NotifyHandler(rest, e.msg)
             a == Len(v.out)
  <2>1. w.out = <<m>> \o Tail(v.out)
    BY <1>2, <1>5
  <2>2. \A p : ~About(m, p) /\ m # PeerAdded(p)
    BY Apart DEF About
  <2> HIDE DEF w, e, m
  <2>3. /\ a \in Nat \ {0} /\ Tail(v.out) \in Seq(LowEvent) /\ Len(Tail(v.out)) = a - 1
        /\ v.out[1] = Head(v.out)
        /\ \A i \in 1 .. a - 1 : Tail(v.out)[i] = v.out[i + 1]
    BY <1>1
  <2>4. /\ Len(w.out) = a /\ w.out[1] = m
        /\ \A i \in 2 .. a : w.out[i] = v.out[i]
    <3> DEFINE t == Tail(v.out)
    <3>1. w.out = <<m>> \o t /\ t \in Seq(LowEvent) /\ Len(t) = a - 1
      BY <2>1, <2>3
    <3>2. \A i \in 1 .. a - 1 : t[i] = v.out[i + 1]
      BY <2>3
    <3> HIDE DEF t, a
    <3>3. /\ Len(<<m>> \o t) = a /\ (<<m>> \o t)[1] = m
          /\ \A i \in 2 .. a : (<<m>> \o t)[i] = t[i - 1]
      BY <2>3, <3>1
    <3>4. \A i \in 2 .. a : i - 1 \in 1 .. a - 1 /\ i - 1 + 1 = i
      BY <2>3
    <3> QED BY <3>1, <3>2, <3>3, <3>4
  <2>5. \A i \in 1 .. a : i = 1 \/ i \in 2 .. a
    BY <2>3
  <2>6. \A p : ~About(v.out[1], p) /\ v.out[1] # PeerAdded(p)
    BY <1>3, <2>3 DEF About
  <2>7. \A p : \A i \in 1 .. a : /\ About(w.out[i], p) => About(v.out[i], p)
                                 /\ v.out[i] = PeerAdded(p) => w.out[i] = PeerAdded(p)
    BY <2>2, <2>4, <2>5, <2>6
  <2>8. \A i \in 1 .. a : \A j \in i + 1 .. a : j \in 1 .. a
    BY <2>3
  <2>9. Told(w, E)
    BY <1>2, <2>4, <2>7, <2>8, Zenon DEF Told
  <2> QED BY <2>9 DEF w
<1> QED BY <1>4, <1>5

-----------------------------------------------------------------------------
(* The actions.                                                            *)

\* Every call of the environment is one a good view can handle.
LEMMA CallsLow ==
  ASSUME MeshInv, NEW from \in Peers, NEW m \in MembershipCalls(from)
  PROVE  m \in LowMessage
<1>1. from \in Node /\ WalkLength \in Ttl
  BY WalkLengthAssumption DEF Peers, Ttl
<1>2. CASE m = Join(from, WalkLength) \/ m = Neighbor(from, "LOW")
  BY <1>1, <1>2, Constructors, Answers
<1>3. CASE \E alive \in BOOLEAN : m = Disconnect(alive)
  BY <1>3 DEF Disconnect, LowMessage, Message
<1>4. CASE \E p \in Node \ {from}, ttl \in Ttl : m = ForwardJoin(p, ttl)
  BY <1>4, Constructors
<1>5. CASE \E o \in Peers, S \in SUBSET Node, ttl \in Ttl : m = Shuffle(o, S, ttl)
  BY <1>5, Constructors DEF Peers
<1>6. CASE \E S \in SUBSET Node : m = ShuffleReply(S)
  BY <1>1, <1>6, Answers
<1> QED BY <1>2, <1>3, <1>4, <1>5, <1>6 DEF MembershipCalls

\* The view handles a call, and the tree is left alone.
LEMMA ViewCall ==
  ASSUME MeshInv, GoodView(Self, view'), NEW S, Grows(view, view', S), UNCHANGED tree
  PROVE  TreeGood' /\ Told(view', tree'.eager \cup tree'.lazy)
<1>1. Self \in Node
  BY MeshAssumption
<1>2. Told(view', tree.eager \cup tree.lazy)
  BY <1>1, ToldGrows DEF MeshInv
<1> QED BY <1>2 DEF MeshInv, TreeGood

\* The tree handles a call, and keeps the peers it has.
LEMMA TreeCall ==
  ASSUME MeshInv, UNCHANGED view, NEW p \in Node,
         \/ SamePeers(tree, tree')
         \/ MadeLazy(tree, tree', p)
         \/ MadeEager(tree, tree', p)
  PROVE  TreeGood' /\ GoodView(Self, view') /\ Told(view', tree'.eager \cup tree'.lazy)
<1>1. TreeGood'
  BY DEF MeshInv, TreeGood, SamePeers, MadeLazy, MadeEager
<1>2. tree.eager \cup tree.lazy \subseteq tree'.eager \cup tree'.lazy
  BY DEF SamePeers, MadeLazy, MadeEager
<1>3. Told(view, tree'.eager \cup tree'.lazy)
  BY <1>2, ToldMore DEF MeshInv
<1> QED BY <1>1, <1>3 DEF MeshInv

\* The calls of peers, of the swarm and of the application.
LEMMA CallKeeps ==
  ASSUME MeshInv, Call
  PROVE  MeshInv'
<1>1. GoodView(Self, view) /\ TreeGood /\ IsTree(tree) /\ Self \in Node
  BY MeshAssumption DEF MeshInv, TreeGood
<1>2. inputs' \in 0 .. MaxInputs /\ UNCHANGED <<met, asked, ticks>>
  BY MeshAssumption DEF Call, MeshInv
<1>3. ASSUME NEW p \in Peers, MembershipRpc(p)
      PROVE  GoodView(Self, view') /\ TreeGood' /\ Told(view', tree'.eager \cup tree'.lazy)
  <2>1. PICK m \in MembershipCalls(p) : view' \in Dispatch(Self, view, p, m)
    BY <1>3 DEF MembershipRpc
  <2>2. m \in LowMessage /\ p \in Node
    BY CallsLow DEF Peers
  <2>3. GoodView(Self, view') /\ Grows(view, view', {p})
    BY <1>1, <2>1, <2>2, DispatchGood, DispatchGrows
  <2>4. UNCHANGED tree
    BY <1>3 DEF MembershipRpc
  <2> QED BY <2>3, <2>4, ViewCall
<1>4. ASSUME NEW p \in Peers, TreeRpc(p)
      PROVE  GoodView(Self, view') /\ TreeGood' /\ Told(view', tree'.eager \cup tree'.lazy)
  <2>1. \/ SamePeers(tree, tree')
        \/ MadeLazy(tree, tree', p)
        \/ MadeEager(tree, tree', p)
    BY <1>1, <1>4, MessageMoves, IHaveSame, PruneMoves, GraftMoves DEF TreeRpc
  <2>2. p \in Node /\ UNCHANGED view
    BY <1>4 DEF Peers, TreeRpc
  <2> QED BY <2>1, <2>2, TreeCall
<1>5. ASSUME NEW p \in Peers, MeshInitiateJoin(p)
      PROVE  GoodView(Self, view') /\ TreeGood' /\ Told(view', tree'.eager \cup tree'.lazy)
  <2>1. p \in Node /\ view' = InitiateJoin(Self, view, p) /\ UNCHANGED tree
    BY <1>5 DEF Peers, MeshInitiateJoin
  <2>2. Join(Self, WalkLength) \in LowMessage
    BY <1>1, Constructors, WalkLengthAssumption DEF Ttl
  <2>3. GoodView(Self, view') /\ Grows(view, view', {})
    BY <1>1, <2>1, <2>2, InitiateJoinGood, SendGrows DEF InitiateJoin
  <2> QED BY <2>1, <2>3, ViewCall
<1>6. ASSUME NEW p \in Peers, NEW alive \in BOOLEAN, Disconnected(p, alive)
      PROVE  GoodView(Self, view') /\ TreeGood' /\ Told(view', tree'.eager \cup tree'.lazy)
  <2>1. p \in Node /\ view' \in InjectDisconnect(Self, view, p, alive) /\ UNCHANGED tree
    BY <1>6 DEF Peers, Disconnected
  <2>2. GoodView(Self, view') /\ Grows(view, view', {})
    BY <1>1, <2>1, InjectDisconnectGood, InjectDisconnectGrows
  <2> QED BY <2>1, <2>2, ViewCall
<1>7. ASSUME NEW id \in Id, MeshPublish(id)
      PROVE  GoodView(Self, view') /\ TreeGood' /\ Told(view', tree'.eager \cup tree'.lazy)
  <2>1. SamePeers(tree, tree') /\ UNCHANGED view
    BY <1>1, <1>7, PublishSame DEF MeshPublish
  <2> QED BY <1>1, <2>1, TreeCall
<1>8. GoodView(Self, view') /\ TreeGood' /\ Told(view', tree'.eager \cup tree'.lazy)
  BY <1>3, <1>4, <1>5, <1>6, <1>7 DEF Call
<1> QED BY <1>2, <1>8 DEF MeshInv

\* An event of the view leaves its queue, and the tree hears of it.
LEMMA PollViewKeeps ==
  ASSUME MeshInv, NEW v, GoodView(Self, v), Told(v, tree.eager \cup tree.lazy), PollView(v)
  PROVE  /\ GoodView(Self, view') /\ TreeGood' /\ asked' \in BOOLEAN
         /\ Told(view', tree'.eager \cup tree'.lazy)
<1> DEFINE e == Head(v.out)
           E == tree.eager \cup tree.lazy
<1>1. Self \in Node /\ IsTree(tree) /\ tree.eager \subseteq Node /\ tree.lazy \subseteq Node
  BY MeshAssumption DEF MeshInv, TreeGood
<1>2. v.out # << >> /\ tree' = Bubble(e)
  BY DEF PollView
<1>3. e \in LowEvent
  BY <1>1, <1>2, PopGood
<1>4. asked' \in BOOLEAN
  BY DEF PollView, MeshInv
<1>5. v \in LowView
  BY DEF GoodView
<1>6. Pop(v).out = Tail(v.out) /\ Pop(v).active = v.active /\ GoodView(Self, Pop(v))
  BY <1>1, <1>2, <1>5, PopGood DEF Pop, LowView
<1>7. CASE e.type = "NotifyHandler"
  <2>1. PICK p : view' = PopFor(v, p)
    BY <1>7 DEF PollView
  <2>2. tree' = tree
    BY <1>2, <1>7 DEF Bubble
  <2>3. GoodView(Self, view') /\ Told(view', E)
    BY <1>1, <1>2, <1>7, <2>1, PopForGood, ToldPopFor
  <2> QED BY <1>4, <2>2, <2>3 DEF MeshInv, TreeGood
<1>8. CASE e.type = "PeerAdded"
  <2>1. view' = Pop(v) /\ tree' = InjectNeighborUp(tree, e.peer)
    BY <1>2, <1>8 DEF PollView, Bubble
  <2>2. e.peer \in Node
    BY <1>3, <1>8 DEF LowEvent, Event
  <2>3. HasPeers(tree', tree.eager \cup {e.peer}, tree.lazy)
    BY <1>1, <2>1, NeighborMoves
  <2>4. TreeGood'
    BY <1>1, <2>2, <2>3 DEF HasPeers, TreeGood
  <2>5. \A p : (e = PeerAdded(p) => p = e.peer)
    BY DEF PeerAdded
  <2> HIDE DEF e
  <2>6. Told(Pop(v), tree'.eager \cup tree'.lazy)
    <3>1. \A p \in E : p \in tree'.eager \cup tree'.lazy
      BY <2>3 DEF HasPeers
    <3>2. \A p : Head(v.out) = PeerAdded(p) => p \in tree'.eager \cup tree'.lazy
      BY <2>3, <2>5 DEF HasPeers, e
    <3> QED BY <1>1, <1>2, <1>6, <3>1, <3>2, ToldPop
  <2> QED BY <1>4, <1>6, <2>1, <2>4, <2>6
<1>9. CASE e.type = "PeerRemoved"
  <2>1. view' = Pop(v) /\ tree' = InjectNeighborDown(tree, e.peer)
    BY <1>2, <1>9 DEF PollView, Bubble
  <2>2. e = PeerRemoved(e.peer)
    BY <1>3, <1>9 DEF LowEvent, Event, PeerRemoved
  <2>3. HasPeers(tree', tree.eager \ {e.peer}, tree.lazy \ {e.peer})
    BY <1>1, <2>1, NeighborMoves
  <2>4. TreeGood'
    BY <1>1, <2>3 DEF HasPeers, TreeGood
  <2>5. \A p : e # PeerAdded(p)
    BY <2>2, Apart
  <2> HIDE DEF e
  <2>6. Told(Pop(v), tree'.eager \cup tree'.lazy)
    <3>1. \A p \in E : p \in tree'.eager \cup tree'.lazy \/ Head(v.out) = PeerRemoved(p)
      BY <2>2, <2>3 DEF HasPeers, e
    <3>2. \A p : Head(v.out) # PeerAdded(p)
      BY <2>5 DEF e
    <3> QED BY <1>1, <1>2, <1>6, <3>1, <3>2, ToldPop
  <2> QED BY <1>4, <1>6, <2>1, <2>4, <2>6
<1>10. CASE e.type = "Dial"
  <2>1. view' = Pop(v) /\ tree' = tree
    BY <1>2, <1>10 DEF PollView, Bubble
  <2>2. \A p : Head(v.out) # PeerAdded(p)
    BY <1>10 DEF PeerAdded
  <2>3. Told(Pop(v), E)
    BY <1>1, <1>2, <1>6, <2>2, ToldPop
  <2> QED BY <1>4, <1>6, <2>1, <2>3 DEF MeshInv, TreeGood
<1>11. e.type \in {"NotifyHandler", "PeerAdded", "PeerRemoved", "Dial"}
  BY <1>3 DEF LowEvent, Event
<1> QED BY <1>7, <1>8, <1>9, <1>10, <1>11

\* The tree's turn.
LEMMA PollTreeKeeps ==
  ASSUME MeshInv, NEW v, GoodView(Self, v), Told(v, tree.eager \cup tree.lazy),
         NEW t, SamePeers(tree, t), PollTree(v, t)
  PROVE  /\ GoodView(Self, view') /\ TreeGood' /\ asked' \in BOOLEAN
         /\ Told(view', tree'.eager \cup tree'.lazy)
<1>1. view' = v /\ asked' = asked
  BY DEF PollTree
<1>2. SamePeers(tree, tree')
  <2>1. tree' = t \/ \E x : tree' = [t EXCEPT !.out = x]
    BY DEF PollTree
  <2>2. \A x : SamePeers(t, [t EXCEPT !.out = x])
    BY Others DEF SamePeers
  <2> QED BY <2>1, <2>2, SameTwice
<1> QED BY <1>1, <1>2 DEF MeshInv, TreeGood, SamePeers

\* poll(), with the timers that have fired.
LEMMA PollKeeps ==
  ASSUME MeshInv, NEW fired \in BOOLEAN, Poll(fired)
  PROVE  MeshInv'
<1> DEFINE E == tree.eager \cup tree.lazy
<1>1. /\ Self \in Node /\ IsTree(tree) /\ GoodView(Self, view) /\ Told(view, E)
      /\ ticks \in 0 .. MaxTicks /\ MaxTicks \in Nat
  BY MeshAssumption DEF MeshInv, TreeGood
<1>2. ticks' \in 0 .. MaxTicks /\ inputs' = inputs /\ met' = met \cup tree'.eager
  BY <1>1 DEF Poll
<1>3. PICK u \in IF fired THEN {view} \cup ShuffleTimer(Self, view) ELSE {view} :
         \E v \in IF fired THEN {u} \cup TickTimer(Self, u) ELSE {u} :
           \/ PollView(v)
           \/ \E t \in IF fired THEN {tree} \cup TreeTick(tree, Now) ELSE {tree} :
                PollTree(v, t)
  BY DEF Poll
<1>4. PICK v \in IF fired THEN {u} \cup TickTimer(Self, u) ELSE {u} :
         \/ PollView(v)
         \/ \E t \in IF fired THEN {tree} \cup TreeTick(tree, Now) ELSE {tree} :
              PollTree(v, t)
  BY <1>3
<1>5. GoodView(Self, u) /\ Told(u, E)
  <2>1. u = view \/ u \in ShuffleTimer(Self, view)
    BY <1>3
  <2>2. CASE u \in ShuffleTimer(Self, view)
    <3>1. GoodView(Self, u) /\ Grows(view, u, {})
      BY <1>1, <2>2, ShuffleTimerGood, ShuffleTimerGrows
    <3> HIDE DEF E
    <3> QED BY <1>1, <3>1, ToldGrows
  <2> QED BY <1>1, <2>1, <2>2
<1>6. GoodView(Self, v) /\ Told(v, E)
  <2>1. v = u \/ v \in TickTimer(Self, u)
    BY <1>4
  <2>2. CASE v \in TickTimer(Self, u)
    <3>1. GoodView(Self, v) /\ Grows(u, v, {})
      BY <1>1, <1>5, <2>2, TickTimerGood, TickTimerGrows
    <3> HIDE DEF E
    <3> QED BY <1>1, <1>5, <3>1, ToldGrows
  <2> QED BY <1>5, <2>1, <2>2
<1>7. /\ GoodView(Self, view') /\ TreeGood' /\ asked' \in BOOLEAN
      /\ Told(view', tree'.eager \cup tree'.lazy)
  <2>1. CASE PollView(v)
    BY <1>6, <2>1, PollViewKeeps
  <2>2. ASSUME NEW t \in IF fired THEN {tree} \cup TreeTick(tree, Now) ELSE {tree},
               PollTree(v, t)
        PROVE  /\ GoodView(Self, view') /\ TreeGood' /\ asked' \in BOOLEAN
               /\ Told(view', tree'.eager \cup tree'.lazy)
    <3>1. t = tree \/ t \in TreeTick(tree, Now)
      BY <2>2
    <3>2. SamePeers(tree, tree)
      BY <1>1 DEF SamePeers
    <3>3. SamePeers(tree, t)
      BY <1>1, <3>1, <3>2, TickSame
    <3> QED BY <1>6, <2>2, <3>3, PollTreeKeeps
  <2> QED BY <1>4, <2>1, <2>2
<1>8. met' \subseteq Node
  BY <1>2, <1>7 DEF MeshInv, TreeGood
<1> QED BY <1>2, <1>7, <1>8 DEF MeshInv

\* The empty mesh.
LEMMA InitMesh == Init => MeshInv
<1> SUFFICES ASSUME Init PROVE MeshInv
  OBVIOUS
<1>1. GoodView(Self, view)
  <2>1. EmptyView \in LowView
    BY DEF EmptyView, LowView
  <2>2. Cardinality({}) = 0
    BY FS_EmptySet
  <2> QED BY <2>1, <2>2, Limits DEF Init, GoodView, EmptyView
<1>2. TreeGood
  BY DEF Init, EmptyTree, TreeGood, IsTree
<1>3. Told(view, tree.eager \cup tree.lazy)
  BY DEF Init, EmptyView, Told
<1>4. met \subseteq Node /\ inputs \in 0 .. MaxInputs /\ ticks \in 0 .. MaxTicks
  BY MeshAssumption DEF Init
<1>5. asked \in BOOLEAN
  BY Zenon DEF Init
<1> QED BY <1>1, <1>2, <1>3, <1>4, <1>5 DEF MeshInv

\* The inductive invariant holds in every reachable state.
THEOREM MeshInvariant == Spec => []MeshInv
<1>1. MeshInv /\ [Next]_vars => MeshInv'
  <2> SUFFICES ASSUME MeshInv, [Next]_vars PROVE MeshInv'
    OBVIOUS
  <2>1. CASE Call
    BY <2>1, CallKeeps
  <2>2. ASSUME NEW fired \in BOOLEAN, Poll(fired) PROVE MeshInv'
    BY <2>2, PollKeeps
  <2>3. CASE UNCHANGED vars
    BY <2>3 DEF vars, MeshInv, TreeGood
  <2> QED BY <2>1, <2>2, <2>3 DEF Next
<1> QED BY <1>1, InitMesh, PTL DEF Spec

\* The view holds events of the protocol and both layers hold peers, whatever
\* peers send in whatever order (topic.rs, view.rs, tree.rs).
THEOREM MeshTypes == Spec => []TypeOK
<1>1. MeshInv => TypeOK
  <2> SUFFICES ASSUME MeshInv PROVE TypeOK
    OBVIOUS
  <2>1. view \in LowView
    BY DEF MeshInv, GoodView
  <2>2. \A s \in Seq(LowEvent) : s \in Seq(Event)
    BY DEF LowEvent
  <2>3. view \in View
    BY <2>1, <2>2 DEF LowView, View
  <2> QED BY <2>3 DEF MeshInv, TreeGood, TypeOK
<1> QED BY <1>1, MeshInvariant, PTL

\* No passive view grows past max_passive_view_size() (view.rs 431-435,
\* 492-497).
THEOREM MeshPassiveBounded == Spec => []PassiveBound
<1>1. MeshInv => PassiveBound
  BY DEF MeshInv, GoodView, PassiveBound
<1> QED BY <1>1, MeshInvariant, PTL

\* Every active peer is served by the tree as soon as the tree has heard the
\* last event about it (topic.rs 170-187, tree.rs 54-62).
THEOREM MeshActiveInTree == Spec => []ActiveInTree
<1>1. MeshInv => ActiveInTree
  <2> SUFFICES ASSUME MeshInv, NEW p \in view.active
               PROVE  IF Pending(p) = {} THEN p \in tree.eager \cup tree.lazy
                      ELSE \E i \in Pending(p) : /\ view.out[i] = PeerAdded(p)
                                                 /\ \A j \in Pending(p) : j =< i
    BY DEF ActiveInTree
  <2> DEFINE a == Len(view.out)
  <2>1. a \in Nat /\ DOMAIN view.out = 1 .. a
    BY MeshAssumption, GoodFields DEF MeshInv
  <2>2. \A i : i \in Pending(p) <=> i \in 1 .. a /\ About(view.out[i], p)
    BY <2>1 DEF Pending, About
  <2>3. \/ p \in tree.eager \cup tree.lazy /\ \A i \in 1 .. a : ~About(view.out[i], p)
        \/ \E i \in 1 .. a : /\ view.out[i] = PeerAdded(p)
                             /\ \A j \in i + 1 .. a : ~About(view.out[j], p)
    BY DEF MeshInv, Told
  <2> HIDE DEF a
  <2>4. CASE p \in tree.eager \cup tree.lazy /\ \A i \in 1 .. a : ~About(view.out[i], p)
    <3>1. Pending(p) = {}
      BY <2>2, <2>4
    <3> QED BY <2>4, <3>1
  <2>5. CASE \E i \in 1 .. a : /\ view.out[i] = PeerAdded(p)
                               /\ \A j \in i + 1 .. a : ~About(view.out[j], p)
    <3>1. PICK i \in 1 .. a : /\ view.out[i] = PeerAdded(p)
                              /\ \A j \in i + 1 .. a : ~About(view.out[j], p)
      BY <2>5
    <3>2. i \in Pending(p)
      BY <2>2, <3>1 DEF About
    <3>3. \A j \in 1 .. a : j =< i \/ j \in i + 1 .. a
      BY <2>1
    <3>4. \A j \in Pending(p) : j =< i
      BY <2>2, <3>1, <3>3
    <3> QED BY <3>1, <3>2, <3>4
  <2> QED BY <2>3, <2>4, <2>5
<1> QED BY <1>1, MeshInvariant, PTL
=============================================================================
