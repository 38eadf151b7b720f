---------------------------- MODULE OverlayProofs ----------------------------
(***************************************************************************)
(* The overlay keeps its types and the limits of every view, for any       *)
(* number of nodes, any limits, any bootstrap graph and any bounds.        *)
(*                                                                         *)
(* The limit of the active view is not inductive by itself: a NEIGHBOR of  *)
(* high priority is admitted into a full view.  The invariant therefore    *)
(* says as well that no such message is queued at a node or under way on a *)
(* connection.                                                             *)
(***************************************************************************)
EXTENDS Overlay, HyParViewProofs

OverlayInv ==
  /\ view \in [Node -> LowView]
  /\ \A n \in Node : GoodView(n, view[n])
  /\ link \in [Link -> LinkState]
  /\ net \in [Link -> [Node -> Seq(LowMessage)]]
  /\ closed \in [Node -> [Node -> Nat]]
  /\ budget \in Budget

\* The two parts a step can change separately.
ViewsGood(w) == w \in [Node -> LowView] /\ \A n \in Node : GoodView(n, w[n])
WiresGood ==
  /\ link \in [Link -> LinkState]
  /\ net \in [Link -> [Node -> Seq(LowMessage)]]
  /\ closed \in [Node -> [Node -> Nat]]
  /\ budget \in Budget

\* The invariant is the conjunction of the two.
LEMMA Parts == OverlayInv <=> ViewsGood(view) /\ WiresGood
BY DEF OverlayInv, ViewsGood, WiresGood

\* One node's view is replaced by a good one.
LEMMA ReplaceView ==
  ASSUME NEW w, ViewsGood(w), NEW n \in Node, NEW v, GoodView(n, v)
  PROVE  ViewsGood([w EXCEPT ![n] = v])
<1>1. v \in LowView
  BY DEF GoodView
<1> QED BY <1>1 DEF ViewsGood

\* The ends of a connection are nodes.
LEMMA Ends ==
  ASSUME NEW l \in Link
  PROVE  l.dialer \in Node /\ l.listener \in Node
BY DEF Link

\* Bounded events spend the budget and never overdraw it.
LEMMA Spend ==
  ASSUME NEW b \in Budget
  PROVE  /\ b.closes > 0 => [b EXCEPT !.closes = @ - 1] \in Budget
         /\ b.failures > 0 => [b EXCEPT !.failures = @ - 1] \in Budget
         /\ \A s, t \in BOOLEAN : (s => b.shuffles > 0) /\ (t => b.ticks > 0) =>
              [b EXCEPT !.shuffles = IF s THEN @ - 1 ELSE @,
                        !.ticks = IF t THEN @ - 1 ELSE @] \in Budget
<1>1. /\ b.closes \in Nat /\ b.failures \in Nat
      /\ b.shuffles \in Nat /\ b.ticks \in Nat
  BY DEF Budget
<1>2. /\ b.closes > 0 => b.closes - 1 \in Nat
      /\ b.failures > 0 => b.failures - 1 \in Nat
      /\ b.shuffles > 0 => b.shuffles - 1 \in Nat
      /\ b.ticks > 0 => b.ticks - 1 \in Nat
  BY <1>1
<1>3. \A x \in Nat : [b EXCEPT !.closes = x] \in Budget
                     /\ [b EXCEPT !.failures = x] \in Budget
  BY DEF Budget
<1>4. \A x, y \in Nat : [b EXCEPT !.shuffles = x, !.ticks = y] \in Budget
  BY DEF Budget
<1> QED BY <1>1, <1>2, <1>3, <1>4

\* Empty views and silent connections satisfy the invariant.
LEMMA InitGood == Init => OverlayInv
<1> SUFFICES ASSUME Init PROVE OverlayInv
  OBVIOUS
<1>1. EmptyView \in LowView
  BY DEF EmptyView, LowView
<1>2. Cardinality({}) = 0
  BY FS_EmptySet
<1>3. \A n \in Node : GoodView(n, EmptyView)
  BY <1>1, <1>2, Limits DEF GoodView, EmptyView
<1>4. ViewsGood(view)
  BY <1>1, <1>3 DEF Init, ViewsGood
<1>5. WiresGood
  BY BoundsAssumption DEF Init, WiresGood, LinkState, Budget
<1> QED BY <1>4, <1>5, Parts

\* A connection that comes up at most queues a JOIN.
LEMMA EstablishedGood ==
  ASSUME OverlayInv, NEW l \in Link, Established(l)
  PROVE  OverlayInv'
<1>1. ViewsGood(view) /\ WiresGood
  BY Parts
<1> DEFINE n == l.dialer
           p == l.listener
           v == IF Starved(view[n]) /\ p \notin view[n].active
                THEN InitiateJoin(n, view[n], p) ELSE view[n]
<1>2. n \in Node /\ p \in Node
  BY Ends
<1>3. GoodView(n, view[n])
  BY <1>1, <1>2 DEF ViewsGood
<1>4. GoodView(n, v)
  <2> HIDE DEF n, p
  <2> QED BY <1>2, <1>3, InitiateJoinGood
<1>5. view' = [view EXCEPT ![n] = v]
  BY DEF Established
<1>6. ViewsGood(view')
  <2> HIDE DEF v, n
  <2> QED BY <1>1, <1>2, <1>4, <1>5, ReplaceView
<1>7. WiresGood'
  BY <1>1 DEF Established, WiresGood, LinkState
<1> QED BY <1>6, <1>7 DEF OverlayInv, ViewsGood, WiresGood

\* A dial that fails removes its peer from the views.
LEMMA DialFailureGood ==
  ASSUME OverlayInv, NEW l \in Link, DialFailure(l)
  PROVE  OverlayInv'
<1>1. ViewsGood(view) /\ WiresGood
  BY Parts
<1>2. l.dialer \in Node /\ l.listener \in Node
  BY Ends
<1>3. GoodView(l.dialer, view[l.dialer])
  BY <1>1, <1>2 DEF ViewsGood
<1>4. PICK v \in IF l.kind = "bootstrap" THEN {view[l.dialer]}
                 ELSE InjectDisconnect(l.dialer, view[l.dialer], l.listener,
                                       FALSE) :
        view' = [view EXCEPT ![l.dialer] = v]
  BY DEF DialFailure
<1>5. GoodView(l.dialer, v)
  BY <1>2, <1>3, <1>4, InjectDisconnectGood
<1>6. ViewsGood(view')
  BY <1>1, <1>2, <1>4, <1>5, ReplaceView
<1>7. budget' \in Budget
  BY <1>1, Spend DEF DialFailure, WiresGood
<1>8. WiresGood'
  BY <1>1, <1>7 DEF DialFailure, WiresGood, LinkState
<1> QED BY <1>6, <1>8 DEF OverlayInv, ViewsGood, WiresGood

\* A connection that closes takes its messages with it.
LEMMA DropGood ==
  ASSUME OverlayInv, NEW l \in Link, Drop(l), budget' \in Budget
  PROVE  OverlayInv'
<1>1. ViewsGood(view) /\ WiresGood
  BY Parts
<1>2. l.dialer \in Node /\ l.listener \in Node
  BY Ends
<1>4. link' \in [Link -> LinkState]
  BY <1>1 DEF Drop, WiresGood, LinkState
<1>5. net' \in [Link -> [Node -> Seq(LowMessage)]]
  <2>1. [s \in Node |-> << >>] \in [Node -> Seq(LowMessage)]
    OBVIOUS
  <2> QED BY <1>1, <2>1 DEF Drop, WiresGood
<1>6. closed' \in [Node -> [Node -> Nat]]
  BY <1>1 DEF Drop, WiresGood
<1>7. WiresGood'
  BY <1>4, <1>5, <1>6 DEF WiresGood
<1>8. view' = view
  BY DEF Drop
<1> QED BY <1>1, <1>7, <1>8 DEF OverlayInv, ViewsGood, WiresGood

\* A notice of a closed connection moves the peer to the passive view.
LEMMA ConnectionClosedGood ==
  ASSUME OverlayInv, NEW n \in Node, NEW p \in Node, ConnectionClosed(n, p)
  PROVE  OverlayInv'
<1>1. ViewsGood(view) /\ WiresGood
  BY Parts
<1>2. GoodView(n, view[n])
  BY <1>1 DEF ViewsGood
<1>3. PICK v \in InjectDisconnect(n, view[n], p, TRUE) :
        view' = [view EXCEPT ![n] = v]
  BY DEF ConnectionClosed
<1>4. GoodView(n, v)
  BY <1>2, <1>3, InjectDisconnectGood
<1>5. ViewsGood(view')
  BY <1>1, <1>3, <1>4, ReplaceView
<1>6. closed' \in [Node -> [Node -> Nat]]
  BY <1>1 DEF ConnectionClosed, WiresGood
<1>7. WiresGood'
  BY <1>1, <1>6 DEF ConnectionClosed, WiresGood
<1> QED BY <1>5, <1>7 DEF OverlayInv, ViewsGood, WiresGood

\* A delivered message is low, so its handler keeps the view good.
LEMMA DeliverGood ==
  ASSUME OverlayInv, NEW l \in Link, NEW s \in Node, Deliver(l, s)
  PROVE  OverlayInv'
<1>1. ViewsGood(view) /\ WiresGood
  BY Parts
<1> DEFINE n == Other(l, s)
           m == Head(net[l][s])
<1>2. n \in Node
  BY Ends DEF Other
<1>3. GoodView(n, view[n])
  BY <1>1, <1>2 DEF ViewsGood
<1>4. net[l][s] \in Seq(LowMessage) /\ net[l][s] # << >>
  BY <1>1 DEF WiresGood, Deliver
<1>5. m \in LowMessage /\ Tail(net[l][s]) \in Seq(LowMessage)
  BY <1>4
<1>6. PICK v \in Dispatch(n, view[n], s, m) : view' = [view EXCEPT ![n] = v]
  BY DEF Deliver
<1> HIDE DEF n, m
<1>7. GoodView(n, v)
  BY <1>2, <1>3, <1>5, <1>6, DispatchGood
<1>8. ViewsGood(view')
  BY <1>1, <1>2, <1>6, <1>7, ReplaceView
<1>9. WiresGood'
  BY <1>1, <1>5 DEF Deliver, WiresGood
<1> QED BY <1>8, <1>9 DEF OverlayInv, ViewsGood, WiresGood

\* One poll: each of the three kinds of events leaves the queue.
LEMMA EmitGood ==
  ASSUME OverlayInv, NEW n \in Node, NEW v, GoodView(n, v), v.out # << >>,
         EmitDial(n, v) \/ EmitPeerChange(n, v) \/ EmitMessage(n, v),
         budget' \in Budget, UNCHANGED closed
  PROVE  OverlayInv'
<1>1. ViewsGood(view) /\ WiresGood
  BY Parts
<1>2. GoodView(n, Pop(v)) /\ Head(v.out) \in LowEvent
  BY PopGood
<1>3. CASE EmitDial(n, v)
  <2>1. ViewsGood(view')
    BY <1>1, <1>2, <1>3, ReplaceView DEF EmitDial
  <2>2. link' \in [Link -> LinkState]
    BY <1>1, <1>3 DEF EmitDial, WiresGood, LinkState
  <2>3. WiresGood'
    BY <1>1, <1>3, <2>2 DEF EmitDial, WiresGood
  <2> QED BY <2>1, <2>3 DEF OverlayInv, ViewsGood, WiresGood
<1>4. CASE EmitPeerChange(n, v)
  <2>1. ViewsGood(view')
    BY <1>1, <1>2, <1>4, ReplaceView DEF EmitPeerChange
  <2>2. WiresGood'
    BY <1>1, <1>4 DEF EmitPeerChange, WiresGood
  <2> QED BY <2>1, <2>2 DEF OverlayInv, ViewsGood, WiresGood
<1>5. CASE EmitMessage(n, v)
  <2> DEFINE e == Head(v.out)
  <2>1. e.type = "NotifyHandler"
    BY <1>5 DEF EmitMessage
  <2>2. e.msg \in LowMessage
    BY <1>2, <2>1, NotifiedPeers
  <2>3. PICK p \in e.to : view' = [view EXCEPT ![n] = PopFor(v, p)]
    BY <1>5 DEF EmitMessage, DropMessage
  <2>4. ViewsGood(view')
    BY <1>1, <2>1, <2>3, PopForGood, ReplaceView
  <2>5. \/ UNCHANGED <<link, net>>
        \/ \E l \in Link :
             /\ net' = [net EXCEPT ![l][n] = Append(@, e.msg)]
             /\ link' \in {link, [link EXCEPT ![l] =
                             IF l.kind = "temporary" /\ l.dialer = n
                             THEN "raised" ELSE @]}
    BY <1>5 DEF EmitMessage, Links
  <2> HIDE DEF e
  <2>6. /\ link' \in [Link -> LinkState]
        /\ net' \in [Link -> [Node -> Seq(LowMessage)]]
    <3>1. CASE UNCHANGED <<link, net>>
      BY <1>1, <3>1 DEF WiresGood
    <3>2. ASSUME NEW l \in Link,
                 net' = [net EXCEPT ![l][n] = Append(@, e.msg)],
                 link' \in {link, [link EXCEPT ![l] =
                             IF l.kind = "temporary" /\ l.dialer = n
                             THEN "raised" ELSE @]}
          PROVE  /\ link' \in [Link -> LinkState]
                 /\ net' \in [Link -> [Node -> Seq(LowMessage)]]
      <4>1. link' \in [Link -> LinkState]
        BY <1>1, <3>2 DEF WiresGood, LinkState
      <4>2. net[l] \in [Node -> Seq(LowMessage)]
        BY <1>1 DEF WiresGood
      <4>3. Append(net[l][n], e.msg) \in Seq(LowMessage)
        BY <2>2, <4>2
      <4>4. [net[l] EXCEPT ![n] = Append(@, e.msg)]
              \in [Node -> Seq(LowMessage)]
        BY <4>2, <4>3
      <4>5. net' = [net EXCEPT ![l] = [net[l] EXCEPT ![n] = Append(@, e.msg)]]
        BY <1>1, <3>2 DEF WiresGood
      <4>6. net' \in [Link -> [Node -> Seq(LowMessage)]]
        BY <1>1, <4>4, <4>5 DEF WiresGood
      <4> QED BY <4>1, <4>6
    <3> QED BY <2>5, <3>1, <3>2
  <2>7. WiresGood'
    BY <1>1, <2>6 DEF WiresGood
  <2> QED BY <2>4, <2>7 DEF OverlayInv, ViewsGood, WiresGood
<1> QED BY <1>3, <1>4, <1>5

\* One poll: the timers, then one event.
LEMMA PollGood ==
  ASSUME OverlayInv, NEW n \in Node, NEW shuffled \in BOOLEAN,
         NEW ticked \in BOOLEAN, Poll(n, shuffled, ticked)
  PROVE  OverlayInv'
<1>1. ViewsGood(view) /\ WiresGood
  BY Parts
<1>2. GoodView(n, view[n])
  BY <1>1 DEF ViewsGood
<1>3. budget' \in Budget /\ UNCHANGED closed
  BY <1>1, Spend DEF Poll, WiresGood
<1>4. PICK u \in IF shuffled THEN ShuffleTimer(n, view[n]) ELSE {view[n]} :
      \E v \in IF ticked THEN TickTimer(n, u) ELSE {u} :
         \/ v.out # << >> /\ (EmitDial(n, v) \/ EmitPeerChange(n, v)
                                             \/ EmitMessage(n, v))
         \/ /\ v.out = << >>
            /\ view' = [view EXCEPT ![n] = v]
            /\ UNCHANGED <<link, net>>
  BY DEF Poll
<1>5. GoodView(n, u)
  BY <1>2, ShuffleTimerGood
<1>6. PICK v \in IF ticked THEN TickTimer(n, u) ELSE {u} :
         \/ v.out # << >> /\ (EmitDial(n, v) \/ EmitPeerChange(n, v)
                                             \/ EmitMessage(n, v))
         \/ /\ v.out = << >>
            /\ view' = [view EXCEPT ![n] = v]
            /\ UNCHANGED <<link, net>>
  BY <1>4
<1>7. GoodView(n, v)
  BY <1>5, TickTimerGood
<1>8. CASE v.out # << >> /\ (EmitDial(n, v) \/ EmitPeerChange(n, v)
                                           \/ EmitMessage(n, v))
  BY <1>3, <1>7, <1>8, EmitGood
<1>9. CASE view' = [view EXCEPT ![n] = v] /\ UNCHANGED <<link, net>>
  <2>1. ViewsGood(view')
    BY <1>1, <1>7, <1>9, ReplaceView
  <2>2. WiresGood'
    BY <1>1, <1>3, <1>9 DEF WiresGood
  <2> QED BY <2>1, <2>2 DEF OverlayInv, ViewsGood, WiresGood
<1> QED BY <1>6, <1>8, <1>9

-----------------------------------------------------------------------------

\* Every step keeps the invariant.
LEMMA NextGood ==
  ASSUME OverlayInv, [Next]_vars
  PROVE  OverlayInv'
<1>1. ASSUME NEW l \in Link, Established(l) PROVE OverlayInv'
  BY <1>1, EstablishedGood
<1>2. ASSUME NEW l \in Link, DialFailure(l) PROVE OverlayInv'
  BY <1>2, DialFailureGood
<1>3. ASSUME NEW l \in Link, ConnectionLost(l) PROVE OverlayInv'
  <2>1. budget' \in Budget
    BY <1>3, Spend DEF ConnectionLost, OverlayInv
  <2> QED BY <1>3, <2>1, DropGood DEF ConnectionLost
<1>4. ASSUME NEW l \in Link, KeepAliveExpired(l) PROVE OverlayInv'
  <2>1. budget' \in Budget
    BY <1>4 DEF KeepAliveExpired, OverlayInv
  <2> QED BY <1>4, <2>1, DropGood DEF KeepAliveExpired
<1>5. ASSUME NEW n \in Node, NEW p \in Node, ConnectionClosed(n, p)
      PROVE  OverlayInv'
  BY <1>5, ConnectionClosedGood
<1>6. ASSUME NEW l \in Link, NEW s \in Node, Deliver(l, s) PROVE OverlayInv'
  BY <1>6, DeliverGood
<1>7. ASSUME NEW n \in Node, NEW shuffled \in BOOLEAN, NEW ticked \in BOOLEAN,
             Poll(n, shuffled, ticked)
      PROVE  OverlayInv'
  BY <1>7, PollGood
<1>8. CASE UNCHANGED vars
  BY <1>8 DEF vars, OverlayInv
<1> QED BY <1>1, <1>2, <1>3, <1>4, <1>5, <1>6, <1>7, <1>8 DEF Next

\* The inductive invariant holds in every reachable state.
THEOREM OverlayInvariant == Spec => []OverlayInv
<1>1. Init => OverlayInv
  BY InitGood
<1>2. OverlayInv /\ [Next]_vars => OverlayInv'
  BY NextGood
<1> QED BY <1>1, <1>2, PTL DEF Spec

\* Every queue holds events and every connection messages of the protocol,
\* with times to live within the walk length (view.rs, topic.rs).
THEOREM TypeCorrect == Spec => []TypeOK
<1>1. OverlayInv => TypeOK
  <2> SUFFICES ASSUME OverlayInv PROVE TypeOK
    OBVIOUS
  <2>1. \A s \in Seq(LowEvent) : s \in Seq(Event)
    BY DEF LowEvent
  <2>2. \A s \in Seq(LowMessage) : s \in Seq(Message)
    BY DEF LowMessage
  <2>3. \A v \in LowView : v \in View
    BY <2>1 DEF LowView, View
  <2>4. view \in [Node -> View]
    BY <2>3 DEF OverlayInv
  <2>5. net \in [Link -> [Node -> Seq(Message)]]
    BY <2>2 DEF OverlayInv
  <2> QED BY <2>4, <2>5 DEF OverlayInv, TypeOK
<1> QED BY <1>1, OverlayInvariant, PTL

\* No active view grows past max_active_view_size(), for any limit of at
\* least two (view.rs 190-298, 413-417).
THEOREM ActiveBounded == Spec => []ActiveBound
<1>1. OverlayInv => ActiveBound
  BY DEF OverlayInv, GoodView, ActiveBound
<1> QED BY <1>1, OverlayInvariant, PTL

\* No passive view grows past max_passive_view_size() (view.rs 421-436,
\* 488-500).
THEOREM PassiveBounded == Spec => []PassiveBound
<1>1. OverlayInv => PassiveBound
  BY DEF OverlayInv, GoodView, PassiveBound
<1> QED BY <1>1, OverlayInvariant, PTL

\* No node becomes its own neighbour (view.rs 445-447).
THEOREM NeverOwnNeighbour == Spec => []NotOwnNeighbour
<1>1. OverlayInv => NotOwnNeighbour
  BY DEF OverlayInv, GoodView, NotOwnNeighbour
<1> QED BY <1>1, OverlayInvariant, PTL

-----------------------------------------------------------------------------
(* Active peers are connected, or about to be, or about to be missed.      *)

ActiveDial(n, p) == [dialer |-> n, listener |-> p, kind |-> "active"]

\* The peers that n is connected to, that it dials because they are active,
\* or whose connection it has yet to hear is closed.
Near(n) ==
  {p \in Node : \/ Connected(n, p)
                \/ link[ActiveDial(n, p)] = "dialing"
                \/ closed[n][p] > 0}

\* Each active peer of v is in R, or a dial to it is queued.
Covered(v, R) ==
  \A p \in v.active :
    \/ p \in R
    \/ \E i \in 1 .. Len(v.out) : v.out[i] = Dial(p, FALSE)

AllCovered == \A n \in Node : Covered(view[n], Near(n))

\* Messages are under way on open connections only, from one of their ends.
\* The sender of a NEIGHBOR becomes active without being dialed, on the
\* strength of the connection it was sent on.
OnOpenOnly ==
  \A l \in Link, s \in Node :
    net[l][s] # << >> => IsOpen(l) /\ s \in {l.dialer, l.listener}

ReachInv == AllCovered /\ OnOpenOnly

\* A handler of the view dials whom it makes active, the peers in R aside.
LEMMA CoveredGrows ==
  ASSUME NEW n \in Node, NEW v, GoodView(n, v), NEW w, GoodView(n, w),
         NEW S, Grows(v, w, S), NEW R, S \subseteq R, Covered(v, R)
  PROVE  Covered(w, R)
<1> DEFINE a == Len(v.out)
           b == Len(w.out)
<1>1. a \in Nat /\ b \in Nat
  BY GoodFields
<1>2. b >= a /\ \A i \in 1 .. a : w.out[i] = v.out[i]
  BY DEF Grows
<1> SUFFICES ASSUME NEW p \in w.active
             PROVE  p \in R \/ \E i \in 1 .. b : w.out[i] = Dial(p, FALSE)
  BY DEF Covered
<1>3. p \in v.active \/ p \in S \/ \E i \in a + 1 .. b : w.out[i] = Dial(p, FALSE)
  BY DEF Grows
<1>4. p \in v.active => p \in R \/ \E i \in 1 .. a : v.out[i] = Dial(p, FALSE)
  BY DEF Covered
<1> HIDE DEF a, b
<1>5. (\A i \in 1 .. a : i \in 1 .. b) /\ (\A i \in a + 1 .. b : i \in 1 .. b)
  BY <1>1, <1>2
<1> QED BY <1>2, <1>3, <1>4, <1>5

\* Peers leave R only when they leave the active view.
LEMMA CoveredLess ==
  ASSUME NEW v, NEW R, NEW T, Covered(v, R), \A p \in R : p \in T \/ p \notin v.active
  PROVE  Covered(v, T)
BY DEF Covered

\* The first event leaves the queue; when it is a dial, its peer is in R.
LEMMA CoveredPop ==
  ASSUME NEW n \in Node, NEW v, GoodView(n, v), v.out # << >>, NEW R, Covered(v, R),
         NEW w, w.active = v.active, w.out = Tail(v.out),
         \A p : Head(v.out) = Dial(p, FALSE) => p \in R
  PROVE  Covered(w, R)
<1> DEFINE a == Len(v.out)
           b == Len(w.out)
<1>1. /\ a \in Nat \ {0} /\ b = a - 1 /\ Head(v.out) = v.out[1]
      /\ \A i \in 1 .. b : w.out[i] = v.out[i + 1]
  BY GoodFields
<1> SUFFICES ASSUME NEW p \in v.active
             PROVE  p \in R \/ \E i \in 1 .. b : w.out[i] = Dial(p, FALSE)
  BY DEF Covered
<1>2. p \in R \/ \E i \in 1 .. a : v.out[i] = Dial(p, FALSE)
  BY DEF Covered
<1> HIDE DEF a, b
<1>3. ASSUME NEW i \in 1 .. a, v.out[i] = Dial(p, FALSE)
      PROVE  p \in R \/ \E j \in 1 .. b : w.out[j] = Dial(p, FALSE)
  <2>1. i = 1 \/ (i - 1 \in 1 .. b /\ i - 1 + 1 = i)
    BY <1>1
  <2>2. CASE i = 1
    BY <1>1, <1>3, <2>2
  <2>3. CASE i - 1 \in 1 .. b /\ i - 1 + 1 = i
    <3>1. w.out[i - 1] = Dial(p, FALSE)
      BY <1>1, <1>3, <2>3
    <3> QED BY <2>3, <3>1
  <2> QED BY <2>1, <2>2, <2>3
<1> QED BY <1>2, <1>3

\* One target of a group of messages leaves the queue.
LEMMA CoveredPopFor ==
  ASSUME NEW n \in Node, NEW v, GoodView(n, v), v.out # << >>, NEW R, Covered(v, R),
         Head(v.out).type = "NotifyHandler", NEW q
  PROVE  Covered(PopFor(v, q), R)
<1> DEFINE e == Head(v.out)
           rest == e.to \ {q}
           t == Tail(v.out)
           w == PopFor(v, q)
           a == Len(v.out)
<1>1. v \in LowView /\ v.out \in Seq(LowEvent)
  BY GoodFields DEF GoodView
<1>2. /\ w.out = IF rest = {} THEN t ELSE <<NotifyHandler(rest, e.msg)>> \o t
      /\ w.active = v.active
  BY <1>1 DEF PopFor, LowView
<1>3. \A p : Head(v.out) # Dial(p, FALSE)
  BY DEF Dial
<1>4. CASE rest = {}
  <2>1. w.out = Tail(v.out)
    BY <1>2, <1>4
  <2> HIDE DEF w, e
  <2>2. Covered(w, R)
    BY <1>2, <1>3, <2>1, CoveredPop
  <2> QED BY <2>2 DEF w
<1>5. CASE rest # {}
  <2> DEFINE m == NotifyHandler(rest, e.msg)
  <2>1. w.out = <<m>> \o t
    BY <1>2, <1>5
  <2>2. /\ a \in Nat \ {0} /\ t \in Seq(LowEvent) /\ Len(t) = a - 1
        /\ v.out[1] = Head(v.out)
        /\ \A i \in 1 .. a - 1 : t[i] = v.out[i + 1]
    BY <1>1
  <2> HIDE DEF w, e, m, t, a
  <2>3. Len(w.out) = a /\ \A i \in 2 .. a : w.out[i] = t[i - 1]
    BY <2>1, <2>2
  <2>4. \A i \in 2 .. a : w.out[i] = v.out[i]
    <3>1. \A i \in 2 .. a : i - 1 \in 1 .. a - 1 /\ i - 1 + 1 = i
      BY <2>2
    <3> QED BY <2>2, <2>3, <3>1
  <2>5. \A i \in 1 .. a : i = 1 \/ i \in 2 .. a
    BY <2>2
  <2>6. \A p \in v.active : p \in R \/ \E i \in 1 .. a : v.out[i] = Dial(p, FALSE)
    BY DEF Covered, a
  <2>7. ASSUME NEW p \in v.active, NEW i \in 1 .. a, v.out[i] = Dial(p, FALSE)
        PROVE  w.out[i] = Dial(p, FALSE)
    BY <1>3, <2>2, <2>4, <2>5, <2>7
  <2>8. Covered(w, R)
    BY <1>2, <2>3, <2>6, <2>7 DEF Covered
  <2> QED BY <2>8 DEF w
<1> QED BY <1>4, <1>5

\* No connection is lost and no dial given up.
LEMMA NearMore ==
  ASSUME \A l \in Link : IsOpen(l) => IsOpen(l)',
         \A l \in Link : link[l] = "dialing" => link'[l] = "dialing" \/ IsOpen(l)',
         UNCHANGED closed
  PROVE  \A n \in Node : Near(n) \subseteq Near(n)'
<1> SUFFICES ASSUME NEW n \in Node, NEW p \in Near(n) PROVE p \in Near(n)'
  OBVIOUS
<1>1. p \in Node
  BY DEF Near
<1>2. CASE Connected(n, p)
  BY <1>1, <1>2 DEF Connected, Links, Near
<1>3. CASE link[ActiveDial(n, p)] = "dialing"
  <2> DEFINE l == ActiveDial(n, p)
  <2>1. l \in Link /\ Joins(l, n, p)
    BY <1>1 DEF ActiveDial, Link, Joins
  <2> HIDE DEF l
  <2>2. link'[l] = "dialing" \/ IsOpen(l)'
    BY <1>3, <2>1 DEF l
  <2>3. IsOpen(l)' => Connected(n, p)'
    BY <2>1 DEF Connected, Links
  <2> QED BY <1>1, <2>2, <2>3 DEF Near, l
<1>4. CASE closed[n][p] > 0
  BY <1>1, <1>4 DEF Near
<1> QED BY <1>2, <1>3, <1>4 DEF Near

\* One view is replaced and nothing is lost for the other nodes.
LEMMA ReplaceCovered ==
  ASSUME view \in [Node -> LowView], AllCovered, NEW n \in Node, NEW v,
         view' = [view EXCEPT ![n] = v], Covered(v, Near(n)'),
         \A m \in Node \ {n} : Near(m) \subseteq Near(m)'
  PROVE  AllCovered'
<1> SUFFICES ASSUME NEW m \in Node PROVE Covered(view'[m], Near(m)')
  BY DEF AllCovered
<1>1. CASE m = n
  BY <1>1
<1>2. CASE m # n
  <2>1. view'[m] = view[m] /\ Covered(view[m], Near(m))
    BY <1>2 DEF AllCovered
  <2>2. \A p \in Near(m) : p \in Near(m)'
    BY <1>2
  <2> QED BY <2>1, <2>2, CoveredLess
<1> QED BY <1>1, <1>2

\* A connection comes up: whom it reaches is connected from now on.
LEMMA EstablishedReach ==
  ASSUME OverlayInv, ReachInv, NEW l \in Link, Established(l)
  PROVE  ReachInv'
<1> DEFINE n == l.dialer
           p == l.listener
           v == IF Starved(view[n]) /\ p \notin view[n].active
                THEN InitiateJoin(n, view[n], p) ELSE view[n]
<1>1. n \in Node /\ p \in Node /\ link \in [Link -> LinkState]
  BY Ends DEF OverlayInv
<1>2. GoodView(n, view[n]) /\ Covered(view[n], Near(n)) /\ view \in [Node -> LowView]
  BY <1>1 DEF OverlayInv, ReachInv, AllCovered
<1>3. /\ link' = [link EXCEPT ![l] = "open"] /\ UNCHANGED <<net, closed>>
      /\ view' = [view EXCEPT ![n] = v]
  BY DEF Established
<1>4. \A k \in Link : IsOpen(k) => IsOpen(k)'
  BY <1>1, <1>3 DEF IsOpen
<1>5. \A k \in Link : link[k] = "dialing" => link'[k] = "dialing" \/ IsOpen(k)'
  BY <1>1, <1>3 DEF IsOpen
<1>6. \A m \in Node : Near(m) \subseteq Near(m)'
  BY <1>3, <1>4, <1>5, NearMore
<1>7. GoodView(n, v) /\ Grows(view[n], v, {})
  <2> HIDE DEF n, p
  <2>1. WalkLength \in Ttl
    BY WalkLengthAssumption DEF Ttl
  <2>2. Join(n, WalkLength) \in LowMessage /\ {p} \in SUBSET Node
    BY <1>1, <2>1, Constructors
  <2> QED BY <1>1, <1>2, <2>2, InitiateJoinGood, SendGrows, GrowsSame DEF InitiateJoin
<1>8. AllCovered'
  <2> HIDE DEF v, n
  <2>1. Covered(v, Near(n))
    BY <1>1, <1>2, <1>7, CoveredGrows
  <2>2. Covered(v, Near(n)')
    BY <1>1, <1>6, <2>1, CoveredLess
  <2> QED BY <1>1, <1>2, <1>3, <1>6, <2>2, ReplaceCovered DEF ReachInv
<1>9. OnOpenOnly'
  BY <1>3, <1>4 DEF ReachInv, OnOpenOnly
<1> QED BY <1>8, <1>9 DEF ReachInv

\* A dial that fails takes its peer out of the active view; a bootstrap dial
\* is not what an active peer relies on.
LEMMA DialFailureReach ==
  ASSUME OverlayInv, ReachInv, NEW l \in Link, DialFailure(l)
  PROVE  ReachInv'
<1> DEFINE n == l.dialer
           p == l.listener
<1>1. n \in Node /\ p \in Node /\ link \in [Link -> LinkState]
  BY Ends DEF OverlayInv
<1>2. GoodView(n, view[n]) /\ Covered(view[n], Near(n)) /\ view \in [Node -> LowView]
  BY <1>1 DEF OverlayInv, ReachInv, AllCovered
<1>3. /\ link' = [link EXCEPT ![l] = "idle"] /\ UNCHANGED <<net, closed>>
      /\ link[l] = "dialing"
  BY DEF DialFailure
<1>4. PICK v \in IF l.kind = "bootstrap" THEN {view[n]}
                 ELSE InjectDisconnect(n, view[n], p, FALSE) :
        view' = [view EXCEPT ![n] = v]
  BY DEF DialFailure
<1>5. \A k \in Link : IsOpen(k) => IsOpen(k)'
  BY <1>1, <1>3 DEF IsOpen
<1>6. \A m, q \in Node : q \in Near(m) =>
        q \in Near(m)' \/ (m = n /\ q = p /\ l.kind = "active")
  <2> SUFFICES ASSUME NEW m \in Node, NEW q \in Node, q \in Near(m)
               PROVE  q \in Near(m)' \/ (m = n /\ q = p /\ l.kind = "active")
    OBVIOUS
  <2>1. CASE Connected(m, q)
    BY <1>5, <2>1 DEF Connected, Links, Near
  <2>2. CASE link[ActiveDial(m, q)] = "dialing"
    <3>1. ActiveDial(m, q) \in Link
      BY DEF ActiveDial, Link
    <3>2. CASE ActiveDial(m, q) = l
      BY <3>2 DEF ActiveDial
    <3>3. CASE ActiveDial(m, q) # l
      BY <1>1, <1>3, <2>2, <3>1, <3>3 DEF Near
    <3> QED BY <3>2, <3>3
  <2>3. CASE closed[m][q] > 0
    BY <1>3, <2>3 DEF Near
  <2> QED BY <2>1, <2>2, <2>3 DEF Near
<1>7. /\ GoodView(n, v) /\ Grows(view[n], v, {})
      /\ l.kind = "bootstrap" \/ p \notin v.active
  <2> HIDE DEF n, p
  <2> QED BY <1>1, <1>2, <1>4, InjectDisconnectGood, InjectDisconnectGrows, GrowsSame
<1>8. AllCovered'
  <2> HIDE DEF n, p
  <2>1. Covered(v, Near(n))
    BY <1>1, <1>2, <1>7, CoveredGrows
  <2>2. \A q \in Near(n) : q \in Near(n)' \/ q \notin v.active
    BY <1>1, <1>6, <1>7 DEF Near
  <2>3. Covered(v, Near(n)')
    BY <2>1, <2>2, CoveredLess
  <2>4. \A m \in Node \ {n} : Near(m) \subseteq Near(m)'
    BY <1>6 DEF Near
  <2> QED BY <1>1, <1>2, <1>4, <2>3, <2>4, ReplaceCovered DEF ReachInv
<1>9. OnOpenOnly'
  BY <1>3, <1>5 DEF ReachInv, OnOpenOnly
<1> QED BY <1>8, <1>9 DEF ReachInv

\* Both ends of a connection that closes will be told.
LEMMA DropReach ==
  ASSUME OverlayInv, ReachInv, NEW l \in Link, IsOpen(l), Drop(l)
  PROVE  ReachInv'
<1>1. /\ link \in [Link -> LinkState] /\ closed \in [Node -> [Node -> Nat]]
      /\ net \in [Link -> [Node -> Seq(LowMessage)]]
  BY DEF OverlayInv
<1>2. /\ link' = [link EXCEPT ![l] = "idle"] /\ UNCHANGED view
      /\ \A n, p \in Node : closed'[n][p] = IF Joins(l, n, p) THEN closed[n][p] + 1
                                             ELSE closed[n][p]
  BY DEF Drop
<1>3. \A k \in Link : k # l /\ IsOpen(k) => IsOpen(k)'
  BY <1>1, <1>2 DEF IsOpen
<1>4. ASSUME NEW n \in Node, NEW p \in Near(n) PROVE p \in Near(n)'
  <2>1. p \in Node
    BY <1>4 DEF Near
  <2>2. closed[n][p] \in Nat
    BY <1>1, <2>1
  <2>3. CASE closed[n][p] > 0
    BY <1>2, <2>1, <2>2, <2>3 DEF Near
  <2>4. CASE link[ActiveDial(n, p)] = "dialing"
    <3>1. ActiveDial(n, p) \in Link
      BY <2>1 DEF ActiveDial, Link
    <3>2. ActiveDial(n, p) # l
      BY <2>4 DEF IsOpen
    <3> QED BY <1>1, <1>2, <2>1, <2>4, <3>1, <3>2 DEF Near
  <2>5. CASE Connected(n, p)
    <3>1. PICK k \in Link : IsOpen(k) /\ Joins(k, n, p)
      BY <2>5 DEF Connected, Links
    <3>2. CASE k = l
      <4>1. closed'[n][p] > 0
        BY <1>2, <2>1, <2>2, <3>1, <3>2
      <4> QED BY <2>1, <4>1 DEF Near
    <3>3. CASE k # l
      <4>1. Connected(n, p)'
        BY <1>3, <3>1, <3>3 DEF Connected, Links
      <4> QED BY <2>1, <4>1 DEF Near
    <3> QED BY <3>2, <3>3
  <2> QED BY <1>4, <2>3, <2>4, <2>5 DEF Near
<1>5. AllCovered'
  <2> SUFFICES ASSUME NEW n \in Node PROVE Covered(view'[n], Near(n)')
    BY DEF AllCovered
  <2>1. Covered(view'[n], Near(n))
    BY <1>2 DEF ReachInv, AllCovered
  <2>2. \A p \in Near(n) : p \in Near(n)'
    BY <1>4
  <2> QED BY <2>1, <2>2, CoveredLess
<1>6. OnOpenOnly'
  <2> SUFFICES ASSUME NEW k \in Link, NEW s \in Node, net'[k][s] # << >>
               PROVE  IsOpen(k)' /\ s \in {k.dialer, k.listener}
    BY DEF OnOpenOnly
  <2>1. k # l /\ net[k][s] # << >>
    BY <1>1 DEF Drop
  <2> QED BY <1>3, <2>1 DEF ReachInv, OnOpenOnly
<1> QED BY <1>5, <1>6 DEF ReachInv

\* The notice of a closed connection takes the peer out of the active view.
LEMMA ConnectionClosedReach ==
  ASSUME OverlayInv, ReachInv, NEW n \in Node, NEW p \in Node, ConnectionClosed(n, p)
  PROVE  ReachInv'
<1>1. closed \in [Node -> [Node -> Nat]] /\ view \in [Node -> LowView]
  BY DEF OverlayInv
<1>2. GoodView(n, view[n]) /\ Covered(view[n], Near(n))
  BY DEF OverlayInv, ReachInv, AllCovered
<1>3. PICK v \in InjectDisconnect(n, view[n], p, TRUE) :
        view' = [view EXCEPT ![n] = v]
  BY DEF ConnectionClosed
<1>4. UNCHANGED <<link, net>> /\ \A m, q \in Node : (m # n \/ q # p) => closed'[m][q] = closed[m][q]
  BY <1>1 DEF ConnectionClosed
<1>5. \A m, q \in Node : q \in Near(m) => q \in Near(m)' \/ (m = n /\ q = p)
  <2>1. \A m, q \in Node : Connected(m, q)' <=> Connected(m, q)
    BY <1>4 DEF Connected, Links, IsOpen
  <2> QED BY <1>4, <2>1 DEF Near
<1>6. GoodView(n, v) /\ Grows(view[n], v, {}) /\ p \notin v.active
  BY <1>2, <1>3, InjectDisconnectGood, InjectDisconnectGrows
<1>7. Covered(v, Near(n)')
  <2>1. Covered(v, Near(n))
    BY <1>2, <1>6, CoveredGrows
  <2>2. \A q \in Near(n) : q \in Near(n)' \/ q \notin v.active
    BY <1>5, <1>6 DEF Near
  <2> QED BY <2>1, <2>2, CoveredLess
<1>8. \A m \in Node \ {n} : Near(m) \subseteq Near(m)'
  BY <1>5 DEF Near
<1>9. AllCovered'
  BY <1>1, <1>3, <1>7, <1>8, ReplaceCovered DEF ReachInv
<1>10. OnOpenOnly'
  BY <1>4 DEF ReachInv, OnOpenOnly, IsOpen
<1> QED BY <1>9, <1>10 DEF ReachInv

\* The sender of a message is connected, and whom else the message makes
\* active is dialed.
LEMMA DeliverReach ==
  ASSUME OverlayInv, ReachInv, NEW l \in Link, NEW s \in Node, Deliver(l, s)
  PROVE  ReachInv'
<1> DEFINE n == Other(l, s)
           m == Head(net[l][s])
<1>1. /\ n \in Node /\ view \in [Node -> LowView]
      /\ net \in [Link -> [Node -> Seq(LowMessage)]]
  BY Ends DEF Other, OverlayInv
<1>2. GoodView(n, view[n]) /\ Covered(view[n], Near(n))
  BY <1>1 DEF OverlayInv, ReachInv, AllCovered
<1>3. m \in LowMessage /\ net[l][s] # << >>
  <2>1. net[l][s] \in Seq(LowMessage) /\ net[l][s] # << >>
    BY <1>1 DEF Deliver
  <2> QED BY <2>1
<1>4. PICK v \in Dispatch(n, view[n], s, m) : view' = [view EXCEPT ![n] = v]
  BY DEF Deliver
<1>5. UNCHANGED <<link, closed>> /\ net' = [net EXCEPT ![l][s] = Tail(@)]
  BY DEF Deliver
<1>6. s \in Near(n)
  <2>1. IsOpen(l) /\ s \in {l.dialer, l.listener}
    BY <1>3 DEF ReachInv, OnOpenOnly
  <2>2. {l.dialer, l.listener} = {n, s}
    BY <2>1 DEF Other
  <2>3. Connected(n, s)
    BY <2>1, <2>2 DEF Connected, Links, Joins
  <2> QED BY <2>3 DEF Near
<1> HIDE DEF n, m
<1>7. GoodView(n, v) /\ Grows(view[n], v, {s})
  BY <1>1, <1>2, <1>3, <1>4, DispatchGood, DispatchGrows
<1>8. \A k \in Node : Near(k) \subseteq Near(k)'
  BY <1>5, NearMore DEF IsOpen
<1>9. Covered(v, Near(n)')
  <2>1. Covered(v, Near(n))
    BY <1>1, <1>2, <1>6, <1>7, CoveredGrows
  <2> QED BY <1>1, <1>8, <2>1, CoveredLess
<1>10. AllCovered'
  BY <1>1, <1>4, <1>8, <1>9, ReplaceCovered DEF ReachInv
<1>11. OnOpenOnly'
  <2> SUFFICES ASSUME NEW k \in Link, NEW r \in Node, net'[k][r] # << >>
               PROVE  IsOpen(k)' /\ r \in {k.dialer, k.listener}
    BY DEF OnOpenOnly
  <2>1. net[k][r] # << >>
    BY <1>1, <1>3, <1>5
  <2> QED BY <1>5, <2>1 DEF ReachInv, OnOpenOnly, IsOpen
<1> QED BY <1>10, <1>11 DEF ReachInv

\* One event of the queue is taken: a dial is made unless the peer is
\* connected, a message is sent on an open connection.
LEMMA EmitReach ==
  ASSUME OverlayInv, ReachInv, NEW n \in Node, NEW v, GoodView(n, v),
         v.out # << >>, Covered(v, Near(n)), UNCHANGED closed,
         EmitDial(n, v) \/ EmitPeerChange(n, v) \/ EmitMessage(n, v)
  PROVE  ReachInv'
<1> DEFINE e == Head(v.out)
<1>1. /\ link \in [Link -> LinkState] /\ view \in [Node -> LowView]
      /\ net \in [Link -> [Node -> Seq(LowMessage)]]
  BY DEF OverlayInv
<1>2. Pop(v).active = v.active /\ Pop(v).out = Tail(v.out) /\ e \in LowEvent
  <2>1. v \in LowView
    BY DEF GoodView
  <2> QED BY <2>1, PopGood DEF Pop, LowView
<1>3. CASE EmitDial(n, v)
  <2> DEFINE p == e.peer
             l == [dialer |-> n, listener |-> p,
                   kind |-> IF e.temporary THEN "temporary" ELSE "active"]
  <2>1. /\ e.type = "Dial" /\ UNCHANGED net /\ view' = [view EXCEPT ![n] = Pop(v)]
        /\ link' = IF Connected(n, p) THEN link ELSE [link EXCEPT ![l] = "dialing"]
    BY <1>3 DEF EmitDial
  <2>2. p \in Node /\ e.temporary \in BOOLEAN
    BY <1>2, <2>1 DEF LowEvent, Event
  <2>3. l \in Link /\ Joins(l, n, p)
    BY <2>2 DEF Link, Joins
  <2>4. \A q : e = Dial(q, FALSE) => q = p /\ l = ActiveDial(n, p)
    BY DEF Dial, ActiveDial
  <2> HIDE DEF e, p, l
  <2>5. ~Connected(n, p) => ~IsOpen(l)
    BY <2>3 DEF Connected, Links
  <2>6. \A k \in Link : IsOpen(k) => IsOpen(k)'
    BY <1>1, <2>1, <2>5 DEF IsOpen
  <2>7. \A k \in Link : link[k] = "dialing" => link'[k] = "dialing"
    BY <1>1, <2>1
  <2>8. \A m \in Node : Near(m) \subseteq Near(m)'
    BY <2>6, <2>7, NearMore
  <2>9. p \in Near(n)' \/ l # ActiveDial(n, p)
    <3>1. CASE Connected(n, p)
      BY <2>2, <2>8, <3>1 DEF Near
    <3>2. CASE ~Connected(n, p)
      BY <1>1, <2>1, <2>2, <2>3, <3>2 DEF Near
    <3> QED BY <3>1, <3>2
  <2>10. Covered(Pop(v), Near(n)')
    <3>1. Covered(v, Near(n)')
      BY <2>8, CoveredLess
    <3>2. \A q : Head(v.out) = Dial(q, FALSE) => q \in Near(n)'
      BY <2>4, <2>9 DEF e
    <3> QED BY <1>2, <3>1, <3>2, CoveredPop
  <2>11. AllCovered'
    BY <1>1, <2>1, <2>8, <2>10, ReplaceCovered DEF ReachInv
  <2>12. OnOpenOnly'
    BY <2>1, <2>6 DEF ReachInv, OnOpenOnly
  <2> QED BY <2>11, <2>12 DEF ReachInv
<1>4. CASE EmitPeerChange(n, v)
  <2>1. UNCHANGED <<link, net>> /\ view' = [view EXCEPT ![n] = Pop(v)]
    BY <1>4 DEF EmitPeerChange
  <2>2. \A q : Head(v.out) # Dial(q, FALSE)
    BY <1>4 DEF EmitPeerChange, Dial
  <2>3. \A m \in Node : Near(m) \subseteq Near(m)'
    BY <2>1, NearMore DEF IsOpen
  <2>4. Covered(Pop(v), Near(n)')
    <3>1. Covered(v, Near(n)')
      BY <2>3, CoveredLess
    <3> QED BY <1>2, <2>2, <3>1, CoveredPop
  <2>5. AllCovered'
    BY <1>1, <2>1, <2>3, <2>4, ReplaceCovered DEF ReachInv
  <2>6. OnOpenOnly'
    BY <2>1 DEF ReachInv, OnOpenOnly, IsOpen
  <2> QED BY <2>5, <2>6 DEF ReachInv
<1>5. CASE EmitMessage(n, v)
  <2>1. e.type = "NotifyHandler"
    BY <1>5 DEF EmitMessage
  <2>2. PICK p \in e.to : view' = [view EXCEPT ![n] = PopFor(v, p)]
    BY <1>5 DEF EmitMessage, DropMessage
  <2>3. \/ UNCHANGED <<link, net>>
        \/ \E l \in Link :
             /\ IsOpen(l) /\ n \in {l.dialer, l.listener}
             /\ net' = [net EXCEPT ![l][n] = Append(@, e.msg)]
             /\ link' \in {link, [link EXCEPT ![l] =
                             IF l.kind = "temporary" /\ l.dialer = n
                             THEN "raised" ELSE @]}
    BY <1>5 DEF EmitMessage, Links, Joins
  <2>4. /\ \A k \in Link : IsOpen(k) => IsOpen(k)'
        /\ \A k \in Link : link[k] = "dialing" => link'[k] = "dialing"
    <3>1. CASE UNCHANGED <<link, net>>
      BY <3>1 DEF IsOpen
    <3>2. ASSUME NEW l \in Link, IsOpen(l),
                 link' \in {link, [link EXCEPT ![l] =
                             IF l.kind = "temporary" /\ l.dialer = n
                             THEN "raised" ELSE @]}
          PROVE  /\ \A k \in Link : IsOpen(k) => IsOpen(k)'
                 /\ \A k \in Link : link[k] = "dialing" => link'[k] = "dialing"
      BY <1>1, <3>2 DEF IsOpen
    <3> QED BY <2>3, <3>1, <3>2
  <2>5. \A m \in Node : Near(m) \subseteq Near(m)'
    BY <2>4, NearMore
  <2>6. Covered(PopFor(v, p), Near(n)')
    <3>1. Covered(v, Near(n)')
      BY <2>5, CoveredLess
    <3> QED BY <2>1, <3>1, CoveredPopFor
  <2>7. AllCovered'
    BY <1>1, <2>2, <2>5, <2>6, ReplaceCovered DEF ReachInv
  <2>8. OnOpenOnly'
    <3> SUFFICES ASSUME NEW k \in Link, NEW s \in Node, net'[k][s] # << >>
                 PROVE  IsOpen(k)' /\ s \in {k.dialer, k.listener}
      BY DEF OnOpenOnly
    <3>1. net[k][s] # << >> \/ (IsOpen(k) /\ s \in {k.dialer, k.listener})
      <4> DEFINE msg == e.msg
      <4>1. ASSUME NEW l \in Link, IsOpen(l), n \in {l.dialer, l.listener},
                   net' = [net EXCEPT ![l][n] = Append(@, msg)]
            PROVE  net[k][s] # << >> \/ (IsOpen(k) /\ s \in {k.dialer, k.listener})
        <5> HIDE DEF msg
        <5>1. CASE k = l /\ s = n
          BY <4>1, <5>1
        <5>2. CASE k # l \/ s # n
          BY <1>1, <4>1, <5>2
        <5> QED BY <5>1, <5>2
      <4>2. CASE UNCHANGED net
        BY <4>2
      <4> HIDE DEF e
      <4> QED BY <2>3, <4>1, <4>2
    <3> QED BY <2>4, <3>1 DEF ReachInv, OnOpenOnly
  <2> QED BY <2>7, <2>8 DEF ReachInv
<1> QED BY <1>3, <1>4, <1>5

\* One poll: the timers dial whom they make active, then one event is taken.
LEMMA PollReach ==
  ASSUME OverlayInv, ReachInv, NEW n \in Node, NEW shuffled \in BOOLEAN,
         NEW ticked \in BOOLEAN, Poll(n, shuffled, ticked)
  PROVE  ReachInv'
<1>1. GoodView(n, view[n]) /\ Covered(view[n], Near(n)) /\ view \in [Node -> LowView]
  BY DEF OverlayInv, ReachInv, AllCovered
<1>2. UNCHANGED closed
  BY DEF Poll
<1>3. PICK u \in IF shuffled THEN ShuffleTimer(n, view[n]) ELSE {view[n]} :
      \E v \in IF ticked THEN TickTimer(n, u) ELSE {u} :
         \/ v.out # << >> /\ (EmitDial(n, v) \/ EmitPeerChange(n, v)
                                             \/ EmitMessage(n, v))
         \/ /\ v.out = << >>
            /\ view' = [view EXCEPT ![n] = v]
            /\ UNCHANGED <<link, net>>
  BY DEF Poll
<1>4. GoodView(n, u) /\ Covered(u, Near(n))
  <2>1. CASE u = view[n]
    BY <1>1, <2>1
  <2>2. CASE u \in ShuffleTimer(n, view[n])
    <3>1. GoodView(n, u) /\ Grows(view[n], u, {})
      BY <1>1, <2>2, ShuffleTimerGood, ShuffleTimerGrows
    <3> QED BY <1>1, <3>1, CoveredGrows
  <2> QED BY <1>3, <2>1, <2>2
<1>5. PICK v \in IF ticked THEN TickTimer(n, u) ELSE {u} :
         \/ v.out # << >> /\ (EmitDial(n, v) \/ EmitPeerChange(n, v)
                                             \/ EmitMessage(n, v))
         \/ /\ v.out = << >>
            /\ view' = [view EXCEPT ![n] = v]
            /\ UNCHANGED <<link, net>>
  BY <1>3
<1>6. GoodView(n, v) /\ Covered(v, Near(n))
  <2>1. CASE v = u
    BY <1>4, <2>1
  <2>2. CASE v \in TickTimer(n, u)
    <3>1. GoodView(n, v) /\ Grows(u, v, {})
      BY <1>4, <2>2, TickTimerGood, TickTimerGrows
    <3> QED BY <1>4, <3>1, CoveredGrows
  <2> QED BY <1>5, <2>1, <2>2
<1>7. CASE v.out # << >> /\ (EmitDial(n, v) \/ EmitPeerChange(n, v)
                                           \/ EmitMessage(n, v))
  BY <1>2, <1>6, <1>7, EmitReach
<1>8. CASE view' = [view EXCEPT ![n] = v] /\ UNCHANGED <<link, net>>
  <2>1. \A m \in Node : Near(m) \subseteq Near(m)'
    BY <1>2, <1>8, NearMore DEF IsOpen
  <2>2. Covered(v, Near(n)')
    BY <1>6, <2>1, CoveredLess
  <2>3. AllCovered'
    BY <1>1, <1>8, <2>1, <2>2, ReplaceCovered DEF ReachInv
  <2>4. OnOpenOnly'
    BY <1>8 DEF ReachInv, OnOpenOnly, IsOpen
  <2> QED BY <2>3, <2>4 DEF ReachInv
<1> QED BY <1>5, <1>7, <1>8

\* Every active peer is covered and every message is on an open connection,
\* in every reachable state.
THEOREM ReachInvariant == Spec => []ReachInv
<1>1. Init => ReachInv
  <2> SUFFICES ASSUME Init PROVE ReachInv
    OBVIOUS
  <2>1. AllCovered
    BY DEF Init, EmptyView, AllCovered, Covered
  <2>2. OnOpenOnly
    BY DEF Init, OnOpenOnly
  <2> QED BY <2>1, <2>2 DEF ReachInv
<1>2. OverlayInv /\ ReachInv /\ [Next]_vars => ReachInv'
  <2> SUFFICES ASSUME OverlayInv, ReachInv, [Next]_vars PROVE ReachInv'
    OBVIOUS
  <2>1. ASSUME NEW l \in Link, Established(l) PROVE ReachInv'
    BY <2>1, EstablishedReach
  <2>2. ASSUME NEW l \in Link, DialFailure(l) PROVE ReachInv'
    BY <2>2, DialFailureReach
  <2>3. ASSUME NEW l \in Link, ConnectionLost(l) PROVE ReachInv'
    BY <2>3, DropReach DEF ConnectionLost
  <2>4. ASSUME NEW l \in Link, KeepAliveExpired(l) PROVE ReachInv'
    BY <2>4, DropReach DEF KeepAliveExpired, IsOpen
  <2>5. ASSUME NEW n \in Node, NEW p \in Node, ConnectionClosed(n, p) PROVE ReachInv'
    BY <2>5, ConnectionClosedReach
  <2>6. ASSUME NEW l \in Link, NEW s \in Node, Deliver(l, s) PROVE ReachInv'
    BY <2>6, DeliverReach
  <2>7. ASSUME NEW n \in Node, NEW shuffled \in BOOLEAN, NEW ticked \in BOOLEAN,
               Poll(n, shuffled, ticked)
        PROVE  ReachInv'
    BY <2>7, PollReach
  <2>8. CASE UNCHANGED vars
    BY <2>8 DEF vars, ReachInv, AllCovered, OnOpenOnly, Near, Connected, Links, IsOpen
  <2> QED BY <2>1, <2>2, <2>3, <2>4, <2>5, <2>6, <2>7, <2>8 DEF Next
<1> QED BY <1>1, <1>2, OverlayInvariant, PTL DEF Spec

\* An active peer is connected, or dialed or about to be, or about to be
\* noticed as lost: no dropped connection stays in an active view unnoticed
\* (view.rs 304-305, topic.rs, behaviour.rs).
THEOREM AlwaysReachable == Spec => []ActiveReachable
<1>1. ReachInv => ActiveReachable
  <2> SUFFICES ASSUME ReachInv, NEW n \in Node, NEW p \in view[n].active
               PROVE  \/ Connected(n, p) \/ Dialing(n, p)
                      \/ DialQueued(n, p) \/ closed[n][p] > 0
    BY DEF ActiveReachable
  <2>1. p \in Near(n) \/ DialQueued(n, p)
    BY DEF ReachInv, AllCovered, Covered, DialQueued
  <2>2. ASSUME p \in Near(n), link[ActiveDial(n, p)] = "dialing" PROVE Dialing(n, p)
    <3>1. p \in Node
      BY <2>2 DEF Near
    <3>2. ActiveDial(n, p) \in Link
      BY <3>1 DEF ActiveDial, Link
    <3>3. ActiveDial(n, p).dialer = n /\ ActiveDial(n, p).listener = p
      BY DEF ActiveDial
    <3> QED BY <2>2, <3>2, <3>3 DEF Dialing
  <2> QED BY <2>1, <2>2 DEF Near
<1> QED BY <1>1, ReachInvariant, PTL
=============================================================================
