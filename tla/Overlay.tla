------------------------------- MODULE Overlay -------------------------------
(***************************************************************************)
(* The overlay of one topic: every node runs HyParView over connections    *)
(* that libp2p opens, loses and closes.  A step is one call into a node's  *)
(* Episub behaviour (an event of the swarm, or one poll) or one event of   *)
(* the network.  Messages travel in order on a connection and can overtake *)
(* each other on two connections of the same pair.                         *)
(*                                                                         *)
(* Every node is subscribed and knows its own address, every peer follows  *)
(* the protocol and is authorized; the topic's messages are modelled       *)
(* elsewhere.                                                              *)
(***************************************************************************)
EXTENDS HyParView

CONSTANTS
  Bootstrap,        \* pairs <<n, p>>: n dials p's address at start
  MaxTicks,         \* bound: tick timers that fire in a behaviour
  MaxShuffles,      \* bound: shuffle timers that fire
  MaxCloses,        \* bound: connections lost by the network
  MaxDialFailures   \* bound: dials that fail

ASSUME BootstrapAssumption ==
  Bootstrap \subseteq {e \in Node \X Node : e[1] # e[2]}
ASSUME BoundsAssumption ==
  {MaxTicks, MaxShuffles, MaxCloses, MaxDialFailures} \subseteq Nat

VARIABLES
  view,     \* view[n]: the HyParView of n
  link,     \* link[l]: the state of the connection l
  net,      \* net[l][s]: what s has sent on l and the other end has not handled
  closed,   \* closed[n][p]: ConnectionClosed events of p that n has yet to see
  budget    \* how often the bounded events may still happen

vars == <<view, link, net, closed, budget>>

\* A dial is known by its two ends and its reason: a bootstrap address, a
\* peer of the active view (permanent handler), or a shuffle reply
\* (temporary handler).  A second dial equal to one under way is merged
\* with it.
Link == {l \in [dialer : Node, listener : Node,
                kind : {"bootstrap", "active", "temporary"}] :
           l.kind = "bootstrap" => <<l.dialer, l.listener>> \in Bootstrap}

\* "raised": a temporary handler whose keep_alive was set to Yes by a send
\* or a flush that had to wait.
LinkState == {"idle", "dialing", "open", "raised"}

Budget == [ticks : Nat, shuffles : Nat, closes : Nat, failures : Nat]

IsOpen(l) == link[l] \in {"open", "raised"}
Joins(l, n, p) == {l.dialer, l.listener} = {n, p}
Links(n, p) == {l \in Link : IsOpen(l) /\ Joins(l, n, p)}
Connected(n, p) == Links(n, p) # {}
Other(l, n) == IF n = l.dialer THEN l.listener ELSE l.dialer

Init ==
  /\ view = [n \in Node |-> EmptyView]
  /\ link = [l \in Link |-> IF l.kind = "bootstrap" THEN "dialing" ELSE "idle"]
  /\ net = [l \in Link |-> [s \in Node |-> << >>]]
  /\ closed = [n \in Node |-> [p \in Node |-> 0]]
  /\ budget = [ticks |-> MaxTicks, shuffles |-> MaxShuffles,
               closes |-> MaxCloses, failures |-> MaxDialFailures]

-----------------------------------------------------------------------------
(* Events of the swarm.                                                    *)

\* inject_connection_established on the side that dialed, whatever the
\* reason of the dial: JOIN is requested from a peer that is not active when
\* the topic is starved.  The other side only notes the address.
Established(l) ==
  LET n == l.dialer
      p == l.listener
  IN  /\ link[l] = "dialing"
      /\ link' = [link EXCEPT ![l] = "open"]
      /\ view' = [view EXCEPT ![n] =
                    IF Starved(@) /\ p \notin @.active
                    THEN InitiateJoin(n, @, p) ELSE @]
      /\ UNCHANGED <<net, closed, budget>>

\* inject_dial_failure: a bootstrap dial names an address and no peer id, and
\* its failure changes nothing in the mesh.
DialFailure(l) ==
  /\ link[l] = "dialing"
  /\ budget.failures > 0
  /\ budget' = [budget EXCEPT !.failures = @ - 1]
  /\ link' = [link EXCEPT ![l] = "idle"]
  /\ \E v \in IF l.kind = "bootstrap" THEN {view[l.dialer]}
              ELSE InjectDisconnect(l.dialer, view[l.dialer], l.listener, FALSE) :
       view' = [view EXCEPT ![l.dialer] = v]
  /\ UNCHANGED <<net, closed>>

\* The connection is gone, with what was under way on it; both ends will be
\* told.
Drop(l) ==
  /\ link' = [link EXCEPT ![l] = "idle"]
  /\ net' = [net EXCEPT ![l] = [s \in Node |-> << >>]]
  /\ closed' = [n \in Node |-> [p \in Node |->
                  IF Joins(l, n, p) THEN closed[n][p] + 1 ELSE closed[n][p]]]
  /\ UNCHANGED view

\* The network or one of the two processes drops the connection.
ConnectionLost(l) ==
  /\ IsOpen(l)
  /\ budget.closes > 0
  /\ budget' = [budget EXCEPT !.closes = @ - 1]
  /\ Drop(l)

\* A temporary handler reports KeepAlive::No, and libp2p closes its
\* connection.
KeepAliveExpired(l) ==
  /\ l.kind = "temporary"
  /\ link[l] = "open"
  /\ Drop(l)
  /\ UNCHANGED budget

\* inject_connection_closed: the peer leaves the active view even when
\* another connection to it is still open.
ConnectionClosed(n, p) ==
  /\ closed[n][p] > 0
  /\ closed' = [closed EXCEPT ![n][p] = @ - 1]
  /\ \E v \in InjectDisconnect(n, view[n], p, TRUE) :
       view' = [view EXCEPT ![n] = v]
  /\ UNCHANGED <<link, net, budget>>

\* inject_event for the oldest message s has sent on l.
Deliver(l, s) ==
  LET n == Other(l, s)
  IN  /\ net[l][s] # << >>
      /\ net' = [net EXCEPT ![l][s] = Tail(@)]
      /\ \E v \in Dispatch(n, view[n], s, Head(net[l][s])) :
           view' = [view EXCEPT ![n] = v]
      /\ UNCHANGED <<link, closed, budget>>

-----------------------------------------------------------------------------
(* One poll of a node: the timers that have fired, then one event of the   *)
(* queue.                                                                  *)

\* PeerCondition::Disconnected: no new dial while a connection is open.
EmitDial(n, v) ==
  LET e == Head(v.out)
      l == [dialer |-> n, listener |-> e.peer,
            kind |-> IF e.temporary THEN "temporary" ELSE "active"]
  IN  /\ e.type = "Dial"
      /\ link' = IF Connected(n, e.peer) THEN link
                 ELSE [link EXCEPT ![l] = "dialing"]
      /\ view' = [view EXCEPT ![n] = Pop(v)]
      /\ UNCHANGED net

\* Mutant: the event is looked at and not taken.
PeekPeerChange(n, v) ==
  /\ Head(v.out).type \in {"PeerAdded", "PeerRemoved"}
  /\ view' = [view EXCEPT ![n] = v]
  /\ UNCHANGED <<link, net>>

\* PeerAdded and PeerRemoved, which TopicMesh hands to PlumTree.
EmitPeerChange(n, v) ==
  /\ Head(v.out).type \in {"PeerAdded", "PeerRemoved"}
  /\ view' = [view EXCEPT ![n] = Pop(v)]
  /\ UNCHANGED <<link, net>>

\* A temporary handler of ours lets nothing but a shuffle reply through.
Refused(l, n, m) ==
  /\ l.kind = "temporary" /\ l.dialer = n /\ link[l] = "open"
  /\ m.type # "SHUFFLEREPLY"

\* Mutant: what cannot be sent is queued again.
QueueAgain(v, p) ==
  LET rest == PopFor(v, p)
  IN  Push(rest, NotifyHandler({p}, Head(v.out).msg))

\* A message for a peer without a connection is silently dropped.
DropMessage(v, p) == PopFor(v, p)

\* NotifyHandler::Any: some open connection takes the message; without one,
\* the swarm drops it.
EmitMessage(n, v) ==
  LET e == Head(v.out)
  IN  /\ e.type = "NotifyHandler"
      /\ \E p \in e.to :
           \/ /\ \/ ~Connected(n, p)
                 \/ \E l \in Links(n, p) : Refused(l, n, e.msg)
              /\ view' = [view EXCEPT ![n] = DropMessage(v, p)]
              /\ UNCHANGED <<link, net>>
           \/ \E l \in Links(n, p) :
                /\ ~Refused(l, n, e.msg)
                /\ view' = [view EXCEPT ![n] = PopFor(v, p)]
                /\ net' = [net EXCEPT ![l][n] = Append(@, e.msg)]
                /\ link' \in {link, [link EXCEPT ![l] =
                                IF l.kind = "temporary" /\ l.dialer = n
                                THEN "raised" ELSE @]}

\* poll() with the timers that have fired since the last one.
Poll(n, shuffled, ticked) ==
  /\ shuffled => budget.shuffles > 0
  /\ ticked => budget.ticks > 0
  /\ budget' = [budget EXCEPT !.shuffles = IF shuffled THEN @ - 1 ELSE @,
                              !.ticks = IF ticked THEN @ - 1 ELSE @]
  /\ \E u \in IF shuffled THEN ShuffleTimer(n, view[n]) ELSE {view[n]} :
       \E v \in IF ticked THEN TickTimer(n, u) ELSE {u} :
         \/ v.out # << >> /\ (EmitDial(n, v) \/ EmitPeerChange(n, v)
                                             \/ EmitMessage(n, v))
         \/ /\ v.out = << >> /\ (shuffled \/ ticked)
            /\ view' = [view EXCEPT ![n] = v]
            /\ UNCHANGED <<link, net>>
  /\ UNCHANGED closed

Next ==
  \/ \E l \in Link : Established(l) \/ DialFailure(l) \/ ConnectionLost(l)
                       \/ KeepAliveExpired(l)
  \/ \E n, p \in Node : ConnectionClosed(n, p)
  \/ \E l \in Link, s \in Node : Deliver(l, s)
  \/ \E n \in Node, shuffled, ticked \in BOOLEAN : Poll(n, shuffled, ticked)

Spec == Init /\ [][Next]_vars

\* The swarm task runs whenever there is something for it: a queued event, a
\* message, a notice, a dial that is decided.  Timers and faults need not
\* happen.
Fairness ==
  /\ \A n \in Node : WF_vars(Poll(n, FALSE, FALSE))
  /\ \A l \in Link : /\ WF_vars(Established(l) \/ DialFailure(l))
                     /\ WF_vars(KeepAliveExpired(l))
                     /\ \A s \in Node : WF_vars(Deliver(l, s))
  /\ \A n, p \in Node : WF_vars(ConnectionClosed(n, p))

FairSpec == Spec /\ Fairness

-----------------------------------------------------------------------------

\* Every variable has its type: views hold peers, queues hold events.
TypeOK ==
  /\ view \in [Node -> View]
  /\ link \in [Link -> LinkState]
  /\ net \in [Link -> [Node -> Seq(Message)]]
  /\ closed \in [Node -> [Node -> Nat]]
  /\ budget \in Budget

\* No active view grows past max_active_view_size(), although a NEIGHBOR of
\* high priority and a shuffle that ends its walk are admitted without a
\* look at the size (view.rs 290 and 416).
ActiveBound == \A n \in Node : Cardinality(view[n].active) =< MaxActive

\* No passive view grows past max_passive_view_size() through evictions,
\* merges and moves between the two views (view.rs 431-435, 492-497).
PassiveBound == \A n \in Node : Cardinality(view[n].passive) =< MaxPassive

\* A node is never its own neighbour, although a shuffle reply can put it
\* into its own passive view and a tick can then promote it (view.rs 445).
NotOwnNeighbour == \A n \in Node : n \notin view[n].active

DialQueued(n, p) ==
  \E i \in 1 .. Len(view[n].out) : view[n].out[i] = Dial(p, FALSE)

Dialing(n, p) ==
  \E l \in Link : l.dialer = n /\ l.listener = p /\ link[l] = "dialing"

\* An active peer is one the node is connected to, or is about to be, or is
\* about to be told that it lost: "dropped connections [do] not remain in
\* the active view" (view.rs 304-305).
ActiveReachable ==
  \A n \in Node : \A p \in view[n].active :
    \/ Connected(n, p)
    \/ Dialing(n, p)
    \/ DialQueued(n, p)
    \/ closed[n][p] > 0

\* Nothing is queued, under way or waiting to be noticed.
Quiet ==
  /\ \A n \in Node : view[n].out = << >>
  /\ \A l \in Link : link[l] # "dialing" /\ \A s \in Node : net[l][s] = << >>
  /\ \A n, p \in Node : closed[n][p] = 0

\* The traffic that a join, a shuffle or a lost connection sets off dies
\* out: no "endless join/forward churn" (view.rs 113-114).
Quiesces == <>[]Quiet

\* "Links in the overlay are symmetric" (view.rs 89): once nothing is under
\* way, a peer in one active view has its owner in its own.
LinksSymmetric ==
  Quiet => \A n \in Node : \A p \in view[n].active : n \in view[p].active
=============================================================================
