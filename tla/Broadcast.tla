------------------------------ MODULE Broadcast ------------------------------
(***************************************************************************)
(* A topic on several nodes: the PlumTree of each of them (tree.rs) over   *)
(* the connections of the overlay.  A step is one call into one tree,      *)
(* followed by the polls that hand its events to the connections, or one   *)
(* event of the network.                                                   *)
(*                                                                         *)
(* Time is counted in ticks.  Two assumptions on it, which the code leaves *)
(* to its surroundings, are built into Advance: a message is handled in    *)
(* the instant it is sent in, and every node is polled in every instant.   *)
(* (PlumTree registers no timer: without other traffic nothing polls it.)  *)
(*                                                                         *)
(* Of the overlay (Overlay.tla) this module keeps what a tree sees of it:  *)
(* connections that are lost and opened again, and peers that enter and    *)
(* leave the active view of a node, whether or not the other end agrees.   *)
(***************************************************************************)
EXTENDS PlumTree, FiniteSets, SequencesExt

CONSTANTS
  Node,      \* the nodes of the topic
  Link,      \* pairs {n, p} of nodes that can be active peers of each other
  Pruned,    \* the sets of links that earlier traffic can have left pruned
  Schedule,  \* Schedule[id]: the instant in which id is published
  Nobody,    \* the author of a message nobody has published
  MaxTime,   \* bound: instants
  MaxChanges \* bound: connections lost and peers dropped by a view

ASSUME BroadcastAssumption ==
  /\ IsFiniteSet(Node) /\ Nobody \notin Node
  /\ \A l \in Link : l \subseteq Node /\ Cardinality(l) = 2
  /\ Pruned \subseteq SUBSET Link
  /\ Schedule \in [DOMAIN Schedule -> Nat]
  /\ MaxTime \in Nat \ {0} /\ MaxChanges \in Nat
  /\ HistoryWindow > 0 /\ TickFrequency = 1

VARIABLES
  tree,    \* tree[n]: the PlumTree of n, its events already taken
  net,     \* net[n][p]: batches n has sent to p, oldest first
  up,      \* the links with an open connection
  peers,   \* peers[n]: the active peers of n that its tree was told of
  changes, \* connections and peers that may still be lost
  author,  \* author[id]: who published id
  log,     \* log[n]: the ids handed to the application of n
  since,   \* since[n][id]: the instant n first had id in, 0 before (history)
  owed,    \* owed[n][id]: the peers n had then and still has (history)
  grafted, \* grafted[n][id]: whose GRAFT n took just after it (history)
  cut,     \* cut[n]: the ids whose first announcer n was cut off from (history)
  strays,  \* strays[n]: whose PRUNE or GRAFT n took when they had left (history)
  clock,   \* the instant
  ticked   \* the nodes whose tick has fired in this instant

overlay == <<up, peers, changes>>
history == <<since, owed, grafted, cut, strays>>
vars == <<tree, net, overlay, author, log, history, clock, ticked>>

Id == DOMAIN Schedule
Neighbours(n) == {p \in Node : {n, p} \in Link}

\* Earlier traffic has pruned some of the links, and its messages have left
\* the caches.
Init ==
  /\ \E pruned \in Pruned :
       tree = [n \in Node |->
                 [EmptyTree EXCEPT
                    !.eager = {p \in Neighbours(n) : {n, p} \notin pruned},
                    !.lazy = {p \in Neighbours(n) : {n, p} \in pruned}]]
  /\ net = [n \in Node |-> [p \in Node |-> << >>]]
  /\ up = Link
  /\ peers = [n \in Node |-> Neighbours(n)]
  /\ changes = MaxChanges
  /\ strays = [n \in Node |-> {}]
  /\ author = [id \in Id |-> Nobody]
  /\ log = [n \in Node |-> << >>]
  /\ since = [n \in Node |-> [id \in Id |-> 0]]
  /\ owed = [n \in Node |-> [id \in Id |-> {}]]
  /\ grafted = [n \in Node |-> [id \in Id |-> {}]]
  /\ cut = [n \in Node |-> {}]
  /\ clock = 1
  /\ ticked = {}

-----------------------------------------------------------------------------
(* What a call leaves in the queue of events goes to the connections.      *)

\* The announcements of an IHAVE, which inject_rpc_call takes one by one.
Announcements(m) ==
  IF m.type = "IHAVE"
  THEN {[type |-> "ANNOUNCE", id |-> h.id, hop |-> h.hop] : h \in m.ihaves}
  ELSE {m}

\* What an event has for p: a batch of messages that arrive in any order, or
\* nothing.
BatchFor(e, p) ==
  IF e.type = "NotifyEach" /\ p \in DOMAIN e.msgs THEN <<Announcements(e.msgs[p])>>
  ELSE IF e.type = "Replay" /\ e.to = p THEN <<e.msgs>>
  ELSE << >>

Batches(t, p) == FlattenSeq([i \in DOMAIN t.out |-> BatchFor(t.out[i], p)])

\* The messages that GenerateEvent hands to the application.
Handed(t) ==
  FlattenSeq([i \in DOMAIN t.out |->
                IF t.out[i].type = "Message" THEN <<t.out[i].id>> ELSE << >>])

\* n's tree becomes t: what it has for a peer without a connection is
\* dropped.
Handle(n, t, sent) ==
  /\ tree' = [tree EXCEPT ![n] = [t EXCEPT !.out = << >>]]
  /\ net' = [sent EXCEPT ![n] = [p \in Node |->
               IF {n, p} \in up THEN @[p] \o Batches(t, p) ELSE @[p]]]
  /\ log' = [log EXCEPT ![n] = @ \o Handed(t)]
  /\ since' = [since EXCEPT ![n] = [id \in Id |->
                 IF @[id] = 0 /\ Has(t.received, id) THEN clock ELSE @[id]]]
  /\ owed' = [owed EXCEPT ![n] = [id \in Id |->
                IF since[n][id] = 0 /\ Has(t.received, id)
                THEN {p \in peers[n] : {n, p} \in up} ELSE @[id]]]

-----------------------------------------------------------------------------

\* publish(), under an id drawn at random and so never seen before.
PublishMessage(n, id) ==
  /\ author[id] = Nobody
  /\ Schedule[id] = clock
  /\ author' = [author EXCEPT ![id] = n]
  /\ Handle(n, Publish(tree[n], n, id, clock), net)
  /\ UNCHANGED <<overlay, grafted, cut, strays, clock, ticked>>

\* inject_rpc_call.
Receive(t, from, m) ==
  CASE m.type = "MESSAGE" -> InjectMessage(t, from, m.id, m.hop, clock)
    [] m.type = "ANNOUNCE" -> InjectIHave(t, from, m.id, m.hop, clock)
    [] m.type = "PRUNE" -> InjectPrune(t, from)
    [] m.type = "GRAFT" -> InjectGraft(t, from, m.ids)

Deliver(n, p) ==
  /\ net[n][p] # << >>
  /\ \E m \in Head(net[n][p]) :
       LET rest == Head(net[n][p]) \ {m}
           taken == [net EXCEPT ![n][p] = IF rest = {} THEN Tail(@)
                                          ELSE <<rest>> \o Tail(@)]
       IN  /\ Handle(p, Receive(tree[p], n, m), taken)
           /\ grafted' = IF m.type = "GRAFT"
                         THEN [grafted EXCEPT ![p] = [id \in Id |->
                                 IF since[p][id] # 0 /\ clock =< since[p][id] + 1
                                 THEN @[id] \cup {n} ELSE @[id]]]
                         ELSE grafted
           /\ strays' = IF m.type \in {"GRAFT", "PRUNE"} /\ n \notin peers[p]
                        THEN [strays EXCEPT ![p] = @ \cup {n}] ELSE strays
  /\ UNCHANGED <<overlay, author, cut, clock, ticked>>

\* A poll of n that finds a tick due.
Tick(n) ==
  /\ n \notin ticked
  /\ ticked' = ticked \cup {n}
  /\ \E t \in TreeTick(tree[n], clock) : Handle(n, t, net)
  /\ UNCHANGED <<overlay, author, grafted, cut, strays, clock>>

\* The first announcement of id that n has had: what repair_tree acts upon.
FirstHeard(n, id) ==
  {r \in {tree[n].observed.byTime[i] : i \in DOMAIN tree[n].observed.byTime} :
     r.id = id}

\* A connection is lost with what is under way on it.
ConnectionLost(n, p) ==
  /\ changes > 0
  /\ {n, p} \in up
  /\ changes' = changes - 1
  /\ up' = up \ {{n, p}}
  /\ net' = [net EXCEPT ![n][p] = << >>, ![p][n] = << >>]
  /\ owed' = [m \in Node |-> [id \in Id |->
                {q \in owed[m][id] : {m, q} # {n, p}}]]
  /\ cut' = [m \in Node |-> cut[m] \cup {id \in Id :
               \E r \in FirstHeard(m, id) : {m, r.sender} = {n, p}}]
  /\ UNCHANGED <<tree, peers, author, log, since, grafted, strays, clock, ticked>>

\* n, whose view has dropped p, dials it again.
ConnectionOpened(n, p) ==
  /\ {n, p} \in Link \ up
  /\ p \notin peers[n]
  /\ up' = up \cup {{n, p}}
  /\ UNCHANGED <<tree, net, peers, changes, author, log, history, clock, ticked>>

\* The view of n drops p: it has noticed that the connection is gone, or
\* makes room for another peer, or was sent a DISCONNECT.
NeighborDown(n, p) ==
  /\ p \in peers[n]
  /\ \/ {n, p} \notin up /\ UNCHANGED changes
     \/ {n, p} \in up /\ changes > 0 /\ changes' = changes - 1
  /\ tree' = [tree EXCEPT ![n] = InjectNeighborDown(@, p)]
  /\ peers' = [peers EXCEPT ![n] = @ \ {p}]
  /\ owed' = [owed EXCEPT ![n] = [id \in Id |-> @[id] \ {p}]]
  /\ strays' = [strays EXCEPT ![n] = @ \ {p}]
  /\ UNCHANGED <<net, up, author, log, since, grafted, cut, clock, ticked>>

\* The view of n takes p in again.  (While the dial is under way the tree
\* sends into the void, as it does to a peer whose loss is not noticed.)
NeighborUp(n, p) ==
  /\ {n, p} \in up
  /\ p \notin peers[n]
  /\ tree' = [tree EXCEPT ![n] = InjectNeighborUp(@, p)]
  /\ peers' = [peers EXCEPT ![n] = @ \cup {p}]
  /\ UNCHANGED <<net, up, changes, author, log, history, clock, ticked>>

Quiet == \A n, p \in Node : net[n][p] = << >>

\* Time passes when everything due in this instant has happened.
Advance ==
  /\ Quiet
  /\ ticked = Node
  /\ \A id \in Id : Schedule[id] =< clock => author[id] # Nobody
  /\ clock < MaxTime
  /\ clock' = clock + 1
  /\ ticked' = {}
  /\ UNCHANGED <<tree, net, overlay, author, log, history>>

Next ==
  \/ \E n \in Node : Tick(n) \/ \E id \in Id : PublishMessage(n, id)
  \/ \E n, p \in Node : \/ Deliver(n, p)
                        \/ ConnectionLost(n, p) \/ ConnectionOpened(n, p)
                        \/ NeighborDown(n, p) \/ NeighborUp(n, p)
  \/ Advance

Spec == Init /\ [][Next]_vars

-----------------------------------------------------------------------------

\* What travels between two nodes.
WireMessage ==
  [type : {"MESSAGE", "ANNOUNCE"}, id : Id, hop : Nat]
    \cup [type : {"PRUNE"}] \cup [type : {"GRAFT"}, ids : SUBSET Id]

\* Peer sets hold neighbours, connections carry messages of the protocol.
TypeOK ==
  /\ \A n \in Node : tree[n].eager \cup tree[n].lazy \subseteq Neighbours(n)
  /\ net \in [Node -> [Node -> Seq(SUBSET WireMessage)]]
  /\ up \subseteq Link /\ changes \in Nat
  /\ \A n \in Node : peers[n] \subseteq Neighbours(n)
  /\ author \in [Id -> Node \cup {Nobody}]
  /\ log \in [Node -> Seq(Id)]
  /\ clock \in 1 .. MaxTime /\ ticked \subseteq Node

\* The message is younger than the history window: whoever has had it still
\* has its record.
Fresh(id) == clock < Schedule[id] + HistoryWindow

\* A message is pushed on once by every node while records of it are kept:
\* no path that a MESSAGE or an IHAVE tells of is longer than the number of
\* nodes (tree.rs 142-161, 259-265).
HopBound ==
  \A n, p \in Node : \A i \in DOMAIN net[n][p] : \A m \in net[n][p][i] :
    m.type \in {"MESSAGE", "ANNOUNCE"} /\ Fresh(m.id) => m.hop =< Cardinality(Node)

\* A tree keeps an active peer either eager or lazy and forgets one that has
\* left, however PRUNE, GRAFT and the events of the view cross.  The one
\* exception is the code's: a PRUNE or a GRAFT of a peer that has left makes
\* it lazy or eager all the same, and when it comes back it is eager without
\* ceasing to be lazy (tree.rs 54-62, 198-206).
OneSide ==
  \A n \in Node : \A p \in Neighbours(n) \ strays[n] :
    IF p \in peers[n] THEN (p \in tree[n].eager) # (p \in tree[n].lazy)
    ELSE p \notin tree[n].eager \cup tree[n].lazy

\* An instant in which everything due has happened.
Over == Quiet /\ ticked = Node

\* One instant until the next tick announces a message, two ticks in which
\* the announcement has to age, and the tick after them that asks for it.
RepairTime == 4

\* A node that has a message has brought it to each of its active peers
\* after RepairTime, over an eager link or by IHAVE, GRAFT and replay,
\* although links were pruned and other peers and connections come and go
\* (tree.rs 267-349).  Two exceptions are the code's: the connection of the
\* peer's first announcer was lost after the announcement, and the cache
\* ignores later ones; or the peer grafted the link for another message
\* after this one had been pushed to the eager peers and before the tick
\* that would have announced it.
DeliveredInTime ==
  \A n \in Node : \A id \in Id : \A p \in owed[n][id] :
    Over /\ Fresh(id) /\ since[n][id] # 0 /\ clock = since[n][id] + RepairTime
    => since[p][id] # 0 \/ id \in cut[p] \/ p \in grafted[n][id]

\* The trees together hand a message to an application once at most and
\* never to its author, while it is younger than the history window
\* (tree.rs 142-161, 259-265).
Service == INSTANCE BroadcastService WITH
             old <- {id \in Id : author[id] # Nobody /\ ~Fresh(id)}
ImplementsService == Service!Spec
=============================================================================
