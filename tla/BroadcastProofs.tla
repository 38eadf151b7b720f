--------------------------- MODULE BroadcastProofs ---------------------------
(***************************************************************************)
(* What the trees of a topic do together, for any nodes, links, messages   *)
(* and windows, and however connections and active peers come and go.      *)
(*                                                                         *)
(* The first part shows that they keep their types and serve every active  *)
(* peer once.  That a peer is either eager or lazy is not inductive by     *)
(* itself: a tree moves the sender of a PRUNE or a GRAFT between its peer  *)
(* sets without asking whether it is a peer, and a new peer becomes eager  *)
(* without ceasing to be lazy.  BroadcastInv says therefore who can be on  *)
(* two sides or be there without being a peer (the strays), that messages  *)
(* are under way only on open connections, and that what travels is a      *)
(* message of the protocol, which needs the types of the caches that       *)
(* replays and announcements are made of.                                  *)
(*                                                                         *)
(* The second part follows a message for as long as it is younger than the *)
(* history window: no path of it is longer than the number of nodes, it is *)
(* handed to an application once and not to its author, and an active peer *)
(* that misses it has it after four instants.  TraceInv says where it can  *)
(* be: which nodes have had it and since when, what is under way for it,   *)
(* and what every node that has it does about a peer that has not.         *)
(***************************************************************************)
EXTENDS Broadcast, PlumTreeProofs, SequenceTheorems, WellFoundedInduction,
        FiniteSetTheorems

Entry == [id : Id, hop : Nat, sender : Node, time : Nat]
Entries == UNION {[S -> Entry] : S \in SUBSET Id}
Cache == [data : Entries, byTime : Seq(Entry)]

Copy == [type : {"MESSAGE"}, id : Id, hop : Nat]
TreeMessage ==
  Copy \cup [type : {"IHAVE"}, ihaves : SUBSET [id : Id, hop : Nat]]
    \cup [type : {"PRUNE"}] \cup [type : {"GRAFT"}, ids : SUBSET Id]
ForEach == UNION {[S -> TreeMessage] : S \in SUBSET Node}
Event ==
  [type : {"NotifyEach"}, msgs : ForEach]
    \cup [type : {"Replay"}, to : Node, msgs : SUBSET Copy]
    \cup [type : {"Message"}, id : Id]

Tree ==
  [eager : SUBSET Node, lazy : SUBSET Node, received : Cache, observed : Cache,
   out : Seq(Event)]

\* The peers of n are on one of its two sides, and nobody else is on any.
\* Of the nodes in S only the first is said.
Sides(n, t, S) ==
  /\ t.eager \cup t.lazy \subseteq Neighbours(n)
  /\ peers[n] \subseteq t.eager \cup t.lazy
  /\ \A p \in t.eager \cup t.lazy :
       p \in S \/ (p \in peers[n] /\ ~(p \in t.eager /\ p \in t.lazy))

BroadcastInv ==
  /\ tree \in [Node -> Tree]
  /\ \A n \in Node : Sides(n, tree[n], strays[n])
  /\ net \in [Node -> [Node -> Seq(SUBSET WireMessage)]]
  /\ \A n, p \in Node : net[n][p] # << >> => {n, p} \in up
  /\ up \subseteq Link /\ changes \in Nat
  /\ peers \in [Node -> SUBSET Node] /\ strays \in [Node -> SUBSET Node]
  /\ \A n \in Node : peers[n] \subseteq Neighbours(n)
  /\ author \in [Id -> Node \cup {Nobody}]
  /\ log \in [Node -> Seq(Id)]
  /\ clock \in 1 .. MaxTime /\ ticked \subseteq Node

-----------------------------------------------------------------------------
(* Numbers and sequences.                                                  *)

\* A set of numbers that is not empty has a least element.
LEMMA Least ==
  ASSUME NEW S, S \subseteq Nat, S # {}
  PROVE  \E i \in S : \A j \in S : i =< j
<1> DEFINE R == OpToRel(<, Nat)
<1>1. \E i \in S : \A j \in S : ~ (<<j, i>> \in R)
  <2>1. IsWellFoundedOn(R, Nat)
    BY NatLessThanWellFounded
  <2> HIDE DEF R
  <2> QED BY <2>1, WFMin
<1>2. \A i, j \in Nat : ~ (<<j, i>> \in R) => i =< j
  BY DEF OpToRel
<1> HIDE DEF R
<1> QED BY <1>1, <1>2

\* A set that holds 1, and with a number up to n the one after it, holds
\* every number from 1 to n.
LEMMA AllFromOne ==
  ASSUME NEW n \in Nat, NEW S, 1 \in S,
         \A i \in 2 .. n : i - 1 \in S => i \in S
  PROVE  1 .. n \subseteq S
<1> DEFINE T == (1 .. n) \ S
<1>1. CASE T = {}
  BY <1>1
<1>2. CASE T # {}
  <2>1. T \subseteq Nat
    OBVIOUS
  <2>2. PICK i \in T : \A j \in T : i =< j
    <3> HIDE DEF T
    <3> QED BY <1>2, <2>1, Least
  <2>3. i \in 2 .. n /\ i - 1 \in 1 .. n /\ ~(i =< i - 1)
    BY <2>2
  <2>4. i - 1 \in S
    BY <2>2, <2>3
  <2> QED BY <2>2, <2>3, <2>4
<1> QED BY <1>1, <1>2

\* The value of the recursion of FlattenSeq at i.
Joined(s, f, i) == IF i = 1 THEN s[i] ELSE f[i - 1] \o s[i]

\* f is the recursion, for the first n sequences.
Joins(s, n, f) == f = [i \in 1 .. n |-> Joined(s, f, i)]

\* What a solution is at every place.
LEMMA JoinsAt ==
  ASSUME NEW s, NEW n, NEW f, Joins(s, n, f)
  PROVE  DOMAIN f = 1 .. n /\ \A i \in 1 .. n : f[i] = Joined(s, f, i)
BY DEF Joins

\* The recursion has a solution.
LEMMA JoinsExists ==
  ASSUME NEW s, NEW n \in Nat \ {0}
  PROVE  \E f : Joins(s, n, f)
<1> DEFINE S == {m \in 1 .. n : \E f : Joins(s, m, f)}
<1>1. 1 \in S
  <2> DEFINE f == [i \in 1 .. 1 |-> s[1]]
  <2>1. Joins(s, 1, f)
    BY DEF Joins, Joined
  <2> QED BY <2>1
<1>2. ASSUME NEW m \in 2 .. n, m - 1 \in S
      PROVE  m \in S
  <2>1. PICK f : Joins(s, m - 1, f)
    BY <1>2
  <2>2. DOMAIN f = 1 .. m - 1 /\ \A i \in 1 .. m - 1 : f[i] = Joined(s, f, i)
    BY <2>1, JoinsAt
  <2> DEFINE g == [i \in 1 .. m |-> IF i = m THEN Joined(s, f, m) ELSE f[i]]
  <2>3. \A i \in 1 .. m - 1 : g[i] = f[i]
    OBVIOUS
  <2>4. ASSUME NEW i \in 1 .. m
        PROVE  g[i] = Joined(s, g, i)
    <3>1. i = 1 \/ i - 1 \in 1 .. m - 1
      OBVIOUS
    <3>2. Joined(s, g, i) = Joined(s, f, i)
      BY <2>3, <3>1 DEF Joined
    <3>3. i = m \/ i \in 1 .. m - 1
      OBVIOUS
    <3> QED BY <2>2, <3>2, <3>3
  <2>5. Joins(s, m, g)
    BY <2>4 DEF Joins
  <2> QED BY <2>5
<1>3. 1 .. n \subseteq S
  <2> HIDE DEF S
  <2> QED BY <1>1, <1>2, AllFromOne
<1> QED BY <1>3

\* Sequences over S one after the other are a sequence over S.
LEMMA FlattenTyped ==
  ASSUME NEW S, NEW s \in Seq(Seq(S))
  PROVE  FlattenSeq(s) \in Seq(S)
<1> DEFINE n == Len(s)
<1>1. n \in Nat /\ \A i \in 1 .. n : s[i] \in Seq(S)
  BY LenProperties, ElementOfSeq
<1>2. CASE n = 0
  <2>1. s = << >>
    BY <1>2, EmptySeq
  <2> QED BY <1>2, <2>1 DEF FlattenSeq
<1>3. CASE n # 0
  <2> DEFINE g == CHOOSE f : Joins(s, n, f)
  <2>1. FlattenSeq(s) = g[n]
    BY <1>3 DEF FlattenSeq, Joins, Joined
  <2>2. Joins(s, n, g)
    BY <1>1, <1>3, JoinsExists
  <2> HIDE DEF g, n
  <2>3. \A i \in 1 .. n : g[i] = Joined(s, g, i)
    BY <2>2, JoinsAt
  <2> DEFINE T == {i \in 1 .. n : g[i] \in Seq(S)}
  <2>4. 1 \in T
    BY <1>1, <1>3, <2>3 DEF Joined
  <2>5. ASSUME NEW i \in 2 .. n, i - 1 \in T PROVE i \in T
    <3>1. i \in 1 .. n /\ i # 1
      BY <1>1
    <3>2. g[i] = g[i - 1] \o s[i]
      BY <2>3, <3>1 DEF Joined
    <3>3. g[i - 1] \o s[i] \in Seq(S)
      BY <1>1, <2>5, <3>1, ConcatProperties
    <3> QED BY <3>1, <3>2, <3>3
  <2>6. 1 .. n \subseteq T
    <3> HIDE DEF T
    <3> QED BY <1>1, <2>4, <2>5, AllFromOne
  <2>7. n \in T
    BY <1>1, <1>3, <2>6
  <2> QED BY <2>1, <2>7
<1> QED BY <1>2, <1>3

-----------------------------------------------------------------------------
(* The caches.                                                             *)

\* A map from ids to entries, by its domain.
LEMMA EntriesAre ==
  ASSUME NEW f
  PROVE  f \in Entries <=> DOMAIN f \subseteq Id /\ f \in [DOMAIN f -> Entry]
BY DEF Entries

\* The fields of a cache.
LEMMA CacheFields ==
  ASSUME NEW c \in Cache
  PROVE  /\ c.data \in Entries /\ c.byTime \in Seq(Entry)
         /\ DOMAIN c.data \subseteq Id /\ c.data \in [DOMAIN c.data -> Entry]
         /\ \A id \in DOMAIN c.data : c.data[id].hop \in Nat
         /\ Len(c.byTime) \in Nat /\ DOMAIN c.byTime = 1 .. Len(c.byTime)
         /\ \A i \in DOMAIN c.byTime : c.byTime[i] \in Entry
<1>1. c.data \in Entries /\ c.byTime \in Seq(Entry)
  BY DEF Cache
<1>2. DOMAIN c.data \subseteq Id /\ c.data \in [DOMAIN c.data -> Entry]
  BY <1>1, EntriesAre
<1>3. \A id \in DOMAIN c.data : c.data[id].hop \in Nat
  BY <1>2 DEF Entry
<1>4. Len(c.byTime) \in Nat /\ DOMAIN c.byTime = 1 .. Len(c.byTime)
  BY <1>1, LenProperties
<1>5. \A i \in DOMAIN c.byTime : c.byTime[i] \in Entry
  BY <1>1, <1>4, ElementOfSeq
<1> QED BY <1>1, <1>2, <1>3, <1>4, <1>5

\* insert.
LEMMA InsertTyped ==
  ASSUME NEW c \in Cache, NEW e \in Entry
  PROVE  Insert(c, e) \in Cache
<1>1. e.id \in Id
  BY DEF Entry
<1>2. CASE ~Has(c, e.id)
  <2> DEFINE f == [i \in DOMAIN c.data \cup {e.id} |->
                     IF i = e.id THEN e ELSE c.data[i]]
  <2>1. DOMAIN f \subseteq Id /\ f \in [DOMAIN f -> Entry]
    BY <1>1, CacheFields
  <2>2. f \in Entries
    <3> HIDE DEF f
    <3> QED BY <2>1, EntriesAre
  <2>3. Append(c.byTime, e) \in Seq(Entry)
    BY CacheFields, AppendProperties
  <2> HIDE DEF f
  <2>4. [data |-> f, byTime |-> Append(c.byTime, e)] \in Cache
    BY <2>2, <2>3 DEF Cache
  <2> QED BY <1>2, <2>4 DEF Insert, f
<1>3. CASE Has(c, e.id) /\ e.hop < c.data[e.id].hop
  <2> DEFINE f == [c.data EXCEPT ![e.id] = e]
  <2>1. DOMAIN f \subseteq Id /\ f \in [DOMAIN f -> Entry]
    BY CacheFields
  <2>2. f \in Entries
    <3> HIDE DEF f
    <3> QED BY <2>1, EntriesAre
  <2>3. [c EXCEPT !.data[e.id] = e] = [c EXCEPT !.data = f]
    BY DEF Cache
  <2> HIDE DEF f
  <2>4. [c EXCEPT !.data = f] \in Cache
    BY <2>2 DEF Cache
  <2> QED BY <1>3, <2>3, <2>4 DEF Insert
<1>4. CASE Has(c, e.id) /\ ~(e.hop < c.data[e.id].hop)
  BY <1>4 DEF Insert
<1> QED BY <1>2, <1>3, <1>4

\* remove_older_than.
LEMMA RemoveTyped ==
  ASSUME NEW c \in Cache, NEW limit
  PROVE  RemoveOlderThan(c, limit) \in Cache
<1> DEFINE gone == {c.byTime[i].id : i \in Expired(c, limit)}
           kept == {i \in DOMAIN c.byTime : i \notin Expired(c, limit)}
           first == CHOOSE i \in kept : \A j \in kept : i =< j
           f == [i \in DOMAIN c.data \ gone |-> c.data[i]]
           s == IF kept = {} THEN << >> ELSE SubSeq(c.byTime, first, Len(c.byTime))
<1>1. Len(c.byTime) \in Nat /\ DOMAIN c.byTime = 1 .. Len(c.byTime)
      /\ c.byTime \in Seq(Entry)
  BY CacheFields
<1>2. f \in Entries
  <2>1. DOMAIN f \subseteq Id /\ f \in [DOMAIN f -> Entry]
    <3> HIDE DEF gone
    <3> QED BY CacheFields
  <2> HIDE DEF f
  <2> QED BY <2>1, EntriesAre
<1>3. s \in Seq(Entry)
  <2>1. CASE kept = {}
    BY <2>1
  <2>2. CASE kept # {}
    <3>1. kept \subseteq Nat
      BY <1>1
    <3>2. first \in kept
      <4> HIDE DEF kept
      <4>1. \E i \in kept : \A j \in kept : i =< j
        BY <2>2, <3>1, Least
      <4> QED BY <4>1
    <3>3. first \in 1 .. Len(c.byTime)
      BY <1>1, <3>2
    <3> HIDE DEF first, kept
    <3>4. SubSeq(c.byTime, first, Len(c.byTime)) \in Seq(Entry)
      BY <1>1, <3>3
    <3> QED BY <2>2, <3>4
  <2> QED BY <2>1, <2>2
<1>4. RemoveOlderThan(c, limit) = [data |-> f, byTime |-> s]
  BY DEF RemoveOlderThan
<1> HIDE DEF f, s
<1> QED BY <1>2, <1>3, <1>4 DEF Cache

\* iter_range.
LEMMA WindowTyped ==
  ASSUME NEW c \in Cache, NEW a, NEW b, NEW w \in IterRange(c, a, b), NEW i \in DOMAIN w
  PROVE  w[i] \in Entry
<1> DEFINE n == Len(c.byTime)
<1>1. n \in Nat /\ DOMAIN c.byTime = 1 .. n /\ \A j \in 1 .. n : c.byTime[j] \in Entry
  BY CacheFields
<1>2. PICK first \in Positions(c, a), last \in Positions(c, b) :
        w = [j \in 1 .. last - first |-> c.byTime[first + j - 1]]
  BY DEF IterRange
<1>3. first \in 1 .. n + 1 /\ last \in 1 .. n + 1
  <2>1. \A t : Positions(c, t) \subseteq 1 .. n + 1
    BY <1>1 DEF Positions
  <2> QED BY <2>1
<1> HIDE DEF n
<1>4. i \in 1 .. last - first /\ w[i] = c.byTime[first + i - 1]
  BY <1>2
<1>5. first + i - 1 \in 1 .. n
  BY <1>1, <1>3, <1>4
<1> QED BY <1>1, <1>4, <1>5

-----------------------------------------------------------------------------
(* The methods of a tree.                                                  *)

\* The fields of a tree, each replaced by another of its type.
LEMMA TreeFields ==
  ASSUME NEW t \in Tree
  PROVE  /\ IsTree(t)
         /\ t.eager \subseteq Node /\ t.lazy \subseteq Node
         /\ t.received \in Cache /\ t.observed \in Cache /\ t.out \in Seq(Event)
         /\ \A x, y \in SUBSET Node : /\ [t EXCEPT !.eager = x, !.lazy = y] \in Tree
                                      /\ [t EXCEPT !.lazy = y, !.eager = x] \in Tree
         /\ \A c \in Cache : /\ [t EXCEPT !.received = c] \in Tree
                             /\ [t EXCEPT !.observed = c] \in Tree
         /\ \A c, d \in Cache : [t EXCEPT !.observed = c, !.received = d] \in Tree
         /\ \A s \in Seq(Event) : [t EXCEPT !.out = s] \in Tree
<1>1. IsTree(t)
  BY DEF Tree, IsTree
<1>2. /\ t.eager \subseteq Node /\ t.lazy \subseteq Node
      /\ t.received \in Cache /\ t.observed \in Cache /\ t.out \in Seq(Event)
  BY DEF Tree
<1>3. \A x, y \in SUBSET Node : /\ [t EXCEPT !.eager = x, !.lazy = y] \in Tree
                                /\ [t EXCEPT !.lazy = y, !.eager = x] \in Tree
  BY DEF Tree
<1>4. \A c \in Cache : /\ [t EXCEPT !.received = c] \in Tree
                       /\ [t EXCEPT !.observed = c] \in Tree
  BY DEF Tree
<1>5. \A c, d \in Cache : [t EXCEPT !.observed = c, !.received = d] \in Tree
  BY DEF Tree
<1>6. \A s \in Seq(Event) : [t EXCEPT !.out = s] \in Tree
  BY DEF Tree
<1> QED BY <1>1, <1>2, <1>3, <1>4, <1>5, <1>6

\* Queueing an event.
LEMMA PushTyped ==
  ASSUME NEW t \in Tree, NEW e \in Event
  PROVE  PushTree(t, e) \in Tree
<1>1. Append(t.out, e) \in Seq(Event)
  BY TreeFields, AppendProperties
<1> QED BY <1>1, TreeFields DEF PushTree

\* One message for each of some nodes.
LEMMA SendEachTyped ==
  ASSUME NEW t \in Tree, NEW msgs \in ForEach
  PROVE  SendEach(t, msgs) \in Tree
<1>1. [type |-> "NotifyEach", msgs |-> msgs] \in Event
  BY DEF Event
<1> QED BY <1>1, PushTyped DEF SendEach

\* The same message for some nodes.
LEMMA SendAllTyped ==
  ASSUME NEW t \in Tree, NEW to \in SUBSET Node, NEW m \in TreeMessage
  PROVE  SendAll(t, to, m) \in Tree
<1>1. [p \in to |-> m] \in [to -> TreeMessage]
  OBVIOUS
<1>2. [p \in to |-> m] \in ForEach
  BY <1>1 DEF ForEach
<1> QED BY <1>2, SendEachTyped DEF SendAll

\* The messages of the protocol.
LEMMA MessagesTyped ==
  /\ \A id \in Id, hop \in Nat : MessageMsg(id, hop) \in TreeMessage
                                 /\ MessageMsg(id, hop) \in Copy
  /\ \A h \in SUBSET [id : Id, hop : Nat] : IHaveMsg(h) \in TreeMessage
  /\ PruneMsg \in TreeMessage
  /\ \A ids \in SUBSET Id : GraftMsg(ids) \in TreeMessage
BY DEF MessageMsg, IHaveMsg, PruneMsg, GraftMsg, TreeMessage, Copy

\* publish().
LEMMA PublishTyped ==
  ASSUME NEW t \in Tree, NEW n \in Node, NEW id \in Id, NEW now \in Nat
  PROVE  Publish(t, n, id, now) \in Tree
<1> DEFINE u == SendAll(t, t.eager, MessageMsg(id, 1))
<1>1. u \in Tree
  BY TreeFields, MessagesTyped, SendAllTyped
<1>2. Timed(id, 0, n, now) \in Entry
  BY DEF Timed, Entry
<1> HIDE DEF u
<1>3. [u EXCEPT !.received = Insert(@, Timed(id, 0, n, now))] \in Tree
  BY <1>1, <1>2, TreeFields, InsertTyped
<1> QED BY <1>3 DEF Publish, u

\* inject_neighbor_down and inject_prune.
LEMMA DownPruneTyped ==
  ASSUME NEW t \in Tree, NEW p \in Node
  PROVE  InjectNeighborDown(t, p) \in Tree /\ InjectPrune(t, p) \in Tree
<1>1. /\ t.eager \ {p} \in SUBSET Node /\ t.lazy \ {p} \in SUBSET Node
      /\ t.lazy \cup {p} \in SUBSET Node
  BY TreeFields
<1> QED BY <1>1, TreeFields DEF InjectNeighborDown, InjectPrune

\* inject_neighbor_up.
LEMMA UpTyped ==
  ASSUME NEW t \in Tree, NEW p \in Node
  PROVE  InjectNeighborUp(t, p) \in Tree
BY DEF InjectNeighborUp, Tree

\* inject_message.
LEMMA MessageTyped ==
  ASSUME NEW t \in Tree, NEW from \in Node, NEW id \in Id, NEW hop \in Nat,
         NEW now \in Nat
  PROVE  InjectMessage(t, from, id, hop, now) \in Tree
<1> DEFINE u == [t EXCEPT !.received = Insert(@, Timed(id, hop, from, now))]
           e == [type |-> "Message", id |-> id]
<1>1. Timed(id, hop, from, now) \in Entry
  BY DEF Timed, Entry
<1>2. u \in Tree
  BY <1>1, TreeFields, InsertTyped
<1>3. e \in Event
  BY DEF Event
<1>4. MessageMsg(id, hop + 1) \in TreeMessage /\ PruneMsg \in TreeMessage
  <2>1. hop + 1 \in Nat
    OBVIOUS
  <2> QED BY <2>1, MessagesTyped
<1> HIDE DEF u, e
<1>5. SendAll(PushTree(u, e), u.eager \ {from}, MessageMsg(id, hop + 1)) \in Tree
  <2>1. PushTree(u, e) \in Tree /\ u.eager \ {from} \in SUBSET Node
    BY <1>2, <1>3, PushTyped, TreeFields
  <2> QED BY <1>4, <2>1, SendAllTyped
<1>6. SendAll(InjectPrune(u, from), {from}, PruneMsg) \in Tree
  <2>1. InjectPrune(u, from) \in Tree /\ {from} \in SUBSET Node
    BY <1>2, DownPruneTyped
  <2> QED BY <1>4, <2>1, SendAllTyped
<1> QED BY <1>2, <1>5, <1>6 DEF InjectMessage, u, e

\* inject_ihave.
LEMMA IHaveTyped ==
  ASSUME NEW t \in Tree, NEW from \in Node, NEW id \in Id, NEW hop \in Nat,
         NEW now \in Nat
  PROVE  InjectIHave(t, from, id, hop, now) \in Tree
<1>1. Timed(id, hop, from, now) \in Entry
  BY DEF Timed, Entry
<1> QED BY <1>1, TreeFields, InsertTyped DEF InjectIHave

\* inject_graft.
LEMMA GraftTyped ==
  ASSUME NEW t \in Tree, NEW p \in Node, NEW ids \in SUBSET Id
  PROVE  InjectGraft(t, p, ids) \in Tree
<1> DEFINE found == {id \in ids : Has(t.received, id)}
           x == t.eager \cup {p}
           y == t.lazy \ {p}
           u == [t EXCEPT !.lazy = y, !.eager = x]
           copies == {MessageMsg(id, t.received.data[id].hop) : id \in found}
           e == [type |-> "Replay", to |-> p, msgs |-> copies]
<1>1. x \in SUBSET Node /\ y \in SUBSET Node
  BY TreeFields
<1>2. u \in Tree
  <2> HIDE DEF x, y
  <2> QED BY <1>1, TreeFields
<1>3. copies \in SUBSET Copy
  <2>1. \A id \in found : t.received.data[id].hop \in Nat /\ id \in Id
    BY TreeFields, CacheFields DEF Has
  <2> HIDE DEF found
  <2> QED BY <2>1, MessagesTyped
<1>4. e \in Event
  <2> HIDE DEF copies
  <2> QED BY <1>3 DEF Event
<1>5. InjectGraft(t, p, ids) = IF found = {} THEN u ELSE PushTree(u, e)
  BY DEF InjectGraft
<1> HIDE DEF u, e, found
<1> QED BY <1>2, <1>4, <1>5, PushTyped

\* publish_ihaves.
LEMMA IHavesTyped ==
  ASSUME NEW t \in Tree, NEW now
  PROVE  \A u \in PublishIHaves(t, now) : u \in Tree
<1> DEFINE Told(w) == {[id |-> w[i].id, hop |-> w[i].hop] : i \in DOMAIN w}
<1> SUFFICES ASSUME NEW w \in IterRange(t.received, Ago(now, LazyPushWindow), now)
             PROVE  SendAll(t, t.lazy, IHaveMsg(Told(w))) \in Tree
  BY DEF PublishIHaves
<1>1. \A i \in DOMAIN w : w[i] \in Entry
  BY TreeFields, WindowTyped
<1>2. Told(w) \in SUBSET [id : Id, hop : Nat]
  BY <1>1 DEF Entry
<1> HIDE DEF Told
<1>3. IHaveMsg(Told(w)) \in TreeMessage
  BY <1>2, MessagesTyped
<1> QED BY <1>3, TreeFields, SendAllTyped

\* repair_tree.
LEMMA RepairTyped ==
  ASSUME NEW t \in Tree, NEW now
  PROVE  \A u \in RepairTree(t, now) : u \in Tree
<1> DEFINE Of(w) == {w[i] : i \in DOMAIN w}
<1> SUFFICES ASSUME NEW w \in IterRange(t.observed, Ago(now, LazyPushWindow),
                                        Ago(now, 2 * TickFrequency))
             PROVE  PruneHistory(SendEach(t, Grafts(t, Of(w))), now) \in Tree
  BY DEF RepairTree
<1>1. Of(w) \subseteq Entry
  <2>1. \A i \in DOMAIN w : w[i] \in Entry
    BY TreeFields, WindowTyped
  <2> QED BY <2>1
<1> HIDE DEF Of
<1>2. Grafts(t, Of(w)) \in ForEach
  <2> DEFINE missing == {o \in Of(w) : ~Has(t.received, o.id)}
             better == {o \in Of(w) : BetterPath(t, o)}
             S == {o.sender : o \in missing \cup better}
             Ids(p) == {o.id : o \in {x \in missing : x.sender = p}}
             f == [p \in S |-> GraftMsg(Ids(p))]
  <2>1. S \in SUBSET Node
    BY <1>1 DEF Entry
  <2>2. \A p : Ids(p) \in SUBSET Id
    BY <1>1 DEF Entry
  <2> HIDE DEF S, Ids
  <2>3. f \in [S -> TreeMessage]
    BY <2>2, MessagesTyped
  <2>4. f \in ForEach
    <3> HIDE DEF f
    <3> QED BY <2>1, <2>3 DEF ForEach
  <2>5. Grafts(t, Of(w)) = f
    BY DEF Grafts, S, Ids
  <2> QED BY <2>4, <2>5
<1>3. SendEach(t, Grafts(t, Of(w))) \in Tree
  BY <1>2, SendEachTyped
<1> QED BY <1>3, TreeFields, RemoveTyped DEF PruneHistory

\* The periodic work.
LEMMA TickTyped ==
  ASSUME NEW t \in Tree, NEW now
  PROVE  \A u \in TreeTick(t, now) : u \in Tree
BY IHavesTyped, RepairTyped DEF TreeTick

-----------------------------------------------------------------------------
(* What a call sends and hands over.                                       *)

\* The batches for a peer are sets of messages of the protocol.
LEMMA BatchesTyped ==
  ASSUME NEW t \in Tree, NEW p
  PROVE  Batches(t, p) \in Seq(SUBSET WireMessage)
<1> DEFINE s == [i \in DOMAIN t.out |-> BatchFor(t.out[i], p)]
<1>1. /\ Len(t.out) \in Nat /\ DOMAIN t.out = 1 .. Len(t.out)
      /\ \A i \in DOMAIN t.out : t.out[i] \in Event
  BY TreeFields, LenProperties, ElementOfSeq
<1>2. \A m \in TreeMessage : Announcements(m) \in SUBSET WireMessage
  BY DEF Announcements, TreeMessage, Copy, WireMessage
<1>3. \A x \in SUBSET Copy : x \in SUBSET WireMessage
  BY DEF Copy, WireMessage
<1>4. ASSUME NEW e \in Event PROVE BatchFor(e, p) \in Seq(SUBSET WireMessage)
  <2>1. CASE e.type = "NotifyEach" /\ p \in DOMAIN e.msgs
    <3>1. e.msgs \in ForEach
      BY <1>4, <2>1 DEF Event
    <3>2. e.msgs[p] \in TreeMessage
      BY <2>1, <3>1 DEF ForEach
    <3> QED BY <1>2, <2>1, <3>2 DEF BatchFor
  <2>2. CASE ~(e.type = "NotifyEach" /\ p \in DOMAIN e.msgs) /\ e.type = "Replay" /\ e.to = p
    <3>1. e.msgs \in SUBSET Copy
      BY <1>4, <2>2 DEF Event
    <3> QED BY <1>3, <2>2, <3>1 DEF BatchFor
  <2>3. CASE /\ ~(e.type = "NotifyEach" /\ p \in DOMAIN e.msgs)
             /\ ~(e.type = "Replay" /\ e.to = p)
    BY <2>3 DEF BatchFor
  <2> QED BY <2>1, <2>2, <2>3
<1>5. s \in Seq(Seq(SUBSET WireMessage))
  <2>1. \A i \in 1 .. Len(t.out) : s[i] \in Seq(SUBSET WireMessage)
    BY <1>1, <1>4
  <2>2. s \in [1 .. Len(t.out) -> Seq(SUBSET WireMessage)]
    BY <1>1, <2>1
  <2> QED BY <1>1, <2>2, IsASeq
<1> HIDE DEF s
<1> QED BY <1>5, FlattenTyped DEF Batches, s

\* The application gets ids.
LEMMA HandedTyped ==
  ASSUME NEW t \in Tree
  PROVE  Handed(t) \in Seq(Id)
<1> DEFINE s == [i \in DOMAIN t.out |->
                   IF t.out[i].type = "Message" THEN <<t.out[i].id>> ELSE << >>]
<1>1. /\ Len(t.out) \in Nat /\ DOMAIN t.out = 1 .. Len(t.out)
      /\ \A i \in DOMAIN t.out : t.out[i] \in Event
  BY TreeFields, LenProperties, ElementOfSeq
<1>2. \A e \in Event : e.type = "Message" => e.id \in Id
  BY DEF Event
<1>3. s \in [1 .. Len(t.out) -> Seq(Id)]
  BY <1>1, <1>2
<1>4. s \in Seq(Seq(Id))
  <2> HIDE DEF s
  <2> QED BY <1>1, <1>3, IsASeq
<1> HIDE DEF s
<1> QED BY <1>4, FlattenTyped DEF Handed, s

\* A pair has no order.
LEMMA Pairs == \A n, p : {n, p} = {p, n}
OBVIOUS

\* The parts that Handle changes stay good when the new tree is.
LEMMA HandleKeeps ==
  ASSUME BroadcastInv, NEW n \in Node, NEW t \in Tree, NEW sent,
         sent \in [Node -> [Node -> Seq(SUBSET WireMessage)]],
         \A m, p \in Node : sent[m][p] # << >> => {m, p} \in up,
         Sides(n, t, strays'[n]), \A m \in Node \ {n} : strays'[m] = strays[m],
         Handle(n, t, sent), UNCHANGED <<up, peers>>
  PROVE  /\ tree' \in [Node -> Tree]
         /\ \A m \in Node : Sides(m, tree[m], strays[m])'
         /\ net' \in [Node -> [Node -> Seq(SUBSET WireMessage)]]
         /\ \A m, p \in Node : net'[m][p] # << >> => {m, p} \in up'
         /\ log' \in [Node -> Seq(Id)]
<1> DEFINE u == [t EXCEPT !.out = << >>]
           W == Seq(SUBSET WireMessage)
           g == [p \in Node |-> IF {n, p} \in up THEN sent[n][p] \o Batches(t, p)
                                ELSE sent[n][p]]
<1>1. tree \in [Node -> Tree] /\ log \in [Node -> Seq(Id)]
  BY DEF BroadcastInv
<1>2. /\ tree' = [tree EXCEPT ![n] = u] /\ net' = [sent EXCEPT ![n] = g]
      /\ log' = [log EXCEPT ![n] = @ \o Handed(t)]
  BY DEF Handle
<1>3. u \in Tree /\ u.eager = t.eager /\ u.lazy = t.lazy
  <2>1. << >> \in Seq(Event)
    OBVIOUS
  <2>2. u \in Tree
    BY <2>1, TreeFields
  <2>3. SamePeers(t, u)
    BY TreeFields, Others
  <2> QED BY <2>2, <2>3 DEF SamePeers
<1> HIDE DEF u
<1>4. tree' \in [Node -> Tree]
  BY <1>1, <1>2, <1>3
<1>5. ASSUME NEW m \in Node PROVE Sides(m, tree[m], strays[m])'
  <2>1. CASE m = n
    BY <1>1, <1>2, <1>3, <2>1 DEF Sides
  <2>2. CASE m # n
    BY <1>1, <1>2, <2>2 DEF Sides, BroadcastInv
  <2> QED BY <2>1, <2>2
<1>6. g \in [Node -> W]
  <2>1. \A p \in Node : Batches(t, p) \in W /\ sent[n][p] \in W
    BY BatchesTyped
  <2>2. \A x, y \in W : x \o y \in W
    BY ConcatProperties
  <2> HIDE DEF W
  <2> QED BY <2>1, <2>2
<1>7. \A p \in Node : g[p] # << >> => {n, p} \in up
  OBVIOUS
<1>8. net' \in [Node -> [Node -> W]]
  <2> HIDE DEF g
  <2> QED BY <1>2, <1>6
<1>9. \A m, p \in Node : net'[m][p] # << >> => {m, p} \in up'
  <2> HIDE DEF g
  <2> QED BY <1>2, <1>7
<1>10. log' \in [Node -> Seq(Id)]
  <2>1. log[n] \o Handed(t) \in Seq(Id)
    BY <1>1, HandedTyped, ConcatProperties
  <2> QED BY <1>1, <1>2, <2>1
<1> QED BY <1>4, <1>5, <1>8, <1>9, <1>10

\* A tree that moves a peer from one side to the other, or nobody, still has
\* every peer on one side.
LEMMA SidesKept ==
  ASSUME NEW n \in Node, NEW t, NEW S, Sides(n, t, S), NEW u, NEW p \in Neighbours(n),
         NEW T, S \subseteq T, p \in T \/ p \in peers[n],
         MadeLazy(t, u, p) \/ MadeEager(t, u, p)
  PROVE  Sides(n, u, T)
<1>1. CASE MadeLazy(t, u, p)
  BY <1>1 DEF Sides, MadeLazy
<1>2. CASE MadeEager(t, u, p)
  BY <1>2 DEF Sides, MadeEager
<1> QED BY <1>1, <1>2

\* A tree that moves nobody.
LEMMA SidesSame ==
  ASSUME NEW n \in Node, NEW t, NEW S, Sides(n, t, S), NEW u, SamePeers(t, u),
         NEW T, S \subseteq T
  PROVE  Sides(n, u, T)
BY DEF Sides, SamePeers

\* Those who are strays after p has taken m from n.
StraysWith(n, p, m) ==
  IF m.type \in {"GRAFT", "PRUNE"} /\ n \notin peers[p]
  THEN strays[p] \cup {n} ELSE strays[p]

\* inject_rpc_call: the sender is moved at most, and it is a peer or a stray.
LEMMA ReceiveKeeps ==
  ASSUME BroadcastInv, NEW n \in Node, NEW p \in Node, {n, p} \in up,
         NEW m \in WireMessage
  PROVE  LET u == Receive(tree[p], n, m) IN u \in Tree /\ Sides(p, u, StraysWith(n, p, m))
<1> DEFINE t == tree[p]
           u == Receive(tree[p], n, m)
           S == strays[p]
           T == StraysWith(n, p, m)
<1>1. t \in Tree /\ IsTree(t) /\ Sides(p, t, S)
  <2>1. t \in Tree /\ Sides(p, t, S)
    BY DEF BroadcastInv
  <2> QED BY <2>1, TreeFields
<1>2. n \in Neighbours(p)
  BY Pairs DEF BroadcastInv, Neighbours
<1>3. clock \in Nat
  BY BroadcastAssumption DEF BroadcastInv
<1>9. S \subseteq T /\ (m.type \in {"GRAFT", "PRUNE"} => n \in T \/ n \in peers[p])
  BY DEF StraysWith
<1> HIDE DEF t, S, T
<1>4. CASE m.type = "MESSAGE"
  <2>1. m.id \in Id /\ m.hop \in Nat
    BY <1>4 DEF WireMessage
  <2> DEFINE v == InjectMessage(t, n, m.id, m.hop, clock)
  <2>2. u = v
    BY <1>4 DEF Receive, t
  <2>3. v \in Tree
    BY <1>1, <1>3, <2>1, MessageTyped
  <2>4. SamePeers(t, v) \/ (n \in t.eager /\ MadeLazy(t, v, n))
    BY <1>1, MessageMoves
  <2> HIDE DEF v
  <2>5. n \in t.eager => n \in T \/ n \in peers[p]
    BY <1>1, <1>9 DEF Sides
  <2>6. Sides(p, v, T)
    BY <1>1, <1>2, <1>9, <2>4, <2>5, SidesKept, SidesSame
  <2> QED BY <2>2, <2>3, <2>6 DEF T
<1>5. CASE m.type = "ANNOUNCE"
  <2>1. m.id \in Id /\ m.hop \in Nat
    BY <1>5 DEF WireMessage
  <2> DEFINE v == InjectIHave(t, n, m.id, m.hop, clock)
  <2>2. u = v
    BY <1>5 DEF Receive, t
  <2>3. v \in Tree /\ SamePeers(t, v)
    BY <1>1, <1>3, <2>1, IHaveTyped, IHaveSame
  <2> HIDE DEF v
  <2> QED BY <1>1, <1>9, <2>2, <2>3, SidesSame DEF T
<1>6. CASE m.type = "PRUNE"
  <2> DEFINE v == InjectPrune(t, n)
  <2>1. u = v
    BY <1>6 DEF Receive, t
  <2>2. v \in Tree /\ MadeLazy(t, v, n)
    BY <1>1, DownPruneTyped, PruneMoves
  <2> HIDE DEF v
  <2>3. Sides(p, v, T)
    BY <1>1, <1>2, <1>6, <1>9, <2>2, SidesKept
  <2> QED BY <2>1, <2>2, <2>3 DEF T
<1>7. CASE m.type = "GRAFT"
  <2>1. m.ids \in SUBSET Id
    BY <1>7 DEF WireMessage
  <2> DEFINE v == InjectGraft(t, n, m.ids)
  <2>2. u = v
    BY <1>7 DEF Receive, t
  <2>3. v \in Tree /\ MadeEager(t, v, n)
    BY <1>1, <2>1, GraftTyped, GraftMoves
  <2> HIDE DEF v
  <2>4. Sides(p, v, T)
    BY <1>1, <1>2, <1>7, <1>9, <2>3, SidesKept
  <2> QED BY <2>2, <2>3, <2>4 DEF T
<1>8. m.type \in {"MESSAGE", "ANNOUNCE", "PRUNE", "GRAFT"}
  BY DEF WireMessage
<1> QED BY <1>4, <1>5, <1>6, <1>7, <1>8

-----------------------------------------------------------------------------
(* The steps.                                                              *)

\* The trees that earlier traffic has left behind.
LEMMA InitBroadcast == Init => BroadcastInv
<1> SUFFICES ASSUME Init PROVE BroadcastInv
  OBVIOUS
<1>1. PICK pruned \in Pruned :
        tree = [n \in Node |->
                  [EmptyTree EXCEPT
                     !.eager = {p \in Neighbours(n) : {n, p} \notin pruned},
                     !.lazy = {p \in Neighbours(n) : {n, p} \in pruned}]]
  BY DEF Init
<1> DEFINE X(n) == {p \in Neighbours(n) : {n, p} \notin pruned}
           Y(n) == {p \in Neighbours(n) : {n, p} \in pruned}
<1>2. EmptyTree \in Tree
  <2>1. << >> \in Entries
    <3>1. DOMAIN << >> = {} /\ << >> \in [{} -> Entry]
      OBVIOUS
    <3> QED BY <3>1, EntriesAre
  <2>2. EmptyCache \in Cache
    BY <2>1 DEF EmptyCache, Cache
  <2> QED BY <2>2 DEF EmptyTree, Tree
<1>3. \A n \in Node : X(n) \in SUBSET Node /\ Y(n) \in SUBSET Node
  BY DEF Neighbours
<1>4. ASSUME NEW n \in Node PROVE tree[n] \in Tree /\ Sides(n, tree[n], strays[n])
  <2> DEFINE x == X(n)
             y == Y(n)
  <2>1. tree[n] = [EmptyTree EXCEPT !.eager = x, !.lazy = y]
    BY <1>1
  <2>2. x \in SUBSET Node /\ y \in SUBSET Node
    BY <1>3
  <2>3. x \cap y = {} /\ x \cup y = Neighbours(n)
    OBVIOUS
  <2> HIDE DEF x, y
  <2>4. tree[n] \in Tree
    <3> DEFINE t == EmptyTree
    <3>1. t \in Tree
      BY <1>2
    <3> HIDE DEF t
    <3>2. [t EXCEPT !.eager = x, !.lazy = y] \in Tree
      BY <2>2, <3>1, TreeFields
    <3> QED BY <2>1, <3>2 DEF t
  <2>5. HasPeers(tree[n], x, y)
    BY <1>2, <2>1, TreeFields, WithPeers
  <2>6. tree[n].eager = x /\ tree[n].lazy = y
    BY <2>5 DEF HasPeers
  <2>7. peers[n] = Neighbours(n)
    BY DEF Init
  <2> QED BY <2>3, <2>4, <2>6, <2>7 DEF Sides
<1>5. tree \in [Node -> Tree]
  <2>1. \A n \in Node : tree[n] \in Tree
    BY <1>4
  <2>2. tree = [n \in Node |-> tree[n]]
    BY <1>1
  <2> QED BY <2>1, <2>2
<1>6. /\ net \in [Node -> [Node -> Seq(SUBSET WireMessage)]]
      /\ \A n, p \in Node : net[n][p] # << >> => {n, p} \in up
  <2> DEFINE W == Seq(SUBSET WireMessage)
  <2>1. << >> \in W
    OBVIOUS
  <2>2. net = [n \in Node |-> [p \in Node |-> << >>]]
    BY DEF Init
  <2> HIDE DEF W
  <2>3. net \in [Node -> [Node -> W]]
    BY <2>1, <2>2
  <2> QED BY <2>2, <2>3 DEF W
<1>7. up \subseteq Link /\ changes \in Nat /\ ticked \subseteq Node
      /\ clock \in 1 .. MaxTime
  <2>1. up = Link /\ changes = MaxChanges /\ ticked = {} /\ clock = 1
    BY DEF Init
  <2>2. MaxTime \in Nat \ {0} /\ MaxChanges \in Nat
    BY BroadcastAssumption
  <2> QED BY <2>1, <2>2
<1>8. author \in [Id -> Node \cup {Nobody}]
  BY DEF Init
<1>9. log \in [Node -> Seq(Id)]
  <2>1. << >> \in Seq(Id)
    OBVIOUS
  <2> QED BY <2>1 DEF Init
<1>10. /\ peers \in [Node -> SUBSET Node] /\ strays \in [Node -> SUBSET Node]
       /\ \A n \in Node : peers[n] \subseteq Neighbours(n)
  BY DEF Init, Neighbours
<1> QED BY <1>4, <1>5, <1>6, <1>7, <1>8, <1>9, <1>10 DEF BroadcastInv

\* publish() moves nobody.
LEMMA PublishKeeps ==
  ASSUME BroadcastInv, NEW n \in Node, NEW id \in Id, PublishMessage(n, id)
  PROVE  BroadcastInv'
<1> DEFINE t == Publish(tree[n], n, id, clock)
<1>1. tree[n] \in Tree /\ Sides(n, tree[n], strays[n]) /\ clock \in Nat
  BY BroadcastAssumption DEF BroadcastInv
<1>2. t \in Tree /\ SamePeers(tree[n], t)
  BY <1>1, TreeFields, PublishTyped, PublishSame
<1>3. Handle(n, t, net) /\ UNCHANGED <<up, peers, changes, strays, clock, ticked>>
      /\ author' = [author EXCEPT ![id] = n]
  BY DEF PublishMessage, overlay
<1> HIDE DEF t
<1>4. Sides(n, t, strays'[n])
  BY <1>1, <1>2, <1>3, SidesSame
<1>5. /\ tree' \in [Node -> Tree]
      /\ \A m \in Node : Sides(m, tree[m], strays[m])'
      /\ net' \in [Node -> [Node -> Seq(SUBSET WireMessage)]]
      /\ \A m, p \in Node : net'[m][p] # << >> => {m, p} \in up'
      /\ log' \in [Node -> Seq(Id)]
  BY <1>2, <1>3, <1>4, HandleKeeps DEF BroadcastInv
<1> QED BY <1>3, <1>5 DEF BroadcastInv

\* A message moves its sender at most.
LEMMA DeliverKeeps ==
  ASSUME BroadcastInv, NEW n \in Node, NEW p \in Node, Deliver(n, p)
  PROVE  BroadcastInv'
<1> DEFINE W == Seq(SUBSET WireMessage)
           q == net[n][p]
<1>1. q \in W /\ q # << >> /\ {n, p} \in up /\ net \in [Node -> [Node -> W]]
  BY DEF BroadcastInv, Deliver
<1>2. Head(q) \in SUBSET WireMessage /\ Tail(q) \in W
  BY <1>1
<1>3. PICK m \in Head(q) :
        LET rest == Head(q) \ {m}
            taken == [net EXCEPT ![n][p] = IF rest = {} THEN Tail(@)
                                           ELSE <<rest>> \o Tail(@)]
        IN  /\ Handle(p, Receive(tree[p], n, m), taken)
            /\ strays' = IF m.type \in {"GRAFT", "PRUNE"} /\ n \notin peers[p]
                         THEN [strays EXCEPT ![p] = @ \cup {n}] ELSE strays
  BY DEF Deliver
<1> DEFINE rest == Head(q) \ {m}
           left == IF rest = {} THEN Tail(q) ELSE <<rest>> \o Tail(q)
           taken == [net EXCEPT ![n][p] = left]
           t == Receive(tree[p], n, m)
<1>4. Handle(p, t, taken)
  BY <1>1, <1>3
<1>5. m \in WireMessage
  BY <1>2
<1>6. left \in W
  <2>1. <<rest>> \in W
    BY <1>2
  <2>2. <<rest>> \o Tail(q) \in W
    <3> HIDE DEF rest
    <3> QED BY <1>2, <2>1, ConcatProperties
  <2> HIDE DEF rest
  <2> QED BY <1>2, <2>2
<1> HIDE DEF left, W
<1>7. taken \in [Node -> [Node -> W]]
  <2>1. [net[n] EXCEPT ![p] = left] \in [Node -> W]
    BY <1>1, <1>6
  <2>2. taken = [net EXCEPT ![n] = [net[n] EXCEPT ![p] = left]]
    BY <1>1
  <2> QED BY <1>1, <2>1, <2>2
<1>8. \A k, r \in Node : taken[k][r] # << >> => {k, r} \in up
  <2> SUFFICES ASSUME NEW k \in Node, NEW r \in Node, taken[k][r] # << >>
               PROVE  {k, r} \in up
    OBVIOUS
  <2>1. CASE k = n /\ r = p
    BY <1>1, <2>1
  <2>2. CASE k # n \/ r # p
    <3>1. taken[k][r] = net[k][r]
      BY <1>1, <2>2
    <3> QED BY <3>1 DEF BroadcastInv
  <2> QED BY <2>1, <2>2
<1>9. t \in Tree /\ Sides(p, t, StraysWith(n, p, m))
  BY <1>1, <1>5, ReceiveKeeps
<1>10. UNCHANGED <<up, peers, changes, author, clock, ticked>>
  BY DEF Deliver, overlay
<1>12. /\ strays' \in [Node -> SUBSET Node] /\ strays'[p] = StraysWith(n, p, m)
       /\ \A k \in Node \ {p} : strays'[k] = strays[k]
  <2>1. strays \in [Node -> SUBSET Node]
    BY DEF BroadcastInv
  <2>2. strays' = IF m.type \in {"GRAFT", "PRUNE"} /\ n \notin peers[p]
                  THEN [strays EXCEPT ![p] = @ \cup {n}] ELSE strays
    BY <1>3
  <2> QED BY <2>1, <2>2 DEF StraysWith
<1> HIDE DEF taken, t
<1>11. /\ tree' \in [Node -> Tree]
       /\ \A k \in Node : Sides(k, tree[k], strays[k])'
       /\ net' \in [Node -> [Node -> W]]
       /\ \A k, r \in Node : net'[k][r] # << >> => {k, r} \in up'
       /\ log' \in [Node -> Seq(Id)]
  BY <1>4, <1>7, <1>8, <1>9, <1>10, <1>12, HandleKeeps DEF W
<1> QED BY <1>10, <1>11, <1>12 DEF BroadcastInv, W

\* The periodic work moves nobody.
LEMMA TickKeeps ==
  ASSUME BroadcastInv, NEW n \in Node, Tick(n)
  PROVE  BroadcastInv'
<1>1. tree[n] \in Tree /\ Sides(n, tree[n], strays[n])
  BY DEF BroadcastInv
<1>2. PICK t \in TreeTick(tree[n], clock) : Handle(n, t, net)
  BY DEF Tick
<1>3. t \in Tree /\ SamePeers(tree[n], t)
  BY <1>1, TreeFields, TickTyped, TickSame
<1>4. UNCHANGED <<up, peers, changes, author, strays, clock>> /\ ticked' = ticked \cup {n}
  BY DEF Tick, overlay
<1>5. Sides(n, t, strays'[n])
  BY <1>1, <1>3, <1>4, SidesSame
<1>6. /\ tree' \in [Node -> Tree]
      /\ \A m \in Node : Sides(m, tree[m], strays[m])'
      /\ net' \in [Node -> [Node -> Seq(SUBSET WireMessage)]]
      /\ \A m, p \in Node : net'[m][p] # << >> => {m, p} \in up'
      /\ log' \in [Node -> Seq(Id)]
  BY <1>2, <1>3, <1>4, <1>5, HandleKeeps DEF BroadcastInv
<1> QED BY <1>4, <1>6 DEF BroadcastInv

\* A connection takes what is under way in both directions with it.
LEMMA LostKeeps ==
  ASSUME BroadcastInv, NEW n \in Node, NEW p \in Node, ConnectionLost(n, p)
  PROVE  BroadcastInv'
<1> DEFINE W == Seq(SUBSET WireMessage)
<1>1. /\ up' = up \ {{n, p}} /\ changes' = changes - 1 /\ changes > 0
      /\ net' = [net EXCEPT ![n][p] = << >>, ![p][n] = << >>]
      /\ UNCHANGED <<tree, peers, author, log, strays, clock, ticked>>
  BY DEF ConnectionLost
<1>2. net \in [Node -> [Node -> W]] /\ << >> \in W
  <2>1. << >> \in W
    OBVIOUS
  <2> QED BY <2>1 DEF BroadcastInv
<1> HIDE DEF W
<1>3. /\ net' \in [Node -> [Node -> W]]
      /\ \A k, r \in Node : net'[k][r] = net[k][r] \/ net'[k][r] = << >>
      /\ net'[n][p] = << >> /\ net'[p][n] = << >>
  <2> DEFINE a == [net EXCEPT ![n][p] = << >>]
  <2>1. /\ a \in [Node -> [Node -> W]] /\ a[n][p] = << >>
        /\ \A k, r \in Node : a[k][r] = net[k][r] \/ a[k][r] = << >>
    BY <1>2
  <2>2. net' = [a EXCEPT ![p][n] = << >>]
    BY <1>1
  <2> HIDE DEF a
  <2>3. /\ net' \in [Node -> [Node -> W]]
        /\ \A k, r \in Node : net'[k][r] = a[k][r] \/ net'[k][r] = << >>
        /\ net'[p][n] = << >>
    BY <1>2, <2>1, <2>2
  <2> QED BY <2>1, <2>3
<1>4. ASSUME NEW k \in Node, NEW r \in Node, net'[k][r] # << >>
      PROVE  {k, r} \in up'
  <2>1. {k, r} \in up
    BY <1>3, <1>4 DEF BroadcastInv
  <2>2. {k, r} # {n, p}
    <3>1. ~(k = n /\ r = p) /\ ~(k = p /\ r = n)
      BY <1>3, <1>4
    <3>2. {k, r} = {n, p} => (k = n /\ r = p) \/ (k = p /\ r = n)
      BY Zenon
    <3> QED BY <3>1, <3>2
  <2> QED BY <1>1, <2>1, <2>2
<1>5. \A m \in Node : Sides(m, tree[m], strays[m])'
  BY <1>1 DEF BroadcastInv, Sides
<1>6. changes' \in Nat /\ up' \subseteq Link
  BY <1>1 DEF BroadcastInv
<1> QED BY <1>1, <1>3, <1>4, <1>5, <1>6 DEF BroadcastInv, W

\* A connection is opened with nothing under way on it.
LEMMA OpenedKeeps ==
  ASSUME BroadcastInv, NEW n \in Node, NEW p \in Node, ConnectionOpened(n, p)
  PROVE  BroadcastInv'
<1>1. /\ up' = up \cup {{n, p}} /\ {n, p} \in Link
      /\ UNCHANGED <<tree, net, peers, changes, author, log, strays, clock, ticked>>
  BY DEF ConnectionOpened, history
<1>2. \A m \in Node : Sides(m, tree[m], strays[m])'
  BY <1>1 DEF BroadcastInv, Sides
<1>3. up' \subseteq Link /\ \A k, r \in Node : net'[k][r] # << >> => {k, r} \in up'
  BY <1>1 DEF BroadcastInv
<1> QED BY <1>1, <1>2, <1>3 DEF BroadcastInv

\* n takes p out of its tree, and in again.
PeersMove(n, p, t) ==
  \/ /\ t = InjectNeighborDown(tree[n], p)
     /\ peers' = [peers EXCEPT ![n] = @ \ {p}]
     /\ strays' = [strays EXCEPT ![n] = @ \ {p}]
  \/ /\ t = InjectNeighborUp(tree[n], p)
     /\ p \in Neighbours(n) \ peers[n]
     /\ peers' = [peers EXCEPT ![n] = @ \cup {p}]
     /\ UNCHANGED strays

\* A peer that leaves is on no side, one that comes is eager, and lazy too if
\* it is a stray.
LEMMA PeersMoveKeeps ==
  ASSUME BroadcastInv, NEW n \in Node, NEW p \in Node, NEW t, PeersMove(n, p, t),
         tree' = [tree EXCEPT ![n] = t],
         changes' \in Nat, UNCHANGED <<net, up, author, log, clock, ticked>>
  PROVE  BroadcastInv'
<1> DEFINE x == peers[n]
           y == strays[n]
<1>1. /\ tree \in [Node -> Tree] /\ tree[n] \in Tree /\ Sides(n, tree[n], y)
      /\ peers \in [Node -> SUBSET Node] /\ strays \in [Node -> SUBSET Node]
      /\ x \subseteq Neighbours(n)
  BY DEF BroadcastInv
<1> DEFINE Fine == /\ t \in Tree /\ Sides(n, t, strays[n])'
                   /\ peers' \in [Node -> SUBSET Node] /\ strays' \in [Node -> SUBSET Node]
                   /\ peers'[n] \subseteq Neighbours(n)
                   /\ \A m \in Node \ {n} : peers'[m] = peers[m] /\ strays'[m] = strays[m]
<1> SUFFICES Fine
  <2>1. ASSUME Fine, NEW m \in Node PROVE Sides(m, tree[m], strays[m])'
    <3>1. CASE m = n
      BY <1>1, <2>1, <3>1 DEF Sides
    <3>2. CASE m # n
      BY <1>1, <2>1, <3>2 DEF Sides, BroadcastInv
    <3> QED BY <3>1, <3>2
  <2>2. ASSUME Fine PROVE tree' \in [Node -> Tree]
    BY <1>1, <2>2
  <2>3. ASSUME Fine, NEW m \in Node PROVE peers'[m] \subseteq Neighbours(m)
    BY <2>3 DEF BroadcastInv
  <2> QED BY <2>1, <2>2, <2>3 DEF BroadcastInv
<1>2. CASE t = InjectNeighborDown(tree[n], p) /\ peers' = [peers EXCEPT ![n] = x \ {p}]
           /\ strays' = [strays EXCEPT ![n] = y \ {p}]
  <2>1. t \in Tree /\ HasPeers(t, tree[n].eager \ {p}, tree[n].lazy \ {p})
    BY <1>1, <1>2, TreeFields, DownPruneTyped, NeighborMoves
  <2>2. peers'[n] = x \ {p} /\ strays'[n] = y \ {p}
    BY <1>1, <1>2
  <2>3. Sides(n, t, strays[n])'
    BY <1>1, <2>1, <2>2 DEF Sides, HasPeers
  <2>4. /\ peers' \in [Node -> SUBSET Node] /\ strays' \in [Node -> SUBSET Node]
        /\ peers'[n] \subseteq Neighbours(n)
        /\ \A m \in Node \ {n} : peers'[m] = peers[m] /\ strays'[m] = strays[m]
    BY <1>1, <1>2
  <2> QED BY <2>1, <2>3, <2>4
<1>3. CASE t = InjectNeighborUp(tree[n], p) /\ peers' = [peers EXCEPT ![n] = x \cup {p}]
           /\ p \in Neighbours(n) \ x /\ UNCHANGED strays
  <2>1. t \in Tree /\ HasPeers(t, tree[n].eager \cup {p}, tree[n].lazy)
    BY <1>1, <1>3, TreeFields, UpTyped, NeighborMoves
  <2>2. peers'[n] = x \cup {p} /\ strays'[n] = y
    BY <1>1, <1>3
  <2>3. Sides(n, t, strays[n])'
    BY <1>1, <1>3, <2>1, <2>2 DEF Sides, HasPeers
  <2>4. /\ peers' \in [Node -> SUBSET Node] /\ strays' \in [Node -> SUBSET Node]
        /\ peers'[n] \subseteq Neighbours(n)
        /\ \A m \in Node \ {n} : peers'[m] = peers[m] /\ strays'[m] = strays[m]
    BY <1>1, <1>3
  <2> QED BY <2>1, <2>3, <2>4
<1> QED BY <1>2, <1>3 DEF PeersMove

\* The view drops a peer.
LEMMA DownKeeps ==
  ASSUME BroadcastInv, NEW n \in Node, NEW p \in Node, NeighborDown(n, p)
  PROVE  BroadcastInv'
<1>1. tree \in [Node -> Tree] /\ changes \in Nat
  BY DEF BroadcastInv
<1> DEFINE t == InjectNeighborDown(tree[n], p)
<1>2. /\ PeersMove(n, p, t) /\ tree' = [tree EXCEPT ![n] = t]
      /\ UNCHANGED <<net, up, author, log, clock, ticked>>
  BY <1>1 DEF NeighborDown, PeersMove
<1>3. changes' \in Nat
  BY <1>1 DEF NeighborDown
<1> HIDE DEF t
<1> QED BY <1>2, <1>3, PeersMoveKeeps

\* The view takes one in.
LEMMA UpKeeps ==
  ASSUME BroadcastInv, NEW n \in Node, NEW p \in Node, NeighborUp(n, p)
  PROVE  BroadcastInv'
<1>1. tree \in [Node -> Tree] /\ changes \in Nat /\ up \subseteq Link
  BY DEF BroadcastInv
<1> DEFINE t == InjectNeighborUp(tree[n], p)
<1>2. /\ PeersMove(n, p, t) /\ tree' = [tree EXCEPT ![n] = t]
      /\ UNCHANGED <<net, up, changes, author, log, clock, ticked>>
  BY <1>1 DEF NeighborUp, PeersMove, Neighbours, history
<1> HIDE DEF t
<1> QED BY <1>1, <1>2, PeersMoveKeeps

\* The inductive invariant holds in every reachable state.
THEOREM BroadcastInvariant == Spec => []BroadcastInv
<1>1. BroadcastInv /\ [Next]_vars => BroadcastInv'
  <2> SUFFICES ASSUME BroadcastInv, [Next]_vars PROVE BroadcastInv'
    OBVIOUS
  <2>1. ASSUME NEW n \in Node, Tick(n) PROVE BroadcastInv'
    BY <2>1, TickKeeps
  <2>2. ASSUME NEW n \in Node, NEW id \in Id, PublishMessage(n, id) PROVE BroadcastInv'
    BY <2>2, PublishKeeps
  <2>3. ASSUME NEW n \in Node, NEW p \in Node, Deliver(n, p) PROVE BroadcastInv'
    BY <2>3, DeliverKeeps
  <2>4. ASSUME NEW n \in Node, NEW p \in Node, ConnectionLost(n, p) PROVE BroadcastInv'
    BY <2>4, LostKeeps
  <2>5. ASSUME NEW n \in Node, NEW p \in Node, NeighborDown(n, p) PROVE BroadcastInv'
    BY <2>5, DownKeeps
  <2>6. CASE Advance
    <3>1. /\ clock' \in 1 .. MaxTime /\ ticked' = {}
          /\ UNCHANGED <<tree, net, up, peers, changes, author, log, strays>>
      BY <2>6, BroadcastAssumption DEF Advance, BroadcastInv, overlay, history
    <3> QED BY <3>1 DEF BroadcastInv, Sides
  <2>7. CASE UNCHANGED vars
    BY <2>7 DEF vars, overlay, history, BroadcastInv, Sides
  <2>8. ASSUME NEW n \in Node, NEW p \in Node, ConnectionOpened(n, p) PROVE BroadcastInv'
    BY <2>8, OpenedKeeps
  <2>9. ASSUME NEW n \in Node, NEW p \in Node, NeighborUp(n, p) PROVE BroadcastInv'
    BY <2>9, UpKeeps
  <2> QED BY <2>1, <2>2, <2>3, <2>4, <2>5, <2>6, <2>7, <2>8, <2>9 DEF Next
<1> QED BY <1>1, InitBroadcast, PTL DEF Spec

\* Peer sets hold neighbours and connections carry messages of the protocol,
\* whatever is published, lost, pruned and replayed (tree.rs).
THEOREM BroadcastTypes == Spec => []TypeOK
<1>1. BroadcastInv => TypeOK
  BY DEF BroadcastInv, Sides, TypeOK
<1> QED BY <1>1, BroadcastInvariant, PTL

\* An active peer is served eagerly or lazily, never both and never neither,
\* and one that has left is not served, in whatever order PRUNE, GRAFT,
\* messages, losses and the events of the view come; a PRUNE or a GRAFT taken
\* from a peer that has left is the only way to another state
\* (tree.rs 54-62, 142-212).
THEOREM ServedOnce == Spec => []OneSide
<1>1. BroadcastInv => OneSide
  <2> SUFFICES ASSUME BroadcastInv, NEW n \in Node, NEW p \in Neighbours(n) \ strays[n]
               PROVE  IF p \in peers[n] THEN (p \in tree[n].eager) # (p \in tree[n].lazy)
                      ELSE p \notin tree[n].eager \cup tree[n].lazy
    BY DEF OneSide
  <2>1. Sides(n, tree[n], strays[n])
    BY DEF BroadcastInv
  <2>2. CASE p \in peers[n]
    <3>1. p \in tree[n].eager \/ p \in tree[n].lazy
      BY <2>1, <2>2 DEF Sides
    <3>2. ~(p \in tree[n].eager /\ p \in tree[n].lazy)
      BY <2>1, <2>2 DEF Sides
    <3> QED BY <2>2, <3>1, <3>2
  <2>3. CASE p \notin peers[n]
    BY <2>1, <2>3 DEF Sides
  <2> QED BY <2>2, <2>3
<1> QED BY <1>1, BroadcastInvariant, PTL


-----------------------------------------------------------------------------
(* What a cache holds.                                                     *)

Records(c) == {c.byTime[i] : i \in DOMAIN c.byTime}

Ordered(c) ==
  \A i, j \in DOMAIN c.byTime : i =< j => c.byTime[i].time =< c.byTime[j].time

\* Whatever the map holds has a place in the queue.
Keyed(c) == \A id \in DOMAIN c.data : \E r \in Records(c) : r.id = id

\* The fields of an entry.
LEMMA EntryFields ==
  ASSUME NEW e \in Entry
  PROVE  e.id \in Id /\ e.hop \in Nat /\ e.sender \in Node /\ e.time \in Nat
BY DEF Entry

\* Records are entries.
LEMMA RecordsTyped ==
  ASSUME NEW c \in Cache
  PROVE  Records(c) \subseteq Entry
BY CacheFields DEF Records

\* insert of an id that is not there.
LEMMA InsertFirst ==
  ASSUME NEW c \in Cache, NEW e \in Entry, ~Has(c, e.id)
  PROVE  LET d == Insert(c, e) IN
         /\ Records(d) = Records(c) \cup {e}
         /\ DOMAIN d.data = DOMAIN c.data \cup {e.id}
         /\ d.data[e.id] = e
         /\ \A id \in DOMAIN c.data : d.data[id] = c.data[id]
         /\ Ordered(c) /\ (\A r \in Records(c) : r.time =< e.time) => Ordered(d)
<1> DEFINE n == Len(c.byTime)
           d == Insert(c, e)
<1>1. /\ c.byTime \in Seq(Entry) /\ n \in Nat /\ DOMAIN c.byTime = 1 .. n
      /\ \A i \in 1 .. n : c.byTime[i] \in Entry
  BY CacheFields
<1>2. /\ d.data = [i \in DOMAIN c.data \cup {e.id} |-> IF i = e.id THEN e ELSE c.data[i]]
      /\ d.byTime = Append(c.byTime, e)
  BY DEF Insert
<1>3. /\ DOMAIN d.byTime = 1 .. n + 1 /\ d.byTime[n + 1] = e
      /\ \A i \in 1 .. n : d.byTime[i] = c.byTime[i]
  BY <1>1, <1>2, AppendProperties
<1> HIDE DEF n, d
<1>4. Records(d) = Records(c) \cup {e}
  <2>1. \A i \in 1 .. n + 1 : i \in 1 .. n \/ i = n + 1
    BY <1>1
  <2>2. 1 .. n \subseteq 1 .. n + 1 /\ n + 1 \in 1 .. n + 1
    BY <1>1
  <2> QED BY <1>1, <1>3, <2>1, <2>2 DEF Records
<1>5. /\ DOMAIN d.data = DOMAIN c.data \cup {e.id} /\ d.data[e.id] = e
      /\ \A id \in DOMAIN c.data : d.data[id] = c.data[id]
  BY <1>2 DEF Has
<1>6. ASSUME Ordered(c), \A r \in Records(c) : r.time =< e.time
      PROVE  Ordered(d)
  <2> SUFFICES ASSUME NEW i \in 1 .. n + 1, NEW j \in 1 .. n + 1, i =< j
               PROVE  d.byTime[i].time =< d.byTime[j].time
    BY <1>3 DEF Ordered
  <2>1. CASE j \in 1 .. n
    <3>1. i \in 1 .. n
      BY <1>1, <2>1
    <3> QED BY <1>1, <1>3, <1>6, <2>1, <3>1 DEF Ordered
  <2>2. CASE j = n + 1 /\ i \in 1 .. n
    <3>1. c.byTime[i] \in Records(c)
      BY <1>1, <2>2 DEF Records
    <3> QED BY <1>3, <1>6, <2>2, <3>1
  <2>3. CASE j = n + 1 /\ i = n + 1
    <3>1. e.time =< e.time
      BY EntryFields
    <3> QED BY <1>3, <2>3, <3>1
  <2> QED BY <1>1, <2>1, <2>2, <2>3
<1> QED BY <1>4, <1>5, <1>6 DEF d

\* insert of an id that is there.
LEMMA InsertAgain ==
  ASSUME NEW c \in Cache, NEW e \in Entry, Has(c, e.id)
  PROVE  LET d == Insert(c, e) IN
         /\ d.byTime = c.byTime
         /\ DOMAIN d.data = DOMAIN c.data
         /\ d.data[e.id] \in {e, c.data[e.id]}
         /\ \A id \in DOMAIN c.data : id # e.id => d.data[id] = c.data[id]
<1>1. CASE e.hop < c.data[e.id].hop
  <2>1. Insert(c, e) = [c EXCEPT !.data[e.id] = e]
    BY <1>1 DEF Insert
  <2> QED BY <2>1 DEF Has, Cache
<1>2. CASE ~(e.hop < c.data[e.id].hop)
  BY <1>2 DEF Insert
<1> QED BY <1>1, <1>2

\* Of the same queue the records and their order are the same.
LEMMA SameQueue ==
  ASSUME NEW c, NEW d, d.byTime = c.byTime
  PROVE  Records(d) = Records(c) /\ (Ordered(c) => Ordered(d))
BY DEF Records, Ordered

\* remove_older_than forgets nothing but old records.
LEMMA RemoveRecords ==
  ASSUME NEW c \in Cache, NEW limit \in Nat
  PROVE  LET d == RemoveOlderThan(c, limit) IN
         /\ Records(d) \subseteq Records(c)
         /\ \A r \in Records(c) : r.time > limit => r \in Records(d)
         /\ DOMAIN d.data \subseteq DOMAIN c.data
         /\ \A id \in DOMAIN d.data : d.data[id] = c.data[id]
         /\ \A id \in DOMAIN c.data \ DOMAIN d.data :
              \E r \in Records(c) : r.id = id /\ r.time =< limit
         /\ Keyed(c) => Keyed(d)
         /\ Ordered(c) => Ordered(d)
<1> DEFINE n == Len(c.byTime)
           gone == {c.byTime[i].id : i \in Expired(c, limit)}
           kept == {i \in DOMAIN c.byTime : i \notin Expired(c, limit)}
           first == CHOOSE i \in kept : \A j \in kept : i =< j
           d == RemoveOlderThan(c, limit)
<1>1. /\ c.byTime \in Seq(Entry) /\ n \in Nat /\ DOMAIN c.byTime = 1 .. n
      /\ \A i \in 1 .. n : c.byTime[i] \in Entry /\ c.byTime[i].time \in Nat
  BY CacheFields, EntryFields
<1>2. /\ d.data = [i \in DOMAIN c.data \ gone |-> c.data[i]]
      /\ d.byTime = IF kept = {} THEN << >> ELSE SubSeq(c.byTime, first, n)
  BY DEF RemoveOlderThan
<1>3. kept \subseteq 1 .. n /\ \A i \in 1 .. n : i \in kept <=> i \notin Expired(c, limit)
  BY <1>1
<1>4. \A i \in Expired(c, limit) : i \in 1 .. n /\ c.byTime[i].time =< limit
  <2>1. \A i \in 1 .. n : i \in 1 .. i
    BY <1>1
  <2> QED BY <1>1, <2>1 DEF Expired
<1>5. DOMAIN d.data = DOMAIN c.data \ gone /\ \A id \in DOMAIN d.data : d.data[id] = c.data[id]
  BY <1>2
<1>6. \A id \in gone : \E r \in Records(c) : r.id = id /\ r.time =< limit
  BY <1>1, <1>4 DEF Records
<1>7. \A i \in 1 .. n : c.byTime[i].id \notin gone => i \in kept
  BY <1>3
<1> HIDE DEF n, gone, d
\* The queue is a suffix that starts before every kept place.
<1>8. \E k \in 0 .. n :
        /\ DOMAIN d.byTime = 1 .. n - k
        /\ \A i \in 1 .. n - k : d.byTime[i] = c.byTime[i + k]
        /\ \A i \in kept : i > k
  <2>1. CASE kept = {}
    <3>1. d.byTime = << >> /\ DOMAIN d.byTime = {}
      BY <1>2, <2>1
    <3>2. n \in 0 .. n /\ 1 .. n - n = {}
      BY <1>1
    <3> HIDE DEF kept
    <3> QED BY <2>1, <3>1, <3>2
  <2>2. CASE kept # {}
    <3>1. first \in kept /\ \A j \in kept : first =< j
      <4>1. kept \subseteq Nat
        BY <1>1, <1>3
      <4> HIDE DEF kept
      <4>2. \E i \in kept : \A j \in kept : i =< j
        BY <2>2, <4>1, Least
      <4> QED BY <4>2
    <3> HIDE DEF kept, first
    <3>2. first \in 1 .. n
      BY <1>3, <3>1
    <3>3. d.byTime = SubSeq(c.byTime, first, n)
      BY <1>2, <2>2
    <3>4. /\ DOMAIN d.byTime = 1 .. n - (first - 1)
          /\ \A i \in 1 .. n - (first - 1) : d.byTime[i] = c.byTime[i + (first - 1)]
      BY <1>1, <3>2, <3>3 DEF n
    <3>5. first - 1 \in 0 .. n
      BY <1>1, <3>2
    <3>6. \A i \in kept : i > first - 1
      BY <1>1, <1>3, <3>1, <3>2
    <3> QED BY <3>4, <3>5, <3>6
  <2> QED BY <2>1, <2>2
<1> HIDE DEF kept
<1>9. PICK k \in 0 .. n :
        /\ DOMAIN d.byTime = 1 .. n - k
        /\ \A i \in 1 .. n - k : d.byTime[i] = c.byTime[i + k]
        /\ \A i \in kept : i > k
  BY <1>8
<1>10. \A i \in 1 .. n - k : i + k \in 1 .. n
  BY <1>1, <1>9
<1>11. Records(d) \subseteq Records(c)
  BY <1>1, <1>9, <1>10 DEF Records
<1>12. ASSUME NEW i \in kept PROVE c.byTime[i] \in Records(d)
  <2>1. i - k \in 1 .. n - k /\ (i - k) + k = i
    BY <1>1, <1>3, <1>9, <1>12
  <2> QED BY <1>9, <2>1 DEF Records
<1>13. ASSUME NEW r \in Records(c), r.time > limit PROVE r \in Records(d)
  <2>1. PICK i \in 1 .. n : r = c.byTime[i]
    BY <1>1, <1>13 DEF Records
  <2>2. i \notin Expired(c, limit)
    BY <1>1, <1>4, <1>13, <2>1
  <2> QED BY <1>3, <1>12, <2>1, <2>2
<1>14. ASSUME Keyed(c) PROVE Keyed(d)
  <2> SUFFICES ASSUME NEW id \in DOMAIN d.data PROVE \E r \in Records(d) : r.id = id
    BY DEF Keyed
  <2>1. PICK i \in 1 .. n : c.byTime[i].id = id
    BY <1>1, <1>5, <1>14 DEF Keyed, Records
  <2> QED BY <1>5, <1>7, <1>12, <2>1
<1>15. ASSUME Ordered(c) PROVE Ordered(d)
  <2> SUFFICES ASSUME NEW i \in 1 .. n - k, NEW j \in 1 .. n - k, i =< j
               PROVE  d.byTime[i].time =< d.byTime[j].time
    BY <1>9 DEF Ordered
  <2>1. i + k \in 1 .. n /\ j + k \in 1 .. n /\ i + k =< j + k
    BY <1>1, <1>9, <1>10
  <2>2. c.byTime[i + k].time =< c.byTime[j + k].time
    BY <1>1, <1>15, <2>1 DEF Ordered
  <2> QED BY <1>9, <2>2
<1> QED BY <1>5, <1>6, <1>11, <1>13, <1>14, <1>15 DEF d

\* iter_range reads records from its start on, and all strictly inside it.
LEMMA WindowRecords ==
  ASSUME NEW c \in Cache, Ordered(c), NEW a \in Nat, NEW b \in Nat,
         NEW w \in IterRange(c, a, b)
  PROVE  /\ \A i \in DOMAIN w : w[i] \in Records(c) /\ w[i].time >= a
         /\ \A r \in Records(c) : a < r.time /\ r.time < b => \E i \in DOMAIN w : w[i] = r
         /\ w = << >> <=> DOMAIN w = {}
<1> DEFINE n == Len(c.byTime)
<1>1. /\ n \in Nat /\ DOMAIN c.byTime = 1 .. n
      /\ \A i \in 1 .. n : c.byTime[i] \in Entry /\ c.byTime[i].time \in Nat
  BY CacheFields, EntryFields
<1>2. PICK first \in Positions(c, a), last \in Positions(c, b) :
        w = [j \in 1 .. last - first |-> c.byTime[first + j - 1]]
  BY DEF IterRange
<1> HIDE DEF n
<1>3. ASSUME NEW t \in Nat, NEW p \in Positions(c, t)
      PROVE  /\ p \in 1 .. n + 1
             /\ \A i \in 1 .. n : i < p => c.byTime[i].time =< t
             /\ \A i \in 1 .. n : i >= p => c.byTime[i].time >= t
  <2> DEFINE hits == {i \in 1 .. n : c.byTime[i].time = t}
             gap == {i \in 1 .. n + 1 :
                       /\ \A j \in 1 .. n : j < i => c.byTime[j].time < t
                       /\ \A j \in 1 .. n : j >= i => c.byTime[j].time > t}
  <2>1. p \in IF hits # {} THEN hits ELSE gap
    BY <1>1, <1>3 DEF Positions, n
  <2>2. CASE p \in hits
    <3>1. p \in 1 .. n /\ c.byTime[p].time = t
      BY <2>2
    <3>2. \A i \in 1 .. n : /\ i < p => i =< p
                            /\ i >= p => p =< i
      BY <1>1, <3>1
    <3>3. \A i \in 1 .. n : /\ i =< p => c.byTime[i].time =< c.byTime[p].time
                            /\ p =< i => c.byTime[p].time =< c.byTime[i].time
      BY <1>1, <3>1 DEF Ordered
    <3>4. p \in 1 .. n + 1
      BY <1>1, <3>1
    <3> QED BY <1>1, <3>1, <3>2, <3>3, <3>4
  <2>3. CASE p \in gap
    BY <1>1, <2>3
  <2> QED BY <2>1, <2>2, <2>3
<1>4. /\ first \in 1 .. n + 1 /\ last \in 1 .. n + 1
      /\ \A i \in 1 .. n : i < first => c.byTime[i].time =< a
      /\ \A i \in 1 .. n : i >= first => c.byTime[i].time >= a
      /\ \A i \in 1 .. n : i >= last => c.byTime[i].time >= b
  BY <1>2, <1>3
<1>5. DOMAIN w = 1 .. last - first /\ \A j \in 1 .. last - first : w[j] = c.byTime[first + j - 1]
  BY <1>2
<1>6. ASSUME NEW i \in DOMAIN w PROVE w[i] \in Records(c) /\ w[i].time >= a
  <2>1. first + i - 1 \in 1 .. n /\ first + i - 1 >= first
    BY <1>1, <1>4, <1>5, <1>6
  <2> QED BY <1>1, <1>4, <1>5, <1>6, <2>1 DEF Records
<1>7. ASSUME NEW r \in Records(c), a < r.time, r.time < b
      PROVE  \E i \in DOMAIN w : w[i] = r
  <2>1. PICK i \in 1 .. n : r = c.byTime[i]
    BY <1>1, <1>7 DEF Records
  <2>2. i >= first /\ i < last
    BY <1>1, <1>4, <1>7, <2>1
  <2>3. i - first + 1 \in 1 .. last - first /\ first + (i - first + 1) - 1 = i
    BY <1>1, <1>4, <2>2
  <2> QED BY <1>5, <2>1, <2>3
<1>8. w = << >> <=> DOMAIN w = {}
  <2>1. w \in Seq(Entry)
    <3>1. CASE last - first < 1
      <4>1. w = << >>
        BY <1>2, <1>4, <3>1
      <4> QED BY <4>1
    <3>2. CASE last - first >= 1
      <4>1. last - first \in Nat
        BY <1>4, <3>2
      <4>2. \A i \in DOMAIN w : w[i] \in Entry
        BY WindowTyped
      <4>3. w \in [1 .. last - first -> Entry]
        BY <1>2, <1>5, <4>2
      <4> QED BY <4>1, <4>3, IsASeq
    <3> QED BY <1>4, <3>1, <3>2
  <2>2. Len(w) \in Nat /\ DOMAIN w = 1 .. Len(w)
    BY <2>1, LenProperties
  <2>3. Len(w) = 0 => w = << >>
    BY <2>1, EmptySeq
  <2>4. DOMAIN w = {} => Len(w) = 0
    BY <2>2
  <2> QED BY <2>3, <2>4
<1> QED BY <1>6, <1>7, <1>8

-----------------------------------------------------------------------------
(* What is under way, as sets.                                             *)

\* The messages in a sequence of batches.
Under(q) == UNION {q[i] : i \in DOMAIN q}

\* The messages that an event has for p, and those of all events of a tree.
Sent(e, p) ==
  IF e.type = "NotifyEach" /\ p \in DOMAIN e.msgs THEN Announcements(e.msgs[p])
  ELSE IF e.type = "Replay" /\ e.to = p THEN e.msgs
  ELSE {}
Emits(t, p) == UNION {Sent(t.out[i], p) : i \in DOMAIN t.out}

\* A batch, or nothing.
LEMMA BatchIsSent ==
  ASSUME NEW e, NEW p
  PROVE  \/ BatchFor(e, p) = <<Sent(e, p)>>
         \/ BatchFor(e, p) = << >> /\ Sent(e, p) = {}
BY DEF BatchFor, Sent

\* Of two sequences of batches.
LEMMA UnderConcat ==
  ASSUME NEW S, NEW a \in Seq(S), NEW b \in Seq(S)
  PROVE  Under(a \o b) = Under(a) \cup Under(b)
<1> DEFINE c == a \o b
           m == Len(a)
           n == Len(b)
<1>1. /\ m \in Nat /\ n \in Nat /\ DOMAIN a = 1 .. m /\ DOMAIN b = 1 .. n
      /\ DOMAIN c = 1 .. m + n
      /\ \A i \in 1 .. m + n : c[i] = IF i =< m THEN a[i] ELSE b[i - m]
  BY ConcatProperties, LenProperties
<1> HIDE DEF c, m, n
<1>2. \A i \in 1 .. m : i \in 1 .. m + n /\ c[i] = a[i]
  BY <1>1
<1>3. \A i \in 1 .. n : m + i \in 1 .. m + n /\ c[m + i] = b[i]
  BY <1>1
<1>4. \A i \in 1 .. m + n : \/ i \in 1 .. m
                            \/ i - m \in 1 .. n /\ c[i] = b[i - m]
  BY <1>1
<1>5. Under(c) \subseteq Under(a) \cup Under(b)
  BY <1>1, <1>2, <1>4 DEF Under
<1>6. Under(a) \subseteq Under(c)
  BY <1>1, <1>2 DEF Under
<1>7. Under(b) \subseteq Under(c)
  BY <1>1, <1>3 DEF Under
<1> QED BY <1>5, <1>6, <1>7 DEF c

\* Flattening leaves nothing out.
LEMMA FlattenHas ==
  ASSUME NEW S, NEW s \in Seq(Seq(S)), NEW i \in DOMAIN s, NEW j \in DOMAIN s[i]
  PROVE  \E k \in DOMAIN FlattenSeq(s) : FlattenSeq(s)[k] = s[i][j]
<1> DEFINE n == Len(s)
           g == CHOOSE f : Joins(s, n, f)
           x == s[i][j]
           T == {m \in 1 .. n : /\ g[m] \in Seq(S)
                                /\ m >= i => \E k \in DOMAIN g[m] : g[m][k] = x}
<1>1. n \in Nat /\ DOMAIN s = 1 .. n /\ \A m \in 1 .. n : s[m] \in Seq(S)
  BY LenProperties, ElementOfSeq
<1>2. i \in 1 .. n /\ n # 0
  BY <1>1
<1>3. FlattenSeq(s) = g[n]
  BY <1>2 DEF FlattenSeq, Joins, Joined
<1>4. Joins(s, n, g)
  BY <1>1, <1>2, JoinsExists
<1> HIDE DEF g, n
<1>5. \A m \in 1 .. n : g[m] = Joined(s, g, m)
  BY <1>4, JoinsAt
<1>6. 1 \in T
  <2>1. 1 \in 1 .. n /\ g[1] = s[1]
    BY <1>1, <1>2, <1>5 DEF Joined
  <2>2. 1 >= i => i = 1
    BY <1>1, <1>2
  <2> QED BY <1>1, <2>1, <2>2
<1>7. ASSUME NEW m \in 2 .. n, m - 1 \in T PROVE m \in T
  <2>1. m \in 1 .. n /\ m # 1 /\ m - 1 \in 1 .. n
    BY <1>1
  <2> DEFINE a == g[m - 1]
             b == s[m]
  <2>2. g[m] = a \o b
    BY <1>5, <2>1 DEF Joined
  <2>3. a \in Seq(S) /\ b \in Seq(S)
    BY <1>1, <1>7, <2>1
  <2>4. m - 1 >= i => \E k \in DOMAIN a : a[k] = x
    BY <1>7
  <2>5. m = i => \E k \in DOMAIN b : b[k] = x
    OBVIOUS
  <2> HIDE DEF a, b, x
  <2>6. /\ a \o b \in Seq(S) /\ Len(a) \in Nat /\ Len(b) \in Nat
        /\ DOMAIN a = 1 .. Len(a) /\ DOMAIN b = 1 .. Len(b)
        /\ DOMAIN (a \o b) = 1 .. Len(a) + Len(b)
        /\ \A k \in 1 .. Len(a) + Len(b) :
             (a \o b)[k] = IF k =< Len(a) THEN a[k] ELSE b[k - Len(a)]
    BY <2>3, ConcatProperties, LenProperties
  <2>7. ASSUME NEW k \in DOMAIN a PROVE k \in DOMAIN (a \o b) /\ (a \o b)[k] = a[k]
    BY <2>6, <2>7
  <2>8. ASSUME NEW k \in DOMAIN b
        PROVE  Len(a) + k \in DOMAIN (a \o b) /\ (a \o b)[Len(a) + k] = b[k]
    BY <2>6, <2>8
  <2>9. m >= i => m - 1 >= i \/ m = i
    BY <1>1, <1>2, <2>1
  <2>10. m >= i => \E k \in DOMAIN (a \o b) : (a \o b)[k] = x
    BY <2>4, <2>5, <2>7, <2>8, <2>9
  <2> QED BY <2>1, <2>2, <2>6, <2>10
<1>8. 1 .. n \subseteq T
  <2> HIDE DEF T
  <2> QED BY <1>1, <1>6, <1>7, AllFromOne
<1>9. n \in T /\ n >= i
  BY <1>1, <1>2, <1>8
<1> QED BY <1>3, <1>9

\* The batches for p are what the events have for it.
LEMMA BatchesAre ==
  ASSUME NEW t \in Tree, NEW p
  PROVE  Under(Batches(t, p)) = Emits(t, p)
<1> DEFINE s == [i \in DOMAIN t.out |-> BatchFor(t.out[i], p)]
           E == Emits(t, p)
           b == Batches(t, p)
<1>1. Len(t.out) \in Nat /\ DOMAIN t.out = 1 .. Len(t.out)
  BY TreeFields, LenProperties
<1>2. s \in Seq(Seq(SUBSET E))
  <2>1. ASSUME NEW i \in DOMAIN t.out PROVE BatchFor(t.out[i], p) \in Seq(SUBSET E)
    <3>1. Sent(t.out[i], p) \in SUBSET E
      BY <2>1 DEF Emits
    <3> DEFINE X == Sent(t.out[i], p)
    <3> HIDE DEF X, E
    <3>2. <<X>> \in Seq(SUBSET E) /\ << >> \in Seq(SUBSET E)
      BY <3>1 DEF X
    <3> QED BY <3>2, BatchIsSent DEF X
  <2>2. s \in [1 .. Len(t.out) -> Seq(SUBSET E)]
    BY <1>1, <2>1
  <2> HIDE DEF s
  <2> QED BY <1>1, <2>2, IsASeq
<1>3. b = FlattenSeq(s)
  BY DEF Batches
<1> HIDE DEF s, b
<1>4. Under(b) \subseteq E
  <2>1. b \in Seq(SUBSET E)
    BY <1>2, <1>3, FlattenTyped
  <2>2. \A i \in DOMAIN b : b[i] \in SUBSET E
    <3> HIDE DEF E
    <3> QED BY <2>1, ElementOfSeq, LenProperties
  <2> QED BY <2>2 DEF Under
<1>5. ASSUME NEW i \in DOMAIN t.out, NEW m \in Sent(t.out[i], p) PROVE m \in Under(b)
  <2>1. BatchFor(t.out[i], p) = <<Sent(t.out[i], p)>>
    BY <1>5, BatchIsSent
  <2>2. i \in DOMAIN s /\ s[i] = <<Sent(t.out[i], p)>>
    BY <2>1 DEF s
  <2>3. 1 \in DOMAIN s[i] /\ s[i][1] = Sent(t.out[i], p)
    BY <2>2
  <2>4. \E k \in DOMAIN b : b[k] = s[i][1]
    <3> DEFINE X == SUBSET E
    <3>1. s \in Seq(Seq(X)) /\ i \in DOMAIN s /\ 1 \in DOMAIN s[i]
      BY <1>2, <2>2, <2>3
    <3> HIDE DEF X
    <3>2. \E k \in DOMAIN FlattenSeq(s) : FlattenSeq(s)[k] = s[i][1]
      BY <3>1, FlattenHas
    <3> QED BY <1>3, <3>2
  <2> QED BY <1>5, <2>3, <2>4 DEF Under
<1>6. E \subseteq Under(b)
  BY <1>5 DEF Emits
<1> QED BY <1>4, <1>6 DEF b

\* The messages on their way from n to p.
OnWay(n, p) == Under(net[n][p])

\* n adds what its tree has for a peer with a connection.
SendsOn(n, t, sent) ==
  /\ \A k, r \in Node : k # n => OnWay(k, r)' = Under(sent[k][r])
  /\ \A r \in Node :
       OnWay(n, r)' = IF {n, r} \in up THEN Under(sent[n][r]) \cup Emits(t, r)
                      ELSE Under(sent[n][r])

\* What Handle does to them.
LEMMA HandleSends ==
  ASSUME NEW n \in Node, NEW t \in Tree, NEW sent,
         sent \in [Node -> [Node -> Seq(SUBSET WireMessage)]],
         Handle(n, t, sent)
  PROVE  SendsOn(n, t, sent)
<1> DEFINE W == Seq(SUBSET WireMessage)
           g == [p \in Node |-> IF {n, p} \in up THEN sent[n][p] \o Batches(t, p)
                                ELSE sent[n][p]]
<1>1. net' = [sent EXCEPT ![n] = g]
  BY DEF Handle
<1>2. \A r \in Node : Batches(t, r) \in W /\ sent[n][r] \in W
  BY BatchesTyped
<1>3. \A r \in Node : Under(sent[n][r] \o Batches(t, r)) = Under(sent[n][r]) \cup Emits(t, r)
  BY <1>2, UnderConcat, BatchesAre
<1>4. \A k, r \in Node : k # n => net'[k][r] = sent[k][r]
  BY <1>1
<1>5. \A r \in Node : net'[n][r] = IF {n, r} \in up THEN sent[n][r] \o Batches(t, r)
                                   ELSE sent[n][r]
  BY <1>1
<1> HIDE DEF g
<1> QED BY <1>3, <1>4, <1>5 DEF OnWay, SendsOn

\* The rest of a queue of batches when m of the first one is taken.
LEMMA UnderRest ==
  ASSUME NEW q \in Seq(SUBSET WireMessage), q # << >>, NEW m \in Head(q)
  PROVE  LET rest == Head(q) \ {m}
             left == IF rest = {} THEN Tail(q) ELSE <<rest>> \o Tail(q)
         IN  /\ m \in Under(q)
             /\ Under(left) \subseteq Under(q)
             /\ Under(q) \subseteq Under(left) \cup {m}
<1> DEFINE W == SUBSET WireMessage
           rest == Head(q) \ {m}
           a == <<Head(q)>>
           b == Tail(q)
<1>1. q = a \o b /\ Head(q) \in W /\ b \in Seq(W)
  BY HeadTailProperties
<1>2. a \in Seq(W) /\ <<rest>> \in Seq(W)
  BY <1>1
<1>3. \A X : Under(<<X>>) = X
  BY DEF Under
<1>4. Under(q) = Head(q) \cup Under(b)
  <2> HIDE DEF b, W
  <2>1. Under(a \o b) = Under(a) \cup Under(b)
    BY <1>1, <1>2, UnderConcat
  <2> QED BY <1>1, <1>3, <2>1
<1>5. Under(<<rest>> \o b) = rest \cup Under(b)
  <2> DEFINE c == <<rest>>
  <2>1. Under(c) = rest /\ c \in Seq(W)
    BY <1>2, <1>3
  <2> HIDE DEF b, c, W, rest
  <2>2. Under(c \o b) = Under(c) \cup Under(b)
    BY <1>1, <2>1, UnderConcat
  <2> QED BY <2>1, <2>2 DEF c
<1> HIDE DEF b
<1> QED BY <1>4, <1>5 DEF b

-----------------------------------------------------------------------------
(* What each method of a tree leaves behind.                               *)

\* A tree with the same peers and caches.
SameBut(t, u) ==
  /\ u.eager = t.eager /\ u.lazy = t.lazy
  /\ u.received = t.received /\ u.observed = t.observed

\* A queue that is longer by one event.
LEMMA PushEmits ==
  ASSUME NEW t \in Tree, NEW e
  PROVE  LET u == PushTree(t, e) IN
         /\ SameBut(t, u) /\ u.out = Append(t.out, e)
         /\ \A p : Emits(u, p) = Emits(t, p) \cup Sent(e, p)
<1> DEFINE u == PushTree(t, e)
           n == Len(t.out)
<1>1. IsTree(t) /\ t.out \in Seq(Event)
  BY TreeFields
<1>2. SameBut(t, u) /\ u.out = Append(t.out, e)
  BY <1>1 DEF PushTree, IsTree, SameBut
<1>3. /\ n \in Nat /\ DOMAIN t.out = 1 .. n
      /\ DOMAIN u.out = 1 .. n + 1 /\ u.out[n + 1] = e
      /\ \A i \in 1 .. n : u.out[i] = t.out[i]
  <2>1. n \in Nat /\ DOMAIN t.out = 1 .. n
    BY <1>1, LenProperties
  <2>2. /\ DOMAIN Append(t.out, e) = 1 .. n + 1 /\ Append(t.out, e)[n + 1] = e
        /\ \A i \in 1 .. n : Append(t.out, e)[i] = t.out[i]
    BY <1>1, <2>1
  <2> QED BY <1>2, <2>1, <2>2
<1> HIDE DEF u, n
<1>4. (\A i \in 1 .. n : i \in 1 .. n + 1) /\ n + 1 \in 1 .. n + 1
      /\ \A i \in 1 .. n + 1 : i \in 1 .. n \/ i = n + 1
  BY <1>3
<1>5. ASSUME NEW p PROVE Emits(u, p) = Emits(t, p) \cup Sent(e, p)
  BY <1>3, <1>4 DEF Emits
<1> QED BY <1>2, <1>5 DEF u

\* A queue without events.
LEMMA NothingEmitted ==
  ASSUME NEW t, t.out = << >>
  PROVE  \A p : Emits(t, p) = {}
BY DEF Emits

\* One message each.
LEMMA SendEachEmits ==
  ASSUME NEW t \in Tree, NEW msgs
  PROVE  LET u == SendEach(t, msgs) IN
         /\ SameBut(t, u)
         /\ \E e : e.type = "NotifyEach" /\ u.out \in {t.out, Append(t.out, e)}
         /\ \A p : Emits(u, p) = IF p \in DOMAIN msgs
                                 THEN Emits(t, p) \cup Announcements(msgs[p])
                                 ELSE Emits(t, p)
<1> DEFINE e == [type |-> "NotifyEach", msgs |-> msgs]
<1>1. CASE DOMAIN msgs = {}
  <2>1. e.type = "NotifyEach"
    OBVIOUS
  <2> QED BY <1>1, <2>1 DEF SendEach, SameBut
<1>2. CASE DOMAIN msgs # {}
  <2>1. SendEach(t, msgs) = PushTree(t, e)
    BY <1>2 DEF SendEach
  <2>2. \A p : Sent(e, p) = IF p \in DOMAIN msgs THEN Announcements(msgs[p]) ELSE {}
    BY DEF Sent
  <2> DEFINE u == SendEach(t, msgs)
  <2> HIDE DEF e, u
  <2>3. /\ SameBut(t, u) /\ u.out = Append(t.out, e)
        /\ \A p : Emits(u, p) = Emits(t, p) \cup Sent(e, p)
    BY <2>1, PushEmits DEF u
  <2>4. \A p : Emits(u, p) = IF p \in DOMAIN msgs
                            THEN Emits(t, p) \cup Announcements(msgs[p]) ELSE Emits(t, p)
    BY <2>2, <2>3
  <2>5. e.type = "NotifyEach"
    BY DEF e
  <2> QED BY <2>3, <2>4, <2>5 DEF u
<1> QED BY <1>1, <1>2

\* From t to u one event is queued at most, with m for each of some nodes.
Notifies(t, u, to, m) ==
  /\ SameBut(t, u)
  /\ \E e : e.type = "NotifyEach" /\ u.out \in {t.out, Append(t.out, e)}
  /\ \A p : Emits(u, p) = IF p \in to THEN Emits(t, p) \cup {m} ELSE Emits(t, p)

\* The same message for all of them.
LEMMA SendAllEmits ==
  ASSUME NEW t \in Tree, NEW to, NEW m, m.type # "IHAVE"
  PROVE  Notifies(t, SendAll(t, to, m), to, m)
<1> DEFINE f == [p \in to |-> m]
<1>1. DOMAIN f = to /\ \A p \in to : f[p] = m
  OBVIOUS
<1>2. Announcements(m) = {m}
  BY DEF Announcements
<1>3. SendAll(t, to, m) = SendEach(t, f)
  BY DEF SendAll
<1> HIDE DEF f
<1> QED BY <1>1, <1>2, <1>3, SendEachEmits DEF Notifies

\* Without a Message among the events the application gets nothing.
LEMMA NothingHanded ==
  ASSUME NEW t, NEW S, t.out \in Seq(S), \A i \in DOMAIN t.out : t.out[i].type # "Message"
  PROVE  Handed(t) = << >>
<1> DEFINE s == [i \in DOMAIN t.out |->
                   IF t.out[i].type = "Message" THEN <<t.out[i].id>> ELSE << >>]
<1>1. Len(t.out) \in Nat /\ DOMAIN t.out = 1 .. Len(t.out)
  BY LenProperties
<1>2. s \in [1 .. Len(t.out) -> Seq({})]
  BY <1>1
<1>3. s \in Seq(Seq({}))
  <2> HIDE DEF s
  <2> QED BY <1>1, <1>2, IsASeq
<1> HIDE DEF s
<1>4. FlattenSeq(s) \in Seq({})
  BY <1>3, FlattenTyped
<1>5. \A x \in Seq({}) : x = << >>
  OBVIOUS
<1> QED BY <1>4, <1>5 DEF Handed, s

\* An empty queue, or one with a single event that is no Message.
LEMMA OneEvent ==
  ASSUME NEW t, NEW e, e.type # "Message", t.out = << >> \/ t.out = Append(<< >>, e)
  PROVE  Handed(t) = << >>
<1>1. Append(<< >>, e) = <<e>>
  OBVIOUS
<1>2. t.out \in Seq({e}) /\ \A i \in DOMAIN t.out : t.out[i] = e
  <2>1. CASE t.out = << >>
    BY <2>1
  <2>2. CASE t.out = <<e>>
    BY <2>2
  <2> QED BY <1>1, <2>1, <2>2
<1> QED BY <1>2, NothingHanded

\* Of the same queue the same is sent and handed over.
LEMMA SameOut ==
  ASSUME NEW t, NEW u, u.out = t.out
  PROVE  Handed(u) = Handed(t) /\ \A p : Emits(u, p) = Emits(t, p)
BY DEF Handed, Emits

\* publish() of a message nobody has heard of.
LEMMA PublishDoes ==
  ASSUME NEW t \in Tree, t.out = << >>, NEW n \in Node, NEW id \in Id, NEW now \in Nat,
         ~Has(t.received, id), ~Has(t.observed, id)
  PROVE  LET u == Publish(t, n, id, now) IN
         /\ u.received = Insert(t.received, Timed(id, 0, n, now))
         /\ u.observed = t.observed /\ u.lazy = t.lazy
         /\ \A p : Emits(u, p) = IF p \in t.eager THEN {MessageMsg(id, 1)} ELSE {}
         /\ Handed(u) = << >>
<1> DEFINE m == MessageMsg(id, 1)
           v == SendAll(t, t.eager, m)
           x == Insert(v.received, Timed(id, 0, n, now))
           u == [v EXCEPT !.received = x]
<1>1. Publish(t, n, id, now) = u
  BY DEF Publish
<1>2. m.type # "IHAVE" /\ m \in TreeMessage
  <2>1. m.type # "IHAVE"
    BY DEF MessageMsg
  <2> QED BY <2>1, MessagesTyped
<1>4. v \in Tree
  BY <1>2, TreeFields, SendAllTyped
<1> HIDE DEF m, v
<1>5. Notifies(t, v, t.eager, m)
  BY <1>2, SendAllEmits DEF v
<1> HIDE DEF x
<1>6. IsTree(v)
  BY <1>4, TreeFields
<1>7. u.received = x /\ u.observed = v.observed /\ u.lazy = v.lazy /\ u.out = v.out
  BY <1>6 DEF IsTree
<1> HIDE DEF u
<1>8. Handed(v) = << >>
  BY <1>5, OneEvent DEF Notifies
<1>9. \A p : Emits(u, p) = IF p \in t.eager THEN {m} ELSE {}
  BY <1>5, <1>7, SameOut, NothingEmitted DEF Notifies
<1>10. x = Insert(t.received, Timed(id, 0, n, now))
  BY <1>5 DEF x, SameBut, Notifies
<1>11. Handed(u) = << >>
  BY <1>7, <1>8, SameOut
<1>12. u.observed = t.observed /\ u.lazy = t.lazy
  BY <1>5, <1>7 DEF SameBut, Notifies
<1> QED BY <1>1, <1>7, <1>9, <1>10, <1>11, <1>12 DEF m

\* A Message, and perhaps another event after it.
LEMMA OneMessage ==
  ASSUME NEW t, NEW e, NEW f, e.type = "Message", f.type # "Message",
         t.out = <<e>> \/ t.out = Append(<<e>>, f)
  PROVE  Handed(t) = <<e.id>>
<1> DEFINE s == [i \in DOMAIN t.out |->
                   IF t.out[i].type = "Message" THEN <<t.out[i].id>> ELSE << >>]
           n == Len(s)
           g == CHOOSE h : Joins(s, n, h)
<1>1. Handed(t) = FlattenSeq(s)
  BY DEF Handed
<1>2. \/ DOMAIN s = 1 .. 1 /\ s \in Seq(Seq({e.id})) /\ s[1] = <<e.id>>
      \/ DOMAIN s = 1 .. 2 /\ s \in Seq(Seq({e.id})) /\ s[1] = <<e.id>> /\ s[2] = << >>
  <2>1. CASE t.out = <<e>>
    <3>1. DOMAIN s = 1 .. 1 /\ s[1] = <<e.id>>
      BY <2>1
    <3>2. s = <<s[1]>>
      BY <2>1
    <3>3. s \in Seq(Seq({e.id}))
      BY <3>1, <3>2
    <3> QED BY <3>1, <3>3
  <2>2. CASE t.out = Append(<<e>>, f)
    <3>1. DOMAIN t.out = 1 .. 2 /\ t.out[1] = e /\ t.out[2] = f
      <4>1. <<e>> \in Seq({e, f}) /\ Len(<<e>>) = 1 /\ <<e>>[1] = e
        OBVIOUS
      <4> QED BY <2>2, <4>1, AppendProperties
    <3>2. DOMAIN s = 1 .. 2 /\ s[1] = <<e.id>> /\ s[2] = << >>
      BY <3>1
    <3>3. s \in [1 .. 2 -> Seq({e.id})]
      <4>1. \A i \in 1 .. 2 : s[i] \in Seq({e.id})
        BY <3>2
      <4>2. s = [i \in 1 .. 2 |-> s[i]]
        BY <3>2
      <4> HIDE DEF s
      <4> QED BY <4>1, <4>2
    <3>4. s \in Seq(Seq({e.id}))
      <4> HIDE DEF s
      <4>1. \A k \in Nat : s \in [1 .. k -> Seq({e.id})] => s \in Seq(Seq({e.id}))
        BY IsASeq
      <4> QED BY <3>3, <4>1
    <3> QED BY <3>2, <3>4
  <2> QED BY <2>1, <2>2
<1> HIDE DEF s
<1>3. n \in Nat \ {0} /\ DOMAIN s = 1 .. n /\ (n = 1 \/ (n = 2 /\ s[2] = << >>))
      /\ s[1] = <<e.id>>
  <2>1. n \in Nat /\ DOMAIN s = 1 .. n
    BY <1>2, LenProperties
  <2> HIDE DEF n
  <2>2. 1 .. n = 1 .. 1 => n = 1
    <3>1. 1 .. n = 1 .. 1 => 1 \in 1 .. n /\ (n \in 1 .. n => n \in 1 .. 1)
      OBVIOUS
    <3> QED BY <2>1, <3>1
  <2>3. 1 .. n = 1 .. 2 => n = 2
    <3>1. 1 .. n = 1 .. 2 => 2 \in 1 .. n /\ (n \in 1 .. n => n \in 1 .. 2)
      OBVIOUS
    <3> QED BY <2>1, <3>1
  <2>4. (n = 1 \/ (n = 2 /\ s[2] = << >>)) /\ s[1] = <<e.id>>
    BY <1>2, <2>1, <2>2, <2>3
  <2> QED BY <2>1, <2>4
<1>4. FlattenSeq(s) = g[n]
  BY <1>3 DEF FlattenSeq, Joins, Joined
<1>5. Joins(s, n, g)
  BY <1>3, JoinsExists
<1> HIDE DEF g, n
<1>6. \A i \in 1 .. n : g[i] = Joined(s, g, i)
  BY <1>5, JoinsAt
<1>7. g[1] = <<e.id>>
  BY <1>3, <1>6 DEF Joined
<1>8. n = 2 => g[2] = <<e.id>> \o << >>
  BY <1>3, <1>6, <1>7 DEF Joined
<1>9. <<e.id>> \o << >> = <<e.id>>
  <2>1. <<e.id>> \in Seq({e.id})
    OBVIOUS
  <2> QED BY <2>1, ConcatEmptySeq
<1> QED BY <1>1, <1>3, <1>4, <1>7, <1>8, <1>9

\* inject_message, of a first copy.
LEMMA FirstDoes ==
  ASSUME NEW t \in Tree, t.out = << >>, NEW from \in Node, NEW id \in Id,
         NEW hop \in Nat, NEW now \in Nat, ~Has(t.received, id)
  PROVE  LET u == InjectMessage(t, from, id, hop, now) IN
         /\ u.received = Insert(t.received, Timed(id, hop, from, now))
         /\ u.observed = t.observed /\ u.lazy = t.lazy
         /\ \A p : Emits(u, p) = IF p \in t.eager \ {from} THEN {MessageMsg(id, hop + 1)} ELSE {}
         /\ Handed(u) = <<id>>
<1> DEFINE m == MessageMsg(id, hop + 1)
           e == [type |-> "Message", id |-> id]
           x == Insert(t.received, Timed(id, hop, from, now))
           w == [t EXCEPT !.received = x]
           v == PushTree(w, e)
           u == SendAll(v, w.eager \ {from}, m)
<1>1. InjectMessage(t, from, id, hop, now) = u
  BY DEF InjectMessage
<1>2. m.type # "IHAVE" /\ e.type = "Message" /\ e.id = id /\ e \in Event /\ \A p : Sent(e, p) = {}
  <2>1. m.type # "IHAVE"
    BY DEF MessageMsg
  <2>2. e.type = "Message" /\ e.id = id /\ e \in Event
    BY DEF Event
  <2> HIDE DEF e
  <2>3. \A p : Sent(e, p) = {}
    BY <2>2 DEF Sent
  <2> QED BY <2>1, <2>2, <2>3
<1>3. x \in Cache
  <2>1. Timed(id, hop, from, now) \in Entry
    BY DEF Timed, Entry
  <2> QED BY <2>1, TreeFields, InsertTyped
<1> HIDE DEF x, m, e
<1>4. w \in Tree /\ IsTree(t)
  BY <1>3, TreeFields
<1>5. /\ w.received = x /\ w.observed = t.observed /\ w.lazy = t.lazy
      /\ w.eager = t.eager /\ w.out = << >>
  BY <1>4 DEF IsTree
<1> HIDE DEF w
<1>6. v \in Tree
  BY <1>2, <1>4, PushTyped
<1>7. /\ SameBut(w, v) /\ v.out = Append(w.out, e)
      /\ \A p : Emits(v, p) = Emits(w, p) \cup Sent(e, p)
  BY <1>4, PushEmits
<1> HIDE DEF v
<1>8. Notifies(v, u, w.eager \ {from}, m)
  BY <1>2, <1>6, SendAllEmits
<1> HIDE DEF u
<1>9. \A p : Emits(v, p) = {}
  BY <1>2, <1>5, <1>7, NothingEmitted
<1>10. v.out = <<e>>
  BY <1>5, <1>7
<1>11. Handed(u) = <<id>>
  <2>1. PICK f : f.type = "NotifyEach" /\ u.out \in {v.out, Append(v.out, f)}
    BY <1>8 DEF Notifies
  <2>2. u.out = <<e>> \/ u.out = Append(<<e>>, f)
    BY <1>10, <2>1
  <2> QED BY <1>2, <2>1, <2>2, OneMessage
<1>12. \A p : Emits(u, p) = IF p \in t.eager \ {from} THEN {m} ELSE {}
  BY <1>5, <1>8, <1>9 DEF Notifies
<1>13. u.received = x /\ u.observed = t.observed /\ u.lazy = t.lazy
  BY <1>5, <1>7, <1>8 DEF Notifies, SameBut
<1> QED BY <1>1, <1>11, <1>12, <1>13 DEF x, m

\* inject_message, of a later copy.
LEMMA LaterDoes ==
  ASSUME NEW t \in Tree, t.out = << >>, NEW from \in Node, NEW id \in Id,
         NEW hop \in Nat, NEW now \in Nat, Has(t.received, id)
  PROVE  LET u == InjectMessage(t, from, id, hop, now) IN
         /\ u.received = Insert(t.received, Timed(id, hop, from, now))
         /\ u.observed = t.observed /\ t.lazy \subseteq u.lazy
         /\ \A p : Emits(u, p) \subseteq {PruneMsg}
         /\ Handed(u) = << >>
<1> DEFINE x == Insert(t.received, Timed(id, hop, from, now))
           w == [t EXCEPT !.received = x]
           v == InjectPrune(w, from)
           u == SendAll(v, {from}, PruneMsg)
<1>1. InjectMessage(t, from, id, hop, now) \in {u, w}
  BY DEF InjectMessage
<1>2. PruneMsg.type # "IHAVE"
  BY DEF PruneMsg
<1>3. x \in Cache
  <2>1. Timed(id, hop, from, now) \in Entry
    BY DEF Timed, Entry
  <2> QED BY <2>1, TreeFields, InsertTyped
<1> HIDE DEF x
<1>4. w \in Tree /\ IsTree(t)
  BY <1>3, TreeFields
<1>5. w.received = x /\ w.observed = t.observed /\ w.lazy = t.lazy /\ w.out = << >>
  BY <1>4 DEF IsTree
<1> HIDE DEF w
<1>6. v \in Tree
  BY <1>4, DownPruneTyped
<1>7. v.received = w.received /\ v.observed = w.observed /\ v.out = w.out
      /\ v.lazy = w.lazy \cup {from}
  <2> DEFINE a == w.eager \ {from}
             b == w.lazy \cup {from}
  <2>1. v = [w EXCEPT !.eager = a, !.lazy = b] /\ IsTree(w)
    BY <1>4, TreeFields DEF InjectPrune
  <2> HIDE DEF a, b, v
  <2> QED BY <2>1 DEF IsTree, b
<1> HIDE DEF v
<1>8. Notifies(v, u, {from}, PruneMsg)
  BY <1>2, <1>6, SendAllEmits
<1> HIDE DEF u
<1>9. \A p : Emits(v, p) = {} /\ Emits(w, p) = {}
  BY <1>5, <1>7, NothingEmitted
<1>10. Handed(u) = << >> /\ Handed(w) = << >>
  <2>1. PICK f : f.type = "NotifyEach" /\ u.out \in {v.out, Append(v.out, f)}
    BY <1>8 DEF Notifies
  <2>2. u.out = << >> \/ u.out = Append(<< >>, f)
    BY <1>5, <1>7, <2>1
  <2>3. Handed(u) = << >>
    BY <2>1, <2>2, OneEvent
  <2>4. Handed(w) = << >>
    BY <1>5, <2>1, OneEvent
  <2> QED BY <2>3, <2>4
<1>11. \A p : Emits(u, p) \subseteq {PruneMsg} /\ Emits(w, p) \subseteq {PruneMsg}
  BY <1>8, <1>9 DEF Notifies
<1>12. u.received = x /\ u.observed = t.observed /\ t.lazy \subseteq u.lazy
  BY <1>5, <1>7, <1>8 DEF Notifies, SameBut
<1> QED BY <1>1, <1>5, <1>10, <1>11, <1>12 DEF x

\* inject_ihave.
LEMMA IHaveDoes ==
  ASSUME NEW t \in Tree, t.out = << >>, NEW from, NEW id, NEW hop, NEW now
  PROVE  LET u == InjectIHave(t, from, id, hop, now) IN
         /\ u.observed = Insert(t.observed, Timed(id, hop, from, now))
         /\ u.received = t.received /\ u.lazy = t.lazy
         /\ (\A p : Emits(u, p) = {}) /\ Handed(u) = << >>
<1> DEFINE x == Insert(t.observed, Timed(id, hop, from, now))
           u == InjectIHave(t, from, id, hop, now)
<1>1. u = [t EXCEPT !.observed = x] /\ IsTree(t)
  BY TreeFields DEF InjectIHave
<1> HIDE DEF x, u
<1>2. u.observed = x /\ u.received = t.received /\ u.lazy = t.lazy /\ u.out = << >>
  BY <1>1 DEF IsTree
<1>3. (\A p : Emits(u, p) = {}) /\ Handed(u) = << >>
  <2>1. [type |-> "Replay"].type # "Message"
    OBVIOUS
  <2> QED BY <1>2, <2>1, NothingEmitted, OneEvent
<1> QED BY <1>2, <1>3 DEF x, u

\* inject_prune.
LEMMA PruneDoes ==
  ASSUME NEW t \in Tree, t.out = << >>, NEW from
  PROVE  LET u == InjectPrune(t, from) IN
         /\ u.observed = t.observed /\ u.received = t.received
         /\ t.lazy \subseteq u.lazy
         /\ (\A p : Emits(u, p) = {}) /\ Handed(u) = << >>
<1> DEFINE a == t.eager \ {from}
           b == t.lazy \cup {from}
           u == InjectPrune(t, from)
<1>1. u = [t EXCEPT !.eager = a, !.lazy = b] /\ IsTree(t)
  BY TreeFields DEF InjectPrune
<1> HIDE DEF a, b, u
<1>2. u.observed = t.observed /\ u.received = t.received /\ u.lazy = b /\ u.out = << >>
  BY <1>1 DEF IsTree
<1>3. (\A p : Emits(u, p) = {}) /\ Handed(u) = << >>
  <2>1. [type |-> "Replay"].type # "Message"
    OBVIOUS
  <2> QED BY <1>2, <2>1, NothingEmitted, OneEvent
<1> QED BY <1>2, <1>3 DEF b, u

\* The copies that a GRAFT is answered with.
Answer(t, ids) ==
  {MessageMsg(id, t.received.data[id].hop) : id \in {i \in ids : Has(t.received, i)}}

\* inject_graft.
LEMMA GraftDoes ==
  ASSUME NEW t \in Tree, t.out = << >>, NEW from \in Node, NEW ids \in SUBSET Id
  PROVE  LET u == InjectGraft(t, from, ids) IN
         /\ u.observed = t.observed /\ u.received = t.received
         /\ u.lazy = t.lazy \ {from}
         /\ \A p : Emits(u, p) = IF p = from THEN Answer(t, ids) ELSE {}
         /\ Handed(u) = << >>
<1> DEFINE a == t.eager \cup {from}
           b == t.lazy \ {from}
           copies == Answer(t, ids)
           e == [type |-> "Replay", to |-> from, msgs |-> copies]
           w == [t EXCEPT !.lazy = b, !.eager = a]
           v == PushTree(w, e)
           u == InjectGraft(t, from, ids)
<1>1. (u = w /\ copies = {}) \/ u = v
  BY DEF InjectGraft, Answer
<1>2. IsTree(t) /\ a \in SUBSET Node /\ b \in SUBSET Node
  BY TreeFields
<1>3. e.type # "Message" /\ \A p : Sent(e, p) = IF p = from THEN copies ELSE {}
  BY DEF Sent
<1> HIDE DEF a, b, e, copies, u
<1>4. w \in Tree
  BY <1>2, TreeFields
<1>5. w.observed = t.observed /\ w.received = t.received /\ w.lazy = b /\ w.out = << >>
  BY <1>2 DEF IsTree
<1> HIDE DEF w
<1>6. /\ SameBut(w, v) /\ v.out = Append(<< >>, e)
      /\ \A p : Emits(v, p) = Emits(w, p) \cup Sent(e, p)
  BY <1>4, <1>5, PushEmits
<1> HIDE DEF v
<1>7. \A p : Emits(w, p) = {}
  BY <1>5, NothingEmitted
<1>8. Handed(w) = << >> /\ Handed(v) = << >>
  BY <1>3, <1>5, <1>6, OneEvent
<1>9. \A p : Emits(u, p) = IF p = from THEN copies ELSE {}
  <2>1. CASE u = w /\ copies = {}
    BY <1>7, <2>1
  <2>2. CASE u = v
    BY <1>3, <1>6, <1>7, <2>2
  <2> QED BY <1>1, <2>1, <2>2
<1>10. u.observed = t.observed /\ u.received = t.received /\ u.lazy = b /\ Handed(u) = << >>
  BY <1>1, <1>5, <1>6, <1>8 DEF SameBut
<1> QED BY <1>9, <1>10 DEF u, b, copies

AnnounceMsg(r) == [type |-> "ANNOUNCE", id |-> r.id, hop |-> r.hop]

\* publish_ihaves, with the window w.
LEMMA IHavesDo ==
  ASSUME NEW t \in Tree, t.out = << >>, NEW now, NEW u \in PublishIHaves(t, now)
  PROVE  /\ SameBut(t, u)
         /\ \E e : e.type = "NotifyEach" /\ u.out \in {<< >>, Append(<< >>, e)}
         /\ \E w \in IterRange(t.received, Ago(now, LazyPushWindow), now) :
              \A p : Emits(u, p) = IF p \in t.lazy /\ w # << >>
                                   THEN {AnnounceMsg(w[i]) : i \in DOMAIN w} ELSE {}
<1>1. PICK w \in IterRange(t.received, Ago(now, LazyPushWindow), now) :
        u = IF w = << >> THEN t
            ELSE SendAll(t, t.lazy,
                   IHaveMsg({[id |-> w[i].id, hop |-> w[i].hop] : i \in DOMAIN w}))
  BY DEF PublishIHaves
<1> DEFINE H == {[id |-> w[i].id, hop |-> w[i].hop] : i \in DOMAIN w}
           A == {AnnounceMsg(w[i]) : i \in DOMAIN w}
           f == [p \in t.lazy |-> IHaveMsg(H)]
<1>2. CASE w = << >>
  <2>1. SameBut(t, u) /\ u.out = << >>
    BY <1>1, <1>2 DEF SameBut
  <2>2. [type |-> "NotifyEach"].type = "NotifyEach"
    OBVIOUS
  <2>3. \A p : Emits(u, p) = {}
    BY <2>1, NothingEmitted
  <2> QED BY <1>2, <2>1, <2>2, <2>3
<1>3. CASE w # << >>
  <2>1. u = SendEach(t, f)
    BY <1>1, <1>3 DEF SendAll
  <2>2. Announcements(IHaveMsg(H)) = A
    <3>1. Announcements(IHaveMsg(H)) = {[type |-> "ANNOUNCE", id |-> h.id, hop |-> h.hop] : h \in H}
      BY DEF Announcements, IHaveMsg
    <3>2. @ = A
      <4>1. ASSUME NEW i \in DOMAIN w
            PROVE  \E h \in H : h.id = w[i].id /\ h.hop = w[i].hop
        <5> DEFINE h == [id |-> w[i].id, hop |-> w[i].hop]
        <5>1. h \in H
          OBVIOUS
        <5>2. h.id = w[i].id /\ h.hop = w[i].hop
          OBVIOUS
        <5> HIDE DEF h, H
        <5> QED BY <5>1, <5>2
      <4>2. \A h \in H : \E i \in DOMAIN w : h.id = w[i].id /\ h.hop = w[i].hop
        OBVIOUS
      <4> HIDE DEF H
      <4> QED BY <4>1, <4>2 DEF AnnounceMsg
    <3> QED BY <3>1, <3>2
  <2> HIDE DEF A, H
  <2>3. DOMAIN f = t.lazy /\ \A p \in t.lazy : Announcements(f[p]) = A
    BY <2>2
  <2> HIDE DEF f
  <2>4. /\ SameBut(t, u)
        /\ \E e : e.type = "NotifyEach" /\ u.out \in {t.out, Append(t.out, e)}
        /\ \A p : Emits(u, p) = IF p \in DOMAIN f
                                THEN Emits(t, p) \cup Announcements(f[p]) ELSE Emits(t, p)
    BY <2>1, SendEachEmits
  <2>5. \A p : Emits(u, p) = IF p \in t.lazy THEN A ELSE {}
    BY <2>3, <2>4, NothingEmitted
  <2> QED BY <1>3, <2>4, <2>5 DEF A
<1> QED BY <1>2, <1>3

\* From t to u GRAFTs are added for what w announces and t misses.
AsksFor(t, u, w) ==
  \A p : /\ Emits(t, p) \subseteq Emits(u, p)
         /\ \A m \in Emits(u, p) \ Emits(t, p) :
              /\ m.type = "GRAFT"
              /\ \A id \in m.ids : \E i \in DOMAIN w :
                   /\ w[i].id = id /\ w[i].sender = p
                   /\ ~Has(t.received, id)
         /\ \A i \in DOMAIN w :
              w[i].sender = p /\ ~Has(t.received, w[i].id) =>
              \E m \in Emits(u, p) : m.type = "GRAFT" /\ w[i].id \in m.ids

\* repair_tree, with the window w.
LEMMA RepairDoes ==
  ASSUME NEW t \in Tree, NEW now, NEW u \in RepairTree(t, now)
  PROVE  /\ u.lazy = t.lazy
         /\ u.received = RemoveOlderThan(t.received, Ago(now, HistoryWindow))
         /\ u.observed = RemoveOlderThan(t.observed, Ago(now, HistoryWindow))
         /\ \E e : e.type = "NotifyEach" /\ u.out \in {t.out, Append(t.out, e)}
         /\ \E w \in IterRange(t.observed, Ago(now, LazyPushWindow),
                               Ago(now, 2 * TickFrequency)) : AsksFor(t, u, w)
<1>1. PICK w \in IterRange(t.observed, Ago(now, LazyPushWindow),
                           Ago(now, 2 * TickFrequency)) :
        u = PruneHistory(SendEach(t, Grafts(t, {w[i] : i \in DOMAIN w})), now)
  BY DEF RepairTree
<1> DEFINE Of == {w[i] : i \in DOMAIN w}
           f == Grafts(t, Of)
           v == SendEach(t, f)
           limit == Ago(now, HistoryWindow)
           missing == {o \in Of : ~Has(t.received, o.id)}
           better == {o \in Of : BetterPath(t, o)}
           Ids(p) == {o.id : o \in {x \in missing : x.sender = p}}
<1>2. /\ DOMAIN f = {o.sender : o \in missing \cup better}
      /\ \A p \in DOMAIN f : f[p] = GraftMsg(Ids(p))
  BY DEF Grafts
<1>3. v \in Tree
  <2>1. Of \subseteq Entry
    <3>1. \A i \in DOMAIN w : w[i] \in Entry
      BY TreeFields, WindowTyped
    <3> QED BY <3>1
  <2>2. DOMAIN f \in SUBSET Node
    BY <1>2, <2>1 DEF Entry
  <2>3. \A p : Ids(p) \in SUBSET Id
    BY <2>1 DEF Entry
  <2> HIDE DEF Ids
  <2>4. \A p \in DOMAIN f : f[p] \in TreeMessage
    BY <1>2, <2>3, MessagesTyped
  <2>5. f = [p \in DOMAIN f |-> f[p]]
    BY DEF Grafts
  <2>6. f \in ForEach
    <3> HIDE DEF f
    <3>1. f \in [DOMAIN f -> TreeMessage]
      BY <2>4, <2>5
    <3> QED BY <2>2, <3>1 DEF ForEach
  <2> QED BY <2>6, SendEachTyped
<1>4. \A o \in missing : o \in Of /\ ~Has(t.received, o.id)
  OBVIOUS
<1>5. \A p \in DOMAIN f : Announcements(f[p]) = {f[p]} /\ f[p].type = "GRAFT" /\ f[p].ids = Ids(p)
  <2>1. ASSUME NEW ids
        PROVE  LET m == GraftMsg(ids) IN Announcements(m) = {m} /\ m.type = "GRAFT" /\ m.ids = ids
    BY DEF Announcements, GraftMsg
  <2> HIDE DEF f, Ids
  <2> QED BY <1>2, <2>1
<1> HIDE DEF f
<1>6. /\ SameBut(t, v)
      /\ \E e : e.type = "NotifyEach" /\ v.out \in {t.out, Append(t.out, e)}
      /\ \A p : Emits(v, p) = IF p \in DOMAIN f
                              THEN Emits(t, p) \cup Announcements(f[p]) ELSE Emits(t, p)
  BY SendEachEmits
<1>7. u = [v EXCEPT !.observed = RemoveOlderThan(@, limit), !.received = RemoveOlderThan(@, limit)]
  BY <1>1 DEF PruneHistory, f
<1> HIDE DEF v, limit
<1>8. /\ u.observed = RemoveOlderThan(v.observed, limit)
      /\ u.received = RemoveOlderThan(v.received, limit)
      /\ u.lazy = v.lazy /\ u.out = v.out
  <2> DEFINE x == RemoveOlderThan(v.observed, limit)
             y == RemoveOlderThan(v.received, limit)
  <2>1. u = [v EXCEPT !.observed = x, !.received = y] /\ IsTree(v)
    BY <1>3, <1>7, TreeFields
  <2> HIDE DEF x, y
  <2>2. u.observed = x /\ u.received = y /\ u.lazy = v.lazy /\ u.out = v.out
    BY <2>1 DEF IsTree
  <2> QED BY <2>2 DEF x, y
<1>9. \A p : Emits(u, p) = Emits(v, p)
  BY <1>8, SameOut
<1>10. ASSUME NEW p
       PROVE  /\ Emits(t, p) \subseteq Emits(u, p)
              /\ \A m \in Emits(u, p) \ Emits(t, p) : p \in DOMAIN f /\ m = f[p]
              /\ p \in DOMAIN f => f[p] \in Emits(u, p)
  BY <1>5, <1>6, <1>9
<1>11. ASSUME NEW p, p \in DOMAIN f, NEW id \in f[p].ids
       PROVE  \E i \in DOMAIN w : /\ w[i].id = id /\ w[i].sender = p
                                  /\ ~Has(t.received, id)
  <2>1. id \in Ids(p)
    BY <1>5, <1>11
  <2> QED BY <2>1
<1>12. ASSUME NEW p, NEW i \in DOMAIN w, w[i].sender = p, ~Has(t.received, w[i].id)
       PROVE  p \in DOMAIN f /\ w[i].id \in f[p].ids
  <2>1. w[i] \in missing
    BY <1>12
  <2>2. p \in DOMAIN f
    BY <1>2, <1>12, <2>1
  <2>3. w[i].id \in Ids(p)
    BY <1>12, <2>1
  <2> QED BY <1>5, <2>2, <2>3
<1> HIDE DEF missing, better, Ids, Of
<1>13. AsksFor(t, u, w)
  BY <1>5, <1>10, <1>11, <1>12 DEF AsksFor
<1>14. /\ u.lazy = t.lazy
       /\ u.received = RemoveOlderThan(t.received, limit)
       /\ u.observed = RemoveOlderThan(t.observed, limit)
       /\ \E e : e.type = "NotifyEach" /\ u.out \in {t.out, Append(t.out, e)}
  BY <1>6, <1>8 DEF SameBut
<1> QED BY <1>13, <1>14 DEF limit

\* The periodic work, in terms of what the caches hold.
LEMMA TickDoes ==
  ASSUME NEW t \in Tree, t.out = << >>, Ordered(t.received), Ordered(t.observed),
         NEW now \in Nat, NEW u \in TreeTick(t, now)
  PROVE  LET a == Ago(now, LazyPushWindow) IN
         /\ u.lazy = t.lazy /\ Handed(u) = << >>
         /\ u.received = RemoveOlderThan(t.received, Ago(now, HistoryWindow))
         /\ u.observed = RemoveOlderThan(t.observed, Ago(now, HistoryWindow))
         /\ \A p : \A m \in Emits(u, p) :
              \/ \E r \in Records(t.received) : m = AnnounceMsg(r) /\ r.time >= a
              \/ /\ m.type = "GRAFT"
                 /\ \A id \in m.ids : \E o \in Records(t.observed) :
                      /\ o.id = id /\ o.sender = p /\ o.time >= a
                      /\ ~Has(t.received, id)
         /\ \A p \in t.lazy : \A r \in Records(t.received) :
              a < r.time /\ r.time < now => AnnounceMsg(r) \in Emits(u, p)
         /\ \A o \in Records(t.observed) :
              /\ a < o.time /\ o.time < Ago(now, 2 * TickFrequency)
              /\ ~Has(t.received, o.id)
              => \E m \in Emits(u, o.sender) : m.type = "GRAFT" /\ o.id \in m.ids
<1> DEFINE a == Ago(now, LazyPushWindow)
           b == Ago(now, 2 * TickFrequency)
<1>1. PICK v \in PublishIHaves(t, now) : u \in RepairTree(v, now)
  BY DEF TreeTick
<1>2. v \in Tree
  BY IHavesTyped
<1>3. /\ SameBut(t, v)
      /\ \E e : e.type = "NotifyEach" /\ v.out \in {<< >>, Append(<< >>, e)}
      /\ \E w \in IterRange(t.received, a, now) :
           \A p : Emits(v, p) = IF p \in t.lazy /\ w # << >>
                                THEN {AnnounceMsg(w[i]) : i \in DOMAIN w} ELSE {}
  BY IHavesDo
<1>4. PICK w \in IterRange(t.received, a, now) :
        \A p : Emits(v, p) = IF p \in t.lazy /\ w # << >>
                             THEN {AnnounceMsg(w[i]) : i \in DOMAIN w} ELSE {}
  BY <1>3
<1>5. /\ u.lazy = v.lazy
      /\ u.received = RemoveOlderThan(v.received, Ago(now, HistoryWindow))
      /\ u.observed = RemoveOlderThan(v.observed, Ago(now, HistoryWindow))
      /\ \E e : e.type = "NotifyEach" /\ u.out \in {v.out, Append(v.out, e)}
      /\ \E x \in IterRange(v.observed, a, b) : AsksFor(v, u, x)
  BY <1>1, <1>2, RepairDoes
<1>6. PICK x \in IterRange(v.observed, a, b) : AsksFor(v, u, x)
  BY <1>5
<1>7. v.lazy = t.lazy /\ v.received = t.received /\ v.observed = t.observed
  BY <1>3 DEF SameBut
<1>8. a \in Nat /\ b \in Nat
  BY TreeAssumption, BroadcastAssumption DEF Ago
<1> HIDE DEF a, b
<1>9. /\ \A i \in DOMAIN w : w[i] \in Records(t.received) /\ w[i].time >= a
      /\ \A r \in Records(t.received) :
           a < r.time /\ r.time < now => \E i \in DOMAIN w : w[i] = r
      /\ w = << >> <=> DOMAIN w = {}
  BY <1>8, TreeFields, WindowRecords
<1>10. /\ \A i \in DOMAIN x : x[i] \in Records(t.observed) /\ x[i].time >= a
       /\ \A r \in Records(t.observed) :
            a < r.time /\ r.time < b => \E i \in DOMAIN x : x[i] = r
  <2>1. x \in IterRange(t.observed, a, b) /\ t.observed \in Cache
    BY <1>6, <1>7, TreeFields
  <2> QED BY <1>8, <2>1, WindowRecords
<1>11. ASSUME NEW p, NEW m \in Emits(u, p)
       PROVE  \/ \E r \in Records(t.received) : m = AnnounceMsg(r) /\ r.time >= a
              \/ /\ m.type = "GRAFT"
                 /\ \A id \in m.ids : \E o \in Records(t.observed) :
                      /\ o.id = id /\ o.sender = p /\ o.time >= a
                      /\ ~Has(t.received, id)
  <2>1. CASE m \in Emits(v, p)
    <3>1. \E i \in DOMAIN w : m = AnnounceMsg(w[i])
      BY <1>4, <2>1
    <3> QED BY <1>9, <3>1
  <2>2. CASE m \notin Emits(v, p)
    <3>1. /\ m.type = "GRAFT"
          /\ \A id \in m.ids : \E i \in DOMAIN x :
               x[i].id = id /\ x[i].sender = p /\ ~Has(v.received, id)
      BY <1>6, <1>11, <2>2 DEF AsksFor
    <3> QED BY <1>7, <1>10, <3>1
  <2> QED BY <2>1, <2>2
<1>12. ASSUME NEW p \in t.lazy, NEW r \in Records(t.received), a < r.time, r.time < now
       PROVE  AnnounceMsg(r) \in Emits(u, p)
  <2>1. PICK i \in DOMAIN w : w[i] = r
    BY <1>9, <1>12
  <2>2. AnnounceMsg(r) \in Emits(v, p)
    BY <1>4, <1>9, <2>1
  <2> QED BY <1>6, <2>2 DEF AsksFor
<1>13. ASSUME NEW o \in Records(t.observed), a < o.time, o.time < b, ~Has(t.received, o.id)
       PROVE  \E m \in Emits(u, o.sender) : m.type = "GRAFT" /\ o.id \in m.ids
  <2>1. PICK i \in DOMAIN x : x[i] = o
    BY <1>10, <1>13
  <2> QED BY <1>6, <1>7, <1>13, <2>1 DEF AsksFor
<1>14. Handed(u) = << >>
  <2>1. PICK e : e.type = "NotifyEach" /\ v.out \in {<< >>, Append(<< >>, e)}
    BY <1>3
  <2>2. PICK f : f.type = "NotifyEach" /\ u.out \in {v.out, Append(v.out, f)}
    BY <1>5
  <2> DEFINE S == {e, f}
  <2>3. v.out \in Seq(S) /\ Append(v.out, f) \in Seq(S)
    <3>1. << >> \in Seq(S) /\ e \in S /\ f \in S
      OBVIOUS
    <3> HIDE DEF S
    <3>2. Append(<< >>, e) \in Seq(S)
      BY <3>1, AppendProperties
    <3>3. v.out \in Seq(S)
      BY <2>1, <3>1, <3>2
    <3> QED BY <3>1, <3>3, AppendProperties
  <2>4. u.out \in Seq(S)
    BY <2>2, <2>3
  <2>5. \A i \in DOMAIN u.out : u.out[i] \in S
    <3> HIDE DEF S
    <3> QED BY <2>4, LenProperties, ElementOfSeq
  <2>6. \A i \in DOMAIN u.out : u.out[i].type # "Message"
    BY <2>1, <2>2, <2>5
  <2> QED BY <2>4, <2>6, NothingHanded
<1> QED BY <1>5, <1>7, <1>11, <1>12, <1>13, <1>14 DEF a, b

-----------------------------------------------------------------------------
(* The inductive invariant.                                                *)

\* The nodes that have had a message, and how many they are.
Holders(id) == {n \in Node : since[n][id] # 0}
Count(id) == Cardinality(Holders(id))

\* What is on its way from n to p for id.
Pushed(n, p, id) == \E m \in OnWay(n, p) : m.type = "MESSAGE" /\ m.id = id
Announced(n, p, id) == \E m \in OnWay(n, p) : m.type = "ANNOUNCE" /\ m.id = id
Asked(n, p, id) == \E m \in OnWay(n, p) : m.type = "GRAFT" /\ id \in m.ids

TimesTyped ==
  /\ since \in [Node -> [Id -> Nat]]
  /\ owed \in [Node -> [Id -> SUBSET Node]]
  /\ grafted \in [Node -> [Id -> SUBSET Node]]
  /\ cut \in [Node -> SUBSET Id]
  /\ \A n \in Node : tree[n].out = << >>

CacheGood(c) == Ordered(c) /\ Keyed(c)

\* The path of a message goes through nodes that have had it.
ShortPath(id, hop) == Fresh(id) => hop =< Count(id)

\* What n keeps of the messages it has had.
KeptGood(n) ==
  LET c == tree[n].received IN
  /\ CacheGood(c)
  /\ \A r \in Records(c) :
       /\ since[n][r.id] # 0 /\ r.time =< clock /\ ShortPath(r.id, r.hop)
       /\ Fresh(r.id) => r.time = since[n][r.id]
  /\ \A id \in DOMAIN c.data : since[n][id] # 0 /\ ShortPath(id, c.data[id].hop)

\* The repair of a message that o has announced to n is under way.
Asking(n, o) ==
  \/ o.id \in cut[n]
  \/ clock < o.time + 3
  \/ /\ clock = o.time + 3
     /\ n \notin ticked \/ Asked(n, o.sender, o.id) \/ Pushed(o.sender, n, o.id)

\* It has to be: n misses the message, and the read of repair_tree is wide
\* enough for its announcement.
Misses(n, o) == LazyPushWindow > 3 /\ Fresh(o.id) /\ since[n][o.id] = 0

\* What n keeps of the announcements it has heard.
HeardGood(n) ==
  LET c == tree[n].observed IN
  /\ CacheGood(c)
  /\ \A o \in Records(c) :
       /\ since[o.sender][o.id] # 0
       /\ since[o.sender][o.id] =< o.time
       /\ o.time =< clock
       /\ o.id \in cut[n] \/ {n, o.sender} \in up
       /\ Misses(n, o) => Asking(n, o)

\* When n had id: not before it was published.  It is remembered for the
\* history window.
SinceGood(n, id) ==
  since[n][id] # 0 =>
    /\ since[n][id] =< clock
    /\ author[id] # Nobody
    /\ Schedule[id] =< since[n][id]
    /\ Fresh(id) => Has(tree[n].received, id)

\* A message on its way from n to p was had by n, and a GRAFT asks p for what
\* it has had.
Travels(n, p, m) ==
  /\ m.type \in {"MESSAGE", "ANNOUNCE"} => since[n][m.id] # 0 /\ ShortPath(m.id, m.hop)
  /\ m.type = "GRAFT" => \A id \in m.ids : since[p][id] # 0

NetGood == \A n, p \in Node : \A m \in OnWay(n, p) : Travels(n, p, m)

\* An author has its message, and an application only what its node has.
BooksGood ==
  /\ \A n \in Node : \A i \in DOMAIN log[n] : since[n][log[n][i]] # 0
  /\ \A id \in Id : author[id] # Nobody =>
       since[author[id]][id] # 0 /\ Schedule[id] \in 1 .. clock

\* A message is owed over an open connection.
OwedGood == \A n, p \in Node, id \in Id : p \in owed[n][id] => {n, p} \in up

\* What n does about a peer that misses a message it has.
Underway(n, p, id) ==
  \/ Pushed(n, p, id)
  \/ /\ p \in tree[n].lazy
     /\ clock = since[n][id] \/ (clock = since[n][id] + 1 /\ n \notin ticked)
  \/ Announced(n, p, id) /\ clock =< since[n][id] + 1
  \/ \E o \in Records(tree[p].observed) : o.id = id /\ o.time =< since[n][id] + 1

Progress(n, p, id) ==
  /\ p \in owed[n][id] /\ p \notin grafted[n][id] /\ Fresh(id)
  /\ since[n][id] # 0 /\ since[p][id] = 0
  /\ clock =< since[n][id] + 4
  => Underway(n, p, id)

TraceInv ==
  /\ BroadcastInv /\ TimesTyped
  /\ \A n \in Node : KeptGood(n) /\ HeardGood(n)
  /\ \A n \in Node, id \in Id : SinceGood(n, id)
  /\ NetGood /\ BooksGood /\ OwedGood
  /\ \A n, p \in Node, id \in Id : Progress(n, p, id)

-----------------------------------------------------------------------------
(* Times and counts.                                                       *)

\* The constants.
LEMMA Windows ==
  /\ LazyPushWindow \in Nat /\ LazyPushWindow > 2
  /\ HistoryWindow \in Nat /\ HistoryWindow > 0
  /\ TickFrequency = 1 /\ IsFiniteSet(Node)
  /\ \A id \in Id : Schedule[id] \in Nat
BY TreeAssumption, BroadcastAssumption DEF Id

\* A time once known stays, a new one is the present, and messages age.
Grows ==
  /\ since' \in [Node -> [Id -> Nat]]
  /\ \A n \in Node, id \in Id :
       since'[n][id] = since[n][id] \/ (since[n][id] = 0 /\ since'[n][id] = clock)
  /\ clock' \in Nat /\ clock' >= clock
  /\ \A id \in Id : Fresh(id)' => Fresh(id)

\* A message is not fresh again.
LEMMA Ages ==
  ASSUME clock \in Nat, clock' \in Nat, clock' >= clock
  PROVE  \A id \in Id : Fresh(id)' => Fresh(id)
BY Windows DEF Fresh

\* Nothing is known that was not.
LEMMA NoGrowth ==
  ASSUME TimesTyped, UNCHANGED since, clock \in Nat, clock' \in Nat, clock' >= clock
  PROVE  Grows
BY Ages DEF TimesTyped, Grows

\* Holders are counted.
LEMMA CountTyped ==
  ASSUME NEW id
  PROVE  Holders(id) \subseteq Node /\ IsFiniteSet(Holders(id)) /\ Count(id) \in Nat
         /\ Count(id) =< Cardinality(Node)
<1>1. Holders(id) \subseteq Node
  BY DEF Holders
<1>2. IsFiniteSet(Node)
  BY Windows
<1>3. /\ IsFiniteSet(Holders(id)) /\ Cardinality(Holders(id)) =< Cardinality(Node)
  BY <1>1, <1>2, FS_Subset
<1>4. Cardinality(Holders(id)) \in Nat
  BY <1>3, FS_CardinalityType
<1> QED BY <1>1, <1>3, <1>4 DEF Count

\* The same in the next state.
LEMMA CountTypedNext ==
  ASSUME NEW id
  PROVE  IsFiniteSet(Holders(id)') /\ Count(id)' \in Nat
<1> DEFINE S == Holders(id)'
<1>1. S \subseteq Node
  BY DEF Holders
<1> HIDE DEF S
<1>2. IsFiniteSet(S)
  BY <1>1, Windows, FS_Subset
<1>3. Cardinality(S) \in Nat
  BY <1>2, FS_CardinalityType
<1> QED BY <1>2, <1>3 DEF S, Count

\* They do not become fewer.
LEMMA CountGrows ==
  ASSUME TimesTyped, Grows, NEW id \in Id
  PROVE  Count(id) =< Count(id)'
<1> DEFINE S == Holders(id)
           T == Holders(id)'
<1>1. S \subseteq T
  <2> SUFFICES ASSUME NEW n \in Node, since[n][id] # 0 PROVE since'[n][id] # 0
    BY DEF Holders
  <2> QED BY DEF Grows
<1>2. IsFiniteSet(T)
  BY CountTypedNext
<1> HIDE DEF S, T
<1>3. Cardinality(S) =< Cardinality(T)
  BY <1>1, <1>2, FS_Subset
<1> QED BY <1>3 DEF S, T, Count

\* A new holder counts.
LEMMA CountMore ==
  ASSUME TimesTyped, Grows, NEW id \in Id, NEW n \in Node,
         since[n][id] = 0, since'[n][id] # 0
  PROVE  Count(id) + 1 =< Count(id)'
<1> DEFINE S == Holders(id)
           T == Holders(id)'
<1>1. S \cup {n} \subseteq T /\ n \notin S
  <2>1. ASSUME NEW k \in Node, since[k][id] # 0 PROVE since'[k][id] # 0
    BY <2>1 DEF Grows
  <2> QED BY <2>1 DEF Holders
<1>2. IsFiniteSet(T) /\ IsFiniteSet(S) /\ Cardinality(S) \in Nat
  BY CountTyped, CountTypedNext DEF Count
<1> HIDE DEF S, T
<1>3. Cardinality(S \cup {n}) = Cardinality(S) + 1 /\ IsFiniteSet(S \cup {n})
  BY <1>1, <1>2, FS_AddElement
<1>4. Cardinality(S \cup {n}) =< Cardinality(T)
  BY <1>1, <1>2, FS_Subset
<1> QED BY <1>3, <1>4 DEF S, T, Count

\* A path stays short.
LEMMA PathStays ==
  ASSUME TimesTyped, Grows, NEW id \in Id, NEW hop \in Nat, ShortPath(id, hop)
  PROVE  ShortPath(id, hop)'
<1>1. Count(id) =< Count(id)' /\ Count(id) \in Nat /\ Count(id)' \in Nat
  BY CountGrows, CountTyped, CountTypedNext
<1>2. Fresh(id)' => Fresh(id)
  BY DEF Grows
<1> QED BY <1>1, <1>2 DEF ShortPath

\* The types of what the invariant talks about.
LEMMA TraceTypes ==
  ASSUME TraceInv
  PROVE  /\ clock \in Nat /\ clock # 0
         /\ tree \in [Node -> Tree] /\ \A n \in Node : tree[n] \in Tree /\ tree[n].out = << >>
         /\ \A n \in Node : tree[n].received \in Cache /\ tree[n].observed \in Cache
         /\ \A n \in Node, id \in Id : since[n][id] \in Nat
         /\ net \in [Node -> [Node -> Seq(SUBSET WireMessage)]]
         /\ author \in [Id -> Node \cup {Nobody}]
         /\ log \in [Node -> Seq(Id)]
<1>1. BroadcastInv /\ TimesTyped
  BY DEF TraceInv
<1>2. clock \in Nat /\ clock # 0
  BY <1>1, BroadcastAssumption DEF BroadcastInv
<1>3. tree \in [Node -> Tree] /\ \A n \in Node : tree[n] \in Tree /\ tree[n].out = << >>
  BY <1>1 DEF BroadcastInv, TimesTyped
<1>4. \A n \in Node : tree[n].received \in Cache /\ tree[n].observed \in Cache
  BY <1>3, TreeFields
<1>5. \A n \in Node, id \in Id : since[n][id] \in Nat
  BY <1>1 DEF TimesTyped
<1> QED BY <1>1, <1>2, <1>3, <1>4, <1>5 DEF BroadcastInv

\* Whatever is on its way is a message of the protocol.
LEMMA OnWayTyped ==
  ASSUME NEW q \in Seq(SUBSET WireMessage), NEW m \in Under(q)
  PROVE  m \in WireMessage
<1>1. \A i \in DOMAIN q : q[i] \subseteq WireMessage
  BY LenProperties, ElementOfSeq
<1> QED BY <1>1 DEF Under

\* What a node has had and does not keep is old.
LEMMA Remembered ==
  ASSUME TraceInv, NEW n \in Node, NEW id \in Id, ~Has(tree[n].received, id), Fresh(id)
  PROVE  since[n][id] = 0
BY DEF TraceInv, SinceGood

-----------------------------------------------------------------------------
(* What a step leaves alone.                                               *)

\* The tree of n becomes t, and what it has is written down.
TreeBecomes(n, t) ==
  /\ \A k \in Node : k # n => /\ tree'[k] = tree[k] /\ log'[k] = log[k]
                              /\ since'[k] = since[k] /\ owed'[k] = owed[k]
  /\ tree'[n].received = t.received /\ tree'[n].observed = t.observed
  /\ tree'[n].lazy = t.lazy
  /\ \A k \in Node : tree'[k].out = << >>
  /\ log'[n] = log[n] \o Handed(t)
  /\ \A id \in Id : since'[n][id] = IF since[n][id] = 0 /\ Has(t.received, id)
                                    THEN clock ELSE since[n][id]
  /\ owed' \in [Node -> [Id -> SUBSET Node]]
  /\ \A id \in Id : owed'[n][id] = IF since[n][id] = 0 /\ Has(t.received, id)
                                   THEN {p \in peers[n] : {n, p} \in up}
                                   ELSE owed[n][id]
  /\ Grows

\* Handle does that.
LEMMA HandleDoes ==
  ASSUME TraceInv, NEW n \in Node, NEW t \in Tree, NEW sent, Handle(n, t, sent),
         UNCHANGED clock
  PROVE  TreeBecomes(n, t)
<1> DEFINE u == [t EXCEPT !.out = << >>]
           g == [id \in Id |-> IF since[n][id] = 0 /\ Has(t.received, id)
                               THEN clock ELSE since[n][id]]
           S == {p \in peers[n] : {n, p} \in up}
           h == [id \in Id |-> IF since[n][id] = 0 /\ Has(t.received, id)
                               THEN S ELSE owed[n][id]]
<1>1. /\ tree \in [Node -> Tree] /\ \A k \in Node : tree[k].out = << >>
      /\ since \in [Node -> [Id -> Nat]] /\ log \in [Node -> Seq(Id)] /\ clock \in Nat
      /\ owed \in [Node -> [Id -> SUBSET Node]] /\ peers \in [Node -> SUBSET Node]
  BY TraceTypes DEF TraceInv, TimesTyped, BroadcastInv
<1>2. /\ tree' = [tree EXCEPT ![n] = u] /\ since' = [since EXCEPT ![n] = g]
      /\ log' = [log EXCEPT ![n] = @ \o Handed(t)]
      /\ owed' = [owed EXCEPT ![n] = h]
  BY <1>1 DEF Handle
<1>3. /\ u.received = t.received /\ u.observed = t.observed /\ u.lazy = t.lazy
      /\ u.out = << >>
  <2>1. IsTree(t)
    BY TreeFields
  <2> QED BY <2>1 DEF IsTree
<1>4. g \in [Id -> Nat]
  BY <1>1
<1>5. \A id \in Id : g[id] = IF since[n][id] = 0 /\ Has(t.received, id)
                             THEN clock ELSE since[n][id]
  OBVIOUS
<1>10. S \in SUBSET Node
  BY <1>1
<1>11. /\ h \in [Id -> SUBSET Node]
       /\ \A id \in Id : h[id] = IF since[n][id] = 0 /\ Has(t.received, id)
                                 THEN S ELSE owed[n][id]
  <2> HIDE DEF S
  <2> QED BY <1>1, <1>10
<1> HIDE DEF u, g, h
<1>6. \A k \in Node : k # n => /\ tree'[k] = tree[k] /\ log'[k] = log[k]
                               /\ since'[k] = since[k] /\ owed'[k] = owed[k]
  BY <1>1, <1>2
<1>7. tree'[n] = u /\ since'[n] = g /\ log'[n] = log[n] \o Handed(t) /\ owed'[n] = h
  BY <1>1, <1>2
<1>8. \A k \in Node : tree'[k].out = << >>
  BY <1>1, <1>3, <1>6, <1>7
<1>9. Grows
  <2>1. since' \in [Node -> [Id -> Nat]]
    BY <1>1, <1>2, <1>4
  <2>2. ASSUME NEW k \in Node, NEW id \in Id
        PROVE  since'[k][id] = since[k][id] \/ (since[k][id] = 0 /\ since'[k][id] = clock)
    BY <1>5, <1>6, <1>7
  <2>3. clock' \in Nat /\ clock' >= clock
    BY <1>1
  <2> QED BY <1>1, <2>1, <2>2, <2>3, Ages DEF Grows
<1>12. owed' \in [Node -> [Id -> SUBSET Node]]
  BY <1>1, <1>2, <1>11
<1> QED BY <1>3, <1>5, <1>6, <1>7, <1>8, <1>9, <1>11, <1>12 DEF TreeBecomes

\* What is owed stays owed, and a new debt is over open connections.
LEMMA OwedFrame ==
  ASSUME TraceInv, NEW n \in Node, NEW t, TreeBecomes(n, t), UNCHANGED up
  PROVE  /\ OwedGood'
         /\ \A k \in Node, id \in Id : since[k][id] # 0 => owed'[k][id] = owed[k][id]
<1>1. OwedGood
  BY DEF TraceInv
<1>2. ASSUME NEW k \in Node, NEW p \in Node, NEW id \in Id, p \in owed'[k][id]
      PROVE  {k, p} \in up
  <2>1. CASE k # n
    <3>1. owed'[k] = owed[k]
      BY <2>1 DEF TreeBecomes
    <3> QED BY <1>1, <1>2, <3>1 DEF OwedGood
  <2>2. CASE k = n
    <3>1. p \in owed[n][id] \/ {n, p} \in up
      BY <1>2, <2>2 DEF TreeBecomes
    <3> QED BY <1>1, <2>2, <3>1 DEF OwedGood
  <2> QED BY <2>1, <2>2
<1>3. \A k \in Node, id \in Id : since[k][id] # 0 => owed'[k][id] = owed[k][id]
  BY DEF TreeBecomes
<1> QED BY <1>2, <1>3 DEF OwedGood

\* A cache of messages that has lost records at most.
LEMMA KeptFrame ==
  ASSUME TraceInv, Grows, NEW n \in Node, CacheGood(tree'[n].received),
         tree'[n].received \in Cache,
         Records(tree'[n].received) \subseteq Records(tree[n].received),
         DOMAIN tree'[n].received.data \subseteq DOMAIN tree[n].received.data,
         \A id \in DOMAIN tree'[n].received.data :
           tree'[n].received.data[id].hop = tree[n].received.data[id].hop
  PROVE  KeptGood(n)'
<1> DEFINE c == tree[n].received
           d == tree'[n].received
<1>1. TimesTyped /\ KeptGood(n) /\ c \in Cache /\ clock \in Nat
  BY TraceTypes DEF TraceInv
<1>2. ASSUME NEW r \in Records(d)
      PROVE  /\ since'[n][r.id] # 0 /\ r.time =< clock' /\ ShortPath(r.id, r.hop)'
             /\ Fresh(r.id)' => r.time = since'[n][r.id]
  <2>1. r \in Records(c)
    BY <1>2
  <2>2. r.id \in Id /\ r.hop \in Nat /\ r.time \in Nat
    BY <1>1, <2>1, RecordsTyped, EntryFields
  <2>3. /\ since[n][r.id] # 0 /\ r.time =< clock /\ ShortPath(r.id, r.hop)
        /\ Fresh(r.id) => r.time = since[n][r.id]
    BY <1>1, <2>1 DEF KeptGood
  <2>4. since'[n][r.id] = since[n][r.id] /\ (Fresh(r.id)' => Fresh(r.id))
    BY <2>2, <2>3 DEF Grows
  <2>5. r.time =< clock'
    BY <1>1, <2>2, <2>3 DEF Grows
  <2>6. ShortPath(r.id, r.hop)'
    <3> DEFINE a == r.id
               b == r.hop
    <3>1. a \in Id /\ b \in Nat /\ ShortPath(a, b)
      BY <2>2, <2>3
    <3> HIDE DEF a, b
    <3>2. ShortPath(a, b)'
      BY <1>1, <3>1, PathStays
    <3> QED BY <3>2 DEF a, b
  <2> QED BY <2>3, <2>4, <2>5, <2>6
<1>3. ASSUME NEW id \in DOMAIN d.data
      PROVE  since'[n][id] # 0 /\ (Fresh(id)' => d.data[id].hop =< Count(id)')
  <2>1. id \in DOMAIN c.data
    BY <1>3
  <2>2. id \in Id /\ c.data[id].hop \in Nat
    BY <1>1, <2>1, CacheFields
  <2>3. since[n][id] # 0 /\ ShortPath(id, c.data[id].hop)
    BY <1>1, <2>1 DEF KeptGood
  <2>4. since'[n][id] = since[n][id]
    BY <2>2, <2>3 DEF Grows
  <2> DEFINE b == c.data[id].hop
  <2>5. d.data[id].hop = b
    BY <1>3
  <2>6. Fresh(id)' => d.data[id].hop =< Count(id)'
    <3>1. b \in Nat /\ ShortPath(id, b)
      BY <2>2, <2>3
    <3>3. \A x \in Nat : ShortPath(id, x) => ShortPath(id, x)'
      BY <1>1, <2>2, PathStays
    <3> HIDE DEF b
    <3> QED BY <2>5, <3>1, <3>3 DEF ShortPath
  <2> QED BY <2>3, <2>4, <2>6
<1>4. CacheGood(d)
  OBVIOUS
<1> QED BY <1>2, <1>3, <1>4 DEF KeptGood, ShortPath

\* The same cache.
LEMMA KeptSame ==
  ASSUME TraceInv, Grows, NEW n \in Node, tree'[n].received = tree[n].received
  PROVE  KeptGood(n)'
<1>1. CacheGood(tree'[n].received) /\ tree'[n].received \in Cache
  BY TraceTypes DEF TraceInv, KeptGood
<1> QED BY <1>1, KeptFrame

\* A time that was known, of a message that is kept while it is fresh.
LEMMA SinceFrame ==
  ASSUME TraceInv, Grows, NEW n \in Node, NEW id \in Id, since[n][id] # 0,
         author[id] # Nobody => author'[id] # Nobody,
         Fresh(id)' /\ Has(tree[n].received, id) => Has(tree'[n].received, id)
  PROVE  SinceGood(n, id)'
<1>1. since'[n][id] = since[n][id]
  BY DEF Grows
<1>2. /\ since[n][id] =< clock /\ author[id] # Nobody
      /\ Schedule[id] =< since[n][id]
      /\ Fresh(id) => Has(tree[n].received, id)
  BY DEF TraceInv, SinceGood
<1>3. clock \in Nat /\ since[n][id] \in Nat /\ clock' \in Nat /\ clock' >= clock
  BY TraceTypes DEF Grows
<1>4. since'[n][id] =< clock' /\ author'[id] # Nobody
  BY <1>1, <1>2, <1>3
<1>5. Fresh(id)' => Has(tree'[n].received, id)
  BY <1>2 DEF Grows
<1> QED BY <1>1, <1>2, <1>4, <1>5 DEF SinceGood

\* A message that was on its way.
LEMMA TravelsFrame ==
  ASSUME TraceInv, Grows, NEW n \in Node, NEW p \in Node, NEW m \in OnWay(n, p)
  PROVE  Travels(n, p, m)'
<1>1. Travels(n, p, m) /\ TimesTyped
  BY DEF TraceInv, NetGood
<1>2. m \in WireMessage
  <2>1. net[n][p] \in Seq(SUBSET WireMessage)
    BY TraceTypes
  <2> QED BY <2>1, OnWayTyped DEF OnWay
<1>3. \A k \in Node, id \in Id : since[k][id] # 0 => since'[k][id] # 0
  BY DEF Grows
<1>4. ASSUME m.type \in {"MESSAGE", "ANNOUNCE"}
      PROVE  since'[n][m.id] # 0 /\ ShortPath(m.id, m.hop)'
  <2>1. m.id \in Id /\ m.hop \in Nat
    BY <1>2, <1>4 DEF WireMessage
  <2>2. since[n][m.id] # 0 /\ ShortPath(m.id, m.hop)
    BY <1>1, <1>4 DEF Travels
  <2>3. \A i \in Id, h \in Nat : ShortPath(i, h) => ShortPath(i, h)'
    BY <1>1, PathStays
  <2>4. ShortPath(m.id, m.hop)'
    BY <2>1, <2>2, <2>3
  <2> QED BY <1>3, <2>1, <2>2, <2>4
<1>5. ASSUME m.type = "GRAFT", NEW id \in m.ids
      PROVE  since'[p][id] # 0
  <2>1. id \in Id
    BY <1>2, <1>5 DEF WireMessage
  <2>2. since[p][id] # 0
    BY <1>1, <1>5 DEF Travels
  <2> QED BY <1>3, <2>1, <2>2
<1> QED BY <1>4, <1>5 DEF Travels

\* A record that n has just made of an announcement.
NewlyHeard(n, o) ==
  /\ o \in Entry
  /\ since[o.sender][o.id] # 0 /\ since[o.sender][o.id] =< o.time
  /\ o.time = clock'
  /\ {n, o.sender} \in up'

\* Announcements that were known: n has had the message by now, or the repair
\* goes on.
LEMMA HeardFrame ==
  ASSUME TraceInv, Grows, NEW n \in Node, CacheGood(tree'[n].observed),
         cut[n] \subseteq cut'[n],
         \A o \in Records(tree'[n].observed) :
           o \in Records(tree[n].observed) \/ NewlyHeard(n, o),
         \A o \in Records(tree[n].observed) :
           {n, o.sender} \in up => o.id \in cut'[n] \/ {n, o.sender} \in up',
         \A o \in Records(tree[n].observed) :
           o \in Entry /\ Misses(n, o)' /\ Asking(n, o) => Asking(n, o)'
  PROVE  HeardGood(n)'
<1> DEFINE c == tree[n].observed
           d == tree'[n].observed
<1>1. TimesTyped /\ HeardGood(n) /\ c \in Cache /\ clock \in Nat
      /\ clock' \in Nat /\ clock' >= clock
  BY TraceTypes DEF TraceInv, Grows
<1>2. ASSUME NEW o \in Records(d)
      PROVE  /\ since'[o.sender][o.id] # 0
             /\ since'[o.sender][o.id] =< o.time
             /\ o.time =< clock'
             /\ o.id \in cut'[n] \/ {n, o.sender} \in up'
             /\ Misses(n, o)' => Asking(n, o)'
  <2>1. CASE o \in Records(c)
    <3>1. o.id \in Id /\ o.sender \in Node /\ o.time \in Nat /\ o \in Entry
      BY <1>1, <2>1, RecordsTyped, EntryFields
    <3>2. /\ since[o.sender][o.id] # 0
          /\ since[o.sender][o.id] =< o.time
          /\ o.time =< clock
          /\ o.id \in cut[n] \/ {n, o.sender} \in up
          /\ Misses(n, o) => Asking(n, o)
      BY <1>1, <2>1 DEF HeardGood
    <3>3. since'[o.sender][o.id] = since[o.sender][o.id]
      BY <3>1, <3>2 DEF Grows
    <3>4. Misses(n, o)' => Misses(n, o)
      <4>1. (since'[n][o.id] = 0 => since[n][o.id] = 0) /\ (Fresh(o.id)' => Fresh(o.id))
        BY <3>1 DEF Grows
      <4> QED BY <4>1 DEF Misses
    <3>5. o.time =< clock'
      BY <1>1, <3>1, <3>2
    <3>6. Misses(n, o)' => Asking(n, o)'
      BY <2>1, <3>1, <3>2, <3>4
    <3>7. o.id \in cut'[n] \/ {n, o.sender} \in up'
      BY <2>1, <3>2
    <3> QED BY <3>2, <3>3, <3>5, <3>6, <3>7
  <2>2. CASE NewlyHeard(n, o)
    <3>1. o.id \in Id /\ o.sender \in Node /\ o.time \in Nat
      BY <2>2, EntryFields DEF NewlyHeard
    <3>2. since'[o.sender][o.id] = since[o.sender][o.id]
      BY <2>2, <3>1 DEF Grows, NewlyHeard
    <3>3. Asking(n, o)'
      <4>1. clock' < o.time + 3
        <5>1. o.time = clock' /\ \A x \in Nat : x < x + 3
          BY <2>2 DEF NewlyHeard
        <5> QED BY <3>1, <5>1
      <4> QED BY <4>1 DEF Asking
    <3>4. o.time =< clock'
      BY <2>2, <3>1 DEF NewlyHeard
    <3> QED BY <2>2, <3>2, <3>3, <3>4 DEF NewlyHeard
  <2> QED BY <1>2, <2>1, <2>2
<1>3. CacheGood(d)
  OBVIOUS
<1> QED BY <1>2, <1>3 DEF HeardGood

\* A repair goes on while nothing it needs is taken away.
LEMMA AskingFrame ==
  ASSUME NEW n \in Node, NEW o, Asking(n, o), UNCHANGED clock, cut[n] \subseteq cut'[n],
         n \notin ticked => n \notin ticked',
         \/ o.id \in cut'[n]
         \/ /\ OnWay(n, o.sender) \subseteq OnWay(n, o.sender)'
            /\ OnWay(o.sender, n) \subseteq OnWay(o.sender, n)'
  PROVE  Asking(n, o)'
<1>1. CASE o.id \in cut'[n]
  BY <1>1 DEF Asking
<1>2. CASE /\ OnWay(n, o.sender) \subseteq OnWay(n, o.sender)'
           /\ OnWay(o.sender, n) \subseteq OnWay(o.sender, n)'
  <2>1. o.id \in cut[n] => o.id \in cut'[n]
    OBVIOUS
  <2>2. Asked(n, o.sender, o.id) => Asked(n, o.sender, o.id)'
    BY <1>2 DEF Asked
  <2>3. Pushed(o.sender, n, o.id) => Pushed(o.sender, n, o.id)'
    BY <1>2 DEF Pushed
  <2> QED BY <2>1, <2>2, <2>3 DEF Asking
<1> QED BY <1>1, <1>2

\* What n does about a peer goes on until the peer has the message.
LEMMA ProgressFrame ==
  ASSUME TraceInv, Grows, NEW n \in Node, NEW p \in Node, NEW id \in Id, since[n][id] # 0,
         grafted[n][id] \subseteq grafted'[n][id],
         owed'[n][id] \subseteq owed[n][id],
         /\ Underway(n, p, id) /\ p \in owed'[n][id] /\ p \notin grafted'[n][id]
         /\ Fresh(id)' /\ since'[p][id] = 0 /\ clock' =< since[n][id] + 4
         => Underway(n, p, id)'
  PROVE  Progress(n, p, id)'
<1> DEFINE s == since[n][id]
<1>1. since'[n][id] = s
  BY DEF Grows
<1> SUFFICES ASSUME p \in owed'[n][id], p \notin grafted'[n][id], Fresh(id)',
                    since'[p][id] = 0, clock' =< s + 4
             PROVE  Underway(n, p, id)'
  BY <1>1 DEF Progress
<1>2. clock \in Nat /\ s \in Nat /\ clock' \in Nat /\ clock' >= clock
  BY TraceTypes DEF Grows
<1>3. since[p][id] = 0 /\ Fresh(id)
  BY DEF Grows
<1>4. clock =< s + 4
  <2> HIDE DEF s
  <2> QED BY <1>2
<1>5. Underway(n, p, id)
  BY <1>3, <1>4 DEF TraceInv, Progress
<1> QED BY <1>5

\* A node that has just had a message has sent it, or is about to announce it.
LEMMA ProgressNew ==
  ASSUME NEW n \in Node, NEW p \in Node, NEW id \in Id, since'[n][id] = clock',
         p \notin owed'[n][id] \/ since'[p][id] # 0 \/ p \in tree'[n].lazy
           \/ Pushed(n, p, id)'
  PROVE  Progress(n, p, id)'
<1>1. CASE p \notin owed'[n][id] \/ since'[p][id] # 0
  BY <1>1 DEF Progress
<1>2. CASE p \in tree'[n].lazy \/ Pushed(n, p, id)'
  BY <1>2 DEF Progress, Underway
<1> QED BY <1>1, <1>2

\* a has grafted its link to b for another message, just after b had id.
LateGraft(a, b, id) ==
  since[b][id] # 0 /\ clock =< since[b][id] + 1 => a \in grafted'[b][id]

\* b handles m, which a has sent it.
Moves(a, b, m) ==
  /\ Grows
  /\ UNCHANGED <<up, clock, ticked, cut>>
  /\ \A id \in Id : author[id] # Nobody => author'[id] # Nobody
  /\ \A k, r \in Node : \A x \in OnWay(k, r) :
       x \in OnWay(k, r)' \/ (k = a /\ r = b /\ x = m)
  /\ \A k \in Node : k # b => tree'[k] = tree[k]
  /\ tree'[b].observed \in Cache
  /\ Records(tree[b].observed) \subseteq Records(tree'[b].observed)
  /\ DOMAIN tree[b].received.data \subseteq DOMAIN tree'[b].received.data
  /\ m.type = "MESSAGE" => since'[b][m.id] # 0
  /\ m.type = "ANNOUNCE" => \E o \in Records(tree'[b].observed) : o.id = m.id /\ o.time =< clock
  /\ m.type = "GRAFT" => \A id \in m.ids : Fresh(id) => Pushed(b, a, id)'
  /\ \A p \in tree[b].lazy : p \in tree'[b].lazy \/ (p = a /\ \A id \in Id : LateGraft(a, b, id))
  /\ \A k \in Node, id \in Id : grafted[k][id] \subseteq grafted'[k][id]
  /\ \A k \in Node, id \in Id : since[k][id] # 0 => owed'[k][id] = owed[k][id]

\* Repairs go on: what m was for has been done.
LEMMA MovesAsking ==
  ASSUME NEW a \in Node, NEW b \in Node, NEW m, Moves(a, b, m), NEW n \in Node, NEW o,
         o.sender \in Node, Fresh(o.id), since'[n][o.id] = 0, Asking(n, o)
  PROVE  Asking(n, o)'
<1>1. UNCHANGED <<up, clock, ticked, cut>>
  BY DEF Moves
<1>2. ASSUME Asked(n, o.sender, o.id)
      PROVE  Asked(n, o.sender, o.id)' \/ Pushed(o.sender, n, o.id)'
  <2>1. PICK x \in OnWay(n, o.sender) : x.type = "GRAFT" /\ o.id \in x.ids
    BY <1>2 DEF Asked
  <2>2. x \in OnWay(n, o.sender)' \/ (n = a /\ o.sender = b /\ x = m)
    BY <2>1 DEF Moves
  <2>3. CASE x \in OnWay(n, o.sender)'
    BY <2>1, <2>3 DEF Asked
  <2>4. CASE n = a /\ o.sender = b /\ x = m
    BY <2>1, <2>4 DEF Moves
  <2> QED BY <2>2, <2>3, <2>4
<1>3. ASSUME Pushed(o.sender, n, o.id) PROVE Pushed(o.sender, n, o.id)'
  <2>1. PICK x \in OnWay(o.sender, n) : x.type = "MESSAGE" /\ x.id = o.id
    BY <1>3 DEF Pushed
  <2>2. x \in OnWay(o.sender, n)' \/ (o.sender = a /\ n = b /\ x = m)
    BY <2>1 DEF Moves
  <2>3. CASE x \in OnWay(o.sender, n)'
    BY <2>1, <2>3 DEF Pushed
  <2>4. CASE o.sender = a /\ n = b /\ x = m
    BY <2>1, <2>4 DEF Moves
  <2> QED BY <2>2, <2>3, <2>4
<1> QED BY <1>1, <1>2, <1>3 DEF Asking

\* What the nodes have heard stays good if that is true of b's new record.
LEMMA MovesHeard ==
  ASSUME TraceInv, NEW a \in Node, NEW b \in Node, NEW m, Moves(a, b, m),
         CacheGood(tree'[b].observed),
         \A o \in Records(tree'[b].observed) :
           o \in Records(tree[b].observed) \/ NewlyHeard(b, o)
  PROVE  \A n \in Node : HeardGood(n)'
<1> SUFFICES ASSUME NEW n \in Node PROVE HeardGood(n)'
  OBVIOUS
<1>1. Grows /\ UNCHANGED <<up, cut>>
  BY DEF Moves
<1>2. ASSUME NEW o \in Records(tree[n].observed), o \in Entry, Misses(n, o)', Asking(n, o)
      PROVE  Asking(n, o)'
  <2>1. o.id \in Id /\ o.sender \in Node
    BY <1>2, EntryFields
  <2>2. Fresh(o.id) /\ since'[n][o.id] = 0
    BY <1>1, <1>2, <2>1 DEF Misses, Grows
  <2> QED BY <1>2, <2>1, <2>2, MovesAsking
<1>3. CacheGood(tree'[n].observed)
  <2>1. CASE n = b
    BY <2>1
  <2>2. CASE n # b
    <3>1. tree'[n] = tree[n]
      BY <2>2 DEF Moves
    <3>2. CacheGood(tree[n].observed)
      BY DEF TraceInv, HeardGood
    <3> QED BY <3>1, <3>2
  <2> QED BY <2>1, <2>2
<1>4. \A o \in Records(tree'[n].observed) :
        o \in Records(tree[n].observed) \/ NewlyHeard(n, o)
  <2>1. CASE n = b
    BY <2>1
  <2>2. CASE n # b
    <3>1. tree'[n] = tree[n]
      BY <2>2 DEF Moves
    <3> QED BY <3>1
  <2> QED BY <2>1, <2>2
<1>5. cut[n] \subseteq cut'[n] /\ up' = up
  BY <1>1
<1> QED BY <1>1, <1>2, <1>3, <1>4, <1>5, HeardFrame

\* The nodes that had a message go on bringing it to their peers.
LEMMA MovesProgress ==
  ASSUME TraceInv, NEW a \in Node, NEW b \in Node, NEW m, Moves(a, b, m),
         NEW n \in Node, NEW p \in Node, NEW id \in Id, since[n][id] # 0
  PROVE  Progress(n, p, id)'
<1> DEFINE s == since[n][id]
<1>1. /\ Grows /\ UNCHANGED <<up, clock, ticked>> /\ clock \in Nat /\ s \in Nat
      /\ since'[n][id] = s
  BY TraceTypes DEF Moves, Grows
<1>2. ASSUME Underway(n, p, id), since'[p][id] = 0, p \notin grafted'[n][id]
      PROVE  Underway(n, p, id)'
  <2>1. CASE Pushed(n, p, id)
    <3>1. PICK x \in OnWay(n, p) : x.type = "MESSAGE" /\ x.id = id
      BY <2>1 DEF Pushed
    <3>2. x \in OnWay(n, p)' \/ (n = a /\ p = b /\ x = m)
      BY <3>1 DEF Moves
    <3>3. ~(n = a /\ p = b /\ x = m)
      BY <1>2, <3>1 DEF Moves
    <3>4. Pushed(n, p, id)'
      BY <3>1, <3>2, <3>3 DEF Pushed
    <3> QED BY <3>4 DEF Underway
  <2>2. CASE /\ p \in tree[n].lazy
             /\ clock = s \/ (clock = s + 1 /\ n \notin ticked)
    <3>1. p \in tree'[n].lazy
      <4>1. CASE n # b
        <5>1. tree'[n] = tree[n]
          BY <4>1 DEF Moves
        <5> QED BY <2>2, <5>1
      <4>2. CASE n = b
        <5>1. clock =< s + 1
          <6> HIDE DEF s
          <6> QED BY <1>1, <2>2
        <5>2. p \in tree'[b].lazy \/ (p = a /\ LateGraft(a, b, id))
          BY <2>2, <4>2 DEF Moves
        <5>3. ~(p = a /\ LateGraft(a, b, id))
          BY <1>2, <4>2, <5>1 DEF LateGraft
        <5> QED BY <4>2, <5>2, <5>3
      <4> QED BY <4>1, <4>2
    <3> QED BY <1>1, <2>2, <3>1 DEF Underway
  <2>3. CASE Announced(n, p, id) /\ clock =< s + 1
    <3>1. PICK x \in OnWay(n, p) : x.type = "ANNOUNCE" /\ x.id = id
      BY <2>3 DEF Announced
    <3>2. x \in OnWay(n, p)' \/ (n = a /\ p = b /\ x = m)
      BY <3>1 DEF Moves
    <3>3. CASE x \in OnWay(n, p)'
      <4>1. Announced(n, p, id)'
        BY <3>1, <3>3 DEF Announced
      <4> QED BY <1>1, <2>3, <4>1 DEF Underway
    <3>4. CASE n = a /\ p = b /\ x = m
      <4>1. PICK o \in Records(tree'[p].observed) : o.id = id /\ o.time =< clock
        BY <3>1, <3>4 DEF Moves
      <4>2. o.time \in Nat
        <5>1. tree'[p].observed \in Cache
          BY <3>4 DEF Moves
        <5> QED BY <4>1, <5>1, RecordsTyped, EntryFields
      <4>3. o.time =< s + 1
        <5> HIDE DEF s
        <5> QED BY <1>1, <2>3, <4>1, <4>2
      <4> QED BY <1>1, <4>1, <4>3 DEF Underway
    <3> QED BY <3>2, <3>3, <3>4
  <2>4. CASE \E o \in Records(tree[p].observed) : o.id = id /\ o.time =< s + 1
    <3>1. Records(tree[p].observed) \subseteq Records(tree'[p].observed)
      <4>1. CASE p # b
        <5>1. tree'[p] = tree[p]
          BY <4>1 DEF Moves
        <5> QED BY <5>1
      <4>2. CASE p = b
        BY <4>2 DEF Moves
      <4> QED BY <4>1, <4>2
    <3> QED BY <1>1, <2>4, <3>1 DEF Underway
  <2> QED BY <1>2, <2>1, <2>2, <2>3, <2>4 DEF Underway
<1>3. grafted[n][id] \subseteq grafted'[n][id] /\ owed'[n][id] = owed[n][id]
  BY DEF Moves
<1> HIDE DEF s
<1> QED BY <1>1, <1>2, <1>3, ProgressFrame DEF s

\* What they remember.
LEMMA MovesSince ==
  ASSUME TraceInv, NEW a \in Node, NEW b \in Node, NEW m, Moves(a, b, m),
         NEW n \in Node, NEW id \in Id, since[n][id] # 0
  PROVE  SinceGood(n, id)'
<1>1. Grows /\ (author[id] # Nobody => author'[id] # Nobody)
  BY DEF Moves
<1>2. Has(tree[n].received, id) => Has(tree'[n].received, id)
  <2>1. CASE n = b
    BY <2>1 DEF Moves, Has
  <2>2. CASE n # b
    BY <2>2 DEF Moves
  <2> QED BY <2>1, <2>2
<1> QED BY <1>1, <1>2, SinceFrame

-----------------------------------------------------------------------------
(* A node has a message for the first time, or again after forgetting it.  *)

\* What a node has not had it does not keep.
LEMMA NotKept ==
  ASSUME TraceInv, NEW n \in Node, NEW id \in Id, since[n][id] = 0
  PROVE  ~Has(tree[n].received, id)
BY DEF TraceInv, KeptGood, Has

\* The instant is written down.
LEMMA ReceptionTimes ==
  ASSUME TraceInv, NEW n \in Node, NEW t \in Tree, TreeBecomes(n, t),
         NEW id \in Id, NEW hop \in Nat, NEW from \in Node, ~Has(tree[n].received, id),
         t.received = Insert(tree[n].received, Timed(id, hop, from, clock))
  PROVE  /\ since'[n][id] = IF since[n][id] = 0 THEN clock ELSE since[n][id]
         /\ \A k \in Node, i \in Id : k # n \/ i # id => since'[k][i] = since[k][i]
         /\ DOMAIN t.received.data = DOMAIN tree[n].received.data \cup {id}
<1> DEFINE c == tree[n].received
           e == Timed(id, hop, from, clock)
<1>1. e \in Entry /\ e.id = id
  BY TraceTypes DEF Timed, Entry
<1>2. c \in Cache /\ ~Has(c, e.id)
  BY <1>1, TraceTypes
<1>3. DOMAIN t.received.data = DOMAIN c.data \cup {id}
  BY <1>1, <1>2, InsertFirst
<1>4. \A i \in Id : since'[n][i] = IF since[n][i] = 0 /\ Has(t.received, i)
                                   THEN clock ELSE since[n][i]
  BY DEF TreeBecomes
<1>5. \A k \in Node : k # n => since'[k] = since[k]
  BY DEF TreeBecomes
<1>6. since'[n][id] = IF since[n][id] = 0 THEN clock ELSE since[n][id]
  BY <1>3, <1>4 DEF Has
<1>7. ASSUME NEW i \in Id, i # id PROVE since'[n][i] = since[n][i]
  <2>1. since[n][i] = 0 => ~Has(c, i)
    BY NotKept
  <2>2. since[n][i] = 0 => ~Has(t.received, i)
    BY <1>3, <1>7, <2>1 DEF Has
  <2> QED BY <1>4, <2>2
<1> QED BY <1>3, <1>5, <1>6, <1>7

\* The record of it is good.
LEMMA KeptInsert ==
  ASSUME TraceInv, Grows, UNCHANGED clock,
         NEW n \in Node, NEW id \in Id, NEW hop \in Nat, NEW from \in Node,
         ~Has(tree[n].received, id), since'[n][id] # 0,
         Fresh(id)' => since'[n][id] = clock /\ hop =< Count(id)',
         tree'[n].received = Insert(tree[n].received, Timed(id, hop, from, clock))
  PROVE  KeptGood(n)'
<1> DEFINE c == tree[n].received
           d == tree'[n].received
           e == Timed(id, hop, from, clock)
<1>1. e \in Entry /\ e.id = id /\ e.hop = hop /\ e.time = clock /\ clock \in Nat /\ clock # 0
  BY TraceTypes DEF Timed, Entry
<1>2. c \in Cache /\ ~Has(c, e.id) /\ CacheGood(c) /\ TimesTyped /\ KeptGood(n)
  BY <1>1, TraceTypes DEF TraceInv, KeptGood
<1> HIDE DEF e
<1>3. /\ Records(d) = Records(c) \cup {e}
      /\ DOMAIN d.data = DOMAIN c.data \cup {id}
      /\ d.data[id] = e
      /\ \A i \in DOMAIN c.data : d.data[i] = c.data[i]
      /\ Ordered(c) /\ (\A r \in Records(c) : r.time =< e.time) => Ordered(d)
  BY <1>1, <1>2, InsertFirst DEF e
<1>4. ASSUME NEW r \in Records(c)
      PROVE  /\ r.id \in Id /\ r.hop \in Nat /\ r.time \in Nat /\ since[n][r.id] # 0
             /\ r.time =< clock /\ ShortPath(r.id, r.hop)
             /\ Fresh(r.id) => r.time = since[n][r.id]
  BY <1>2, RecordsTyped, EntryFields DEF KeptGood
<1>5. CacheGood(d)
  <2>1. \A r \in Records(c) : r.time =< e.time
    BY <1>1, <1>4
  <2>2. Ordered(d)
    BY <1>2, <1>3, <2>1 DEF CacheGood
  <2>3. Keyed(d)
    <3>1. \A i \in DOMAIN c.data : \E r \in Records(c) : r.id = i
      BY <1>2 DEF CacheGood, Keyed
    <3> QED BY <1>1, <1>3, <3>1 DEF Keyed
  <2> QED BY <2>2, <2>3 DEF CacheGood
<1>6. \A i \in Id, h \in Nat : ShortPath(i, h) => (Fresh(i)' => h =< Count(i)')
  BY <1>2, PathStays DEF ShortPath
<1>7. \A i \in Id : /\ since[n][i] # 0 => since'[n][i] = since[n][i]
                    /\ Fresh(i)' => Fresh(i)
  BY DEF Grows
<1>8. ASSUME NEW r \in Records(d)
      PROVE  /\ since'[n][r.id] # 0 /\ r.time =< clock'
             /\ Fresh(r.id)' => r.hop =< Count(r.id)' /\ r.time = since'[n][r.id]
  <2>1. CASE r = e
    BY <1>1, <2>1
  <2>2. CASE r \in Records(c)
    <3>1. since'[n][r.id] = since[n][r.id] /\ (Fresh(r.id)' => Fresh(r.id))
      BY <1>4, <1>7, <2>2
    <3>2. Fresh(r.id)' => r.hop =< Count(r.id)'
      BY <1>4, <1>6, <2>2
    <3> QED BY <1>4, <2>2, <3>1, <3>2
  <2> QED BY <1>3, <2>1, <2>2
<1>9. ASSUME NEW i \in DOMAIN d.data
      PROVE  since'[n][i] # 0 /\ (Fresh(i)' => d.data[i].hop =< Count(i)')
  <2>1. CASE i = id
    BY <1>1, <1>3, <2>1
  <2>2. CASE i \in DOMAIN c.data
    <3>1. i \in Id /\ c.data[i].hop \in Nat /\ d.data[i] = c.data[i]
      BY <1>2, <1>3, <2>2, CacheFields
    <3>2. since[n][i] # 0 /\ ShortPath(i, c.data[i].hop)
      BY <1>2, <2>2 DEF KeptGood
    <3>3. since'[n][i] = since[n][i]
      BY <1>7, <3>1, <3>2
    <3>4. Fresh(i)' => c.data[i].hop =< Count(i)'
      BY <1>6, <3>1, <3>2
    <3> QED BY <3>1, <3>2, <3>3, <3>4
  <2> QED BY <1>3, <2>1, <2>2
<1> QED BY <1>5, <1>8, <1>9 DEF KeptGood, ShortPath

\* Who is owed a message is a peer, eager or lazy.
LEMMA OwedPeer ==
  ASSUME TraceInv, NEW n \in Node, NEW t \in Tree, TreeBecomes(n, t), NEW id \in Id,
         since[n][id] = 0, since'[n][id] # 0, NEW p \in owed'[n][id]
  PROVE  {n, p} \in up /\ p \in tree[n].eager \cup tree[n].lazy
<1>1. Has(t.received, id)
  BY DEF TreeBecomes
<1>2. owed'[n][id] = {q \in peers[n] : {n, q} \in up}
  BY <1>1 DEF TreeBecomes
<1>3. Sides(n, tree[n], strays[n])
  BY DEF TraceInv, BroadcastInv
<1> QED BY <1>2, <1>3 DEF Sides

\* publish(): nobody has had the message, and the eager peers are sent it.
LEMMA PublishTrace ==
  ASSUME TraceInv, NEW n \in Node, NEW id \in Id, PublishMessage(n, id)
  PROVE  TraceInv'
<1> DEFINE t == Publish(tree[n], n, id, clock)
<1>1. /\ author[id] = Nobody /\ Schedule[id] = clock
      /\ author' = [author EXCEPT ![id] = n]
      /\ Handle(n, t, net) /\ UNCHANGED <<up, grafted, cut, clock, ticked>>
  BY DEF PublishMessage, overlay
<1>2. BroadcastInv /\ BroadcastInv'
  BY PublishKeeps DEF TraceInv
<1>3. /\ clock \in Nat /\ clock # 0 /\ tree[n] \in Tree /\ tree[n].out = << >>
      /\ tree[n].observed \in Cache
      /\ net \in [Node -> [Node -> Seq(SUBSET WireMessage)]]
      /\ author \in [Id -> Node \cup {Nobody}]
  BY TraceTypes
<1>4. \A k \in Node : since[k][id] = 0
  BY <1>1 DEF TraceInv, SinceGood
<1>5. ~Has(tree[n].received, id) /\ ~Has(tree[n].observed, id)
  <2>1. ~Has(tree[n].received, id)
    BY <1>4, NotKept
  <2>2. ASSUME Has(tree[n].observed, id) PROVE FALSE
    <3>1. PICK o \in Records(tree[n].observed) : o.id = id
      BY <2>2 DEF TraceInv, HeardGood, CacheGood, Keyed, Has
    <3>2. since[o.sender][id] # 0
      BY <3>1 DEF TraceInv, HeardGood
    <3>3. o.sender \in Node
      BY <1>3, <3>1, RecordsTyped, EntryFields
    <3> QED BY <1>4, <3>2, <3>3
  <2> QED BY <2>1, <2>2
<1>6. /\ t.received = Insert(tree[n].received, Timed(id, 0, n, clock))
      /\ t.observed = tree[n].observed /\ t.lazy = tree[n].lazy
      /\ \A p : Emits(t, p) = IF p \in tree[n].eager THEN {MessageMsg(id, 1)} ELSE {}
      /\ Handed(t) = << >>
  <2> DEFINE v == tree[n]
  <2>1. v \in Tree /\ v.out = << >> /\ ~Has(v.received, id) /\ ~Has(v.observed, id) /\ clock \in Nat
    BY <1>3, <1>5
  <2> HIDE DEF v
  <2>2. LET u == Publish(v, n, id, clock) IN
        /\ u.received = Insert(v.received, Timed(id, 0, n, clock))
        /\ u.observed = v.observed /\ u.lazy = v.lazy
        /\ \A p : Emits(u, p) = IF p \in v.eager THEN {MessageMsg(id, 1)} ELSE {}
        /\ Handed(u) = << >>
    BY <2>1, PublishDoes
  <2> QED BY <2>2 DEF v
<1>7. t \in Tree
  BY <1>3, PublishTyped
<1> HIDE DEF t
<1>8. /\ \A k \in Node : k # n => tree'[k] = tree[k] /\ log'[k] = log[k] /\ since'[k] = since[k]
      /\ tree'[n].received = t.received /\ tree'[n].observed = t.observed
      /\ tree'[n].lazy = t.lazy
      /\ \A k \in Node : tree'[k].out = << >>
      /\ log'[n] = log[n] \o Handed(t)
      /\ owed' \in [Node -> [Id -> SUBSET Node]]
      /\ Grows /\ TreeBecomes(n, t)
  <2>1. TreeBecomes(n, t)
    BY <1>1, <1>7, HandleDoes
  <2> QED BY <2>1 DEF TreeBecomes
<1>9. /\ since'[n][id] = clock
      /\ \A k \in Node, i \in Id : k # n \/ i # id => since'[k][i] = since[k][i]
      /\ DOMAIN t.received.data = DOMAIN tree[n].received.data \cup {id}
  <2>1. 0 \in Nat
    OBVIOUS
  <2> QED BY <1>4, <1>5, <1>6, <1>7, <1>8, <2>1, ReceptionTimes
<1>10. /\ \A k, r \in Node : k # n => OnWay(k, r)' = OnWay(k, r)
       /\ \A r \in Node : OnWay(n, r)' = IF {n, r} \in up THEN OnWay(n, r) \cup Emits(t, r)
                                         ELSE OnWay(n, r)
  <2>1. SendsOn(n, t, net)
    BY <1>1, <1>3, <1>7, HandleSends
  <2> QED BY <2>1 DEF OnWay, SendsOn
<1>11. Count(id)' \in Nat /\ 1 =< Count(id)'
  <2>1. Count(id) + 1 =< Count(id)' /\ Count(id) \in Nat /\ Count(id)' \in Nat
    BY <1>3, <1>4, <1>8, <1>9, CountMore, CountTyped, CountTypedNext DEF TraceInv
  <2> QED BY <2>1
<1>12. TimesTyped'
  <2>1. grafted' = grafted /\ cut' = cut /\ TimesTyped
    BY <1>1 DEF TraceInv
  <2> QED BY <1>8, <2>1 DEF TimesTyped, Grows
<1>13. OwedGood' /\ \A k \in Node, i \in Id : since[k][i] # 0 => owed'[k][i] = owed[k][i]
  BY <1>1, <1>8, OwedFrame
<1>14. Moves(n, n, PruneMsg)
  <2>1. PruneMsg.type = "PRUNE"
    BY DEF PruneMsg
  <2>2. \A i \in Id : author[i] # Nobody => author'[i] # Nobody
    BY <1>1, <1>3
  <2>3. \A k, r \in Node : \A x \in OnWay(k, r) : x \in OnWay(k, r)'
    BY <1>10
  <2>4. /\ Records(tree[n].observed) \subseteq Records(tree'[n].observed)
        /\ tree'[n].observed \in Cache
        /\ DOMAIN tree[n].received.data \subseteq DOMAIN tree'[n].received.data
        /\ \A p \in tree[n].lazy : p \in tree'[n].lazy
    BY <1>3, <1>6, <1>8, <1>9
  <2> QED BY <1>1, <1>8, <1>13, <2>1, <2>2, <2>3, <2>4 DEF Moves
<1>15. \A k \in Node : KeptGood(k)'
  <2> SUFFICES ASSUME NEW k \in Node PROVE KeptGood(k)'
    OBVIOUS
  <2>1. CASE k = n
    <3>1. 0 \in Nat /\ 0 =< Count(id)'
      BY <1>11
    <3> QED BY <1>1, <1>3, <1>5, <1>6, <1>8, <1>9, <2>1, <3>1, KeptInsert
  <2>2. CASE k # n
    BY <1>8, <2>2, KeptSame
  <2> QED BY <2>1, <2>2
<1>16. \A k \in Node : HeardGood(k)'
  <2>1. tree'[n].observed = tree[n].observed /\ CacheGood(tree[n].observed)
    BY <1>6, <1>8 DEF TraceInv, HeardGood
  <2> QED BY <1>14, <2>1, MovesHeard
<1>17. ASSUME NEW k \in Node, NEW i \in Id PROVE SinceGood(k, i)'
  <2>1. CASE since[k][i] # 0
    BY <1>14, <2>1, MovesSince
  <2>2. CASE since[k][i] = 0 /\ (k # n \/ i # id)
    BY <1>9, <2>2 DEF SinceGood
  <2>3. CASE k = n /\ i = id
    <3>1. author'[id] # Nobody
      BY <1>1, <1>3, BroadcastAssumption
    <3>2. Has(tree'[n].received, id)
      BY <1>8, <1>9 DEF Has
    <3>3. since'[n][id] =< clock' /\ Schedule[id] =< since'[n][id]
      BY <1>1, <1>3, <1>9
    <3> QED BY <2>3, <3>1, <3>2, <3>3 DEF SinceGood
  <2> QED BY <2>1, <2>2, <2>3
<1>18. NetGood'
  <2> SUFFICES ASSUME NEW k \in Node, NEW r \in Node, NEW m \in OnWay(k, r)' PROVE Travels(k, r, m)'
    BY DEF NetGood
  <2>1. CASE m \in OnWay(k, r)
    BY <1>8, <2>1, TravelsFrame
  <2>2. CASE m \notin OnWay(k, r)
    <3>1. k = n /\ m = MessageMsg(id, 1)
      BY <1>6, <1>10, <2>2
    <3>2. m.type = "MESSAGE" /\ m.id = id /\ m.hop = 1
      BY <3>1 DEF MessageMsg
    <3>3. since'[n][id] # 0
      BY <1>3, <1>9
    <3> QED BY <1>11, <3>1, <3>2, <3>3 DEF Travels, ShortPath
  <2> QED BY <2>1, <2>2
<1>19. BooksGood'
  <2>1. log' = log
    <3>1. log[n] \o << >> = log[n]
      BY TraceTypes, ConcatEmptySeq
    <3>2. log' = [log EXCEPT ![n] = log[n]]
      BY <1>1, <1>6, <3>1 DEF Handle
    <3> QED BY <3>2, TraceTypes
  <2>2. ASSUME NEW k \in Node, NEW i \in DOMAIN log'[k] PROVE since'[k][log'[k][i]] # 0
    <3>1. since[k][log[k][i]] # 0 /\ log[k][i] \in Id
      BY <2>1, <2>2, TraceTypes, LenProperties, ElementOfSeq DEF TraceInv, BooksGood
    <3> QED BY <1>8, <2>1, <3>1 DEF Grows
  <2>3. ASSUME NEW i \in Id, author'[i] # Nobody
        PROVE  since'[author'[i]][i] # 0 /\ Schedule[i] \in 1 .. clock'
    <3>1. CASE i = id
      <4>1. author'[id] = n
        BY <1>1, <1>3
      <4> QED BY <1>1, <1>3, <1>9, <3>1, <4>1
    <3>2. CASE i # id
      <4>1. author'[i] = author[i]
        BY <1>1, <1>3, <3>2
      <4>2. since[author[i]][i] # 0 /\ Schedule[i] \in 1 .. clock /\ author[i] \in Node
        BY <1>3, <2>3, <4>1 DEF TraceInv, BooksGood
      <4> QED BY <1>1, <1>8, <4>1, <4>2 DEF Grows
    <3> QED BY <3>1, <3>2
  <2> QED BY <2>2, <2>3 DEF BooksGood
<1>20. ASSUME NEW k \in Node, NEW p \in Node, NEW i \in Id PROVE Progress(k, p, i)'
  <2>1. CASE since[k][i] # 0
    BY <1>14, <2>1, MovesProgress
  <2>2. CASE since[k][i] = 0 /\ (k # n \/ i # id)
    BY <1>9, <2>2 DEF Progress
  <2>3. CASE k = n /\ i = id
    <3>1. CASE p \in owed'[n][id] /\ p \notin tree[n].lazy
      <4>1. {n, p} \in up /\ p \in tree[n].eager
        BY <1>3, <1>4, <1>7, <1>8, <1>9, <3>1, OwedPeer
      <4>2. MessageMsg(id, 1) \in OnWay(n, p)'
        BY <1>6, <1>10, <4>1
      <4>3. Pushed(n, p, id)'
        BY <4>2 DEF Pushed, MessageMsg
      <4> QED BY <1>1, <1>9, <2>3, <4>3, ProgressNew
    <3>2. CASE p \notin owed'[n][id] \/ p \in tree[n].lazy
      BY <1>1, <1>6, <1>8, <1>9, <2>3, <3>2, ProgressNew
    <3> QED BY <3>1, <3>2
  <2> QED BY <2>1, <2>2, <2>3
<1> QED BY <1>2, <1>12, <1>13, <1>15, <1>16, <1>17, <1>18, <1>19, <1>20 DEF TraceInv

-----------------------------------------------------------------------------
(* A message is handled.                                                   *)

\* Whose GRAFT p has had just after a message, when it has had one of n.
GraftedBy(n, p) ==
  [grafted EXCEPT ![p] = [id \in Id |->
     IF since[p][id] # 0 /\ clock =< since[p][id] + 1
     THEN grafted[p][id] \cup {n} ELSE grafted[p][id]]]

\* p handles m of n, and its tree becomes t.
Delivers(n, p, m, t) ==
  /\ m \in OnWay(n, p) /\ m \in WireMessage /\ {n, p} \in up
  /\ t = Receive(tree[p], n, m) /\ t \in Tree
  /\ TreeBecomes(p, t)
  /\ \A k, r \in Node : \A x \in OnWay(k, r) :
       x \in OnWay(k, r)' \/ (k = n /\ r = p /\ x = m)
  /\ \A k, r \in Node : \A x \in OnWay(k, r)' :
       x \in OnWay(k, r) \/ (k = p /\ {p, r} \in up /\ x \in Emits(t, r))
  /\ \A r \in Node : {p, r} \in up => Emits(t, r) \subseteq OnWay(p, r)'
  /\ UNCHANGED <<up, author, cut, clock, ticked>>
  /\ grafted' = IF m.type = "GRAFT" THEN GraftedBy(n, p) ELSE grafted

\* Deliver does that.
LEMMA DeliverDoes ==
  ASSUME TraceInv, NEW n \in Node, NEW p \in Node, Deliver(n, p)
  PROVE  \E m, t : Delivers(n, p, m, t)
<1> DEFINE W == Seq(SUBSET WireMessage)
           q == net[n][p]
<1>1. /\ BroadcastInv /\ q \in W /\ q # << >> /\ {n, p} \in up
      /\ net \in [Node -> [Node -> W]]
  BY DEF BroadcastInv, Deliver, TraceInv
<1>2. Head(q) \in SUBSET WireMessage /\ Tail(q) \in W
  BY <1>1
<1>3. PICK m \in Head(q) :
        /\ LET rest == Head(q) \ {m}
               taken == [net EXCEPT ![n][p] = IF rest = {} THEN Tail(@)
                                              ELSE <<rest>> \o Tail(@)]
           IN  Handle(p, Receive(tree[p], n, m), taken)
        /\ grafted' = IF m.type = "GRAFT" THEN GraftedBy(n, p) ELSE grafted
  <2>1. grafted \in [Node -> [Id -> SUBSET Node]]
    BY DEF TraceInv, TimesTyped
  <2> QED BY <2>1 DEF Deliver, GraftedBy
<1> DEFINE rest == Head(q) \ {m}
           left == IF rest = {} THEN Tail(q) ELSE <<rest>> \o Tail(q)
           taken == [net EXCEPT ![n][p] = left]
           t == Receive(tree[p], n, m)
<1>4. Handle(p, t, taken)
  BY <1>1, <1>3
<1>5. m \in WireMessage
  BY <1>2
<1>6. left \in W
  <2>1. <<rest>> \in W
    BY <1>2
  <2>2. <<rest>> \o Tail(q) \in W
    <3> HIDE DEF rest
    <3> QED BY <1>2, <2>1, ConcatProperties
  <2> HIDE DEF rest
  <2> QED BY <1>2, <2>2
<1>7. m \in Under(q) /\ Under(left) \subseteq Under(q) /\ Under(q) \subseteq Under(left) \cup {m}
  BY <1>1, UnderRest
<1> HIDE DEF left, W
<1>8. /\ taken \in [Node -> [Node -> W]] /\ taken[n][p] = left
      /\ \A k, r \in Node : k # n \/ r # p => taken[k][r] = net[k][r]
  <2>1. [net[n] EXCEPT ![p] = left] \in [Node -> W]
    BY <1>1, <1>6
  <2>2. taken = [net EXCEPT ![n] = [net[n] EXCEPT ![p] = left]]
    BY <1>1
  <2> QED BY <1>1, <2>1, <2>2
<1>9. t \in Tree
  BY <1>1, <1>5, ReceiveKeeps
<1>10. UNCHANGED <<up, author, cut, clock, ticked>>
  BY DEF Deliver, overlay
<1> HIDE DEF taken, t, q
<1>11. TreeBecomes(p, t)
  BY <1>4, <1>9, <1>10, HandleDoes
<1>12. SendsOn(p, t, taken)
  BY <1>4, <1>8, <1>9, HandleSends DEF W
<1>13. /\ \A k, r \in Node : Under(taken[k][r]) \subseteq OnWay(k, r)
       /\ \A k, r \in Node : \A x \in OnWay(k, r) :
            x \in Under(taken[k][r]) \/ (k = n /\ r = p /\ x = m)
  <2> SUFFICES ASSUME NEW k \in Node, NEW r \in Node
               PROVE  /\ Under(taken[k][r]) \subseteq OnWay(k, r)
                      /\ \A x \in OnWay(k, r) :
                           x \in Under(taken[k][r]) \/ (k = n /\ r = p /\ x = m)
    OBVIOUS
  <2>1. CASE k = n /\ r = p
    BY <1>7, <1>8, <2>1 DEF OnWay, q
  <2>2. CASE k # n \/ r # p
    BY <1>8, <2>2 DEF OnWay
  <2> QED BY <2>1, <2>2
<1>14. /\ \A k, r \in Node : Under(taken[k][r]) \subseteq OnWay(k, r)'
       /\ \A k, r \in Node : \A x \in OnWay(k, r)' :
            x \in Under(taken[k][r]) \/ (k = p /\ {p, r} \in up /\ x \in Emits(t, r))
       /\ \A r \in Node : {p, r} \in up => Emits(t, r) \subseteq OnWay(p, r)'
  <2>1. \A k, r \in Node : k # p => OnWay(k, r)' = Under(taken[k][r])
    BY <1>12 DEF SendsOn
  <2>2. \A r \in Node : OnWay(p, r)' = IF {p, r} \in up THEN Under(taken[p][r]) \cup Emits(t, r)
                                       ELSE Under(taken[p][r])
    BY <1>12 DEF SendsOn
  <2> QED BY <2>1, <2>2
<1>15. \A k, r \in Node : \A x \in OnWay(k, r) :
         x \in OnWay(k, r)' \/ (k = n /\ r = p /\ x = m)
  BY <1>13, <1>14
<1>16. \A k, r \in Node : \A x \in OnWay(k, r)' :
         x \in OnWay(k, r) \/ (k = p /\ {p, r} \in up /\ x \in Emits(t, r))
  BY <1>13, <1>14
<1>17. m \in OnWay(n, p)
  BY <1>7 DEF OnWay, q
<1>18. Delivers(n, p, m, t)
  BY <1>1, <1>3, <1>5, <1>9, <1>10, <1>11, <1>14, <1>15, <1>16, <1>17 DEF Delivers, t
<1> QED BY <1>18

\* A tree that learns of no message writes no instant down.
LEMMA SameTimes ==
  ASSUME TraceInv, NEW n \in Node, NEW t \in Tree, TreeBecomes(n, t),
         DOMAIN t.received.data \subseteq DOMAIN tree[n].received.data
  PROVE  \A k \in Node, i \in Id : since'[k][i] = since[k][i]
<1> SUFFICES ASSUME NEW k \in Node, NEW i \in Id PROVE since'[k][i] = since[k][i]
  OBVIOUS
<1>1. CASE k # n
  BY <1>1 DEF TreeBecomes
<1>2. CASE k = n
  <2>1. since[n][i] = 0 => ~Has(t.received, i)
    BY NotKept DEF Has
  <2> QED BY <1>2, <2>1 DEF TreeBecomes
<1> QED BY <1>1, <1>2

\* What is handed over is known.
LEMMA LogFrame ==
  ASSUME TraceInv, NEW n \in Node, NEW t \in Tree, TreeBecomes(n, t),
         \/ Handed(t) = << >>
         \/ \E id \in Id : Handed(t) = <<id>> /\ since'[n][id] # 0
  PROVE  \A k \in Node : \A i \in DOMAIN log'[k] : since'[k][log'[k][i]] # 0
<1>1. \A k \in Node, i \in Id : since[k][i] # 0 => since'[k][i] # 0
  BY DEF TreeBecomes, Grows
<1>2. \A k \in Node : \A i \in DOMAIN log[k] : log[k][i] \in Id /\ since[k][log[k][i]] # 0
  BY TraceTypes, LenProperties, ElementOfSeq DEF TraceInv, BooksGood
<1>3. \A k \in Node : \A i \in DOMAIN log[k] : since'[k][log[k][i]] # 0
  BY <1>1, <1>2
<1> SUFFICES ASSUME NEW k \in Node, NEW i \in DOMAIN log'[k] PROVE since'[k][log'[k][i]] # 0
  OBVIOUS
<1>4. CASE k # n
  BY <1>3, <1>4 DEF TreeBecomes
<1>5. CASE k = n
  <2>1. log'[n] = log[n] \o Handed(t) /\ log[n] \in Seq(Id)
    BY TraceTypes DEF TreeBecomes
  <2>2. CASE Handed(t) = << >>
    <3>1. log'[n] = log[n]
      BY <2>1, <2>2, ConcatEmptySeq
    <3> QED BY <1>3, <1>5, <3>1
  <2>3. CASE \E id \in Id : Handed(t) = <<id>> /\ since'[n][id] # 0
    <3>1. PICK id \in Id : Handed(t) = <<id>> /\ since'[n][id] # 0
      BY <2>3
    <3> DEFINE a == log[n]
               x == <<id>>
    <3>2. x \in Seq(Id) /\ Len(x) = 1 /\ x[1] = id
      OBVIOUS
    <3>3. a \in Seq(Id) /\ Len(a) \in Nat /\ DOMAIN a = 1 .. Len(a)
      BY <2>1, LenProperties
    <3> HIDE DEF a, x
    <3>4. /\ DOMAIN (a \o x) = 1 .. Len(a) + 1
          /\ \A j \in 1 .. Len(a) + 1 : (a \o x)[j] = IF j =< Len(a) THEN a[j] ELSE x[j - Len(a)]
      <4>1. /\ a \o x \in Seq(Id) /\ Len(a \o x) = Len(a) + Len(x)
            /\ \A j \in 1 .. Len(a) + Len(x) :
                 (a \o x)[j] = IF j =< Len(a) THEN a[j] ELSE x[j - Len(a)]
        BY <3>2, <3>3, ConcatProperties
      <4>2. DOMAIN (a \o x) = 1 .. Len(a \o x)
        BY <4>1, LenProperties
      <4> QED BY <3>2, <4>1, <4>2
    <3>5. log'[n] = a \o x
      BY <2>1, <3>1 DEF a, x
    <3>6. CASE i =< Len(a)
      <4>1. i \in DOMAIN a /\ log'[n][i] = a[i]
        BY <1>5, <3>3, <3>4, <3>5, <3>6
      <4> QED BY <1>3, <1>5, <4>1 DEF a
    <3>7. CASE ~(i =< Len(a))
      <4>1. i - Len(a) = 1 /\ i \in 1 .. Len(a) + 1
        BY <1>5, <3>3, <3>4, <3>5, <3>7
      <4>2. log'[n][i] = id
        BY <3>2, <3>4, <3>5, <3>7, <4>1
      <4> QED BY <1>5, <3>1, <4>2
    <3> QED BY <3>6, <3>7
  <2> QED BY <2>2, <2>3
<1> QED BY <1>4, <1>5

\* What remains to be shown of each kind of message.
LEMMA DeliverTrace ==
  ASSUME TraceInv, BroadcastInv', NEW n \in Node, NEW p \in Node, NEW m, NEW t,
         Delivers(n, p, m, t),
         Records(tree[p].observed) \subseteq Records(t.observed),
         DOMAIN tree[p].received.data \subseteq DOMAIN t.received.data,
         m.type = "MESSAGE" => since'[p][m.id] # 0,
         m.type = "ANNOUNCE" => \E o \in Records(t.observed) : o.id = m.id /\ o.time =< clock,
         m.type = "GRAFT" =>
           \A id \in m.ids : Fresh(id) =>
             \E x \in Emits(t, n) : x.type = "MESSAGE" /\ x.id = id,
         \A q \in tree[p].lazy : q \in t.lazy \/ (q = n /\ m.type = "GRAFT"),
         KeptGood(p)', CacheGood(t.observed),
         \A o \in Records(t.observed) :
           o \in Records(tree[p].observed) \/ NewlyHeard(p, o),
         \A r \in Node : \A x \in Emits(t, r) : {p, r} \in up => Travels(p, r, x)',
         \A i \in Id : since[p][i] = 0 /\ since'[p][i] # 0 =>
           SinceGood(p, i)' /\ \A r \in Node : Progress(p, r, i)',
         \/ Handed(t) = << >>
         \/ \E id \in Id : Handed(t) = <<id>> /\ since'[p][id] # 0
  PROVE  TraceInv'
<1>1. /\ TreeBecomes(p, t) /\ t \in Tree /\ {n, p} \in up
      /\ UNCHANGED <<up, author, cut, clock, ticked>>
  BY DEF Delivers
<1>2. /\ \A k \in Node : k # p => tree'[k] = tree[k] /\ log'[k] = log[k] /\ since'[k] = since[k]
      /\ tree'[p].received = t.received /\ tree'[p].observed = t.observed
      /\ tree'[p].lazy = t.lazy
      /\ \A k \in Node : tree'[k].out = << >>
      /\ Grows
  BY <1>1 DEF TreeBecomes
<1>3. /\ grafted' \in [Node -> [Id -> SUBSET Node]]
      /\ \A k \in Node, id \in Id : grafted[k][id] \subseteq grafted'[k][id]
      /\ m.type = "GRAFT" => \A id \in Id : LateGraft(n, p, id)
  <2>1. grafted \in [Node -> [Id -> SUBSET Node]]
    BY DEF TraceInv, TimesTyped
  <2>2. CASE m.type # "GRAFT"
    <3>1. grafted' = grafted
      BY <2>2 DEF Delivers
    <3> QED BY <2>1, <2>2, <3>1
  <2>3. CASE m.type = "GRAFT"
    <3> DEFINE B(id) == since[p][id] # 0 /\ clock =< since[p][id] + 1
               g == [id \in Id |-> IF B(id) THEN grafted[p][id] \cup {n}
                                  ELSE grafted[p][id]]
    <3>1. grafted' = [grafted EXCEPT ![p] = g]
      BY <2>3 DEF Delivers, GraftedBy
    <3> HIDE DEF B
    <3>2. /\ g \in [Id -> SUBSET Node]
          /\ \A id \in Id : grafted[p][id] \subseteq g[id] /\ (B(id) => n \in g[id])
      BY <2>1
    <3> HIDE DEF g
    <3>3. /\ grafted' \in [Node -> [Id -> SUBSET Node]] /\ grafted'[p] = g
          /\ \A k \in Node : k # p => grafted'[k] = grafted[k]
      BY <2>1, <3>1, <3>2
    <3>4. \A id \in Id : LateGraft(n, p, id)
      BY <3>2, <3>3 DEF LateGraft, B
    <3> QED BY <3>2, <3>3, <3>4
  <2> QED BY <2>2, <2>3
<1>4. TimesTyped'
  <2>1. cut' \in [Node -> SUBSET Id] /\ owed' \in [Node -> [Id -> SUBSET Node]]
    BY <1>1 DEF TraceInv, TimesTyped, TreeBecomes
  <2> QED BY <1>2, <1>3, <2>1 DEF TimesTyped, Grows
<1>12. OwedGood' /\ \A k \in Node, i \in Id : since[k][i] # 0 => owed'[k][i] = owed[k][i]
  BY <1>1, OwedFrame
<1>5. Moves(n, p, m)
  <2>1. \A id \in Id : author[id] # Nobody => author'[id] # Nobody
    BY <1>1
  <2>2. \A k, r \in Node : \A x \in OnWay(k, r) :
          x \in OnWay(k, r)' \/ (k = n /\ r = p /\ x = m)
    BY DEF Delivers
  <2>3. /\ tree'[p].observed \in Cache
        /\ Records(tree[p].observed) \subseteq Records(tree'[p].observed)
        /\ DOMAIN tree[p].received.data \subseteq DOMAIN tree'[p].received.data
    BY <1>1, <1>2, TreeFields
  <2>4. m.type = "GRAFT" => \A id \in m.ids : Fresh(id) => Pushed(p, n, id)'
    <3>1. Emits(t, n) \subseteq OnWay(p, n)'
      BY <1>1, Pairs DEF Delivers
    <3> QED BY <3>1 DEF Pushed
  <2>5. \A q \in tree[p].lazy :
          q \in tree'[p].lazy \/ (q = n /\ \A id \in Id : LateGraft(n, p, id))
    BY <1>2, <1>3
  <2>6. m.type = "ANNOUNCE" =>
          \E o \in Records(tree'[p].observed) : o.id = m.id /\ o.time =< clock
    BY <1>2
  <2> QED BY <1>1, <1>2, <1>3, <1>12, <2>1, <2>2, <2>3, <2>4, <2>5, <2>6 DEF Moves
<1>6. ASSUME NEW k \in Node PROVE KeptGood(k)'
  <2>1. CASE k = p
    BY <2>1
  <2>2. CASE k # p
    BY <1>2, <2>2, KeptSame
  <2> QED BY <2>1, <2>2
<1>7. \A k \in Node : HeardGood(k)'
  BY <1>2, <1>5, MovesHeard
<1>8. ASSUME NEW k \in Node, NEW i \in Id PROVE SinceGood(k, i)'
  <2>1. CASE since[k][i] # 0
    BY <1>5, <2>1, MovesSince
  <2>2. CASE since'[k][i] = 0
    BY <2>2 DEF SinceGood
  <2>3. CASE since[k][i] = 0 /\ since'[k][i] # 0
    <3>1. k = p
      BY <1>2, <2>3
    <3> QED BY <2>3, <3>1
  <2> QED BY <2>1, <2>2, <2>3
<1>9. ASSUME NEW k \in Node, NEW r \in Node, NEW i \in Id PROVE Progress(k, r, i)'
  <2>1. CASE since[k][i] # 0
    BY <1>5, <2>1, MovesProgress
  <2>2. CASE since'[k][i] = 0
    BY <2>2 DEF Progress
  <2>3. CASE since[k][i] = 0 /\ since'[k][i] # 0
    <3>1. k = p
      BY <1>2, <2>3
    <3> QED BY <2>3, <3>1
  <2> QED BY <2>1, <2>2, <2>3
<1>10. NetGood'
  <2> SUFFICES ASSUME NEW k \in Node, NEW r \in Node, NEW x \in OnWay(k, r)' PROVE Travels(k, r, x)'
    BY DEF NetGood
  <2>1. CASE x \in OnWay(k, r)
    BY <1>2, <2>1, TravelsFrame
  <2>2. CASE x \notin OnWay(k, r)
    <3>1. k = p /\ {p, r} \in up /\ x \in Emits(t, r)
      BY <2>2 DEF Delivers
    <3> QED BY <3>1
  <2> QED BY <2>1, <2>2
<1>11. BooksGood'
  <2>1. \A k \in Node : \A i \in DOMAIN log'[k] : since'[k][log'[k][i]] # 0
    BY <1>1, LogFrame
  <2>2. ASSUME NEW i \in Id, author'[i] # Nobody
        PROVE  since'[author'[i]][i] # 0 /\ Schedule[i] \in 1 .. clock'
    <3>1. author'[i] = author[i] /\ author[i] \in Node
      BY <1>1, <2>2, TraceTypes
    <3>2. since[author[i]][i] # 0 /\ Schedule[i] \in 1 .. clock
      BY <2>2, <3>1 DEF TraceInv, BooksGood
    <3> QED BY <1>1, <1>2, <3>1, <3>2 DEF Grows
  <2> QED BY <2>1, <2>2 DEF BooksGood
<1> QED BY <1>4, <1>6, <1>7, <1>8, <1>9, <1>10, <1>11, <1>12 DEF TraceInv

\* What a message of the protocol says while it is on its way.
LEMMA DeliveredMessage ==
  ASSUME TraceInv, NEW n \in Node, NEW p \in Node, NEW m, NEW t, Delivers(n, p, m, t)
  PROVE  /\ Travels(n, p, m) /\ m \in WireMessage
         /\ TreeBecomes(p, t) /\ t \in Tree /\ t = Receive(tree[p], n, m)
         /\ UNCHANGED <<up, author, cut, clock, ticked>> /\ Grows
<1>1. Grows
  BY DEF Delivers, TreeBecomes
<1> QED BY <1>1 DEF Delivers, TraceInv, NetGood

\* A first copy, or the copy of a message that is forgotten: the record is
\* good, the eager peers are sent the message, and the lazy ones will hear of
\* it.
LEMMA FirstTrace ==
  ASSUME TraceInv, BroadcastInv', NEW n \in Node, NEW p \in Node, NEW m, NEW t,
         Delivers(n, p, m, t), m.type = "MESSAGE", ~Has(tree[p].received, m.id)
  PROVE  TraceInv'
<1> DEFINE id == m.id
           hop == m.hop
           v == tree[p]
<1>1. /\ Travels(n, p, m) /\ m \in WireMessage
      /\ TreeBecomes(p, t) /\ t \in Tree /\ t = Receive(v, n, m)
      /\ UNCHANGED <<up, author, cut, clock, ticked>> /\ Grows
  BY DeliveredMessage
<1>2. id \in Id /\ hop \in Nat
  BY <1>1 DEF WireMessage
<1>3. /\ since[n][id] # 0 /\ ShortPath(id, hop)
      /\ since[n][id] \in Nat /\ since[p][id] \in Nat /\ clock \in Nat /\ clock # 0
  BY <1>1, <1>2, TraceTypes DEF Travels
<1>4. ~Has(v.received, id)
  OBVIOUS
<1>5. Fresh(id) => since[p][id] = 0
  BY <1>2, <1>4, Remembered
<1>6. /\ t.received = Insert(v.received, Timed(id, hop, n, clock))
      /\ t.observed = v.observed /\ t.lazy = v.lazy
      /\ \A r : Emits(t, r) = IF r \in v.eager \ {n} THEN {MessageMsg(id, hop + 1)} ELSE {}
      /\ Handed(t) = <<id>>
  <2>1. v \in Tree /\ v.out = << >>
    BY TraceTypes
  <2>2. t = InjectMessage(v, n, id, hop, clock)
    BY <1>1 DEF Receive
  <2>3. ~Has(v.received, id)
    OBVIOUS
  <2> HIDE DEF v, id, hop
  <2>4. LET u == InjectMessage(v, n, id, hop, clock) IN
        /\ u.received = Insert(v.received, Timed(id, hop, n, clock))
        /\ u.observed = v.observed /\ u.lazy = v.lazy
        /\ \A r : Emits(u, r) = IF r \in v.eager \ {n} THEN {MessageMsg(id, hop + 1)} ELSE {}
        /\ Handed(u) = <<id>>
    BY <1>2, <1>3, <2>1, <2>3, FirstDoes
  <2> QED BY <2>2, <2>4
<1> HIDE DEF id, hop
<1>7. /\ since'[p][id] = IF since[p][id] = 0 THEN clock ELSE since[p][id]
      /\ since'[p][id] # 0
      /\ \A k \in Node, i \in Id : k # p \/ i # id => since'[k][i] = since[k][i]
      /\ DOMAIN t.received.data = DOMAIN v.received.data \cup {id}
  <2>1. /\ since'[p][id] = IF since[p][id] = 0 THEN clock ELSE since[p][id]
        /\ \A k \in Node, i \in Id : k # p \/ i # id => since'[k][i] = since[k][i]
        /\ DOMAIN t.received.data = DOMAIN v.received.data \cup {id}
    BY <1>1, <1>2, <1>4, <1>6, ReceptionTimes
  <2> QED BY <1>3, <2>1
<1>8. Fresh(id)' => Fresh(id)
  BY <1>1, <1>2 DEF Grows
<1>9. Fresh(id)' => /\ since'[p][id] = clock
                    /\ hop =< Count(id)' /\ hop + 1 =< Count(id)'
  <2> SUFFICES ASSUME Fresh(id)'
               PROVE  since'[p][id] = clock /\ hop =< Count(id)' /\ hop + 1 =< Count(id)'
    OBVIOUS
  <2>1. since[p][id] = 0 /\ hop =< Count(id)
    BY <1>3, <1>5, <1>8 DEF ShortPath
  <2>2. Count(id) + 1 =< Count(id)' /\ Count(id) \in Nat /\ Count(id)' \in Nat
    BY <1>1, <1>2, <1>7, <2>1, CountMore, CountTyped, CountTypedNext DEF TraceInv
  <2>3. hop =< Count(id)' /\ hop + 1 =< Count(id)'
    BY <1>2, <2>1, <2>2
  <2> QED BY <1>7, <2>1, <2>3
<1>10. KeptGood(p)'
  <2>1. tree'[p].received = Insert(v.received, Timed(id, hop, n, clock))
    BY <1>1, <1>6 DEF TreeBecomes
  <2> QED BY <1>1, <1>2, <1>4, <1>7, <1>9, <2>1, KeptInsert
<1>11. ASSUME NEW r \in Node, NEW x \in Emits(t, r) PROVE Travels(p, r, x)'
  <2>1. x = MessageMsg(id, hop + 1)
    BY <1>6, <1>11
  <2>2. x.type = "MESSAGE" /\ x.id = id /\ x.hop = hop + 1
    BY <2>1 DEF MessageMsg
  <2> QED BY <1>7, <1>9, <2>2 DEF Travels, ShortPath
<1>12. ASSUME since[p][id] = 0 PROVE SinceGood(p, id)'
  <2>1. since[n][id] =< clock /\ author[id] # Nobody /\ Schedule[id] =< since[n][id]
    BY <1>2, <1>3 DEF TraceInv, SinceGood
  <2>2. Schedule[id] \in Nat
    BY <1>2, Windows
  <2>3. Has(tree'[p].received, id)
    BY <1>1, <1>7 DEF TreeBecomes, Has
  <2>4. Schedule[id] =< clock
    BY <1>3, <2>1, <2>2
  <2>5. since'[p][id] =< clock' /\ author'[id] # Nobody /\ Schedule[id] =< since'[p][id]
    BY <1>1, <1>3, <1>7, <1>12, <2>1, <2>4
  <2> QED BY <2>3, <2>5 DEF SinceGood
<1>13. ASSUME since[p][id] = 0, NEW r \in Node PROVE Progress(p, r, id)'
  <2>1. since'[p][id] = clock' /\ up' = up /\ tree'[p].lazy = v.lazy
    BY <1>1, <1>6, <1>7, <1>13 DEF TreeBecomes
  <2>2. CASE r \notin owed'[p][id] \/ r \in v.lazy
    BY <1>2, <2>1, <2>2, ProgressNew
  <2>3. CASE r = n
    <3>1. since'[r][id] # 0
      BY <1>1, <1>2, <1>3, <2>3 DEF Grows
    <3> QED BY <1>2, <2>1, <3>1, ProgressNew
  <2>4. CASE r \in owed'[p][id] /\ r \notin v.lazy /\ r # n
    <3>1. {p, r} \in up /\ r \in v.eager
      BY <1>1, <1>2, <1>7, <1>13, <2>4, OwedPeer
    <3>2. MessageMsg(id, hop + 1) \in OnWay(p, r)'
      BY <1>6, <2>4, <3>1 DEF Delivers
    <3>3. Pushed(p, r, id)'
      BY <3>2 DEF Pushed, MessageMsg
    <3> QED BY <1>2, <2>1, <3>3, ProgressNew
  <2> QED BY <2>2, <2>3, <2>4
<1>14. \A i \in Id : since[p][i] = 0 /\ since'[p][i] # 0 =>
         SinceGood(p, i)' /\ \A r \in Node : Progress(p, r, i)'
  BY <1>7, <1>12, <1>13
<1>15. /\ Records(v.observed) = Records(t.observed) /\ CacheGood(t.observed)
       /\ since'[p][m.id] # 0
       /\ DOMAIN v.received.data \subseteq DOMAIN t.received.data
  BY <1>6, <1>7 DEF TraceInv, HeardGood, id
<1>16. \E i \in Id : Handed(t) = <<i>> /\ since'[p][i] # 0
  BY <1>2, <1>6, <1>7
<1> QED BY <1>6, <1>10, <1>11, <1>14, <1>15, <1>16, DeliverTrace

\* A later copy: it replaces the path of the message at most.
LEMMA LaterTrace ==
  ASSUME TraceInv, BroadcastInv', NEW n \in Node, NEW p \in Node, NEW m, NEW t,
         Delivers(n, p, m, t), m.type = "MESSAGE", Has(tree[p].received, m.id)
  PROVE  TraceInv'
<1> DEFINE id == m.id
           hop == m.hop
           v == tree[p]
           c == v.received
           d == t.received
           e == Timed(id, hop, n, clock)
<1>1. /\ Travels(n, p, m) /\ m \in WireMessage
      /\ TreeBecomes(p, t) /\ t \in Tree /\ t = Receive(v, n, m)
      /\ UNCHANGED <<up, author, cut, clock, ticked>> /\ Grows
  BY DeliveredMessage
<1>2. id \in Id /\ hop \in Nat /\ clock \in Nat
  BY <1>1, TraceTypes DEF WireMessage
<1>3. ShortPath(id, hop)
  BY <1>1 DEF Travels
<1>4. /\ d = Insert(c, e)
      /\ t.observed = v.observed /\ v.lazy \subseteq t.lazy
      /\ \A r : Emits(t, r) \subseteq {PruneMsg}
      /\ Handed(t) = << >>
  <2>1. v \in Tree /\ v.out = << >>
    BY TraceTypes
  <2>2. t = InjectMessage(v, n, id, hop, clock)
    BY <1>1 DEF Receive
  <2>3. Has(v.received, id)
    OBVIOUS
  <2> HIDE DEF v, id, hop
  <2>4. LET u == InjectMessage(v, n, id, hop, clock) IN
        /\ u.received = Insert(v.received, Timed(id, hop, n, clock))
        /\ u.observed = v.observed /\ v.lazy \subseteq u.lazy
        /\ \A r : Emits(u, r) \subseteq {PruneMsg}
        /\ Handed(u) = << >>
    BY <1>2, <2>1, <2>3, LaterDoes
  <2> QED BY <2>2, <2>4
<1>5. e \in Entry /\ e.id = id /\ e.hop = hop
  BY <1>2 DEF Timed, Entry
<1>6. c \in Cache /\ d \in Cache /\ Has(c, e.id) /\ KeptGood(p) /\ TimesTyped
  BY <1>1, <1>5, TraceTypes, TreeFields DEF TraceInv
<1> HIDE DEF e
<1>7. /\ d.byTime = c.byTime /\ DOMAIN d.data = DOMAIN c.data
      /\ d.data[id] \in {e, c.data[id]}
      /\ \A i \in DOMAIN c.data : i # id => d.data[i] = c.data[i]
  <2>1. LET x == Insert(c, e) IN
        /\ x.byTime = c.byTime /\ DOMAIN x.data = DOMAIN c.data
        /\ x.data[e.id] \in {e, c.data[e.id]}
        /\ \A i \in DOMAIN c.data : i # e.id => x.data[i] = c.data[i]
    BY <1>5, <1>6, InsertAgain
  <2> QED BY <1>4, <1>5, <2>1
<1>8. \A k \in Node, i \in Id : since'[k][i] = since[k][i]
  BY <1>1, <1>7, SameTimes
<1>9. KeptGood(p)'
  <2>1. tree'[p].received = d
    BY <1>1 DEF TreeBecomes
  <2>2. Records(d) = Records(c) /\ CacheGood(d)
    <3>1. Records(d) = Records(c) /\ (Ordered(c) => Ordered(d))
      BY <1>7, SameQueue
    <3>2. CacheGood(c)
      BY <1>6 DEF KeptGood
    <3> QED BY <1>7, <3>1, <3>2 DEF CacheGood, Keyed
  <2>3. \A i \in Id, h \in Nat : ShortPath(i, h) => (Fresh(i)' => h =< Count(i)')
    BY <1>1, <1>6, PathStays DEF ShortPath
  <2>4. ASSUME NEW r \in Records(d)
        PROVE  /\ since'[p][r.id] # 0 /\ r.time =< clock'
               /\ Fresh(r.id)' => r.hop =< Count(r.id)' /\ r.time = since'[p][r.id]
    <3>1. r.id \in Id /\ r.hop \in Nat
      BY <1>6, RecordsTyped, EntryFields
    <3>2. /\ since[p][r.id] # 0 /\ r.time =< clock /\ ShortPath(r.id, r.hop)
          /\ Fresh(r.id) => r.time = since[p][r.id]
      BY <1>6, <2>2 DEF KeptGood
    <3>3. since'[p][r.id] = since[p][r.id] /\ clock' = clock
      BY <1>1, <1>8, <3>1
    <3>4. Fresh(r.id)' => r.hop =< Count(r.id)'
      BY <2>3, <3>1, <3>2
    <3>5. Fresh(r.id)' => Fresh(r.id)
      BY <1>1, <3>1 DEF Grows
    <3> QED BY <3>2, <3>3, <3>4, <3>5
  <2>5. ASSUME NEW i \in DOMAIN d.data
        PROVE  since'[p][i] # 0 /\ (Fresh(i)' => d.data[i].hop =< Count(i)')
    <3>1. i \in Id /\ i \in DOMAIN c.data /\ c.data[i].hop \in Nat
      BY <1>6, <1>7, CacheFields
    <3>2. since[p][i] # 0 /\ ShortPath(i, c.data[i].hop)
      BY <1>6, <3>1 DEF KeptGood
    <3>3. ShortPath(i, d.data[i].hop) /\ d.data[i].hop \in Nat
      <4>1. CASE d.data[i] = c.data[i]
        BY <3>1, <3>2, <4>1
      <4>2. CASE i = id /\ d.data[i] = e
        BY <1>2, <1>3, <1>5, <4>2
      <4> QED BY <1>7, <3>1, <4>1, <4>2
    <3>4. Fresh(i)' => d.data[i].hop =< Count(i)'
      BY <2>3, <3>1, <3>3
    <3> QED BY <1>8, <3>1, <3>2, <3>4
  <2> QED BY <2>1, <2>2, <2>4, <2>5 DEF KeptGood, ShortPath
<1>10. ASSUME NEW r \in Node, NEW x \in Emits(t, r) PROVE Travels(p, r, x)'
  <2>1. x = PruneMsg
    BY <1>4, <1>10
  <2>2. x.type = "PRUNE"
    BY <2>1 DEF PruneMsg
  <2> QED BY <2>2 DEF Travels
<1>11. since'[p][m.id] # 0
  <2>1. since[p][id] # 0
    BY <1>2, NotKept
  <2> QED BY <1>2, <1>8, <2>1
<1>12. \A i \in Id : ~(since[p][i] = 0 /\ since'[p][i] # 0)
  BY <1>8
<1>13. /\ Records(v.observed) = Records(t.observed) /\ CacheGood(t.observed)
       /\ DOMAIN v.received.data \subseteq DOMAIN t.received.data
  BY <1>4, <1>7 DEF TraceInv, HeardGood
<1> HIDE DEF id, hop, c, d
<1> QED BY <1>4, <1>9, <1>10, <1>11, <1>12, <1>13, DeliverTrace

\* An announcement: its record is good, or there is an older one.
LEMMA AnnounceTrace ==
  ASSUME TraceInv, BroadcastInv', NEW n \in Node, NEW p \in Node, NEW m, NEW t,
         Delivers(n, p, m, t), m.type = "ANNOUNCE"
  PROVE  TraceInv'
<1> DEFINE id == m.id
           hop == m.hop
           v == tree[p]
           c == v.observed
           d == t.observed
           e == Timed(id, hop, n, clock)
<1>1. /\ Travels(n, p, m) /\ m \in WireMessage
      /\ TreeBecomes(p, t) /\ t \in Tree /\ t = Receive(v, n, m)
      /\ UNCHANGED <<up, author, cut, clock, ticked>> /\ Grows
  BY DeliveredMessage
<1>2. id \in Id /\ hop \in Nat /\ clock \in Nat
  BY <1>1, TraceTypes DEF WireMessage
<1>3. since[n][id] # 0 /\ since[n][id] =< clock
  <2>1. since[n][id] # 0
    BY <1>1 DEF Travels
  <2> QED BY <1>2, <2>1 DEF TraceInv, SinceGood
<1>4. /\ d = Insert(c, e) /\ t.received = v.received /\ t.lazy = v.lazy
      /\ (\A r : Emits(t, r) = {}) /\ Handed(t) = << >>
  <2>1. v \in Tree /\ v.out = << >>
    BY TraceTypes
  <2>2. t = InjectIHave(v, n, id, hop, clock)
    BY <1>1 DEF Receive
  <2> HIDE DEF v, id, hop
  <2>3. LET u == InjectIHave(v, n, id, hop, clock) IN
        /\ u.observed = Insert(v.observed, Timed(id, hop, n, clock))
        /\ u.received = v.received /\ u.lazy = v.lazy
        /\ (\A r : Emits(u, r) = {}) /\ Handed(u) = << >>
    BY <2>1, IHaveDoes
  <2> QED BY <2>2, <2>3
<1>5. e \in Entry /\ e.id = id /\ e.time = clock /\ e.sender = n
  BY <1>2 DEF Timed, Entry
<1>6. c \in Cache /\ HeardGood(p) /\ CacheGood(c)
  BY TraceTypes DEF TraceInv, HeardGood
<1> HIDE DEF e, id, hop, d
<1>7. /\ Records(c) \subseteq Records(d) /\ Records(d) \subseteq Records(c) \cup {e}
      /\ CacheGood(d)
      /\ \E o \in Records(d) : o.id = id /\ o.time =< clock
  <2>1. CASE Has(c, e.id)
    <3>1. d.byTime = c.byTime /\ DOMAIN d.data = DOMAIN c.data
      BY <1>4, <1>5, <1>6, <2>1, InsertAgain
    <3>2. Records(d) = Records(c) /\ (Ordered(c) => Ordered(d))
      BY <3>1, SameQueue
    <3>3. CacheGood(d)
      BY <1>6, <3>1, <3>2 DEF CacheGood, Keyed
    <3>4. \E o \in Records(c) : o.id = id
      BY <1>5, <1>6, <2>1 DEF CacheGood, Keyed, Has
    <3>5. \A o \in Records(c) : o.time =< clock
      BY <1>6 DEF HeardGood
    <3> QED BY <3>2, <3>3, <3>4, <3>5
  <2>2. CASE ~Has(c, e.id)
    <3>1. /\ Records(d) = Records(c) \cup {e}
          /\ DOMAIN d.data = DOMAIN c.data \cup {e.id}
          /\ Ordered(c) /\ (\A r \in Records(c) : r.time =< e.time) => Ordered(d)
      BY <1>4, <1>5, <1>6, <2>2, InsertFirst
    <3>2. \A r \in Records(c) : r.time =< e.time
      BY <1>5, <1>6 DEF HeardGood
    <3>3. Keyed(d)
      <4>1. \A i \in DOMAIN c.data : \E r \in Records(c) : r.id = i
        BY <1>6 DEF CacheGood, Keyed
      <4> QED BY <3>1, <4>1 DEF Keyed
    <3>4. CacheGood(d)
      BY <1>6, <3>1, <3>2, <3>3 DEF CacheGood
    <3>5. clock =< clock
      BY <1>2
    <3> QED BY <1>5, <3>1, <3>4, <3>5
  <2> QED BY <2>1, <2>2
<1>8. \A k \in Node, i \in Id : since'[k][i] = since[k][i]
  BY <1>1, <1>4, SameTimes
<1>9. KeptGood(p)'
  <2>1. tree'[p].received = tree[p].received
    BY <1>1, <1>4 DEF TreeBecomes
  <2> QED BY <1>1, <2>1, KeptSame
<1>10. \A o \in Records(t.observed) :
         o \in Records(tree[p].observed) \/ NewlyHeard(p, o)
  <2>1. {p, e.sender} \in up'
    BY <1>1, <1>5, Pairs DEF Delivers
  <2>2. NewlyHeard(p, e)
    BY <1>1, <1>3, <1>5, <2>1 DEF NewlyHeard
  <2> QED BY <1>7, <2>2 DEF d
<1>11. \A i \in Id : ~(since[p][i] = 0 /\ since'[p][i] # 0)
  BY <1>8
<1>12. /\ Records(tree[p].observed) \subseteq Records(t.observed) /\ CacheGood(t.observed)
       /\ DOMAIN tree[p].received.data \subseteq DOMAIN t.received.data
       /\ \E o \in Records(t.observed) : o.id = m.id /\ o.time =< clock
       /\ \A q \in tree[p].lazy : q \in t.lazy
       /\ \A r \in Node : \A x \in Emits(t, r) : FALSE
  BY <1>4, <1>7 DEF d, id
<1> HIDE DEF v, c
<1> QED BY <1>4, <1>9, <1>10, <1>11, <1>12, DeliverTrace

\* A PRUNE moves its sender to the lazy peers.
LEMMA PruneTrace ==
  ASSUME TraceInv, BroadcastInv', NEW n \in Node, NEW p \in Node, NEW m, NEW t,
         Delivers(n, p, m, t), m.type = "PRUNE"
  PROVE  TraceInv'
<1> DEFINE v == tree[p]
<1>1. /\ TreeBecomes(p, t) /\ t \in Tree /\ t = Receive(v, n, m) /\ Grows
  BY DeliveredMessage
<1>2. /\ t.observed = v.observed /\ t.received = v.received /\ v.lazy \subseteq t.lazy
      /\ (\A r : Emits(t, r) = {}) /\ Handed(t) = << >>
  <2>1. v \in Tree /\ v.out = << >>
    BY TraceTypes
  <2>2. t = InjectPrune(v, n)
    BY <1>1 DEF Receive
  <2> HIDE DEF v
  <2>3. LET u == InjectPrune(v, n) IN
        /\ u.observed = v.observed /\ u.received = v.received /\ v.lazy \subseteq u.lazy
        /\ (\A r : Emits(u, r) = {}) /\ Handed(u) = << >>
    BY <2>1, PruneDoes
  <2> QED BY <2>2, <2>3
<1>3. \A k \in Node, i \in Id : since'[k][i] = since[k][i]
  BY <1>1, <1>2, SameTimes
<1>4. KeptGood(p)'
  <2>1. tree'[p].received = tree[p].received
    BY <1>1, <1>2 DEF TreeBecomes
  <2> QED BY <1>1, <2>1, KeptSame
<1>5. \A i \in Id : ~(since[p][i] = 0 /\ since'[p][i] # 0)
  BY <1>3
<1>6. /\ Records(tree[p].observed) = Records(t.observed) /\ CacheGood(t.observed)
      /\ DOMAIN tree[p].received.data \subseteq DOMAIN t.received.data
      /\ \A q \in tree[p].lazy : q \in t.lazy
      /\ \A r \in Node : \A x \in Emits(t, r) : FALSE
  BY <1>2 DEF TraceInv, HeardGood
<1> QED BY <1>2, <1>4, <1>5, <1>6, DeliverTrace

\* A GRAFT is answered with all it asks for that is fresh, and so remembered.
LEMMA GraftTrace ==
  ASSUME TraceInv, BroadcastInv', NEW n \in Node, NEW p \in Node, NEW m, NEW t,
         Delivers(n, p, m, t), m.type = "GRAFT"
  PROVE  TraceInv'
<1> DEFINE v == tree[p]
<1>1. /\ Travels(n, p, m) /\ m \in WireMessage
      /\ TreeBecomes(p, t) /\ t \in Tree /\ t = Receive(v, n, m)
      /\ UNCHANGED <<up, author, cut, clock, ticked>> /\ Grows
  BY DeliveredMessage
<1>2. m.ids \in SUBSET Id
  BY <1>1 DEF WireMessage
<1>3. /\ t.observed = v.observed /\ t.received = v.received /\ t.lazy = v.lazy \ {n}
      /\ \A r : Emits(t, r) = IF r = n THEN Answer(v, m.ids) ELSE {}
      /\ Handed(t) = << >>
  <2>1. v \in Tree /\ v.out = << >>
    BY TraceTypes
  <2> DEFINE ids == m.ids
  <2>2. t = InjectGraft(v, n, ids)
    BY <1>1 DEF Receive
  <2>3. ids \in SUBSET Id
    BY <1>2
  <2> HIDE DEF v, ids
  <2>4. LET u == InjectGraft(v, n, ids) IN
        /\ u.observed = v.observed /\ u.received = v.received /\ u.lazy = v.lazy \ {n}
        /\ \A r : Emits(u, r) = IF r = n THEN Answer(v, ids) ELSE {}
        /\ Handed(u) = << >>
    BY <2>1, <2>3, GraftDoes
  <2> QED BY <2>2, <2>4 DEF ids
<1>4. ASSUME NEW id \in m.ids
      PROVE  id \in Id /\ since[p][id] # 0 /\ (Fresh(id) => Has(v.received, id))
  <2>1. id \in Id /\ since[p][id] # 0
    BY <1>1, <1>2, <1>4 DEF Travels
  <2> QED BY <2>1, Remembered
<1>5. \A k \in Node, i \in Id : since'[k][i] = since[k][i]
  BY <1>1, <1>3, SameTimes
<1>6. KeptGood(p)'
  <2>1. tree'[p].received = tree[p].received
    BY <1>1, <1>3 DEF TreeBecomes
  <2> QED BY <1>1, <2>1, KeptSame
<1>7. ASSUME NEW r \in Node, NEW x \in Emits(t, r) PROVE Travels(p, r, x)'
  <2>1. PICK id \in m.ids : Has(v.received, id) /\ x = MessageMsg(id, v.received.data[id].hop)
    BY <1>3, <1>7 DEF Answer
  <2> DEFINE hop == v.received.data[id].hop
  <2>2. x.type = "MESSAGE" /\ x.id = id /\ x.hop = hop
    BY <2>1 DEF MessageMsg
  <2>3. ShortPath(id, hop) /\ hop \in Nat
    <3>1. ShortPath(id, hop)
      BY <2>1 DEF TraceInv, KeptGood, Has
    <3>2. hop \in Nat
      BY <2>1, TraceTypes, CacheFields DEF Has
    <3> QED BY <3>1, <3>2
  <2>4. id \in Id /\ since'[p][id] # 0
    BY <1>4, <1>5
  <2> HIDE DEF hop
  <2>5. \A i \in Id, h \in Nat : ShortPath(i, h) => (Fresh(i)' => h =< Count(i)')
    BY <1>1, PathStays DEF ShortPath, TraceInv
  <2>6. Fresh(id)' => hop =< Count(id)'
    BY <2>3, <2>4, <2>5
  <2> QED BY <2>2, <2>4, <2>6 DEF Travels, ShortPath
<1>8. ASSUME NEW id \in m.ids, Fresh(id) PROVE \E x \in Emits(t, n) : x.type = "MESSAGE" /\ x.id = id
  <2> DEFINE x == MessageMsg(id, v.received.data[id].hop)
  <2>1. x \in Answer(v, m.ids)
    BY <1>4, <1>8 DEF Answer
  <2>2. x.type = "MESSAGE" /\ x.id = id
    BY DEF MessageMsg
  <2>3. x \in Emits(t, n)
    BY <1>3, <2>1
  <2> HIDE DEF x
  <2> QED BY <2>2, <2>3
<1>9. \A i \in Id : ~(since[p][i] = 0 /\ since'[p][i] # 0)
  BY <1>5
<1>10. /\ Records(tree[p].observed) = Records(t.observed) /\ CacheGood(t.observed)
       /\ DOMAIN tree[p].received.data \subseteq DOMAIN t.received.data
       /\ \A q \in tree[p].lazy : q \in t.lazy \/ q = n
  BY <1>3 DEF TraceInv, HeardGood
<1> QED BY <1>3, <1>6, <1>7, <1>8, <1>9, <1>10, DeliverTrace

\* Whatever is handled.
LEMMA DeliverKeepsTrace ==
  ASSUME TraceInv, NEW n \in Node, NEW p \in Node, Deliver(n, p)
  PROVE  TraceInv'
<1>1. BroadcastInv'
  BY DeliverKeeps DEF TraceInv
<1>2. PICK m, t : Delivers(n, p, m, t)
  BY DeliverDoes
<1>3. m.type \in {"MESSAGE", "ANNOUNCE", "PRUNE", "GRAFT"}
  BY <1>2 DEF Delivers, WireMessage
<1>4. CASE m.type = "MESSAGE" /\ ~Has(tree[p].received, m.id)
  BY <1>1, <1>2, <1>4, FirstTrace
<1>5. CASE m.type = "MESSAGE" /\ Has(tree[p].received, m.id)
  BY <1>1, <1>2, <1>5, LaterTrace
<1>6. CASE m.type = "ANNOUNCE"
  BY <1>1, <1>2, <1>6, AnnounceTrace
<1>7. CASE m.type = "PRUNE"
  BY <1>1, <1>2, <1>7, PruneTrace
<1>8. CASE m.type = "GRAFT"
  BY <1>1, <1>2, <1>8, GraftTrace
<1> QED BY <1>3, <1>4, <1>5, <1>6, <1>7, <1>8

-----------------------------------------------------------------------------
(* The periodic work.                                                      *)

\* Instants that are long past, and instants that are not.
LEMMA AgoFacts ==
  ASSUME NEW now \in Nat, NEW w \in Nat
  PROVE  /\ Ago(now, w) \in Nat
         /\ \A t \in Nat : t >= Ago(now, w) => now =< t + w
         /\ \A t \in Nat : t # 0 /\ t =< Ago(now, w) => now >= t + w
         /\ \A t \in Nat : t # 0 /\ now < t + w => Ago(now, w) < t
         /\ \A t \in Nat : now > t + w => t < Ago(now, w)
BY DEF Ago

\* n does its periodic work, which leaves t.
Works(n, t) ==
  /\ n \notin ticked /\ ticked' = ticked \cup {n}
  /\ t \in Tree /\ TreeBecomes(n, t)
  /\ t.lazy = tree[n].lazy /\ Handed(t) = << >>
  /\ t.received = RemoveOlderThan(tree[n].received, Ago(clock, HistoryWindow))
  /\ t.observed = RemoveOlderThan(tree[n].observed, Ago(clock, HistoryWindow))
  /\ \A k, r \in Node : OnWay(k, r) \subseteq OnWay(k, r)'
  /\ \A k, r \in Node : \A x \in OnWay(k, r)' :
       x \in OnWay(k, r) \/ (k = n /\ {n, r} \in up /\ x \in Emits(t, r))
  /\ \A r \in Node : {n, r} \in up => Emits(t, r) \subseteq OnWay(n, r)'
  /\ UNCHANGED <<up, author, grafted, cut, clock>>

\* What it sends: announcements of the messages of the lazy push window, and
\* GRAFTs for what was announced in it and is missing.
Maintains(n, t) ==
  /\ \A p : \A m \in Emits(t, p) :
       \/ \E r \in Records(tree[n].received) :
            m = AnnounceMsg(r) /\ r.time >= Ago(clock, LazyPushWindow)
       \/ /\ m.type = "GRAFT"
          /\ \A id \in m.ids : \E o \in Records(tree[n].observed) :
               /\ o.id = id /\ o.sender = p /\ o.time >= Ago(clock, LazyPushWindow)
               /\ ~Has(tree[n].received, id)
  /\ \A p \in tree[n].lazy : \A r \in Records(tree[n].received) :
       Ago(clock, LazyPushWindow) < r.time /\ r.time < clock => AnnounceMsg(r) \in Emits(t, p)
  /\ \A o \in Records(tree[n].observed) :
       /\ Ago(clock, LazyPushWindow) < o.time /\ o.time < Ago(clock, 2)
       /\ ~Has(tree[n].received, o.id)
       => \E m \in Emits(t, o.sender) : m.type = "GRAFT" /\ o.id \in m.ids

\* Tick does that.
LEMMA TickWorks ==
  ASSUME TraceInv, NEW n \in Node, Tick(n)
  PROVE  \E t : Works(n, t) /\ Maintains(n, t)
<1> DEFINE v == tree[n]
           now == clock
<1>1. /\ v \in Tree /\ v.out = << >> /\ now \in Nat /\ Ordered(v.received) /\ Ordered(v.observed)
      /\ net \in [Node -> [Node -> Seq(SUBSET WireMessage)]]
  BY TraceTypes DEF TraceInv, KeptGood, HeardGood, CacheGood
<1>2. PICK t \in TreeTick(v, now) : Handle(n, t, net)
  BY DEF Tick
<1>3. t \in Tree
  BY <1>1, TickTyped
<1>5. /\ n \notin ticked /\ ticked' = ticked \cup {n}
      /\ UNCHANGED <<up, author, grafted, cut, clock>>
  BY DEF Tick, overlay
<1>4. TreeBecomes(n, t) /\ SendsOn(n, t, net)
  BY <1>1, <1>2, <1>3, <1>5, HandleDoes, HandleSends
<1>6. /\ t.lazy = v.lazy /\ Handed(t) = << >>
      /\ t.received = RemoveOlderThan(v.received, Ago(now, HistoryWindow))
      /\ t.observed = RemoveOlderThan(v.observed, Ago(now, HistoryWindow))
      /\ \A p : \A m \in Emits(t, p) :
           \/ \E r \in Records(v.received) :
                m = AnnounceMsg(r) /\ r.time >= Ago(now, LazyPushWindow)
           \/ /\ m.type = "GRAFT"
              /\ \A id \in m.ids : \E o \in Records(v.observed) :
                   /\ o.id = id /\ o.sender = p /\ o.time >= Ago(now, LazyPushWindow)
                   /\ ~Has(v.received, id)
      /\ \A p \in v.lazy : \A r \in Records(v.received) :
           Ago(now, LazyPushWindow) < r.time /\ r.time < now => AnnounceMsg(r) \in Emits(t, p)
      /\ \A o \in Records(v.observed) :
           /\ Ago(now, LazyPushWindow) < o.time /\ o.time < Ago(now, 2 * TickFrequency)
           /\ ~Has(v.received, o.id)
           => \E m \in Emits(t, o.sender) : m.type = "GRAFT" /\ o.id \in m.ids
  <2> HIDE DEF v, now
  <2> QED BY <1>1, <1>2, TickDoes
<1>7. 2 * TickFrequency = 2
  BY Windows
<1>8. Maintains(n, t)
  BY <1>6, <1>7 DEF Maintains
<1>9. /\ \A k, r \in Node : OnWay(k, r) \subseteq OnWay(k, r)'
      /\ \A k, r \in Node : \A x \in OnWay(k, r)' :
           x \in OnWay(k, r) \/ (k = n /\ {n, r} \in up /\ x \in Emits(t, r))
      /\ \A r \in Node : {n, r} \in up => Emits(t, r) \subseteq OnWay(n, r)'
  <2>1. \A k, r \in Node : k # n => OnWay(k, r)' = OnWay(k, r)
    BY <1>4 DEF SendsOn, OnWay
  <2>2. \A r \in Node : OnWay(n, r)' = IF {n, r} \in up THEN OnWay(n, r) \cup Emits(t, r)
                                       ELSE OnWay(n, r)
    BY <1>4 DEF SendsOn, OnWay
  <2> QED BY <2>1, <2>2
<1>10. Works(n, t)
  BY <1>3, <1>4, <1>5, <1>6, <1>9 DEF Works
<1> QED BY <1>8, <1>10

\* What it does to the caches.
LEMMA WorksCaches ==
  ASSUME TraceInv, NEW n \in Node, NEW t, Works(n, t)
  PROVE  /\ tree'[n].received \in Cache /\ tree'[n].observed \in Cache
         /\ CacheGood(tree'[n].received) /\ CacheGood(tree'[n].observed)
         /\ Records(tree'[n].received) \subseteq Records(tree[n].received)
         /\ Records(tree'[n].observed) \subseteq Records(tree[n].observed)
         /\ \A o \in Records(tree[n].observed) :
              o.time > Ago(clock, HistoryWindow) => o \in Records(tree'[n].observed)
         /\ DOMAIN tree'[n].received.data \subseteq DOMAIN tree[n].received.data
         /\ \A id \in DOMAIN tree'[n].received.data :
              tree'[n].received.data[id] = tree[n].received.data[id]
         /\ \A id \in DOMAIN tree[n].received.data \ DOMAIN tree'[n].received.data :
              \E r \in Records(tree[n].received) :
                r.id = id /\ r.time =< Ago(clock, HistoryWindow)
         /\ Grows /\ \A k \in Node, i \in Id : since'[k][i] = since[k][i]
         /\ \A k \in Node : k # n => tree'[k] = tree[k]
         /\ \A k \in Node : tree'[k].lazy = tree[k].lazy
<1> DEFINE c == tree[n].received
           d == tree'[n].received
           e == tree[n].observed
           f == tree'[n].observed
           limit == Ago(clock, HistoryWindow)
<1>1. /\ c \in Cache /\ e \in Cache /\ limit \in Nat /\ clock \in Nat
      /\ CacheGood(c) /\ CacheGood(e)
  BY TraceTypes, Windows, AgoFacts DEF TraceInv, KeptGood, HeardGood
<1>2. TreeBecomes(n, t) /\ t \in Tree
  BY DEF Works
<1>3. d = t.received /\ f = t.observed
  BY <1>2 DEF TreeBecomes
<1>4. d = RemoveOlderThan(c, limit) /\ f = RemoveOlderThan(e, limit)
  BY <1>3 DEF Works
<1>5. d \in Cache /\ f \in Cache
  BY <1>2, <1>3, TreeFields
<1> HIDE DEF c, d, e, f, limit
<1>6. /\ Records(d) \subseteq Records(c)
      /\ DOMAIN d.data \subseteq DOMAIN c.data
      /\ \A id \in DOMAIN d.data : d.data[id] = c.data[id]
      /\ \A id \in DOMAIN c.data \ DOMAIN d.data :
           \E r \in Records(c) : r.id = id /\ r.time =< limit
      /\ CacheGood(d)
  <2>1. LET x == RemoveOlderThan(c, limit) IN
        /\ Records(x) \subseteq Records(c)
        /\ DOMAIN x.data \subseteq DOMAIN c.data
        /\ \A id \in DOMAIN x.data : x.data[id] = c.data[id]
        /\ \A id \in DOMAIN c.data \ DOMAIN x.data :
             \E r \in Records(c) : r.id = id /\ r.time =< limit
        /\ Keyed(c) => Keyed(x)
        /\ Ordered(c) => Ordered(x)
    BY <1>1, RemoveRecords
  <2> QED BY <1>1, <1>4, <2>1 DEF CacheGood
<1>7. /\ Records(f) \subseteq Records(e)
      /\ \A o \in Records(e) : o.time > limit => o \in Records(f)
      /\ CacheGood(f)
  <2>1. LET x == RemoveOlderThan(e, limit) IN
        /\ Records(x) \subseteq Records(e)
        /\ \A r \in Records(e) : r.time > limit => r \in Records(x)
        /\ Keyed(e) => Keyed(x)
        /\ Ordered(e) => Ordered(x)
    BY <1>1, RemoveRecords
  <2> QED BY <1>1, <1>4, <2>1 DEF CacheGood
<1>8. \A k \in Node, i \in Id : since'[k][i] = since[k][i]
  BY <1>2, <1>3, <1>6, SameTimes DEF c
<1>9. Grows /\ \A k \in Node : k # n => tree'[k] = tree[k]
  BY <1>2 DEF TreeBecomes
<1>10. \A k \in Node : tree'[k].lazy = tree[k].lazy
  <2>1. tree'[n].lazy = tree[n].lazy
    BY <1>2 DEF TreeBecomes, Works
  <2> QED BY <1>9, <2>1
<1> QED BY <1>5, <1>6, <1>7, <1>8, <1>9, <1>10 DEF c, d, e, f, limit

\* What is forgotten is older than the history.
LEMMA WorksSince ==
  ASSUME TraceInv, NEW n \in Node, NEW t, Works(n, t), NEW k \in Node, NEW id \in Id
  PROVE  SinceGood(k, id)'
<1>1. /\ Grows /\ \A q \in Node : q # n => tree'[q] = tree[q]
      /\ since'[k][id] = since[k][id]
  BY WorksCaches
<1>2. CASE since[k][id] = 0
  BY <1>1, <1>2 DEF SinceGood
<1>3. CASE since[k][id] # 0
  <2>1. clock' = clock /\ author' = author /\ clock \in Nat
    BY TraceTypes DEF Works
  <2>2. ASSUME Fresh(id)', Has(tree[k].received, id), ~Has(tree'[k].received, id)
        PROVE  FALSE
    <3>1. k = n
      BY <1>1, <2>2
    <3>2. PICK r \in Records(tree[n].received) :
            r.id = id /\ r.time =< Ago(clock, HistoryWindow)
      BY <2>2, <3>1, WorksCaches DEF Has
    <3>3. Fresh(id)
      BY <1>1, <2>2 DEF Grows
    <3>4. r.time = since[n][id]
      BY <3>2, <3>3 DEF TraceInv, KeptGood
    <3>5. since[n][id] \in Nat /\ HistoryWindow \in Nat /\ Schedule[id] \in Nat
      BY TraceTypes, Windows
    <3>6. clock >= since[n][id] + HistoryWindow
      BY <1>3, <2>1, <3>1, <3>2, <3>4, <3>5, AgoFacts
    <3>7. Schedule[id] =< since[n][id]
      BY <1>3, <3>1 DEF TraceInv, SinceGood
    <3> QED BY <2>1, <3>3, <3>5, <3>6, <3>7 DEF Fresh
  <2> QED BY <1>1, <1>3, <2>1, <2>2, SinceFrame
<1> QED BY <1>2, <1>3

\* A message that was announced three instants ago, and has not come, is
\* asked for.
LEMMA WorksAsking ==
  ASSUME TraceInv, NEW n \in Node, NEW t, Works(n, t), Maintains(n, t),
         NEW k \in Node, NEW o \in Records(tree[k].observed),
         Misses(k, o), Asking(k, o)
  PROVE  Asking(k, o)'
<1>1. o.id \in Id /\ o.sender \in Node /\ o.time \in Nat /\ since[o.sender][o.id] =< o.time
      /\ since[o.sender][o.id] # 0 /\ (o.id \in cut[k] \/ {k, o.sender} \in up)
  BY TraceTypes, RecordsTyped, EntryFields DEF TraceInv, HeardGood
<1>2. UNCHANGED <<clock, cut>> /\ ticked' = ticked \cup {n}
  BY DEF Works
<1>3. \A x, y \in Node : OnWay(x, y) \subseteq OnWay(x, y)'
  BY DEF Works
<1>4. CASE k # n
  <2>1. k \notin ticked => k \notin ticked'
    BY <1>2, <1>4
  <2> QED BY <1>1, <1>2, <1>3, <2>1, AskingFrame
<1>5. CASE k = n /\ (o.id \in cut[n] \/ clock < o.time + 3)
  BY <1>2, <1>5 DEF Asking
<1>6. CASE k = n /\ o.id \notin cut[n] /\ clock = o.time + 3
  <2>1. clock \in Nat /\ LazyPushWindow \in Nat /\ LazyPushWindow > 3 /\ since[o.sender][o.id] \in Nat
    BY <1>1, TraceTypes, Windows DEF Misses
  <2>2. o.time # 0
    BY <1>1, <2>1
  <2>3. clock < o.time + LazyPushWindow /\ clock > o.time + 2
    BY <1>1, <1>6, <2>1
  <2>4. Ago(clock, LazyPushWindow) < o.time /\ o.time < Ago(clock, 2)
    BY <1>1, <2>1, <2>2, <2>3, AgoFacts
  <2>5. ~Has(tree[n].received, o.id)
    BY <1>1, <1>6, NotKept DEF Misses
  <2>6. PICK m \in Emits(t, o.sender) : m.type = "GRAFT" /\ o.id \in m.ids
    BY <1>6, <2>4, <2>5 DEF Maintains
  <2>7. m \in OnWay(n, o.sender)'
    BY <1>1, <1>6, <2>6 DEF Works
  <2>8. Asked(n, o.sender, o.id)'
    BY <2>6, <2>7 DEF Asked
  <2> QED BY <1>2, <1>6, <2>8 DEF Asking
<1> QED BY <1>4, <1>5, <1>6 DEF Asking

\* What the nodes have heard.
LEMMA WorksHeard ==
  ASSUME TraceInv, NEW n \in Node, NEW t, Works(n, t), Maintains(n, t),
         NEW k \in Node
  PROVE  HeardGood(k)'
<1>1. /\ Grows /\ \A q \in Node : q # n => tree'[q] = tree[q]
      /\ \A q \in Node, i \in Id : since'[q][i] = since[q][i]
  BY WorksCaches
<1>2. UNCHANGED <<up, cut, clock>>
  BY DEF Works
<1>3. CacheGood(tree'[k].observed) /\ Records(tree'[k].observed) \subseteq Records(tree[k].observed)
  <2>1. CASE k = n
    BY <2>1, WorksCaches
  <2>2. CASE k # n
    <3>1. tree'[k] = tree[k] /\ CacheGood(tree[k].observed)
      BY <1>1, <2>2 DEF TraceInv, HeardGood
    <3> QED BY <3>1
  <2> QED BY <2>1, <2>2
<1>4. ASSUME NEW o \in Records(tree[k].observed), o \in Entry, Misses(k, o)', Asking(k, o)
      PROVE  Asking(k, o)'
  <2>1. o.id \in Id
    BY <1>4, EntryFields
  <2>2. Misses(k, o)
    BY <1>1, <1>4, <2>1 DEF Misses, Grows
  <2> QED BY <1>4, <2>2, WorksAsking
<1>5. \A o \in Records(tree'[k].observed) : o \in Records(tree[k].observed)
  BY <1>3
<1>6. cut[k] \subseteq cut'[k] /\ up' = up
  BY <1>2
<1> QED BY <1>1, <1>3, <1>4, <1>5, <1>6, HeardFrame

\* What is announced was had, and a GRAFT asks for what was announced.
LEMMA WorksSends ==
  ASSUME TraceInv, NEW n \in Node, NEW t, Works(n, t), Maintains(n, t),
         NEW p \in Node, NEW m \in Emits(t, p)
  PROVE  Travels(n, p, m)'
<1>1. /\ \A q \in Node, i \in Id : since'[q][i] = since[q][i]
      /\ Grows /\ TimesTyped
  BY WorksCaches DEF TraceInv
<1>2. CASE \E r \in Records(tree[n].received) : m = AnnounceMsg(r)
  <2>1. PICK r \in Records(tree[n].received) : m = AnnounceMsg(r)
    BY <1>2
  <2>2. m.type = "ANNOUNCE" /\ m.id = r.id /\ m.hop = r.hop
    BY <2>1 DEF AnnounceMsg
  <2>3. r.id \in Id /\ r.hop \in Nat
    BY TraceTypes, RecordsTyped, EntryFields
  <2>4. since[n][r.id] # 0 /\ ShortPath(r.id, r.hop)
    BY DEF TraceInv, KeptGood
  <2>5. \A i \in Id, h \in Nat : ShortPath(i, h) => (Fresh(i)' => h =< Count(i)')
    BY <1>1, PathStays DEF ShortPath
  <2>6. since'[n][r.id] # 0 /\ (Fresh(r.id)' => r.hop =< Count(r.id)')
    BY <1>1, <2>3, <2>4, <2>5
  <2> QED BY <2>2, <2>6 DEF Travels, ShortPath
<1>3. CASE /\ m.type = "GRAFT"
           /\ \A id \in m.ids : \E o \in Records(tree[n].observed) : o.id = id /\ o.sender = p
  <2>1. ASSUME NEW id \in m.ids PROVE since'[p][id] # 0
    <3>1. PICK o \in Records(tree[n].observed) : o.id = id /\ o.sender = p
      BY <1>3, <2>1
    <3>2. id \in Id
      BY <3>1, TraceTypes, RecordsTyped, EntryFields
    <3>3. since[p][id] # 0
      BY <3>1 DEF TraceInv, HeardGood
    <3> QED BY <1>1, <3>2, <3>3
  <2> QED BY <1>3, <2>1 DEF Travels
<1> QED BY <1>2, <1>3 DEF Maintains

\* A node announces a message to its lazy peers by the instant after it had
\* it, and records of announcements outlive the repair.
LEMMA WorksProgress ==
  ASSUME TraceInv, NEW n \in Node, NEW t, Works(n, t), Maintains(n, t),
         NEW k \in Node, NEW p \in Node, NEW id \in Id
  PROVE  Progress(k, p, id)'
<1> DEFINE s == since[k][id]
<1>1. /\ \A q \in Node, i \in Id : since'[q][i] = since[q][i]
      /\ Grows /\ clock \in Nat /\ s \in Nat
      /\ \A q \in Node : q # n => tree'[q] = tree[q]
      /\ \A q \in Node : tree'[q].lazy = tree[q].lazy
  BY WorksCaches, TraceTypes
<1>2. /\ UNCHANGED <<up, clock, grafted>> /\ ticked' = ticked \cup {n} /\ n \notin ticked
      /\ \A x, y \in Node : OnWay(x, y) \subseteq OnWay(x, y)'
      /\ TreeBecomes(n, t)
  BY DEF Works
<1>3. CASE s = 0
  BY <1>1, <1>3 DEF Progress
<1>4. CASE s # 0
  <2>1. ASSUME Underway(k, p, id), {k, p} \in up, Fresh(id)
        PROVE  Underway(k, p, id)'
    <3>1. CASE Pushed(k, p, id)
      <4>1. Pushed(k, p, id)'
        BY <1>2, <3>1 DEF Pushed
      <4> QED BY <4>1 DEF Underway
    <3>2. CASE Announced(k, p, id) /\ clock =< s + 1
      <4>1. Announced(k, p, id)'
        BY <1>2, <3>2 DEF Announced
      <4> QED BY <1>1, <1>2, <3>2, <4>1 DEF Underway
    <3>3. CASE p \in tree[k].lazy /\ (clock = s \/ (clock = s + 1 /\ k \notin ticked'))
      BY <1>1, <1>2, <3>3 DEF Underway
    <3>4. CASE p \in tree[k].lazy /\ clock = s + 1 /\ k \notin ticked /\ k \in ticked'
      <4>1. k = n
        BY <1>2, <3>4
      <4>2. LazyPushWindow \in Nat /\ LazyPushWindow > 2
        BY Windows
      <4>4. Has(tree[n].received, id)
        BY <1>4, <2>1, <4>1, Remembered
      <4>5. PICK r \in Records(tree[n].received) : r.id = id
        BY <4>4 DEF TraceInv, KeptGood, CacheGood, Keyed, Has
      <4>6. r.time = s
        BY <2>1, <4>1, <4>5 DEF TraceInv, KeptGood
      <4>7. r.time \in Nat /\ r.time # 0 /\ r.time < clock /\ clock < r.time + LazyPushWindow
        BY <1>1, <1>4, <3>4, <4>2, <4>6
      <4>8. Ago(clock, LazyPushWindow) < r.time
        BY <1>1, <4>2, <4>7, AgoFacts
      <4>9. AnnounceMsg(r) \in Emits(t, p)
        BY <3>4, <4>1, <4>7, <4>8 DEF Maintains
      <4>10. AnnounceMsg(r) \in OnWay(k, p)'
        BY <2>1, <4>1, <4>9 DEF Works
      <4>11. Announced(k, p, id)'
        BY <4>5, <4>10 DEF Announced, AnnounceMsg
      <4>12. clock' =< since'[k][id] + 1
        BY <1>1, <1>2, <3>4
      <4> QED BY <4>11, <4>12 DEF Underway
    <3>5. CASE \E o \in Records(tree[p].observed) : o.id = id /\ o.time =< s + 1
      <4>1. PICK o \in Records(tree[p].observed) : o.id = id /\ o.time =< s + 1
        BY <3>5
      <4>2. CASE p # n
        <5>1. tree'[p] = tree[p]
          BY <1>1, <4>2
        <5> QED BY <1>1, <4>1, <5>1 DEF Underway
      <4>3. CASE p = n
        <5>1. o.time \in Nat /\ o.sender \in Node
          BY TraceTypes, RecordsTyped, EntryFields
        <5>2. since[o.sender][id] # 0 /\ since[o.sender][id] =< o.time
              /\ since[o.sender][id] \in Nat
          BY <4>1, <5>1, TraceTypes DEF TraceInv, HeardGood
        <5>3. Schedule[id] \in Nat /\ Schedule[id] =< since[o.sender][id]
          BY <5>1, <5>2, Windows DEF TraceInv, SinceGood
        <5>5. HistoryWindow \in Nat
          BY Windows
        <5>6. clock < o.time + HistoryWindow /\ o.time # 0
          BY <1>1, <2>1, <5>1, <5>2, <5>3, <5>5 DEF Fresh
        <5>7. o.time > Ago(clock, HistoryWindow)
          <6>1. Ago(clock, HistoryWindow) \in Nat /\ Ago(clock, HistoryWindow) < o.time
            BY <1>1, <5>1, <5>5, <5>6, AgoFacts
          <6> QED BY <5>1, <6>1
        <5>8. o \in Records(tree'[p].observed)
          BY <4>3, <5>7, WorksCaches
        <5> QED BY <1>1, <4>1, <5>8 DEF Underway
      <4> QED BY <4>2, <4>3
    <3> QED BY <2>1, <3>1, <3>2, <3>3, <3>4, <3>5 DEF Underway
  <2>2. owed'[k][id] = owed[k][id] /\ grafted' = grafted
    BY <1>2, <1>4, OwedFrame
  <2>3. /\ p \in owed'[k][id] => {k, p} \in up
        /\ Fresh(id)' => Fresh(id)
    BY <1>1, <2>2 DEF TraceInv, OwedGood, Grows
  <2> HIDE DEF s
  <2> QED BY <1>1, <1>4, <2>1, <2>2, <2>3, ProgressFrame DEF s
<1> QED BY <1>3, <1>4

\* A tick.
LEMMA TickTrace ==
  ASSUME TraceInv, NEW n \in Node, Tick(n)
  PROVE  TraceInv'
<1>1. PICK t : Works(n, t) /\ Maintains(n, t)
  BY TickWorks
<1>2. BroadcastInv'
  BY TickKeeps DEF TraceInv
<1>3. /\ Grows /\ \A q \in Node : q # n => tree'[q] = tree[q]
      /\ \A q \in Node, i \in Id : since'[q][i] = since[q][i]
  BY <1>1, WorksCaches
<1>4. /\ TreeBecomes(n, t) /\ t \in Tree /\ Handed(t) = << >>
      /\ UNCHANGED <<up, author, grafted, cut, clock>>
  BY <1>1 DEF Works
<1>5. TimesTyped'
  BY <1>3, <1>4 DEF TimesTyped, TraceInv, Grows, TreeBecomes
<1>12. OwedGood'
  BY <1>4, OwedFrame
<1>6. ASSUME NEW k \in Node PROVE KeptGood(k)'
  <2>1. CASE k = n
    BY <1>1, <1>3, <2>1, WorksCaches, KeptFrame
  <2>2. CASE k # n
    BY <1>3, <2>2, KeptSame
  <2> QED BY <2>1, <2>2
<1>7. \A k \in Node : HeardGood(k)'
  BY <1>1, WorksHeard
<1>8. \A k \in Node, i \in Id : SinceGood(k, i)'
  BY <1>1, WorksSince
<1>9. \A k, r \in Node, i \in Id : Progress(k, r, i)'
  BY <1>1, WorksProgress
<1>10. NetGood'
  <2> SUFFICES ASSUME NEW k \in Node, NEW r \in Node, NEW x \in OnWay(k, r)'
               PROVE  Travels(k, r, x)'
    BY DEF NetGood
  <2>1. CASE x \in OnWay(k, r)
    BY <1>3, <2>1, TravelsFrame
  <2>2. CASE x \notin OnWay(k, r)
    <3>1. k = n /\ x \in Emits(t, r)
      BY <1>1, <2>2 DEF Works
    <3> QED BY <1>1, <3>1, WorksSends
  <2> QED BY <2>1, <2>2
<1>11. BooksGood'
  <2>1. \A k \in Node : \A i \in DOMAIN log'[k] : since'[k][log'[k][i]] # 0
    BY <1>4, LogFrame
  <2>2. ASSUME NEW i \in Id, author'[i] # Nobody
        PROVE  since'[author'[i]][i] # 0 /\ Schedule[i] \in 1 .. clock'
    <3>1. author'[i] = author[i] /\ author[i] \in Node
      BY <1>4, <2>2, TraceTypes
    <3>2. since[author[i]][i] # 0 /\ Schedule[i] \in 1 .. clock
      BY <2>2, <3>1 DEF TraceInv, BooksGood
    <3> QED BY <1>3, <1>4, <3>1, <3>2
  <2> QED BY <2>1, <2>2 DEF BooksGood
<1> QED BY <1>2, <1>5, <1>6, <1>7, <1>8, <1>9, <1>10, <1>11, <1>12 DEF TraceInv

-----------------------------------------------------------------------------
(* The network, the views and the clock.                                   *)

\* Connections come and go, with what is under way on them, and so do peers.
LEMMA StillTrace ==
  ASSUME TraceInv, BroadcastInv', OwedGood',
         UNCHANGED <<author, log, since, grafted, clock, ticked>>,
         cut' \in [Node -> SUBSET Id], owed' \in [Node -> [Id -> SUBSET Node]],
         \A k \in Node : /\ tree'[k].received = tree[k].received
                         /\ tree'[k].observed = tree[k].observed
                         /\ tree'[k].out = tree[k].out
                         /\ cut[k] \subseteq cut'[k],
         \A k \in Node, i \in Id :
           /\ owed'[k][i] \subseteq owed[k][i]
           /\ owed'[k][i] \cap tree[k].lazy \subseteq tree'[k].lazy,
         \A k \in Node : \A o \in Records(tree[k].observed) :
           {k, o.sender} \in up => o.id \in cut'[k] \/ {k, o.sender} \in up',
         \A k, r \in Node :
           /\ OnWay(k, r)' \subseteq OnWay(k, r)
           /\ {k, r} \in up' => OnWay(k, r) \subseteq OnWay(k, r)'
  PROVE  TraceInv'
<1>1. Grows /\ TimesTyped'
  <2>1. TimesTyped
    BY DEF TraceInv
  <2>2. clock \in Nat /\ clock' \in Nat /\ clock' >= clock
    BY TraceTypes
  <2>3. Grows
    BY <2>1, <2>2, NoGrowth
  <2>4. TimesTyped'
    BY <2>1 DEF TimesTyped
  <2> QED BY <2>3, <2>4
<1>2. \A k \in Node : KeptGood(k)'
  BY <1>1, KeptSame
<1>3. ASSUME NEW k \in Node PROVE HeardGood(k)'
  <2>1. CacheGood(tree'[k].observed)
        /\ \A o \in Records(tree'[k].observed) : o \in Records(tree[k].observed)
    BY DEF TraceInv, HeardGood
  <2>2. ASSUME NEW o \in Records(tree[k].observed), o \in Entry, Asking(k, o)
        PROVE  Asking(k, o)'
    <3>1. o.sender \in Node
      BY <2>2, EntryFields
    <3>2. o.id \in cut[k] \/ {k, o.sender} \in up
      BY DEF TraceInv, HeardGood
    <3>3. o.id \in cut'[k] \/ {k, o.sender} \in up'
      BY <3>2
    <3>4. \/ o.id \in cut'[k]
          \/ /\ OnWay(k, o.sender) \subseteq OnWay(k, o.sender)'
             /\ OnWay(o.sender, k) \subseteq OnWay(o.sender, k)'
      BY <3>1, <3>3, Pairs
    <3> QED BY <2>2, <3>4, AskingFrame
  <2> QED BY <1>1, <2>1, <2>2, HeardFrame
<1>4. ASSUME NEW k \in Node, NEW i \in Id PROVE SinceGood(k, i)'
  <2>1. CASE since[k][i] = 0
    BY <2>1 DEF SinceGood
  <2>2. CASE since[k][i] # 0
    BY <1>1, <2>2, SinceFrame
  <2> QED BY <2>1, <2>2
<1>5. NetGood'
  <2> SUFFICES ASSUME NEW k \in Node, NEW r \in Node, NEW x \in OnWay(k, r)'
               PROVE  Travels(k, r, x)'
    BY DEF NetGood
  <2> QED BY <1>1, TravelsFrame
<1>6. BooksGood'
  BY DEF BooksGood, TraceInv
<1>7. ASSUME NEW k \in Node, NEW p \in Node, NEW i \in Id PROVE Progress(k, p, i)'
  <2>1. CASE since[k][i] = 0
    BY <2>1 DEF Progress
  <2>2. CASE since[k][i] # 0
    <3>1. ASSUME Underway(k, p, i), p \in owed'[k][i] PROVE Underway(k, p, i)'
      <4>1. {k, p} \in up'
        BY <3>1 DEF OwedGood
      <4>2. Pushed(k, p, i) => Pushed(k, p, i)'
        BY <4>1 DEF Pushed
      <4>3. Announced(k, p, i) => Announced(k, p, i)'
        BY <4>1 DEF Announced
      <4>4. p \in tree[k].lazy => p \in tree'[k].lazy
        BY <3>1
      <4>5. Records(tree'[p].observed) = Records(tree[p].observed)
        OBVIOUS
      <4> QED BY <3>1, <4>2, <4>3, <4>4, <4>5 DEF Underway
    <3>2. grafted[k][i] \subseteq grafted'[k][i] /\ owed'[k][i] \subseteq owed[k][i]
      OBVIOUS
    <3> QED BY <1>1, <2>2, <3>1, <3>2, ProgressFrame
  <2> QED BY <2>1, <2>2
<1> QED BY <1>1, <1>2, <1>3, <1>4, <1>5, <1>6, <1>7 DEF TraceInv

\* A connection is lost.
LEMMA LostTrace ==
  ASSUME TraceInv, NEW n \in Node, NEW p \in Node, ConnectionLost(n, p)
  PROVE  TraceInv'
<1> DEFINE S(k, i) == {q \in owed[k][i] : {k, q} # {n, p}}
           C(k) == {id \in Id : \E r \in FirstHeard(k, id) : {k, r.sender} = {n, p}}
<1>1. BroadcastInv' /\ BroadcastInv /\ TimesTyped /\ OwedGood
  BY LostKeeps DEF TraceInv
<1>2. /\ up' = up \ {{n, p}}
      /\ net' = [net EXCEPT ![n][p] = << >>, ![p][n] = << >>]
      /\ owed' = [k \in Node |-> [i \in Id |-> S(k, i)]]
      /\ cut' = [k \in Node |-> cut[k] \cup C(k)]
      /\ UNCHANGED <<tree, author, log, since, grafted, clock, ticked>>
  BY DEF ConnectionLost
<1> DEFINE W == Seq(SUBSET WireMessage)
<1>3. net \in [Node -> [Node -> W]]
  BY TraceTypes
<1> HIDE DEF W
<1>4. \A k, r \in Node :
        /\ net'[k][r] = net[k][r] \/ net'[k][r] = << >>
        /\ {k, r} # {n, p} => net'[k][r] = net[k][r]
  <2> DEFINE a == [net EXCEPT ![n][p] = << >>]
  <2>1. /\ \A k, r \in Node : a[k][r] = IF k = n /\ r = p THEN << >> ELSE net[k][r]
        /\ DOMAIN a = Node /\ \A k \in Node : DOMAIN a[k] = Node
    BY <1>3
  <2>2. net' = [a EXCEPT ![p][n] = << >>]
    BY <1>2
  <2> HIDE DEF a
  <2>3. \A k, r \in Node : net'[k][r] = IF k = p /\ r = n THEN << >> ELSE a[k][r]
    BY <2>1, <2>2
  <2> QED BY <2>1, <2>3
<1>5. Under(<< >>) = {}
  BY DEF Under
<1>6. \A k, r \in Node :
        /\ OnWay(k, r)' \subseteq OnWay(k, r)
        /\ {k, r} \in up' => OnWay(k, r) \subseteq OnWay(k, r)'
  BY <1>2, <1>4, <1>5 DEF OnWay
<1>7. ASSUME NEW k \in Node, NEW i \in Id
      PROVE  /\ S(k, i) \in SUBSET Node /\ S(k, i) \subseteq owed[k][i]
             /\ \A r \in S(k, i) : {k, r} \in up'
  <2>1. owed[k][i] \in SUBSET Node
    BY <1>1 DEF TimesTyped
  <2>2. S(k, i) \in SUBSET Node /\ S(k, i) \subseteq owed[k][i]
    BY <2>1
  <2>3. ASSUME NEW r \in S(k, i)
        PROVE  {k, r} \in up'
    <3>1. r \in Node /\ r \in owed[k][i] /\ {k, r} # {n, p}
      BY <2>1
    <3>2. {k, r} \in up
      BY <1>1, <3>1 DEF OwedGood
    <3> QED BY <1>2, <3>1, <3>2
  <2> QED BY <2>2, <2>3
<1>8. ASSUME NEW k \in Node, NEW o \in Records(tree[k].observed), {k, o.sender} \in up
      PROVE  o.id \in C(k) \/ {k, o.sender} \in up'
  <2>1. o.id \in Id
    BY TraceTypes, RecordsTyped, EntryFields
  <2>2. o \in FirstHeard(k, o.id)
    BY DEF FirstHeard, Records
  <2> QED BY <1>2, <1>8, <2>1, <2>2
<1>9. \A k \in Node : C(k) \in SUBSET Id
  OBVIOUS
<1> HIDE DEF S, C
<1>10. /\ owed' \in [Node -> [Id -> SUBSET Node]]
       /\ \A k \in Node, i \in Id : owed'[k][i] = S(k, i)
  BY <1>2, <1>7
<1>11. OwedGood'
  BY <1>7, <1>10 DEF OwedGood
<1>12. /\ cut' \in [Node -> SUBSET Id]
       /\ \A k \in Node : cut'[k] = cut[k] \cup C(k)
  BY <1>1, <1>2, <1>9 DEF TimesTyped
<1>13. \A k \in Node : cut[k] \subseteq cut'[k]
  BY <1>12
<1>14. \A k \in Node, i \in Id : owed'[k][i] \subseteq owed[k][i]
  BY <1>7, <1>10
<1>15. \A k \in Node : \A o \in Records(tree[k].observed) :
         {k, o.sender} \in up => o.id \in cut'[k] \/ {k, o.sender} \in up'
  BY <1>8, <1>12
<1>16. \A k \in Node, i \in Id : owed'[k][i] \cap tree[k].lazy \subseteq tree'[k].lazy
  BY <1>2
<1>17. \A k \in Node : /\ tree'[k].received = tree[k].received
                       /\ tree'[k].observed = tree[k].observed
                       /\ tree'[k].out = tree[k].out
  BY <1>2
<1> QED BY <1>1, <1>2, <1>6, <1>10, <1>11, <1>12, <1>13, <1>14, <1>15, <1>16, <1>17, StillTrace

\* A connection is opened.
LEMMA OpenedTrace ==
  ASSUME TraceInv, NEW n \in Node, NEW p \in Node, ConnectionOpened(n, p)
  PROVE  TraceInv'
<1>1. BroadcastInv' /\ TimesTyped /\ OwedGood
  BY OpenedKeeps DEF TraceInv
<1>2. /\ up' = up \cup {{n, p}}
      /\ UNCHANGED <<tree, net, author, log, since, owed, grafted, cut, clock, ticked>>
  BY DEF ConnectionOpened, history
<1>3. OwedGood'
  BY <1>1, <1>2 DEF OwedGood
<1>4. owed' \in [Node -> [Id -> SUBSET Node]] /\ cut' \in [Node -> SUBSET Id]
  BY <1>1, <1>2 DEF TimesTyped
<1>5. \A k, r \in Node : OnWay(k, r)' = OnWay(k, r)
  BY <1>2 DEF OnWay
<1> QED BY <1>1, <1>2, <1>3, <1>4, <1>5, StillTrace

\* A peer leaves the view of n.
LEMMA DownTrace ==
  ASSUME TraceInv, NEW n \in Node, NEW p \in Node, NeighborDown(n, p)
  PROVE  TraceInv'
<1> DEFINE t == InjectNeighborDown(tree[n], p)
           g == [i \in Id |-> owed[n][i] \ {p}]
<1>1. BroadcastInv' /\ tree \in [Node -> Tree] /\ IsTree(tree[n]) /\ TimesTyped /\ OwedGood
  BY DownKeeps, TraceTypes, TreeFields DEF TraceInv
<1>2. /\ tree' = [tree EXCEPT ![n] = t]
      /\ owed' = [owed EXCEPT ![n] = g]
      /\ UNCHANGED <<net, up, author, log, since, grafted, cut, clock, ticked>>
  BY <1>1 DEF NeighborDown, TimesTyped
<1>3. /\ t.received = tree[n].received /\ t.observed = tree[n].observed
      /\ t.out = tree[n].out /\ t.lazy = tree[n].lazy \ {p}
  BY <1>1 DEF InjectNeighborDown, IsTree
<1>4. g \in [Id -> SUBSET Node] /\ \A i \in Id : g[i] = owed[n][i] \ {p}
  BY <1>1 DEF TimesTyped
<1> HIDE DEF t, g
<1>5. tree'[n] = t /\ \A k \in Node : k # n => tree'[k] = tree[k]
  BY <1>1, <1>2
<1>6. /\ owed' \in [Node -> [Id -> SUBSET Node]] /\ owed'[n] = g
      /\ \A k \in Node : k # n => owed'[k] = owed[k]
  BY <1>1, <1>2, <1>4 DEF TimesTyped
<1>7. \A k \in Node, i \in Id :
        /\ owed'[k][i] \subseteq owed[k][i]
        /\ owed'[k][i] \cap tree[k].lazy \subseteq tree'[k].lazy
  BY <1>3, <1>4, <1>5, <1>6
<1>8. OwedGood'
  BY <1>1, <1>2, <1>7 DEF OwedGood
<1>9. \A k \in Node : /\ tree'[k].received = tree[k].received
                      /\ tree'[k].observed = tree[k].observed
                      /\ tree'[k].out = tree[k].out
  BY <1>3, <1>5
<1>10. \A k, r \in Node : OnWay(k, r)' = OnWay(k, r)
  BY <1>2 DEF OnWay
<1>11. cut' \in [Node -> SUBSET Id]
  BY <1>1, <1>2 DEF TimesTyped
<1> QED BY <1>1, <1>2, <1>6, <1>7, <1>8, <1>9, <1>10, <1>11, StillTrace

\* A peer comes back to the view of n.
LEMMA UpTrace ==
  ASSUME TraceInv, NEW n \in Node, NEW p \in Node, NeighborUp(n, p)
  PROVE  TraceInv'
<1> DEFINE t == InjectNeighborUp(tree[n], p)
<1>1. BroadcastInv' /\ tree \in [Node -> Tree] /\ IsTree(tree[n]) /\ TimesTyped /\ OwedGood
  BY UpKeeps, TraceTypes, TreeFields DEF TraceInv
<1>2. /\ tree' = [tree EXCEPT ![n] = t]
      /\ UNCHANGED <<net, up, author, log, since, owed, grafted, cut, clock, ticked>>
  BY DEF NeighborUp, history
<1>3. /\ t.received = tree[n].received /\ t.observed = tree[n].observed
      /\ t.out = tree[n].out /\ t.lazy = tree[n].lazy
  BY <1>1 DEF InjectNeighborUp, IsTree
<1> HIDE DEF t
<1>4. tree'[n] = t /\ \A k \in Node : k # n => tree'[k] = tree[k]
  BY <1>1, <1>2
<1>5. \A k \in Node : /\ tree'[k].received = tree[k].received
                      /\ tree'[k].observed = tree[k].observed
                      /\ tree'[k].out = tree[k].out
                      /\ tree'[k].lazy = tree[k].lazy
  BY <1>3, <1>4
<1>6. OwedGood'
  BY <1>1, <1>2 DEF OwedGood
<1>7. owed' \in [Node -> [Id -> SUBSET Node]] /\ cut' \in [Node -> SUBSET Id]
  BY <1>1, <1>2 DEF TimesTyped
<1>8. \A k, r \in Node : OnWay(k, r)' = OnWay(k, r)
  BY <1>2 DEF OnWay
<1> QED BY <1>1, <1>2, <1>5, <1>6, <1>7, <1>8, StillTrace

\* When nothing is under way, nothing is on its way.
LEMMA QuietWays ==
  ASSUME Quiet, NEW n \in Node, NEW p \in Node
  PROVE  /\ OnWay(n, p) = {}
         /\ \A id : ~Pushed(n, p, id) /\ ~Announced(n, p, id) /\ ~Asked(n, p, id)
<1>1. Under(<< >>) = {}
  BY DEF Under
<1>2. OnWay(n, p) = {}
  BY <1>1 DEF OnWay, Quiet
<1> QED BY <1>2 DEF Pushed, Announced, Asked

\* Time passes: what had to be done in this instant has been done.
LEMMA AdvanceTrace ==
  ASSUME TraceInv, BroadcastInv', Advance
  PROVE  TraceInv'
<1>1. /\ Quiet /\ ticked = Node /\ clock' = clock + 1 /\ ticked' = {}
      /\ UNCHANGED <<tree, net, up, author, log, since, owed, grafted, cut>>
  BY DEF Advance, overlay, history
<1>2. Grows /\ clock \in Nat /\ clock' \in Nat /\ clock' >= clock /\ TimesTyped'
  <2>1. TimesTyped
    BY DEF TraceInv
  <2>2. clock \in Nat /\ clock' \in Nat /\ clock' >= clock
    <3>1. clock \in Nat
      BY TraceTypes
    <3> QED BY <1>1, <3>1
  <2>3. Grows
    BY <1>1, <2>1, <2>2, NoGrowth
  <2>4. TimesTyped'
    BY <1>1, <2>1 DEF TimesTyped
  <2> QED BY <2>2, <2>3, <2>4
<1>3. \A k \in Node : KeptGood(k)'
  BY <1>1, <1>2, KeptSame
<1>4. ASSUME NEW k \in Node PROVE HeardGood(k)'
  <2>1. CacheGood(tree'[k].observed)
        /\ \A o \in Records(tree'[k].observed) : o \in Records(tree[k].observed)
    BY <1>1 DEF TraceInv, HeardGood
  <2>2. ASSUME NEW o \in Records(tree[k].observed), o \in Entry, Asking(k, o)
        PROVE  Asking(k, o)'
    <3>1. o.time \in Nat /\ o.sender \in Node
      BY <2>2, EntryFields
    <3>2. ~Asked(k, o.sender, o.id) /\ ~Pushed(o.sender, k, o.id)
      BY <1>1, <3>1, QuietWays
    <3>3. o.id \in cut[k] \/ clock < o.time + 3
      BY <1>1, <2>2, <3>2 DEF Asking
    <3>4. CASE o.id \in cut[k]
      BY <1>1, <3>4 DEF Asking
    <3>5. CASE clock < o.time + 3
      <4>1. clock' < o.time + 3 \/ clock' = o.time + 3
        BY <1>1, <1>2, <3>1, <3>5
      <4>2. k \notin ticked'
        BY <1>1
      <4> QED BY <4>1, <4>2 DEF Asking
    <3> QED BY <3>3, <3>4, <3>5
  <2>3. cut[k] \subseteq cut'[k] /\ up' = up
    BY <1>1
  <2> QED BY <1>2, <2>1, <2>2, <2>3, HeardFrame
<1>5. ASSUME NEW k \in Node, NEW i \in Id PROVE SinceGood(k, i)'
  <2>1. CASE since[k][i] = 0
    BY <1>1, <2>1 DEF SinceGood
  <2>2. CASE since[k][i] # 0
    BY <1>1, <1>2, <2>2, SinceFrame
  <2> QED BY <2>1, <2>2
<1>6. NetGood'
  <2>1. \A k, r \in Node : OnWay(k, r)' = {}
    <3>1. \A k, r \in Node : OnWay(k, r) = {}
      BY <1>1, QuietWays
    <3> QED BY <1>1, <3>1 DEF OnWay
  <2> QED BY <2>1 DEF NetGood
<1>7. BooksGood'
  <2>1. \A k \in Node : \A i \in DOMAIN log'[k] : since'[k][log'[k][i]] # 0
    BY <1>1 DEF TraceInv, BooksGood
  <2>2. ASSUME NEW i \in Id, author'[i] # Nobody
        PROVE  since'[author'[i]][i] # 0 /\ Schedule[i] \in 1 .. clock'
    <3>1. since[author[i]][i] # 0 /\ Schedule[i] \in 1 .. clock
      BY <1>1, <2>2 DEF TraceInv, BooksGood
    <3>2. Schedule[i] \in 1 .. clock'
      BY <1>1, <1>2, <3>1
    <3> QED BY <1>1, <3>1, <3>2
  <2> QED BY <2>1, <2>2 DEF BooksGood
<1>8. ASSUME NEW k \in Node, NEW p \in Node, NEW i \in Id PROVE Progress(k, p, i)'
  <2>1. CASE since[k][i] = 0
    BY <1>1, <2>1 DEF Progress
  <2>2. CASE since[k][i] # 0
    <3>1. ASSUME Underway(k, p, i) PROVE Underway(k, p, i)'
      <4>1. ~Pushed(k, p, i) /\ ~Announced(k, p, i)
        BY <1>1, QuietWays
      <4>2. CASE p \in tree[k].lazy /\ clock = since[k][i]
        BY <1>1, <4>2 DEF Underway
      <4>3. CASE \E o \in Records(tree[p].observed) : o.id = i /\ o.time =< since[k][i] + 1
        BY <1>1, <4>3 DEF Underway
      <4> QED BY <1>1, <3>1, <4>1, <4>2, <4>3 DEF Underway
    <3>2. grafted[k][i] \subseteq grafted'[k][i] /\ owed'[k][i] \subseteq owed[k][i]
      BY <1>1
    <3> QED BY <1>2, <2>2, <3>1, <3>2, ProgressFrame
  <2> QED BY <2>1, <2>2
<1>9. OwedGood'
  BY <1>1 DEF OwedGood, TraceInv
<1> QED BY <1>2, <1>3, <1>4, <1>5, <1>6, <1>7, <1>8, <1>9 DEF TraceInv

\* At first nothing has happened.
LEMMA InitTrace == Init => TraceInv
<1> SUFFICES ASSUME Init PROVE TraceInv
  OBVIOUS
<1>1. BroadcastInv
  BY InitBroadcast
<1>2. ASSUME NEW n \in Node
      PROVE  tree[n].received = EmptyCache /\ tree[n].observed = EmptyCache /\ tree[n].out = << >>
  <2>1. PICK pruned \in Pruned :
          tree = [k \in Node |->
                    [EmptyTree EXCEPT
                       !.eager = {p \in Neighbours(k) : {k, p} \notin pruned},
                       !.lazy = {p \in Neighbours(k) : {k, p} \in pruned}]]
    BY DEF Init
  <2> DEFINE x == {p \in Neighbours(n) : {n, p} \notin pruned}
             y == {p \in Neighbours(n) : {n, p} \in pruned}
  <2>2. tree[n] = [EmptyTree EXCEPT !.eager = x, !.lazy = y]
    BY <2>1
  <2> HIDE DEF x, y
  <2> QED BY <2>2 DEF EmptyTree
<1>3. CacheGood(EmptyCache) /\ Records(EmptyCache) = {} /\ DOMAIN EmptyCache.data = {}
  BY DEF CacheGood, Ordered, Keyed, Records, EmptyCache
<1>4. \A n \in Node, id \in Id : since[n][id] = 0
  BY DEF Init
<1>5. TimesTyped
  <2>1. since \in [Node -> [Id -> Nat]]
    BY DEF Init
  <2>2. /\ owed \in [Node -> [Id -> SUBSET Node]] /\ grafted \in [Node -> [Id -> SUBSET Node]]
        /\ cut \in [Node -> SUBSET Id]
    <3>1. {} \in SUBSET Node /\ {} \in SUBSET Id
      OBVIOUS
    <3> QED BY <3>1 DEF Init
  <2> QED BY <1>2, <2>1, <2>2 DEF TimesTyped
<1>11. OwedGood
  BY DEF Init, OwedGood
<1>6. \A n \in Node : KeptGood(n) /\ HeardGood(n)
  BY <1>2, <1>3 DEF KeptGood, HeardGood
<1>7. \A n \in Node, id \in Id : SinceGood(n, id)
  BY <1>4 DEF SinceGood
<1>8. NetGood
  <2>1. Quiet
    BY DEF Init, Quiet
  <2> QED BY <2>1, QuietWays DEF NetGood
<1>9. BooksGood
  <2>1. \A n \in Node : DOMAIN log[n] = {}
    <3>1. \A n \in Node : log[n] = << >>
      BY DEF Init
    <3>2. DOMAIN << >> = {}
      OBVIOUS
    <3> QED BY <3>1, <3>2
  <2>2. \A id \in Id : author[id] = Nobody
    BY DEF Init
  <2> QED BY <2>1, <2>2 DEF BooksGood
<1>10. \A n, p \in Node, id \in Id : Progress(n, p, id)
  BY <1>4 DEF Progress
<1> QED BY <1>1, <1>5, <1>6, <1>7, <1>8, <1>9, <1>10, <1>11 DEF TraceInv

\* The inductive invariant holds in every reachable state: where a message
\* can be while it is younger than the history window (tree.rs 142-349).
THEOREM TraceInvariant == Spec => []TraceInv
<1>1. TraceInv /\ [Next]_vars => TraceInv'
  <2> SUFFICES ASSUME TraceInv, [Next]_vars PROVE TraceInv'
    OBVIOUS
  <2>1. ASSUME NEW n \in Node, Tick(n) PROVE TraceInv'
    BY <2>1, TickTrace
  <2>2. ASSUME NEW n \in Node, NEW id \in Id, PublishMessage(n, id) PROVE TraceInv'
    BY <2>2, PublishTrace
  <2>3. ASSUME NEW n \in Node, NEW p \in Node, Deliver(n, p) PROVE TraceInv'
    BY <2>3, DeliverKeepsTrace
  <2>4. ASSUME NEW n \in Node, NEW p \in Node, ConnectionLost(n, p) PROVE TraceInv'
    BY <2>4, LostTrace
  <2>5. ASSUME NEW n \in Node, NEW p \in Node, NeighborDown(n, p) PROVE TraceInv'
    BY <2>5, DownTrace
  <2>8. ASSUME NEW n \in Node, NEW p \in Node, ConnectionOpened(n, p) PROVE TraceInv'
    BY <2>8, OpenedTrace
  <2>9. ASSUME NEW n \in Node, NEW p \in Node, NeighborUp(n, p) PROVE TraceInv'
    BY <2>9, UpTrace
  <2>6. CASE Advance
    <3>1. BroadcastInv'
      <4>1. BroadcastInv
        BY DEF TraceInv
      <4>2. /\ clock' \in 1 .. MaxTime /\ ticked' = {}
            /\ UNCHANGED <<tree, net, up, peers, changes, author, log, strays>>
        BY <2>6, <4>1, BroadcastAssumption DEF Advance, BroadcastInv, overlay, history
      <4> QED BY <4>1, <4>2 DEF BroadcastInv, Sides
    <3> QED BY <2>6, <3>1, AdvanceTrace
  <2>7. CASE UNCHANGED vars
    <3>1. UNCHANGED <<tree, net, up, peers, changes, author, log, strays, since, owed,
                      grafted, cut, clock, ticked>>
      BY <2>7 DEF vars, overlay, history
    <3>2. BroadcastInv'
      BY <3>1 DEF TraceInv, BroadcastInv, Sides
    <3>3. \A k, r \in Node : OnWay(k, r)' = OnWay(k, r)
      BY <3>1 DEF OnWay
    <3>4. OwedGood' /\ cut' \in [Node -> SUBSET Id] /\ owed' \in [Node -> [Id -> SUBSET Node]]
      BY <3>1 DEF TraceInv, OwedGood, TimesTyped
    <3> QED BY <3>1, <3>2, <3>3, <3>4, StillTrace
  <2> QED BY <2>1, <2>2, <2>3, <2>4, <2>5, <2>6, <2>7, <2>8, <2>9 DEF Next
<1> QED BY <1>1, InitTrace, PTL DEF Spec

\* No path that a MESSAGE or an IHAVE tells of is longer than the number of
\* nodes while the message is younger than the history window: every node
\* pushes it on once, because it remembers it (tree.rs 142-161, 259-265).
THEOREM PathsBounded == Spec => []HopBound
<1>1. TraceInv => HopBound
  <2> SUFFICES ASSUME TraceInv, NEW n \in Node, NEW p \in Node, NEW i \in DOMAIN net[n][p],
                      NEW m \in net[n][p][i], m.type \in {"MESSAGE", "ANNOUNCE"},
                      Fresh(m.id)
               PROVE  m.hop =< Cardinality(Node)
    BY DEF HopBound
  <2>1. m \in OnWay(n, p)
    BY DEF OnWay, Under
  <2>2. m \in WireMessage
    <3>1. net[n][p] \in Seq(SUBSET WireMessage)
      BY TraceTypes
    <3> QED BY <2>1, <3>1, OnWayTyped DEF OnWay
  <2>3. m.hop \in Nat
    BY <2>2 DEF WireMessage
  <2>4. m.hop =< Count(m.id)
    BY <2>1 DEF TraceInv, NetGood, Travels, ShortPath
  <2>5. Count(m.id) \in Nat /\ Count(m.id) =< Cardinality(Node) /\ Cardinality(Node) \in Nat
    BY CountTyped, Windows, FS_CardinalityType
  <2> QED BY <2>3, <2>4, <2>5
<1> QED BY <1>1, TraceInvariant, PTL

\* A node that has a message has brought it to each of its active peers four
\* instants later, over an eager link or by IHAVE, GRAFT and replay, with the
\* two exceptions of DeliveredInTime, however peers and connections come and
\* go (tree.rs 267-349).  The read of repair_tree has to be wide enough for an
\* announcement that is three instants old.
THEOREM RepairedInTime ==
  ASSUME LazyPushWindow > 3
  PROVE  Spec => []DeliveredInTime
<1>1. TraceInv => DeliveredInTime
  <2> SUFFICES ASSUME TraceInv, NEW n \in Node, NEW id \in Id, NEW p \in owed[n][id], Over,
                      Fresh(id), since[n][id] # 0, clock = since[n][id] + RepairTime,
                      since[p][id] = 0, p \notin grafted[n][id]
               PROVE  id \in cut[p]
    BY DEF DeliveredInTime
  <2>1. p \in Node
    BY DEF TraceInv, TimesTyped
  <2>2. clock \in Nat /\ since[n][id] \in Nat /\ clock = since[n][id] + 4
    BY TraceTypes DEF RepairTime
  <2>3. Quiet /\ ticked = Node
    BY DEF Over
  <2>4. clock =< since[n][id] + 4
    BY <2>2
  <2>5. Underway(n, p, id)
    BY <2>1, <2>4 DEF TraceInv, Progress
  <2>6. ~Pushed(n, p, id) /\ ~Announced(n, p, id)
    BY <2>1, <2>3, QuietWays
  <2>7. ~(clock = since[n][id]) /\ ~(clock = since[n][id] + 1)
    BY <2>2
  <2>8. PICK o \in Records(tree[p].observed) : o.id = id /\ o.time =< since[n][id] + 1
    BY <2>5, <2>6, <2>7 DEF Underway
  <2>9. o.time \in Nat /\ o.sender \in Node
    BY <2>1, TraceTypes, RecordsTyped, EntryFields
  <2>10. Asking(p, o)
    BY <2>1, <2>8 DEF TraceInv, HeardGood, Misses
  <2>11. ~Asked(p, o.sender, o.id) /\ ~Pushed(o.sender, p, o.id)
    BY <2>1, <2>3, <2>9, QuietWays
  <2>12. ~(clock < o.time + 3)
    BY <2>2, <2>8, <2>9
  <2> QED BY <2>1, <2>3, <2>8, <2>10, <2>11, <2>12 DEF Asking
<1> QED BY <1>1, TraceInvariant, PTL

-----------------------------------------------------------------------------
(* The service.                                                            *)

\* Only a first copy is handed to the application.
LEMMA DeliveredHands ==
  ASSUME TraceInv, NEW n \in Node, NEW p \in Node, NEW m, NEW t, Delivers(n, p, m, t)
  PROVE  \/ m.type = "MESSAGE" /\ ~Has(tree[p].received, m.id) /\ Handed(t) = <<m.id>>
         \/ Handed(t) = << >>
<1> DEFINE v == tree[p]
           id == m.id
           hop == m.hop
<1>1. m \in WireMessage /\ t = Receive(v, n, m) /\ v \in Tree /\ v.out = << >> /\ clock \in Nat
  BY DeliveredMessage, TraceTypes
<1>2. m.type \in {"MESSAGE", "ANNOUNCE", "PRUNE", "GRAFT"}
  BY <1>1 DEF WireMessage
<1>3. m.type \in {"MESSAGE", "ANNOUNCE"} => id \in Id /\ hop \in Nat
  BY <1>1 DEF WireMessage
<1>4. CASE m.type = "MESSAGE" /\ ~Has(v.received, id)
  <2>1. t = InjectMessage(v, n, id, hop, clock)
    BY <1>1, <1>4 DEF Receive
  <2> HIDE DEF v, id, hop
  <2>2. LET u == InjectMessage(v, n, id, hop, clock) IN Handed(u) = <<id>>
    BY <1>1, <1>3, <1>4, FirstDoes
  <2> QED BY <1>4, <2>1, <2>2 DEF v, id
<1>5. CASE m.type = "MESSAGE" /\ Has(v.received, id)
  <2>1. t = InjectMessage(v, n, id, hop, clock)
    BY <1>1, <1>5 DEF Receive
  <2> HIDE DEF v, id, hop
  <2>2. LET u == InjectMessage(v, n, id, hop, clock) IN Handed(u) = << >>
    BY <1>1, <1>3, <1>5, LaterDoes
  <2> QED BY <2>1, <2>2
<1>6. CASE m.type = "ANNOUNCE"
  <2>1. t = InjectIHave(v, n, id, hop, clock)
    BY <1>1, <1>6 DEF Receive
  <2> HIDE DEF v, id, hop
  <2>2. LET u == InjectIHave(v, n, id, hop, clock) IN Handed(u) = << >>
    BY <1>1, <1>3, <1>6, IHaveDoes
  <2> QED BY <2>1, <2>2
<1>7. CASE m.type = "PRUNE"
  <2>1. t = InjectPrune(v, n)
    BY <1>1, <1>7 DEF Receive
  <2> HIDE DEF v
  <2>2. LET u == InjectPrune(v, n) IN Handed(u) = << >>
    BY <1>1, PruneDoes
  <2> QED BY <2>1, <2>2
<1>8. CASE m.type = "GRAFT"
  <2> DEFINE ids == m.ids
  <2>1. t = InjectGraft(v, n, ids) /\ ids \in SUBSET Id
    BY <1>1, <1>8 DEF Receive, WireMessage
  <2> HIDE DEF v, ids
  <2>2. LET u == InjectGraft(v, n, ids) IN Handed(u) = << >>
    BY <1>1, <2>1, GraftDoes
  <2> QED BY <2>1, <2>2
<1> QED BY <1>2, <1>4, <1>5, <1>6, <1>7, <1>8

\* The logs after a step of one tree.
LEMMA LogBecomes ==
  ASSUME TraceInv, BroadcastInv', NEW n \in Node, NEW t, TreeBecomes(n, t)
  PROVE  /\ Handed(t) = << >> => log' = log
         /\ \A id \in Id : Handed(t) = <<id>> => log' = [log EXCEPT ![n] = Append(@, id)]
<1>1. log \in [Node -> Seq(Id)] /\ log' \in [Node -> Seq(Id)] /\ log[n] \in Seq(Id)
  BY TraceTypes DEF BroadcastInv
<1>2. log'[n] = log[n] \o Handed(t) /\ \A k \in Node : k # n => log'[k] = log[k]
  BY DEF TreeBecomes
<1>3. ASSUME Handed(t) = << >> PROVE log' = log
  <2>1. log'[n] = log[n]
    BY <1>1, <1>2, <1>3, ConcatEmptySeq
  <2> QED BY <1>1, <1>2, <2>1
<1>4. ASSUME NEW id \in Id, Handed(t) = <<id>>
      PROVE  log' = [log EXCEPT ![n] = Append(@, id)]
  <2> DEFINE a == log[n]
  <2>1. a \o <<id>> = Append(a, id)
    BY <1>1, AppendIsConcat
  <2>2. log'[n] = Append(log[n], id)
    BY <1>2, <1>4, <2>1
  <2> QED BY <1>1, <1>2, <2>2
<1> QED BY <1>3, <1>4

\* The messages that may have been forgotten.
Old == {id \in Id : author[id] # Nobody /\ ~Fresh(id)}

\* They stay while nothing is published and no time passes.
LEMMA OldStays ==
  ASSUME UNCHANGED <<author, clock>>
  PROVE  UNCHANGED Old
BY DEF Old, Fresh

\* A message comes to the application of a node that has not had it, from
\* another node that has; or it is old.
LEMMA DeliverServes ==
  ASSUME TraceInv, NEW n \in Node, NEW p \in Node, Deliver(n, p)
  PROVE  \/ UNCHANGED <<author, log, Old>>
         \/ \E id \in Id : Service!HandOver(p, id)
<1>1. BroadcastInv'
  BY DeliverKeeps DEF TraceInv
<1>2. PICK m, t : Delivers(n, p, m, t)
  BY DeliverDoes
<1>3. /\ TreeBecomes(p, t) /\ author' = author /\ m \in WireMessage /\ Travels(n, p, m)
      /\ Old' = Old
  <2>1. UNCHANGED <<author, clock>>
    BY <1>2 DEF Delivers
  <2> QED BY <1>2, <2>1, OldStays, DeliveredMessage
<1>4. CASE Handed(t) = << >>
  BY <1>1, <1>3, <1>4, LogBecomes
<1>5. CASE m.type = "MESSAGE" /\ ~Has(tree[p].received, m.id) /\ Handed(t) = <<m.id>>
  <2> DEFINE id == m.id
  <2>1. id \in Id
    BY <1>3, <1>5 DEF WireMessage
  <2>2. since[n][id] # 0
    BY <1>3, <1>5 DEF Travels
  <2>3. author[id] # Nobody
    BY <2>1, <2>2 DEF TraceInv, SinceGood
  <2>4. Fresh(id) => since[p][id] = 0
    BY <1>5, <2>1, Remembered
  <2>5. id \in Old \/ since[p][id] = 0
    BY <2>1, <2>3, <2>4 DEF Old
  <2>6. since[p][id] = 0 => author[id] # p /\ \A i \in DOMAIN log[p] : log[p][i] # id
    BY <2>1, <2>3 DEF TraceInv, BooksGood
  <2>7. log' = [log EXCEPT ![p] = Append(@, id)]
    BY <1>1, <1>3, <1>5, <2>1, LogBecomes
  <2> HIDE DEF id
  <2>8. Service!HandOver(p, id)
    BY <1>3, <2>3, <2>5, <2>6, <2>7 DEF Service!HandOver, Old
  <2> QED BY <2>1, <2>8
<1>6. \/ m.type = "MESSAGE" /\ ~Has(tree[p].received, m.id) /\ Handed(t) = <<m.id>>
      \/ Handed(t) = << >>
  BY <1>2, DeliveredHands
<1> QED BY <1>4, <1>5, <1>6

\* publish() hands nothing to the application of the author.
LEMMA PublishServes ==
  ASSUME TraceInv, NEW n \in Node, NEW id \in Id, PublishMessage(n, id)
  PROVE  Service!Release(n, id)
<1> DEFINE v == tree[n]
           t == Publish(v, n, id, clock)
<1>1. /\ author[id] = Nobody /\ author' = [author EXCEPT ![id] = n] /\ Handle(n, t, net)
      /\ Schedule[id] = clock /\ clock' = clock
  BY DEF PublishMessage
<1>2. BroadcastInv'
  BY PublishKeeps DEF TraceInv
<1>3. v \in Tree /\ v.out = << >> /\ clock \in Nat
  BY TraceTypes
<1>4. t \in Tree
  BY <1>3, PublishTyped
<1>5. Handed(t) = << >>
  <2> HIDE DEF v
  <2>1. CASE Has(v.received, id) \/ Has(v.observed, id)
    <3>1. t = v
      BY <2>1 DEF Publish
    <3>2. v.out \in Seq({}) /\ \A i \in DOMAIN v.out : FALSE
      BY <1>3
    <3> QED BY <3>1, <3>2, NothingHanded
  <2>2. CASE ~(Has(v.received, id) \/ Has(v.observed, id))
    <3>1. LET u == Publish(v, n, id, clock) IN Handed(u) = << >>
      BY <1>3, <2>2, PublishDoes
    <3> QED BY <3>1
  <2> QED BY <2>1, <2>2
<1> HIDE DEF t
<1>6. TreeBecomes(n, t)
  BY <1>1, <1>4, HandleDoes
<1>7. log' = log
  BY <1>2, <1>5, <1>6, LogBecomes
<1>8. Old' = Old
  <2>1. Fresh(id) /\ \A i \in Id : Fresh(i)' = Fresh(i)
    BY <1>1, <1>3, Windows DEF Fresh
  <2>2. \A i \in Id : i # id => author'[i] = author[i]
    BY <1>1, TraceTypes
  <2> QED BY <1>1, <2>1, <2>2 DEF Old
<1> QED BY <1>1, <1>7, <1>8 DEF Service!Release, Old

\* Time makes messages old, and does not make them new.
LEMMA AdvanceServes ==
  ASSUME TraceInv, Advance
  PROVE  Service!Age
<1>1. UNCHANGED <<author, log>> /\ clock' = clock + 1
  BY DEF Advance
<1>2. \A i \in Id : Fresh(i)' => Fresh(i)
  <2>1. clock \in Nat /\ clock' \in Nat /\ clock' >= clock
    BY <1>1, TraceTypes
  <2> QED BY <2>1, Ages
<1>3. Old \subseteq Old' /\ \A i \in Old' : author[i] # Nobody
  BY <1>1, <1>2 DEF Old
<1> QED BY <1>1, <1>3 DEF Service!Age, Old

\* Every step is a step of the service or leaves its state alone.
LEMMA StepServes ==
  ASSUME TraceInv, [Next]_vars
  PROVE  [Service!Next]_<<author, log, Old>>
<1>1. ASSUME NEW n \in Node, Tick(n) PROVE UNCHANGED <<author, log, Old>>
  <2>1. PICK t : Works(n, t)
    BY <1>1, TickWorks
  <2>2. TreeBecomes(n, t) /\ Handed(t) = << >> /\ UNCHANGED <<author, clock>>
    BY <2>1 DEF Works
  <2>3. BroadcastInv'
    BY <1>1, TickKeeps DEF TraceInv
  <2> QED BY <2>2, <2>3, LogBecomes, OldStays
<1>2. ASSUME NEW n \in Node, NEW id \in Id, PublishMessage(n, id) PROVE Service!Next
  BY <1>2, PublishServes DEF Service!Next
<1>3. ASSUME NEW n \in Node, NEW p \in Node, Deliver(n, p)
      PROVE  Service!Next \/ UNCHANGED <<author, log, Old>>
  BY <1>3, DeliverServes DEF Service!Next
<1>4. ASSUME NEW n \in Node, NEW p \in Node,
             \/ ConnectionLost(n, p) \/ ConnectionOpened(n, p)
             \/ NeighborDown(n, p) \/ NeighborUp(n, p)
      PROVE  UNCHANGED <<author, log, Old>>
  <2>1. UNCHANGED <<author, log, clock>>
    BY <1>4 DEF ConnectionLost, ConnectionOpened, NeighborDown, NeighborUp
  <2> QED BY <2>1, OldStays
<1>5. CASE Advance
  BY <1>5, AdvanceServes DEF Service!Next
<1>6. CASE UNCHANGED vars
  BY <1>6, OldStays DEF vars
<1> QED BY <1>1, <1>2, <1>3, <1>4, <1>5, <1>6 DEF Next

\* The trees together implement the service of a topic: a message is handed
\* to an application after somebody has published it, and while it is younger
\* than the history window once, and not to its author (tree.rs 142-161,
\* 259-265).
THEOREM BroadcastImplementsService == Spec => ImplementsService
<1>1. Init => Service!Init
  BY DEF Init, Service!Init
<1>2. TraceInv /\ [Next]_vars => [Service!Next]_<<author, log, Old>>
  BY StepServes
<1>3. Init /\ [][Next]_vars /\ []TraceInv
        => Service!Init /\ [][Service!Next]_<<author, log, Old>>
  BY <1>1, <1>2, PTL
<1> QED BY <1>3, TraceInvariant, PTL DEF Spec, ImplementsService, Service!Spec, Old
=============================================================================
