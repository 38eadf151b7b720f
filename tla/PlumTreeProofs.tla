--------------------------- MODULE PlumTreeProofs ---------------------------
(***************************************************************************)
(* What the methods of the broadcast tree do to its two peer sets: a PRUNE *)
(* and a GRAFT move their sender from one to the other, a second copy of a *)
(* message moves its sender to the lazy peers, and nothing else moves      *)
(* anybody.                                                                *)
(***************************************************************************)
EXTENDS PlumTree, TLAPS

IsTree(t) ==
  t = [eager |-> t.eager, lazy |-> t.lazy, received |-> t.received,
       observed |-> t.observed, out |-> t.out]

HasPeers(u, x, y) == IsTree(u) /\ u.eager = x /\ u.lazy = y

SamePeers(t, u) == IsTree(u) /\ u.eager = t.eager /\ u.lazy = t.lazy

MadeLazy(t, u, p) == IsTree(u) /\ u.eager = t.eager \ {p} /\ u.lazy = t.lazy \cup {p}

MadeEager(t, u, p) == IsTree(u) /\ u.eager = t.eager \cup {p} /\ u.lazy = t.lazy \ {p}

\* Replacing one of the other fields leaves the peers alone.
LEMMA Others ==
  ASSUME NEW t, IsTree(t), NEW x
  PROVE  /\ SamePeers(t, [t EXCEPT !.received = x])
         /\ SamePeers(t, [t EXCEPT !.observed = x])
         /\ SamePeers(t, [t EXCEPT !.out = x])
BY DEF IsTree, SamePeers

\* Replacing both peer sets at once.
LEMMA WithPeers ==
  ASSUME NEW t, IsTree(t), NEW x, NEW y, NEW u,
         u = [t EXCEPT !.eager = x, !.lazy = y]
  PROVE  HasPeers(u, x, y)
<1>1. PICK a, b, c, d, e :
        t = [eager |-> a, lazy |-> b, received |-> c, observed |-> d, out |-> e]
  BY DEF IsTree
<1>2. u \in [eager : {x}, lazy : {y}, received : {c}, observed : {d}, out : {e}]
  BY <1>1
<1> QED BY <1>2 DEF IsTree, HasPeers

\* The same, in the other order.
LEMMA WithLazyEager ==
  ASSUME NEW t, IsTree(t), NEW x, NEW y, NEW u,
         u = [t EXCEPT !.lazy = y, !.eager = x]
  PROVE  HasPeers(u, x, y)
<1>1. PICK a, b, c, d, e :
        t = [eager |-> a, lazy |-> b, received |-> c, observed |-> d, out |-> e]
  BY DEF IsTree
<1>2. u \in [eager : {x}, lazy : {y}, received : {c}, observed : {d}, out : {e}]
  BY <1>1
<1> QED BY <1>2 DEF IsTree, HasPeers

\* Replacing both caches at once.
LEMMA WithCaches ==
  ASSUME NEW t, IsTree(t), NEW x, NEW y, NEW u,
         u = [t EXCEPT !.observed = x, !.received = y]
  PROVE  SamePeers(t, u)
<1>1. PICK a, b, c, d, e :
        t = [eager |-> a, lazy |-> b, received |-> c, observed |-> d, out |-> e]
  BY DEF IsTree
<1>2. u \in [eager : {a}, lazy : {b}, received : {y}, observed : {x}, out : {e}]
  BY <1>1
<1> QED BY <1>1, <1>2 DEF IsTree, SamePeers

\* So do two changes in a row.
LEMMA SameTwice ==
  ASSUME NEW t, NEW u, NEW w, SamePeers(t, u), SamePeers(u, w)
  PROVE  SamePeers(t, w)
BY DEF SamePeers

\* Queueing events.
LEMMA PushTreeSame ==
  ASSUME NEW t, IsTree(t), NEW e
  PROVE  SamePeers(t, PushTree(t, e))
BY Others DEF PushTree

\* Queueing one event for each of several peers.
LEMMA SendEachSame ==
  ASSUME NEW t, IsTree(t), NEW msgs
  PROVE  SamePeers(t, SendEach(t, msgs))
<1>1. SamePeers(t, t)
  BY DEF SamePeers
<1> QED BY <1>1, PushTreeSame DEF SendEach

\* The same message for all of them.
LEMMA SendAllSame ==
  ASSUME NEW t, IsTree(t), NEW to, NEW m
  PROVE  SamePeers(t, SendAll(t, to, m))
BY SendEachSame DEF SendAll

\* publish().
LEMMA PublishSame ==
  ASSUME NEW t, IsTree(t), NEW n, NEW id, NEW now
  PROVE  SamePeers(t, Publish(t, n, id, now))
<1>1. CASE Has(t.received, id) \/ Has(t.observed, id)
  BY <1>1 DEF Publish, SamePeers
<1>2. CASE ~(Has(t.received, id) \/ Has(t.observed, id))
  <2> DEFINE u == SendAll(t, t.eager, MessageMsg(id, 1))
             w == [u EXCEPT !.received = Insert(@, Timed(id, 0, n, now))]
  <2>1. SamePeers(t, u)
    BY SendAllSame
  <2>2. Publish(t, n, id, now) = w
    BY <1>2 DEF Publish
  <2> HIDE DEF u
  <2>3. SamePeers(u, w)
    BY <2>1, Others DEF SamePeers
  <2> QED BY <2>1, <2>2, <2>3, SameTwice
<1> QED BY <1>1, <1>2

\* inject_neighbor_up and inject_neighbor_down.
LEMMA NeighborMoves ==
  ASSUME NEW t, IsTree(t), NEW p
  PROVE  /\ HasPeers(InjectNeighborUp(t, p), t.eager \cup {p}, t.lazy)
         /\ HasPeers(InjectNeighborDown(t, p), t.eager \ {p}, t.lazy \ {p})
<1>1. HasPeers(InjectNeighborUp(t, p), t.eager \cup {p}, t.lazy)
  BY DEF InjectNeighborUp, HasPeers, IsTree
<1> DEFINE x == t.eager \ {p}
           y == t.lazy \ {p}
           u == InjectNeighborDown(t, p)
<1>2. u = [t EXCEPT !.eager = x, !.lazy = y]
  BY DEF InjectNeighborDown
<1> HIDE DEF x, y, u
<1>3. HasPeers(u, x, y)
  BY <1>2, WithPeers
<1> QED BY <1>1, <1>3 DEF x, y, u

\* A received PRUNE.
LEMMA PruneMoves ==
  ASSUME NEW t, IsTree(t), NEW p
  PROVE  MadeLazy(t, InjectPrune(t, p), p)
<1> DEFINE x == t.eager \ {p}
           y == t.lazy \cup {p}
           u == InjectPrune(t, p)
<1>1. u = [t EXCEPT !.eager = x, !.lazy = y]
  BY DEF InjectPrune
<1> HIDE DEF x, y, u
<1>2. HasPeers(u, x, y)
  BY <1>1, WithPeers
<1> QED BY <1>2 DEF HasPeers, MadeLazy, x, y, u

\* A received GRAFT.
LEMMA GraftMoves ==
  ASSUME NEW t, IsTree(t), NEW p, NEW ids
  PROVE  MadeEager(t, InjectGraft(t, p, ids), p)
<1> DEFINE u == [t EXCEPT !.lazy = @ \ {p}, !.eager = @ \cup {p}]
           x == t.eager \cup {p}
           y == t.lazy \ {p}
<1>1. MadeEager(t, u, p)
  <2>1. u = [t EXCEPT !.lazy = y, !.eager = x]
    OBVIOUS
  <2> HIDE DEF x, y, u
  <2>2. HasPeers(u, x, y)
    BY <2>1, WithLazyEager
  <2> QED BY <2>2 DEF HasPeers, MadeEager, x, y
<1>2. InjectGraft(t, p, ids) = u \/ \E e : InjectGraft(t, p, ids) = PushTree(u, e)
  BY DEF InjectGraft
<1> HIDE DEF u
<1>3. \A e : SamePeers(u, PushTree(u, e))
  BY <1>1, PushTreeSame DEF MadeEager
<1> QED BY <1>1, <1>2, <1>3 DEF MadeEager, SamePeers

\* A received message makes its sender lazy at most, if it was eager.
LEMMA MessageMoves ==
  ASSUME NEW t, IsTree(t), NEW from, NEW id, NEW hop, NEW now
  PROVE  LET u == InjectMessage(t, from, id, hop, now)
         IN  SamePeers(t, u) \/ (from \in t.eager /\ MadeLazy(t, u, from))
<1> DEFINE u == [t EXCEPT !.received = Insert(@, Timed(id, hop, from, now))]
           w == InjectMessage(t, from, id, hop, now)
<1>1. SamePeers(t, u)
  BY Others
<1>2. CASE ~Has(t.received, id)
  <2> DEFINE x == PushTree(u, [type |-> "Message", id |-> id])
  <2>1. w = SendAll(x, u.eager \ {from}, MessageMsg(id, hop + 1))
    BY <1>2 DEF InjectMessage
  <2> HIDE DEF u, w
  <2>2. SamePeers(u, x)
    BY <1>1, PushTreeSame DEF SamePeers
  <2> HIDE DEF x
  <2>3. SamePeers(x, w)
    BY <2>1, <2>2, SendAllSame DEF SamePeers
  <2>4. SamePeers(t, w)
    BY <1>1, <2>2, <2>3, SameTwice
  <2> QED BY <2>4 DEF w
<1>3. CASE Has(t.received, id) /\ ~(OptimizeSenderTree /\ from \in u.eager)
  <2>1. w = u
    BY <1>3 DEF InjectMessage
  <2> HIDE DEF u
  <2> QED BY <1>1, <2>1
<1>4. CASE Has(t.received, id) /\ OptimizeSenderTree /\ from \in u.eager
  <2> DEFINE x == InjectPrune(u, from)
  <2>1. w = SendAll(x, {from}, PruneMsg) /\ from \in u.eager
    BY <1>4 DEF InjectMessage
  <2> HIDE DEF u, w
  <2>2. MadeLazy(u, x, from)
    BY <1>1, PruneMoves DEF SamePeers
  <2> HIDE DEF x
  <2>3. SamePeers(x, w)
    BY <2>1, <2>2, SendAllSame DEF MadeLazy
  <2>4. from \in t.eager /\ MadeLazy(t, w, from)
    BY <1>1, <2>1, <2>2, <2>3 DEF SamePeers, MadeLazy
  <2> QED BY <2>4 DEF w
<1> QED BY <1>2, <1>3, <1>4

\* An announcement.
LEMMA IHaveSame ==
  ASSUME NEW t, IsTree(t), NEW from, NEW id, NEW hop, NEW now
  PROVE  SamePeers(t, InjectIHave(t, from, id, hop, now))
BY Others DEF InjectIHave

\* The periodic work sends messages and forgets old ones.
LEMMA TickSame ==
  ASSUME NEW t, IsTree(t), NEW now
  PROVE  \A u \in TreeTick(t, now) : SamePeers(t, u)
<1>1. ASSUME NEW u \in PublishIHaves(t, now) PROVE SamePeers(t, u)
  <2>1. u = t \/ \E to, m : u = SendAll(t, to, m)
    BY <1>1 DEF PublishIHaves
  <2>2. SamePeers(t, t)
    BY DEF SamePeers
  <2> QED BY <2>1, <2>2, SendAllSame
<1>2. ASSUME NEW u, IsTree(u), NEW w \in RepairTree(u, now) PROVE SamePeers(u, w)
  <2>1. PICK msgs : w = PruneHistory(SendEach(u, msgs), now)
    BY <1>2 DEF RepairTree
  <2> DEFINE x == SendEach(u, msgs)
  <2>2. SamePeers(u, x)
    BY <1>2, SendEachSame
  <2> HIDE DEF x
  <2>3. SamePeers(x, PruneHistory(x, now))
    <3> DEFINE y == RemoveOlderThan(x.observed, Ago(now, HistoryWindow))
               z == RemoveOlderThan(x.received, Ago(now, HistoryWindow))
               v == PruneHistory(x, now)
    <3>1. v = [x EXCEPT !.observed = y, !.received = z]
      BY DEF PruneHistory
    <3>2. IsTree(x)
      BY <2>2 DEF SamePeers
    <3> HIDE DEF y, z, v
    <3>3. SamePeers(x, v)
      BY <3>1, <3>2, WithCaches
    <3> QED BY <3>3 DEF v
  <2> QED BY <2>1, <2>2, <2>3, SameTwice DEF x
<1> SUFFICES ASSUME NEW u \in PublishIHaves(t, now), NEW w \in RepairTree(u, now)
             PROVE  SamePeers(t, w)
  BY DEF TreeTick
<1>3. SamePeers(t, u)
  BY <1>1
<1> QED BY <1>2, <1>3, SameTwice DEF SamePeers
=============================================================================
