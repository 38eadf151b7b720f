--------------------------- MODULE HyParViewProofs ---------------------------
(***************************************************************************)
(* What every handler of HyParView preserves, whatever it draws at random: *)
(* the types, the limits of both views, and that no NEIGHBOR of high       *)
(* priority is ever queued, without which the limit of the active view     *)
(* could not be kept.                                                      *)
(***************************************************************************)
EXTENDS HyParView, FiniteSetTheorems, TLAPS

\* No request of high priority: the priority is computed from an active view
\* that holds at least the peer that is asked.
LowMessage == {m \in Message : m.type = "NEIGHBOR" => m.priority = "LOW"}
LowEvent == {e \in Event : e.type = "NotifyHandler" => e.msg \in LowMessage}

LowView == [active : SUBSET Node, passive : SUBSET Node, out : Seq(LowEvent)]

GoodView(n, v) ==
  /\ v \in LowView
  /\ Cardinality(v.active) =< MaxActive
  /\ Cardinality(v.passive) =< MaxPassive
  /\ n \notin v.active

-----------------------------------------------------------------------------

\* Sets of peers are finite and their sizes are numbers.
LEMMA NodeSets ==
  ASSUME NEW S \in SUBSET Node
  PROVE  IsFiniteSet(S) /\ Cardinality(S) \in Nat
BY NodeAssumption, FS_Subset, FS_CardinalityType

\* The limits are numbers.
LEMMA Limits ==
  MaxActive \in Nat /\ MaxPassive \in Nat /\ ShuffleMax \in Nat /\ MaxActive >= 2
BY MaxActiveAssumption, PassiveViewFactorAssumption, SMT
   DEF MaxPassive, ShuffleMax

\* Adding one peer raises the size by one at most; taking some away does not
\* raise it.
LEMMA AddOne ==
  ASSUME NEW S \in SUBSET Node, NEW p \in Node
  PROVE  Cardinality(S \cup {p}) =< Cardinality(S) + 1
BY NodeSets, FS_AddElement

\* A subset of a set of nodes is no larger.
LEMMA Fewer ==
  ASSUME NEW S \in SUBSET Node, NEW T \in SUBSET S
  PROVE  Cardinality(T) =< Cardinality(S)
BY NodeSets, FS_Subset

\* A sample holds at most as many members as asked for, all of S.
LEMMA SampleSize ==
  ASSUME NEW S \in SUBSET Node, NEW k \in Nat, NEW T \in Samples(S, k)
  PROVE  T \in SUBSET S /\ Cardinality(T) =< k
BY NodeSets DEF Samples

\* Every message the view constructs is a message without high priority.
LEMMA Constructors ==
  ASSUME NEW p \in Node, NEW S \in SUBSET Node, NEW t \in Ttl
  PROVE  /\ Join(p, t) \in LowMessage
         /\ ForwardJoin(p, t) \in LowMessage
         /\ Shuffle(p, S, t) \in LowMessage
BY DEF Join, ForwardJoin, Shuffle, LowMessage, Message

\* So are a NEIGHBOR of low priority and a shuffle reply.
LEMMA Answers ==
  ASSUME NEW p \in Node, NEW S \in SUBSET Node
  PROVE  /\ Neighbor(p, "LOW") \in LowMessage
         /\ ShuffleReply(S) \in LowMessage
BY DEF Neighbor, ShuffleReply, LowMessage, Message

\* So is the DISCONNECT of a peer that lost its slot.
LEMMA Farewell == Disconnect(TRUE) \in LowMessage
BY DEF Disconnect, LowMessage, Message

\* The events other than messages are events of the queue.
LEMMA Events ==
  ASSUME NEW p \in Node, NEW b \in BOOLEAN
  PROVE  /\ Dial(p, b) \in LowEvent
         /\ PeerAdded(p) \in LowEvent
         /\ PeerRemoved(p) \in LowEvent
BY DEF Dial, PeerAdded, PeerRemoved, LowEvent, Event

\* A group of low messages is an event of the queue.
LEMMA Notification ==
  ASSUME NEW to \in SUBSET Node, to # {}, NEW m \in LowMessage
  PROVE  NotifyHandler(to, m) \in LowEvent
BY DEF NotifyHandler, LowEvent, LowMessage, Event

\* Queueing an event leaves the two views alone.
LEMMA PushGood ==
  ASSUME NEW n \in Node, NEW v, GoodView(n, v), NEW e \in LowEvent
  PROVE  /\ GoodView(n, Push(v, e))
         /\ Push(v, e).active = v.active
         /\ Push(v, e).passive = v.passive
<1>1. v \in LowView
  BY DEF GoodView
<1>2. /\ Push(v, e) \in LowView
      /\ Push(v, e).active = v.active
      /\ Push(v, e).passive = v.passive
  BY <1>1 DEF LowView, Push
<1> QED BY <1>2 DEF GoodView

\* Queueing a message for a set of peers leaves the two views alone.
LEMMA SendGood ==
  ASSUME NEW n \in Node, NEW v, GoodView(n, v),
         NEW to \in SUBSET Node, NEW m \in LowMessage
  PROVE  /\ GoodView(n, Send(v, to, m))
         /\ Send(v, to, m).active = v.active
         /\ Send(v, to, m).passive = v.passive
<1>1. CASE to = {}
  BY <1>1 DEF Send
<1>2. CASE to # {}
  BY <1>2, Notification, PushGood DEF Send
<1> QED BY <1>1, <1>2

\* Replacing one of the two views by a set within its limit.
LEMMA WithActive ==
  ASSUME NEW n \in Node, NEW v, GoodView(n, v), NEW A \in SUBSET Node,
         n \notin A, Cardinality(A) =< MaxActive
  PROVE  /\ GoodView(n, [v EXCEPT !.active = A])
         /\ [v EXCEPT !.active = A].active = A
         /\ [v EXCEPT !.active = A].passive = v.passive
<1> DEFINE w == [v EXCEPT !.active = A]
<1>1. v \in LowView
  BY DEF GoodView
<1>2. w \in LowView /\ w.active = A /\ w.passive = v.passive
  BY <1>1 DEF LowView
<1> QED BY <1>2 DEF GoodView

\* The same for the passive view.
LEMMA WithPassive ==
  ASSUME NEW n \in Node, NEW v, GoodView(n, v), NEW P \in SUBSET Node,
         Cardinality(P) =< MaxPassive
  PROVE  /\ GoodView(n, [v EXCEPT !.passive = P])
         /\ [v EXCEPT !.passive = P].active = v.active
         /\ [v EXCEPT !.passive = P].passive = P
<1> DEFINE w == [v EXCEPT !.passive = P]
<1>1. v \in LowView
  BY DEF GoodView
<1>2. w \in LowView /\ w.active = v.active /\ w.passive = P
  BY <1>1 DEF LowView
<1> QED BY <1>2 DEF GoodView

\* The fields of a good view.
LEMMA GoodFields ==
  ASSUME NEW n \in Node, NEW v, GoodView(n, v)
  PROVE  /\ v.active \in SUBSET Node /\ v.passive \in SUBSET Node
         /\ v.out \in Seq(LowEvent)
         /\ Cardinality(v.active) \in Nat /\ Cardinality(v.passive) \in Nat
         /\ Cardinality(v.active) =< MaxActive
         /\ Cardinality(v.passive) =< MaxPassive
         /\ n \notin v.active
<1>1. v \in LowView
  BY DEF GoodView
<1>2. v.active \in SUBSET Node /\ v.passive \in SUBSET Node
      /\ v.out \in Seq(LowEvent)
  BY <1>1 DEF LowView
<1> QED BY <1>2, NodeSets DEF GoodView

-----------------------------------------------------------------------------
(* The helpers.                                                            *)

\* A peer may go into the active view when there is room for it.
LEMMA AddActiveGood ==
  ASSUME NEW n \in Node, NEW v, GoodView(n, v), NEW p \in Node,
         NEW initiator \in BOOLEAN,
         Cardinality(v.active \cup {p}) =< MaxActive
  PROVE  GoodView(n, AddActive(n, v, p, initiator))
<1>1. CASE ~NewPeer(n, v, p)
  BY <1>1 DEF AddActive
<1>2. CASE NewPeer(n, v, p)
  <2> DEFINE w == [v EXCEPT !.active = v.active \cup {p}]
             d == Push(w, Dial(p, FALSE))
             s == Send(d, {p}, Neighbor(n, PriorityOf(w.active)))
  <2>1. p # n
    BY <1>2 DEF NewPeer
  <2>2. GoodView(n, w) /\ w.active = v.active \cup {p}
    BY <2>1, GoodFields, WithActive
  <2>3. PriorityOf(w.active) = "LOW"
    BY <2>2 DEF PriorityOf
  <2>4. GoodView(n, d)
    BY <2>2, Events, PushGood
  <2>5. Neighbor(n, "LOW") \in LowMessage
    BY Answers
  <2>6. GoodView(n, s)
    <3> HIDE DEF d
    <3> QED BY <2>3, <2>4, <2>5, SendGood
  <2>7. GoodView(n, IF initiator THEN s ELSE w)
    BY <2>2, <2>6
  <2>8. AddActive(n, v, p, initiator)
          = Push(IF initiator THEN s ELSE w, PeerAdded(p))
    BY <1>2 DEF AddActive
  <2> QED
    <3> HIDE DEF s, w
    <3> QED BY <2>7, <2>8, Events, PushGood
<1> QED BY <1>1, <1>2

\* add_node_to_passive_view evicts a peer before the limit is passed.
LEMMA AddPassiveGood ==
  ASSUME NEW n \in Node, NEW v, GoodView(n, v), NEW p \in Node
  PROVE  \A w \in AddPassive(n, v, p) :
           GoodView(n, w) /\ w.active = v.active
<1> DEFINE q == v.passive \cup {p}
<1>1. q \in SUBSET Node /\ Cardinality(q) \in Nat
      /\ Cardinality(q) =< MaxPassive + 1
  BY GoodFields, AddOne, NodeSets, Limits
<1>2. CASE p = n
  BY <1>2 DEF AddPassive
<1>3. CASE p # n /\ Cardinality(q) > MaxPassive
  <2> SUFFICES ASSUME NEW r \in q
               PROVE  /\ GoodView(n, [v EXCEPT !.passive = q \ {r}])
                      /\ [v EXCEPT !.passive = q \ {r}].active = v.active
    BY <1>3 DEF AddPassive
  <2>1. Cardinality(q \ {r}) = Cardinality(q) - 1
    BY <1>1, NodeSets, FS_RemoveElement
  <2>2. Cardinality(q \ {r}) =< MaxPassive
    BY <1>1, <2>1, Limits
  <2> QED BY <1>1, <2>2, WithPassive
<1>4. CASE p # n /\ ~(Cardinality(q) > MaxPassive)
  <2>1. Cardinality(q) =< MaxPassive
    BY <1>1, <1>4, Limits
  <2>2. /\ GoodView(n, [v EXCEPT !.passive = q])
        /\ [v EXCEPT !.passive = q].active = v.active
    BY <1>1, <2>1, WithPassive
  <2> QED BY <1>4, <2>2 DEF AddPassive
<1> QED BY <1>2, <1>3, <1>4

\* The merge of a shuffle keeps the limit of the passive view.
LEMMA AddAllPassiveGood ==
  ASSUME NEW n \in Node, NEW v, GoodView(n, v), NEW S \in SUBSET Node
  PROVE  \A w \in AddAllPassive(v, S) :
           GoodView(n, w) /\ w.active = v.active
<1> SUFFICES ASSUME NEW w \in AddAllPassive(v, S)
             PROVE  GoodView(n, w) /\ w.active = v.active
  OBVIOUS
<1>0. PICK T \in Samples(v.passive \cup S, MaxPassive) :
        w = [v EXCEPT !.passive = T]
  BY DEF AddAllPassive
<1>1. v.passive \cup S \in SUBSET Node
  BY GoodFields
<1>2. T \in SUBSET Node /\ Cardinality(T) =< MaxPassive
  BY <1>1, SampleSize, Limits
<1> QED BY <1>0, <1>2, WithPassive

\* Whichever passive peer is drawn, the active view does not grow.
LEMMA FreeUpGood ==
  ASSUME NEW n \in Node, NEW v, GoodView(n, v)
  PROVE  \A w \in FreeUpActiveSlot(n, v) : GoodView(n, w)
<1>1. CASE ~Overconnected(v) \/ v.passive = {}
  BY <1>1 DEF FreeUpActiveSlot
<1>2. CASE ~(~Overconnected(v) \/ v.passive = {})
  <2> SUFFICES ASSUME NEW r \in v.passive
        PROVE \A w \in AddPassive(n,
                Push(Send([v EXCEPT !.active = v.active \ {r}], {r},
                          Disconnect(TRUE)),
                     PeerRemoved(r)),
                r) : GoodView(n, w)
    BY <1>2 DEF FreeUpActiveSlot
  <2> DEFINE u == [v EXCEPT !.active = v.active \ {r}]
             s == Send(u, {r}, Disconnect(TRUE))
             t == Push(s, PeerRemoved(r))
  <2>1. r \in Node /\ v.active \ {r} \in SUBSET Node /\ n \notin v.active \ {r}
        /\ Cardinality(v.active \ {r}) =< MaxActive
    BY GoodFields, Fewer, NodeSets, Limits
  <2>2. GoodView(n, u)
    BY <2>1, WithActive
  <2>3. Disconnect(TRUE) \in LowMessage
    BY Farewell
  <2>4. GoodView(n, s)
    <3> HIDE DEF u
    <3> QED BY <2>1, <2>2, <2>3, SendGood
  <2>5. GoodView(n, t)
    <3> HIDE DEF s
    <3> QED BY <2>1, <2>4, Events, PushGood
  <2> HIDE DEF t
  <2> QED BY <2>1, <2>5, AddPassiveGood DEF t, s, u
<1> QED BY <1>1, <1>2

\* JOIN and FORWARDJOIN admit into a view with room only.
LEMMA AdmitGood ==
  ASSUME NEW n \in Node, NEW v, GoodView(n, v), NEW p \in Node
  PROVE  \A w \in Admit(n, v, p) : GoodView(n, w)
<1>1. CASE Overconnected(v)
  BY <1>1, AddPassiveGood DEF Admit
<1>2. CASE ~Overconnected(v)
  <2>1. Cardinality(v.active \cup {p}) =< MaxActive
    BY <1>2, GoodFields, AddOne, NodeSets, Limits DEF Overconnected
  <2> QED BY <1>2, <2>1, AddActiveGood DEF Admit
<1> QED BY <1>1, <1>2

\* send_shuffle_reply only queues events.
LEMMA SendShuffleReplyGood ==
  ASSUME NEW n \in Node, NEW v, GoodView(n, v),
         NEW origin \in Node, NEW T \in SUBSET Node
  PROVE  /\ GoodView(n, SendShuffleReply(v, origin, T))
         /\ SendShuffleReply(v, origin, T).active = v.active
<1> DEFINE u == IF origin \in v.active THEN v ELSE Push(v, Dial(origin, TRUE))
<1>1. GoodView(n, u) /\ u.active = v.active
  BY Events, PushGood
<1>2. ShuffleReply(T) \in LowMessage
  BY Answers
<1> HIDE DEF u
<1>3. /\ GoodView(n, Send(u, {origin}, ShuffleReply(T)))
      /\ Send(u, {origin}, ShuffleReply(T)).active = v.active
  BY <1>1, <1>2, SendGood
<1> QED BY <1>3 DEF SendShuffleReply, u

-----------------------------------------------------------------------------
(* The handlers.                                                           *)

\* initiate_join only queues a JOIN.
LEMMA InitiateJoinGood ==
  ASSUME NEW n \in Node, NEW v, GoodView(n, v), NEW p \in Node
  PROVE  GoodView(n, InitiateJoin(n, v, p))
<1>1. WalkLength \in Ttl
  BY WalkLengthAssumption DEF Ttl
<1>2. Join(n, WalkLength) \in LowMessage
  BY <1>1, Constructors
<1> QED BY <1>2, SendGood DEF InitiateJoin

\* A forwarded JOIN goes to a part of the active view.
LEMMA ForwardGood ==
  ASSUME NEW n \in Node, NEW v, GoodView(n, v), NEW p \in Node,
         NEW sender \in Node, NEW t \in Ttl
  PROVE  GoodView(n, Send(v, v.active \ {p, sender}, ForwardJoin(p, t)))
<1>1. v.active \ {p, sender} \in SUBSET Node
  BY GoodFields
<1>2. ForwardJoin(p, t) \in LowMessage
  BY Constructors
<1> QED BY <1>1, <1>2, SendGood

\* inject_join keeps a view good.
LEMMA InjectJoinGood ==
  ASSUME NEW n \in Node, NEW v, GoodView(n, v), NEW sender \in Node,
         NEW p \in Node, NEW t \in Ttl
  PROVE  \A w \in InjectJoin(n, v, sender, p, t) : GoodView(n, w)
<1>1. CASE p \in v.active
  BY <1>1 DEF InjectJoin
<1>2. CASE p \notin v.active
  <2> SUFFICES ASSUME NEW w \in InjectJoin(n, v, sender, p, t)
               PROVE  GoodView(n, w)
    OBVIOUS
  <2>1. PICK u \in Admit(n, v, p) :
          w = Send(u, u.active \ {p, sender}, ForwardJoin(p, t))
    BY <1>2 DEF InjectJoin
  <2>2. GoodView(n, u)
    BY AdmitGood
  <2> QED BY <2>1, <2>2, ForwardGood
<1> QED BY <1>1, <1>2

\* inject_forward_join keeps a view good.
LEMMA InjectForwardJoinGood ==
  ASSUME NEW n \in Node, NEW v, GoodView(n, v), NEW sender \in Node,
         NEW p \in Node, NEW t \in Ttl
  PROVE  \A w \in InjectForwardJoin(n, v, sender, p, t) : GoodView(n, w)
<1> DEFINE freed == IF t = 0 /\ p \notin v.active
                    THEN FreeUpActiveSlot(n, v) ELSE {v}
           admitted == UNION {Admit(n, w, p) : w \in freed}
<1>1. CASE p = n
  BY <1>1 DEF InjectForwardJoin
<1>2. CASE p # n
  <2>1. \A w \in freed : GoodView(n, w)
    BY FreeUpGood
  <2>2. \A w \in admitted : GoodView(n, w)
    <3> HIDE DEF freed
    <3> QED BY <2>1, AdmitGood
  <2>3. CASE t = 0
    <3>1. InjectForwardJoin(n, v, sender, p, t) = admitted
      BY <1>2, <2>3 DEF InjectForwardJoin
    <3> HIDE DEF admitted
    <3> QED BY <3>1, <2>2
  <2>4. CASE t # 0
    <3>1. InjectForwardJoin(n, v, sender, p, t) =
            {Send(w, w.active \ {p, sender}, ForwardJoin(p, t - 1)) :
               w \in admitted}
      BY <1>2, <2>4 DEF InjectForwardJoin
    <3>2. t - 1 \in Ttl
      BY <2>4, WalkLengthAssumption DEF Ttl
    <3> HIDE DEF admitted
    <3> SUFFICES ASSUME NEW w \in admitted
                 PROVE  GoodView(n, Send(w, w.active \ {p, sender},
                                         ForwardJoin(p, t - 1)))
      BY <3>1
    <3> QED BY <2>2, <3>2, ForwardGood
  <2> QED BY <2>3, <2>4
<1> QED BY <1>1, <1>2

\* Taking a peer out of the active view keeps it good.
LEMMA DeactivateGood ==
  ASSUME NEW n \in Node, NEW v, GoodView(n, v), NEW p \in Node
  PROVE  GoodView(n, Deactivate(v, p))
<1>1. CASE p \in v.active
  <2> DEFINE u == [v EXCEPT !.active = v.active \ {p}]
  <2>1. v.active \ {p} \in SUBSET Node /\ n \notin v.active \ {p}
        /\ Cardinality(v.active \ {p}) =< MaxActive
    BY GoodFields, Fewer, NodeSets, Limits
  <2>2. GoodView(n, u)
    BY <2>1, WithActive
  <2>3. Deactivate(v, p) = Push(u, PeerRemoved(p))
    BY <1>1 DEF Deactivate
  <2> HIDE DEF u
  <2> QED BY <2>2, <2>3, Events, PushGood
<1>2. CASE p \notin v.active
  BY <1>2 DEF Deactivate
<1> QED BY <1>1, <1>2

\* inject_disconnect keeps a view good.
LEMMA InjectDisconnectGood ==
  ASSUME NEW n \in Node, NEW v, GoodView(n, v), NEW p \in Node,
         NEW alive \in BOOLEAN
  PROVE  \A w \in InjectDisconnect(n, v, p, alive) : GoodView(n, w)
<1> DEFINE from == IF ~alive THEN {[v EXCEPT !.passive = v.passive \ {p}]}
                   ELSE IF p \in v.active THEN AddPassive(n, v, p)
                   ELSE {v}
<1>1. v.passive \ {p} \in SUBSET Node
      /\ Cardinality(v.passive \ {p}) =< MaxPassive
  BY GoodFields, Fewer, NodeSets, Limits
<1>2. GoodView(n, [v EXCEPT !.passive = v.passive \ {p}])
  BY <1>1, WithPassive
<1>3. \A w \in from : GoodView(n, w)
  BY <1>2, AddPassiveGood
<1>4. InjectDisconnect(n, v, p, alive) = {Deactivate(w, p) : w \in from}
  BY DEF InjectDisconnect
<1> HIDE DEF from
<1> QED BY <1>3, <1>4, DeactivateGood

\* A request of low priority: the only kind there is.
LEMMA InjectNeighborGood ==
  ASSUME NEW n \in Node, NEW v, GoodView(n, v), NEW p \in Node
  PROVE  \A w \in InjectNeighbor(n, v, p, "LOW") : GoodView(n, w)
<1>1. CASE p \in v.active
  BY <1>1 DEF InjectNeighbor
<1>2. CASE p \notin v.active /\ ~Overconnected(v)
  <2>1. Cardinality(v.active \cup {p}) =< MaxActive
    BY <1>2, GoodFields, AddOne, NodeSets, Limits DEF Overconnected
  <2> QED BY <1>2, <2>1, AddActiveGood DEF InjectNeighbor
<1>3. CASE p \notin v.active /\ Overconnected(v)
  BY <1>3, InjectDisconnectGood DEF InjectNeighbor
<1> QED BY <1>1, <1>2, <1>3

\* Where the walk ends, the active view is a part of {from, origin}: adding
\* the origin to it keeps the limit because the limit is two at least.
LEMMA ForwardShuffleGood ==
  ASSUME NEW n \in Node, NEW v, GoodView(n, v), NEW from \in Node,
         NEW t \in Ttl, NEW nodes \in SUBSET Node, NEW origin \in Node
  PROVE  \A w \in ForwardShuffle(n, v, from, t, nodes, origin) : GoodView(n, w)
<1> DEFINE next == v.active \ {from, origin}
<1>1. CASE t = 0
  BY <1>1 DEF ForwardShuffle
<1>2. CASE t # 0 /\ next # {}
  <2>1. t - 1 \in Ttl
    BY <1>2, WalkLengthAssumption DEF Ttl
  <2>2. Shuffle(origin, nodes, t - 1) \in LowMessage
    BY <2>1, Constructors
  <2>3. next \in SUBSET Node
    BY GoodFields
  <2>4. ForwardShuffle(n, v, from, t, nodes, origin)
          = {Send(v, {p}, Shuffle(origin, nodes, t - 1)) : p \in next}
    BY <1>2 DEF ForwardShuffle
  <2> HIDE DEF next
  <2> SUFFICES ASSUME NEW p \in next
               PROVE  GoodView(n, Send(v, {p}, Shuffle(origin, nodes, t - 1)))
    BY <2>4
  <2> QED BY <2>2, <2>3, SendGood
<1>3. CASE t # 0 /\ next = {}
  <2>1. v.active \cup {origin} \in SUBSET {from, origin}
    BY <1>3
  <2>2. Cardinality({from, origin}) =< 2
    <3>1. {from} \in SUBSET Node /\ {from, origin} = {from} \cup {origin}
      OBVIOUS
    <3>2. Cardinality({from}) = 1
      BY FS_Singleton
    <3> QED BY <3>1, <3>2, AddOne
  <2>3. Cardinality(v.active \cup {origin}) =< MaxActive
    BY <2>1, <2>2, Fewer, NodeSets, Limits
  <2> QED BY <1>3, <2>3, AddActiveGood DEF ForwardShuffle
<1> QED BY <1>1, <1>2, <1>3

\* inject_shuffle keeps a view good: reply, merge, then the walk.
LEMMA InjectShuffleGood ==
  ASSUME NEW n \in Node, NEW v, GoodView(n, v), NEW from \in Node,
         NEW t \in Ttl, NEW nodes \in SUBSET Node, NEW origin \in Node
  PROVE  \A w \in InjectShuffle(n, v, from, t, nodes, origin) : GoodView(n, w)
<1> DEFINE known == v.active \cup v.passive
           fresh == nodes \ (known \cup {n})
           replied == {SendShuffleReply(v, origin, T) :
                         T \in Samples(known \ nodes, ShuffleMax)}
           merged == UNION {AddAllPassive(w, fresh) : w \in replied}
<1>1. known \in SUBSET Node /\ fresh \in SUBSET Node
      /\ known \ nodes \in SUBSET Node
  BY GoodFields
<1>2. \A T \in Samples(known \ nodes, ShuffleMax) : T \in SUBSET Node
  <2> HIDE DEF known
  <2> QED BY <1>1, SampleSize, Limits
<1>3. \A w \in replied : GoodView(n, w)
  <2> HIDE DEF known
  <2> QED BY <1>2, SendShuffleReplyGood
<1>4. \A w \in merged : GoodView(n, w)
  <2> HIDE DEF replied, fresh
  <2> QED BY <1>1, <1>3, AddAllPassiveGood
<1>5. InjectShuffle(n, v, from, t, nodes, origin)
        = UNION {ForwardShuffle(n, w, from, t, nodes, origin) : w \in merged}
  BY DEF InjectShuffle
<1> HIDE DEF merged
<1> QED BY <1>4, <1>5, ForwardShuffleGood

\* inject_shuffle_reply empties a view over its limit.
LEMMA InjectShuffleReplyGood ==
  ASSUME NEW n \in Node, NEW v, GoodView(n, v), NEW nodes \in SUBSET Node
  PROVE  \A w \in InjectShuffleReply(v, nodes) : GoodView(n, w)
<1> DEFINE q == v.passive \cup nodes
           kept == IF Cardinality(q) > MaxPassive THEN {} ELSE q
<1>1. q \in SUBSET Node /\ Cardinality(q) \in Nat
  BY GoodFields, NodeSets
<1>2. Cardinality({}) = 0
  BY FS_EmptySet
<1>3. kept \in SUBSET Node /\ Cardinality(kept) =< MaxPassive
  <2> HIDE DEF q
  <2> QED BY <1>1, <1>2, Limits
<1>4. InjectShuffleReply(v, nodes) = {[v EXCEPT !.passive = kept]}
  BY DEF InjectShuffleReply
<1> HIDE DEF kept
<1> QED BY <1>3, <1>4, WithPassive

\* send_shuffle only queues a message.
LEMMA SendShuffleGood ==
  ASSUME NEW n \in Node, NEW v, GoodView(n, v), NEW p \in Node
  PROVE  \A w \in SendShuffle(n, v, p) : GoodView(n, w)
<1> SUFFICES ASSUME NEW w \in SendShuffle(n, v, p)
             PROVE  GoodView(n, w)
  OBVIOUS
<1>1. PICK T \in SUBSET (v.active \cup v.passive) :
        w = Send(v, {p}, Shuffle(n, T, WalkLength))
  BY DEF SendShuffle
<1>2. T \in SUBSET Node
  BY GoodFields
<1>3. WalkLength \in Ttl
  BY WalkLengthAssumption DEF Ttl
<1>4. Shuffle(n, T, WalkLength) \in LowMessage
  BY <1>2, <1>3, Constructors
<1> QED BY <1>1, <1>4, SendGood

\* The shuffle timer keeps a view good.
LEMMA ShuffleTimerGood ==
  ASSUME NEW n \in Node, NEW v, GoodView(n, v)
  PROVE  \A w \in ShuffleTimer(n, v) : GoodView(n, w)
<1>1. \A p \in v.active : p \in Node
  BY GoodFields
<1> QED BY <1>1, SendShuffleGood DEF ShuffleTimer

\* A tick promotes a passive peer into a starved view, which has room.
LEMMA TickTimerGood ==
  ASSUME NEW n \in Node, NEW v, GoodView(n, v)
  PROVE  \A w \in TickTimer(n, v) : GoodView(n, w)
<1>1. CASE ~Starved(v) \/ v.passive = {}
  BY <1>1 DEF TickTimer
<1>2. CASE Starved(v) /\ v.passive # {}
  <2>1. Cardinality(v.active) < MaxActive
    BY <1>2, GoodFields, Limits, SMT DEF Starved, MinActive
  <2> SUFFICES ASSUME NEW r \in v.passive
               PROVE  GoodView(n, AddActive(n,
                        [v EXCEPT !.passive = v.passive \ {r}], r, TRUE))
    BY <1>2 DEF TickTimer
  <2> DEFINE u == [v EXCEPT !.passive = v.passive \ {r}]
  <2>2. r \in Node /\ v.passive \ {r} \in SUBSET Node
        /\ Cardinality(v.passive \ {r}) =< MaxPassive
    BY GoodFields, Fewer, NodeSets, Limits
  <2>3. GoodView(n, u) /\ u.active = v.active
    BY <2>2, WithPassive
  <2>4. Cardinality(u.active \cup {r}) =< MaxActive
    <3> HIDE DEF u
    <3> QED BY <2>1, <2>2, <2>3, GoodFields, AddOne, NodeSets, Limits
  <2> HIDE DEF u
  <2>5. GoodView(n, AddActive(n, u, r, TRUE))
    BY <2>2, <2>3, <2>4, AddActiveGood
  <2> QED BY <2>5 DEF u
<1> QED BY <1>1, <1>2

\* Taking an event from the queue.
LEMMA WithOut ==
  ASSUME NEW n \in Node, NEW v, GoodView(n, v), NEW s \in Seq(LowEvent)
  PROVE  GoodView(n, [v EXCEPT !.out = s])
<1> DEFINE w == [v EXCEPT !.out = s]
<1>1. v \in LowView
  BY DEF GoodView
<1>2. w \in LowView /\ w.active = v.active /\ w.passive = v.passive
  BY <1>1 DEF LowView
<1> QED BY <1>2 DEF GoodView

\* Taking the first event from the queue.
LEMMA PopGood ==
  ASSUME NEW n \in Node, NEW v, GoodView(n, v), v.out # << >>
  PROVE  /\ GoodView(n, Pop(v))
         /\ Head(v.out) \in LowEvent
<1>1. v.out \in Seq(LowEvent)
  BY GoodFields
<1>2. Tail(v.out) \in Seq(LowEvent) /\ Head(v.out) \in LowEvent
  BY <1>1
<1> QED BY <1>2, WithOut DEF Pop

\* A queued message is a low one, for nodes.
LEMMA NotifiedPeers ==
  ASSUME NEW e \in LowEvent, e.type = "NotifyHandler"
  PROVE  e.to \in SUBSET Node /\ e.msg \in LowMessage
BY DEF LowEvent, Event

\* Taking one target of the first group from the queue.
LEMMA PopForGood ==
  ASSUME NEW n \in Node, NEW v, GoodView(n, v), v.out # << >>,
         Head(v.out).type = "NotifyHandler", NEW p
  PROVE  GoodView(n, PopFor(v, p))
<1> DEFINE e == Head(v.out)
           rest == e.to \ {p}
           tail == IF rest = {} THEN Tail(v.out)
                   ELSE <<NotifyHandler(rest, e.msg)>> \o Tail(v.out)
<1>1. v.out \in Seq(LowEvent)
  BY GoodFields
<1>2. Tail(v.out) \in Seq(LowEvent) /\ e \in LowEvent
  BY <1>1
<1>3. e.to \in SUBSET Node /\ e.msg \in LowMessage
  <2> HIDE DEF e
  <2> QED BY <1>2, NotifiedPeers DEF e
<1>4. rest # {} => NotifyHandler(rest, e.msg) \in LowEvent
  <2> HIDE DEF e
  <2> QED BY <1>3, Notification
<1>5. tail \in Seq(LowEvent)
  <2> HIDE DEF rest, e
  <2> QED BY <1>2, <1>4
<1>6. PopFor(v, p) = [v EXCEPT !.out = tail]
  BY DEF PopFor
<1> HIDE DEF tail
<1> QED BY <1>5, <1>6, WithOut

-----------------------------------------------------------------------------

\* The fields of a low message, by its type.
LEMMA MessageFields ==
  ASSUME NEW m \in LowMessage
  PROVE  /\ m.type \in {"JOIN", "FORWARDJOIN"} => m.peer \in Node /\ m.ttl \in Ttl
         /\ m.type = "NEIGHBOR" => m.peer \in Node /\ m.priority = "LOW"
         /\ m.type = "DISCONNECT" => m.alive \in BOOLEAN
         /\ m.type = "SHUFFLE" => /\ m.origin \in Node /\ m.ttl \in Ttl
                                  /\ m.nodes \in SUBSET Node
         /\ m.type = "SHUFFLEREPLY" => m.nodes \in SUBSET Node
         /\ m.type \in {"JOIN", "FORWARDJOIN", "NEIGHBOR", "DISCONNECT",
                        "SHUFFLE", "SHUFFLEREPLY"}
BY DEF LowMessage, Message

\* Whatever message of the protocol arrives, from whomever, in whatever good
\* view: the view stays good.
THEOREM DispatchGood ==
  ASSUME NEW n \in Node, NEW v, GoodView(n, v), NEW from \in Node,
         NEW m \in LowMessage
  PROVE  \A w \in Dispatch(n, v, from, m) : GoodView(n, w)
<1>1. CASE m.type = "JOIN"
  BY <1>1, MessageFields, InjectJoinGood DEF Dispatch
<1>2. CASE m.type = "FORWARDJOIN"
  BY <1>2, MessageFields, InjectForwardJoinGood DEF Dispatch
<1>3. CASE m.type = "NEIGHBOR"
  BY <1>3, MessageFields, InjectNeighborGood DEF Dispatch
<1>4. CASE m.type = "DISCONNECT"
  BY <1>4, MessageFields, InjectDisconnectGood DEF Dispatch
<1>5. CASE m.type = "SHUFFLE"
  BY <1>5, MessageFields, InjectShuffleGood DEF Dispatch
<1>6. CASE m.type = "SHUFFLEREPLY"
  BY <1>6, MessageFields, InjectShuffleReplyGood DEF Dispatch
<1> QED BY <1>1, <1>2, <1>3, <1>4, <1>5, <1>6, MessageFields

-----------------------------------------------------------------------------
(* What a handler tells the tree and the swarm about the active view.      *)

About(e, p) == e = PeerAdded(p) \/ e = PeerRemoved(p)

\* v becomes w: events are only queued; an active peer of w is one of v of
\* which nothing is said, or one whose last news is that it was added, and
\* which is dialed unless it is in S.
Grows(v, w, S) ==
  /\ Len(w.out) >= Len(v.out)
  /\ \A i \in 1 .. Len(v.out) : w.out[i] = v.out[i]
  /\ \A p \in w.active :
       \/ /\ p \in v.active
          /\ \A i \in Len(v.out) + 1 .. Len(w.out) : ~About(w.out[i], p)
       \/ /\ \E i \in Len(v.out) + 1 .. Len(w.out) :
               /\ w.out[i] = PeerAdded(p)
               /\ \A j \in i + 1 .. Len(w.out) : ~About(w.out[j], p)
          /\ \/ p \in S
             \/ \E i \in Len(v.out) + 1 .. Len(w.out) : w.out[i] = Dial(p, FALSE)

\* Nothing is queued and nobody becomes active.
LEMMA GrowsSame ==
  ASSUME NEW n \in Node, NEW v, GoodView(n, v), NEW w, NEW S,
         w.out = v.out, w.active \subseteq v.active
  PROVE  Grows(v, w, S)
<1>1. Len(v.out) \in Nat
  BY GoodFields
<1>2. Len(w.out) = Len(v.out) /\ \A i \in Len(v.out) + 1 .. Len(v.out) : FALSE
  BY <1>1
<1>3. \A p \in w.active : /\ p \in v.active
                          /\ \A i \in Len(v.out) + 1 .. Len(w.out) : ~About(w.out[i], p)
  BY <1>2
<1>4. Len(w.out) >= Len(v.out) /\ \A i \in 1 .. Len(v.out) : w.out[i] = v.out[i]
  BY <1>1, <1>2
<1> QED BY <1>3, <1>4, Zenon DEF Grows

\* An event is queued that says nothing of an active peer.
LEMMA GrowsPush ==
  ASSUME NEW n \in Node, NEW v, GoodView(n, v), NEW e \in LowEvent, NEW S,
         \A p \in v.active : ~About(e, p)
  PROVE  Grows(v, Push(v, e), S)
<1>1. v.out \in Seq(LowEvent) /\ v \in LowView
  BY GoodFields DEF GoodView
<1> DEFINE w == Push(v, e)
<1>2. w.out = Append(v.out, e) /\ w.active = v.active
  BY <1>1 DEF Push, LowView
<1> HIDE DEF w
<1>3. /\ Len(v.out) \in Nat /\ Len(w.out) = Len(v.out) + 1
      /\ \A i \in 1 .. Len(v.out) : w.out[i] = v.out[i]
      /\ w.out[Len(v.out) + 1] = e
  BY <1>1, <1>2
<1>4. \A i \in Len(v.out) + 1 .. Len(w.out) : i = Len(v.out) + 1
  BY <1>3
<1>5. \A p \in w.active : /\ p \in v.active
                          /\ \A i \in Len(v.out) + 1 .. Len(w.out) : ~About(w.out[i], p)
  BY <1>2, <1>3, <1>4
<1>6. Len(w.out) >= Len(v.out)
  BY <1>3
<1>7. Grows(v, w, S)
  BY <1>3, <1>5, <1>6, Zenon DEF Grows
<1> QED BY <1>7 DEF w

\* One change after the other.
LEMMA GrowsTwice ==
  ASSUME NEW n \in Node, NEW v, GoodView(n, v), NEW u, GoodView(n, u),
         NEW w, GoodView(n, w), NEW S, Grows(v, u, S), Grows(u, w, S)
  PROVE  Grows(v, w, S)
<1> DEFINE a == Len(v.out)
           b == Len(u.out)
           c == Len(w.out)
<1>1. a \in Nat /\ b \in Nat /\ c \in Nat
  BY GoodFields
<1>2. a =< b /\ b =< c
  BY DEF Grows
<1>3. /\ \A i \in 1 .. a : u.out[i] = v.out[i]
      /\ \A i \in 1 .. b : w.out[i] = u.out[i]
  BY DEF Grows
<1> SUFFICES ASSUME NEW p \in w.active
             PROVE  \/ p \in v.active /\ \A i \in a + 1 .. c : ~About(w.out[i], p)
                    \/ /\ \E i \in a + 1 .. c :
                            /\ w.out[i] = PeerAdded(p)
                            /\ \A j \in i + 1 .. c : ~About(w.out[j], p)
                       /\ p \in S \/ \E i \in a + 1 .. c : w.out[i] = Dial(p, FALSE)
  <2>1. c >= a /\ \A i \in 1 .. a : w.out[i] = v.out[i]
    <3> HIDE DEF a, b, c
    <3> QED BY <1>1, <1>2, <1>3
  <2> QED BY <2>1 DEF Grows
<1>4. CASE p \in u.active /\ \A i \in b + 1 .. c : ~About(w.out[i], p)
  <2>1. \/ p \in v.active /\ \A i \in a + 1 .. b : ~About(u.out[i], p)
        \/ /\ \E i \in a + 1 .. b :
                /\ u.out[i] = PeerAdded(p)
                /\ \A j \in i + 1 .. b : ~About(u.out[j], p)
           /\ p \in S \/ \E i \in a + 1 .. b : u.out[i] = Dial(p, FALSE)
    BY <1>4 DEF Grows
  <2> HIDE DEF a, b, c
  <2>2. CASE p \in v.active /\ \A i \in a + 1 .. b : ~About(u.out[i], p)
    <3>1. ASSUME NEW i \in a + 1 .. c
          PROVE  ~About(w.out[i], p)
      <4>1. \/ i \in a + 1 .. b /\ w.out[i] = u.out[i]
            \/ i \in b + 1 .. c
        BY <1>1, <1>2, <1>3
      <4> QED BY <1>4, <2>2, <4>1
    <3> QED BY <2>2, <3>1
  <2>3. CASE /\ \E i \in a + 1 .. b :
                  /\ u.out[i] = PeerAdded(p)
                  /\ \A j \in i + 1 .. b : ~About(u.out[j], p)
             /\ p \in S \/ \E i \in a + 1 .. b : u.out[i] = Dial(p, FALSE)
    <3>1. PICK i \in a + 1 .. b : /\ u.out[i] = PeerAdded(p)
                                  /\ \A j \in i + 1 .. b : ~About(u.out[j], p)
      BY <2>3
    <3>2. i \in a + 1 .. c /\ w.out[i] = PeerAdded(p)
      BY <1>1, <1>2, <1>3, <3>1
    <3>3. \A j \in i + 1 .. c : ~About(w.out[j], p)
      BY <1>1, <1>2, <1>3, <1>4, <3>1
    <3>4. p \in S \/ \E k \in a + 1 .. c : w.out[k] = Dial(p, FALSE)
      <4>1. ASSUME NEW k \in a + 1 .. b, u.out[k] = Dial(p, FALSE)
            PROVE  k \in a + 1 .. c /\ w.out[k] = Dial(p, FALSE)
        <5>1. k \in 1 .. b /\ k \in a + 1 .. c
          BY <1>1, <1>2
        <5> QED BY <1>3, <4>1, <5>1
      <4> QED BY <2>3, <4>1
    <3> QED BY <3>2, <3>3, <3>4
  <2> QED BY <2>1, <2>2, <2>3
<1>5. CASE /\ \E i \in b + 1 .. c :
                /\ w.out[i] = PeerAdded(p)
                /\ \A j \in i + 1 .. c : ~About(w.out[j], p)
           /\ p \in S \/ \E i \in b + 1 .. c : w.out[i] = Dial(p, FALSE)
  <2>1. \A i \in b + 1 .. c : i \in a + 1 .. c
    <3> HIDE DEF a, b, c
    <3> QED BY <1>1, <1>2
  <2> HIDE DEF a, b, c
  <2> QED BY <1>5, <2>1
<1> QED BY <1>4, <1>5 DEF Grows

\* The events are told apart by their types and peers.
LEMMA Apart ==
  ASSUME NEW p, NEW q
  PROVE  /\ \A to, m : ~About(NotifyHandler(to, m), p)
         /\ \A b : ~About(Dial(q, b), p)
         /\ About(PeerAdded(q), p) => p = q
         /\ About(PeerRemoved(q), p) => p = q
         /\ \A b : PeerAdded(p) # Dial(q, b) /\ PeerRemoved(p) # Dial(q, b)
         /\ PeerAdded(p) # PeerRemoved(q)
         /\ \A to, m, b : NotifyHandler(to, m) # Dial(q, b)
BY DEF About, NotifyHandler, Dial, PeerAdded, PeerRemoved

\* Messages say nothing of peers.
LEMMA SendGrows ==
  ASSUME NEW n \in Node, NEW v, GoodView(n, v), NEW S,
         NEW to \in SUBSET Node, NEW m \in LowMessage
  PROVE  Grows(v, Send(v, to, m), S)
<1>1. CASE to = {}
  BY <1>1, GrowsSame DEF Send
<1>2. CASE to # {}
  BY <1>2, Notification, Apart, GrowsPush DEF Send
<1> QED BY <1>1, <1>2

\* Nor does the passive view.
LEMMA WithPassiveGrows ==
  ASSUME NEW n \in Node, NEW v, GoodView(n, v), NEW S, NEW P
  PROVE  Grows(v, [v EXCEPT !.passive = P], S)
<1>1. v \in LowView
  BY DEF GoodView
<1>2. /\ [v EXCEPT !.passive = P].out = v.out
      /\ [v EXCEPT !.passive = P].active = v.active
  BY <1>1 DEF LowView
<1> QED BY <1>2, GrowsSame

\* add_node_to_passive_view.
LEMMA AddPassiveGrows ==
  ASSUME NEW n \in Node, NEW v, GoodView(n, v), NEW S, NEW p \in Node
  PROVE  \A w \in AddPassive(n, v, p) : Grows(v, w, S)
<1>1. Grows(v, v, S)
  BY GrowsSame
<1> SUFFICES ASSUME NEW w \in AddPassive(n, v, p) PROVE Grows(v, w, S)
  OBVIOUS
<1>2. w = v \/ \E P : w = [v EXCEPT !.passive = P]
  BY DEF AddPassive
<1> QED BY <1>1, <1>2, WithPassiveGrows

\* What a queue with one more event is.
LEMMA Appended ==
  ASSUME NEW T, NEW s \in Seq(T), NEW e \in T
  PROVE  /\ Append(s, e) \in Seq(T) /\ Len(Append(s, e)) = Len(s) + 1
         /\ Append(s, e)[Len(s) + 1] = e
         /\ \A i \in 1 .. Len(s) : Append(s, e)[i] = s[i]
OBVIOUS

\* What it is with three more.
LEMMA AppendedThree ==
  ASSUME NEW T, NEW s \in Seq(T), NEW x \in T, NEW y \in T, NEW z \in T,
         NEW k, k = Len(s), NEW o, o = Append(Append(Append(s, x), y), z)
  PROVE  /\ Len(o) = k + 3 /\ \A i \in 1 .. k : o[i] = s[i]
         /\ o[k + 1] = x /\ o[k + 2] = y /\ o[k + 3] = z
<1> DEFINE a == Append(s, x)
           b == Append(a, y)
<1>0. k \in Nat
  OBVIOUS
<1>1. /\ a \in Seq(T) /\ Len(a) = k + 1 /\ a[k + 1] = x
      /\ \A i \in 1 .. k : a[i] = s[i]
  BY Appended
<1> HIDE DEF a
<1>2. /\ b \in Seq(T) /\ Len(b) = k + 2 /\ b[k + 2] = y
      /\ \A i \in 1 .. k + 1 : b[i] = a[i]
  <2>1. Len(a) + 1 = k + 2
    BY <1>0, <1>1
  <2> QED BY <1>1, <2>1, Appended
<1> HIDE DEF b
<1>3. Len(o) = k + 3 /\ o[k + 3] = z /\ \A i \in 1 .. k + 2 : o[i] = b[i]
  <2>1. Len(b) + 1 = k + 3
    BY <1>0, <1>2
  <2>2. o = Append(b, z)
    BY DEF a, b
  <2> QED BY <1>2, <2>1, <2>2, Appended
<1>4. k + 1 \in 1 .. k + 1 /\ k + 1 \in 1 .. k + 2 /\ k + 2 \in 1 .. k + 2
  BY <1>0
<1>5. \A i \in 1 .. k : i \in 1 .. k + 1 /\ i \in 1 .. k + 2
  BY <1>0
<1> QED BY <1>1, <1>2, <1>3, <1>4, <1>5

\* add_node_to_active_view queues the news of the peer after its dial.
LEMMA AddActiveGrows ==
  ASSUME NEW n \in Node, NEW v, GoodView(n, v), NEW S, NEW p \in Node,
         NEW initiator \in BOOLEAN, initiator \/ p \in S,
         Cardinality(v.active \cup {p}) =< MaxActive
  PROVE  Grows(v, AddActive(n, v, p, initiator), S)
<1>1. CASE ~NewPeer(n, v, p)
  BY <1>1, GrowsSame DEF AddActive
<1>2. CASE NewPeer(n, v, p)
  <2> DEFINE x == AddActive(n, v, p, initiator)
             e == NotifyHandler({p}, Neighbor(n, PriorityOf(v.active \cup {p})))
             k == Len(v.out)
  <2>1. v \in LowView /\ v.out \in Seq(LowEvent) /\ k \in Nat
    BY GoodFields DEF GoodView
  <2>2. /\ x.active = v.active \cup {p}
        /\ x.out = IF initiator
                   THEN Append(Append(Append(v.out, Dial(p, FALSE)), e), PeerAdded(p))
                   ELSE Append(v.out, PeerAdded(p))
    BY <1>2, <2>1 DEF AddActive, Push, Send, LowView
  <2>3. x.active = v.active \cup {p} /\ p \notin v.active
    BY <1>2, <2>2 DEF NewPeer
  <2>4. \A q \in v.active : /\ ~About(Dial(p, FALSE), q) /\ ~About(e, q)
                            /\ ~About(PeerAdded(p), q)
    BY <2>3, Apart
  <2>5. CASE initiator
    <3> DEFINE o == Append(Append(Append(v.out, Dial(p, FALSE)), e), PeerAdded(p))
    <3>1. x.out = o
      BY <2>2, <2>5
    <3>0. Dial(p, FALSE) \in LowEvent /\ e \in LowEvent /\ PeerAdded(p) \in LowEvent
      <4>1. PriorityOf(v.active \cup {p}) = "LOW"
        BY DEF PriorityOf
      <4>2. Neighbor(n, "LOW") \in LowMessage
        BY Answers
      <4> QED BY <4>1, <4>2, Notification, Events
    <3> HIDE DEF x, e, k
    <3>2. /\ Len(o) = k + 3 /\ \A i \in 1 .. k : o[i] = v.out[i]
          /\ o[k + 1] = Dial(p, FALSE) /\ o[k + 2] = e /\ o[k + 3] = PeerAdded(p)
      <4> DEFINE d == Dial(p, FALSE)
                 f == PeerAdded(p)
                 q == v.out
      <4>1. o = Append(Append(Append(q, d), e), f) /\ k = Len(q)
        BY DEF k
      <4>2. q \in Seq(LowEvent) /\ d \in LowEvent /\ e \in LowEvent /\ f \in LowEvent
        BY <2>1, <3>0
      <4> HIDE DEF o, d, f, q
      <4>3. /\ Len(o) = k + 3 /\ \A i \in 1 .. k : o[i] = q[i]
            /\ o[k + 1] = d /\ o[k + 2] = e /\ o[k + 3] = f
        BY <4>1, <4>2, AppendedThree
      <4> QED BY <4>3 DEF d, f, q
    <3> HIDE DEF o
    <3>3. \A i \in k + 1 .. k + 3 : i = k + 1 \/ i = k + 2 \/ i = k + 3
      BY <2>1
    <3>4. \A j \in k + 3 + 1 .. k + 3 : FALSE
      BY <2>1
    <3>5. k + 1 \in k + 1 .. k + 3 /\ k + 3 \in k + 1 .. k + 3 /\ k + 3 >= k
      BY <2>1
    <3>6. ASSUME NEW q \in v.active
          PROVE  \A i \in k + 1 .. k + 3 : ~About(o[i], q)
      BY <2>4, <3>2, <3>3
    <3>7. /\ \E i \in k + 1 .. k + 3 : /\ o[i] = PeerAdded(p)
                                       /\ \A j \in i + 1 .. k + 3 : ~About(o[j], p)
          /\ \E i \in k + 1 .. k + 3 : o[i] = Dial(p, FALSE)
      BY <3>2, <3>4, <3>5
    <3>8. Len(x.out) = k + 3 /\ \A q \in x.active : q \in v.active \/ q = p
      BY <2>3, <3>1, <3>2
    <3> QED BY <3>1, <3>2, <3>5, <3>6, <3>7, <3>8, Zenon DEF Grows, k, x
  <2>6. CASE ~initiator
    <3> DEFINE o == Append(v.out, PeerAdded(p))
    <3>1. x.out = o /\ p \in S
      BY <2>2, <2>6
    <3> HIDE DEF x, e, k
    <3>2. /\ Len(o) = k + 1 /\ \A i \in 1 .. k : o[i] = v.out[i]
          /\ o[k + 1] = PeerAdded(p)
      BY <2>1 DEF k
    <3> HIDE DEF o
    <3>3. \A i \in k + 1 .. k + 1 : i = k + 1
      BY <2>1
    <3>4. \A j \in k + 1 + 1 .. k + 1 : FALSE
      BY <2>1
    <3>5. k + 1 \in k + 1 .. k + 1 /\ k + 1 >= k
      BY <2>1
    <3>6. ASSUME NEW q \in v.active
          PROVE  \A i \in k + 1 .. k + 1 : ~About(o[i], q)
      BY <2>4, <3>2, <3>3
    <3>7. \E i \in k + 1 .. k + 1 : /\ o[i] = PeerAdded(p)
                                    /\ \A j \in i + 1 .. k + 1 : ~About(o[j], p)
      BY <3>2, <3>4, <3>5
    <3>8. Len(x.out) = k + 1 /\ \A q \in x.active : q \in v.active \/ q = p
      BY <2>3, <3>1, <3>2
    <3> QED BY <3>1, <3>2, <3>5, <3>6, <3>7, <3>8, Zenon DEF Grows, k, x
  <2> QED BY <2>5, <2>6
<1> QED BY <1>1, <1>2

\* A peer leaves the active view, and an event says so.
LEMMA RemovalGrows ==
  ASSUME NEW n \in Node, NEW v, GoodView(n, v), NEW S, NEW p \in Node,
         p \notin v.active
  PROVE  Grows(v, Push(v, PeerRemoved(p)), S)
BY Events, Apart, GrowsPush

\* free_up_active_slot: nothing is said of a peer that stays active.
LEMMA FreeUpGrows ==
  ASSUME NEW n \in Node, NEW v, GoodView(n, v), NEW S
  PROVE  \A w \in FreeUpActiveSlot(n, v) : Grows(v, w, S)
<1>1. CASE ~Overconnected(v) \/ v.passive = {}
  BY <1>1, GrowsSame DEF FreeUpActiveSlot
<1>2. CASE ~(~Overconnected(v) \/ v.passive = {})
  <2> SUFFICES ASSUME NEW r \in v.passive,
                      NEW w \in AddPassive(n,
                        Push(Send([v EXCEPT !.active = v.active \ {r}], {r},
                                  Disconnect(TRUE)),
                             PeerRemoved(r)),
                        r)
               PROVE  Grows(v, w, S)
    BY <1>2 DEF FreeUpActiveSlot
  <2> DEFINE u == [v EXCEPT !.active = v.active \ {r}]
             s == Send(u, {r}, Disconnect(TRUE))
             t == Push(s, PeerRemoved(r))
  <2>1. r \in Node /\ v.active \ {r} \in SUBSET Node /\ n \notin v.active \ {r}
        /\ Cardinality(v.active \ {r}) =< MaxActive
    BY GoodFields, Fewer, NodeSets, Limits
  <2>2. GoodView(n, u) /\ u.active = v.active \ {r} /\ u.out = v.out
    <3>1. v \in LowView
      BY DEF GoodView
    <3> QED BY <2>1, <3>1, WithActive DEF LowView
  <2>3. Grows(v, u, S)
    <3> HIDE DEF u
    <3> QED BY <2>2, GrowsSame
  <2>4. GoodView(n, s) /\ s.active = u.active /\ Grows(u, s, S)
    <3> HIDE DEF u
    <3>1. {r} \in SUBSET Node /\ Disconnect(TRUE) \in LowMessage
      BY <2>1, Farewell
    <3>2. GoodView(n, s) /\ s.active = u.active
      BY <2>2, <3>1, SendGood
    <3>3. Grows(u, s, S)
      BY <2>2, <3>1, SendGrows
    <3> QED BY <3>2, <3>3
  <2>5. GoodView(n, t) /\ Grows(s, t, S)
    <3>1. r \notin s.active
      BY <2>2, <2>4
    <3> HIDE DEF s
    <3> QED BY <2>1, <2>4, <3>1, Events, PushGood, RemovalGrows
  <2>6. w \in AddPassive(n, t, r)
    OBVIOUS
  <2> HIDE DEF t, s, u
  <2>7. GoodView(n, w) /\ Grows(t, w, S)
    BY <2>1, <2>5, <2>6, AddPassiveGood, AddPassiveGrows
  <2>8. Grows(v, s, S)
    BY <2>2, <2>3, <2>4, GrowsTwice
  <2>9. Grows(v, t, S)
    BY <2>4, <2>5, <2>8, GrowsTwice
  <2> QED BY <2>5, <2>7, <2>9, GrowsTwice
<1> QED BY <1>1, <1>2

\* The common tail of JOIN and FORWARDJOIN dials whom it admits.
LEMMA AdmitGrows ==
  ASSUME NEW n \in Node, NEW v, GoodView(n, v), NEW S, NEW p \in Node
  PROVE  \A w \in Admit(n, v, p) : Grows(v, w, S)
<1>1. CASE Overconnected(v)
  BY <1>1, AddPassiveGrows DEF Admit
<1>2. CASE ~Overconnected(v)
  <2>1. Cardinality(v.active \cup {p}) =< MaxActive
    BY <1>2, GoodFields, AddOne, NodeSets, Limits DEF Overconnected
  <2>2. Grows(v, AddActive(n, v, p, TRUE), S)
    BY <2>1, AddActiveGrows
  <2> QED BY <1>2, <2>2 DEF Admit
<1> QED BY <1>1, <1>2

\* send_shuffle_reply.
LEMMA SendShuffleReplyGrows ==
  ASSUME NEW n \in Node, NEW v, GoodView(n, v), NEW S,
         NEW origin \in Node, NEW T \in SUBSET Node
  PROVE  Grows(v, SendShuffleReply(v, origin, T), S)
<1> DEFINE u == IF origin \in v.active THEN v ELSE Push(v, Dial(origin, TRUE))
<1>1. GoodView(n, u)
  BY Events, PushGood
<1>2. Grows(v, u, S)
  BY Events, Apart, GrowsSame, GrowsPush
<1>3. SendShuffleReply(v, origin, T) = Send(u, {origin}, ShuffleReply(T))
  BY DEF SendShuffleReply
<1> HIDE DEF u
<1>4. /\ GoodView(n, Send(u, {origin}, ShuffleReply(T)))
      /\ Grows(u, Send(u, {origin}, ShuffleReply(T)), S)
  BY <1>1, Answers, SendGood, SendGrows
<1> QED BY <1>1, <1>2, <1>3, <1>4, GrowsTwice

\* A forwarded JOIN.
LEMMA ForwardGrows ==
  ASSUME NEW n \in Node, NEW v, GoodView(n, v), NEW S, NEW p \in Node,
         NEW sender \in Node, NEW t \in Ttl
  PROVE  Grows(v, Send(v, v.active \ {p, sender}, ForwardJoin(p, t)), S)
<1>1. v.active \ {p, sender} \in SUBSET Node
  BY GoodFields
<1>2. ForwardJoin(p, t) \in LowMessage
  BY Constructors
<1> QED BY <1>1, <1>2, SendGrows

\* inject_join.
LEMMA InjectJoinGrows ==
  ASSUME NEW n \in Node, NEW v, GoodView(n, v), NEW S, NEW sender \in Node,
         NEW p \in Node, NEW t \in Ttl
  PROVE  \A w \in InjectJoin(n, v, sender, p, t) : Grows(v, w, S)
<1>1. CASE p \in v.active
  BY <1>1, GrowsSame DEF InjectJoin
<1>2. CASE p \notin v.active
  <2> SUFFICES ASSUME NEW w \in InjectJoin(n, v, sender, p, t)
               PROVE  Grows(v, w, S)
    OBVIOUS
  <2>1. PICK u \in Admit(n, v, p) :
          w = Send(u, u.active \ {p, sender}, ForwardJoin(p, t))
    BY <1>2 DEF InjectJoin
  <2>2. GoodView(n, u) /\ Grows(v, u, S)
    BY AdmitGood, AdmitGrows
  <2>3. GoodView(n, w) /\ Grows(u, w, S)
    BY <2>1, <2>2, ForwardGood, ForwardGrows
  <2> QED BY <2>2, <2>3, GrowsTwice
<1> QED BY <1>1, <1>2

\* inject_forward_join.
LEMMA InjectForwardJoinGrows ==
  ASSUME NEW n \in Node, NEW v, GoodView(n, v), NEW S, NEW sender \in Node,
         NEW p \in Node, NEW t \in Ttl
  PROVE  \A w \in InjectForwardJoin(n, v, sender, p, t) : Grows(v, w, S)
<1> DEFINE freed == IF t = 0 /\ p \notin v.active
                    THEN FreeUpActiveSlot(n, v) ELSE {v}
           admitted == UNION {Admit(n, w, p) : w \in freed}
<1>1. CASE p = n
  BY <1>1, GrowsSame DEF InjectForwardJoin
<1>2. CASE p # n
  <2>1. \A w \in freed : GoodView(n, w) /\ Grows(v, w, S)
    BY FreeUpGood, FreeUpGrows, GrowsSame
  <2>2. ASSUME NEW w \in admitted PROVE GoodView(n, w) /\ Grows(v, w, S)
    <3> HIDE DEF freed
    <3>1. PICK u \in freed : w \in Admit(n, u, p)
      BY <2>2
    <3>2. GoodView(n, u) /\ Grows(v, u, S)
      BY <2>1
    <3>3. GoodView(n, w) /\ Grows(u, w, S)
      BY <3>1, <3>2, AdmitGood, AdmitGrows
    <3> QED BY <3>2, <3>3, GrowsTwice
  <2>3. CASE t = 0
    <3>1. InjectForwardJoin(n, v, sender, p, t) = admitted
      BY <1>2, <2>3 DEF InjectForwardJoin
    <3> HIDE DEF admitted
    <3> QED BY <3>1, <2>2
  <2>4. CASE t # 0
    <3>1. InjectForwardJoin(n, v, sender, p, t) =
            {Send(w, w.active \ {p, sender}, ForwardJoin(p, t - 1)) :
               w \in admitted}
      BY <1>2, <2>4 DEF InjectForwardJoin
    <3>2. t - 1 \in Ttl
      BY <2>4, WalkLengthAssumption DEF Ttl
    <3> HIDE DEF admitted
    <3> SUFFICES ASSUME NEW w \in admitted
                 PROVE  Grows(v, Send(w, w.active \ {p, sender},
                                      ForwardJoin(p, t - 1)), S)
      BY <3>1
    <3> DEFINE x == Send(w, w.active \ {p, sender}, ForwardJoin(p, t - 1))
    <3>3. GoodView(n, w) /\ Grows(v, w, S)
      BY <2>2
    <3>4. GoodView(n, x) /\ Grows(w, x, S)
      BY <3>2, <3>3, ForwardGood, ForwardGrows
    <3> HIDE DEF x
    <3>5. Grows(v, x, S)
      BY <3>3, <3>4, GrowsTwice
    <3> QED BY <3>5 DEF x
  <2> QED BY <2>3, <2>4
<1> QED BY <1>1, <1>2

\* The peer is no longer active, and nothing else is said.
LEMMA DeactivateGrows ==
  ASSUME NEW n \in Node, NEW v, GoodView(n, v), NEW S, NEW p \in Node
  PROVE  Grows(v, Deactivate(v, p), S) /\ p \notin Deactivate(v, p).active
<1>1. CASE p \in v.active
  <2> DEFINE u == [v EXCEPT !.active = v.active \ {p}]
  <2>1. v.active \ {p} \in SUBSET Node /\ n \notin v.active \ {p}
        /\ Cardinality(v.active \ {p}) =< MaxActive
    BY GoodFields, Fewer, NodeSets, Limits
  <2>2. GoodView(n, u) /\ u.active = v.active \ {p} /\ u.out = v.out
    <3>1. v \in LowView
      BY DEF GoodView
    <3> QED BY <2>1, <3>1, WithActive DEF LowView
  <2>3. Deactivate(v, p) = Push(u, PeerRemoved(p))
    BY <1>1 DEF Deactivate
  <2> HIDE DEF u
  <2>4. Grows(v, u, S)
    BY <2>2, GrowsSame
  <2>5. /\ GoodView(n, Push(u, PeerRemoved(p))) /\ Grows(u, Push(u, PeerRemoved(p)), S)
        /\ Push(u, PeerRemoved(p)).active = u.active
    BY <2>2, Events, PushGood, RemovalGrows
  <2> QED BY <2>2, <2>3, <2>4, <2>5, GrowsTwice
<1>2. CASE p \notin v.active
  BY <1>2, GrowsSame DEF Deactivate
<1> QED BY <1>1, <1>2

\* inject_disconnect.
LEMMA InjectDisconnectGrows ==
  ASSUME NEW n \in Node, NEW v, GoodView(n, v), NEW S, NEW p \in Node,
         NEW alive \in BOOLEAN
  PROVE  \A w \in InjectDisconnect(n, v, p, alive) :
           Grows(v, w, S) /\ p \notin w.active
<1> DEFINE from == IF ~alive THEN {[v EXCEPT !.passive = v.passive \ {p}]}
                   ELSE IF p \in v.active THEN AddPassive(n, v, p)
                   ELSE {v}
<1>1. v.passive \ {p} \in SUBSET Node
      /\ Cardinality(v.passive \ {p}) =< MaxPassive
  BY GoodFields, Fewer, NodeSets, Limits
<1>2. /\ GoodView(n, [v EXCEPT !.passive = v.passive \ {p}])
      /\ Grows(v, [v EXCEPT !.passive = v.passive \ {p}], S)
  BY <1>1, WithPassive, WithPassiveGrows
<1>3. \A u \in from : GoodView(n, u) /\ Grows(v, u, S)
  BY <1>2, AddPassiveGood, AddPassiveGrows, GrowsSame
<1>4. InjectDisconnect(n, v, p, alive) = {Deactivate(w, p) : w \in from}
  BY DEF InjectDisconnect
<1> HIDE DEF from
<1> SUFFICES ASSUME NEW u \in from
             PROVE  Grows(v, Deactivate(u, p), S) /\ p \notin Deactivate(u, p).active
  BY <1>4
<1>5. /\ GoodView(n, Deactivate(u, p)) /\ Grows(u, Deactivate(u, p), S)
      /\ p \notin Deactivate(u, p).active
  BY <1>3, DeactivateGood, DeactivateGrows
<1> QED BY <1>3, <1>5, GrowsTwice

\* inject_neighbor: the peer that asks is connected, and is not dialed.
LEMMA InjectNeighborGrows ==
  ASSUME NEW n \in Node, NEW v, GoodView(n, v), NEW S, NEW p \in Node, p \in S
  PROVE  \A w \in InjectNeighbor(n, v, p, "LOW") : Grows(v, w, S)
<1>1. CASE p \in v.active
  BY <1>1, GrowsSame DEF InjectNeighbor
<1>2. CASE p \notin v.active /\ ~Overconnected(v)
  <2>1. Cardinality(v.active \cup {p}) =< MaxActive
    BY <1>2, GoodFields, AddOne, NodeSets, Limits DEF Overconnected
  <2> QED BY <1>2, <2>1, AddActiveGrows DEF InjectNeighbor
<1>3. CASE p \notin v.active /\ Overconnected(v)
  BY <1>3, InjectDisconnectGrows DEF InjectNeighbor
<1> QED BY <1>1, <1>2, <1>3

\* The walk of a SHUFFLE: where it ends, the origin is dialed.
LEMMA ForwardShuffleGrows ==
  ASSUME NEW n \in Node, NEW v, GoodView(n, v), NEW S, NEW from \in Node,
         NEW t \in Ttl, NEW nodes \in SUBSET Node, NEW origin \in Node
  PROVE  \A w \in ForwardShuffle(n, v, from, t, nodes, origin) : Grows(v, w, S)
<1> DEFINE next == v.active \ {from, origin}
<1>1. CASE t = 0
  BY <1>1, GrowsSame DEF ForwardShuffle
<1>2. CASE t # 0 /\ next # {}
  <2>1. t - 1 \in Ttl
    BY <1>2, WalkLengthAssumption DEF Ttl
  <2>2. Shuffle(origin, nodes, t - 1) \in LowMessage
    BY <2>1, Constructors
  <2>3. next \in SUBSET Node
    BY GoodFields
  <2>4. ForwardShuffle(n, v, from, t, nodes, origin)
          = {Send(v, {p}, Shuffle(origin, nodes, t - 1)) : p \in next}
    BY <1>2 DEF ForwardShuffle
  <2> HIDE DEF next
  <2> SUFFICES ASSUME NEW p \in next
               PROVE  Grows(v, Send(v, {p}, Shuffle(origin, nodes, t - 1)), S)
    BY <2>4
  <2> QED BY <2>2, <2>3, SendGrows
<1>3. CASE t # 0 /\ next = {}
  <2>1. v.active \cup {origin} \in SUBSET {from, origin}
    BY <1>3
  <2>2. Cardinality({from, origin}) =< 2
    <3>1. {from} \in SUBSET Node /\ {from, origin} = {from} \cup {origin}
      OBVIOUS
    <3>2. Cardinality({from}) = 1
      BY FS_Singleton
    <3> QED BY <3>1, <3>2, AddOne
  <2>3. Cardinality(v.active \cup {origin}) =< MaxActive
    BY <2>1, <2>2, Fewer, NodeSets, Limits
  <2>4. Grows(v, AddActive(n, v, origin, TRUE), S)
    BY <2>3, AddActiveGrows
  <2> QED BY <1>3, <2>4 DEF ForwardShuffle
<1> QED BY <1>1, <1>2, <1>3

\* inject_shuffle.
LEMMA InjectShuffleGrows ==
  ASSUME NEW n \in Node, NEW v, GoodView(n, v), NEW S, NEW from \in Node,
         NEW t \in Ttl, NEW nodes \in SUBSET Node, NEW origin \in Node
  PROVE  \A w \in InjectShuffle(n, v, from, t, nodes, origin) : Grows(v, w, S)
<1> DEFINE known == v.active \cup v.passive
           fresh == nodes \ (known \cup {n})
           replied == {SendShuffleReply(v, origin, T) :
                         T \in Samples(known \ nodes, ShuffleMax)}
           merged == UNION {AddAllPassive(w, fresh) : w \in replied}
<1>1. known \in SUBSET Node /\ fresh \in SUBSET Node
      /\ known \ nodes \in SUBSET Node
  BY GoodFields
<1>2. \A T \in Samples(known \ nodes, ShuffleMax) : T \in SUBSET Node
  <2> HIDE DEF known
  <2> QED BY <1>1, SampleSize, Limits
<1>3. \A w \in replied : GoodView(n, w) /\ Grows(v, w, S)
  <2> HIDE DEF known
  <2> QED BY <1>2, SendShuffleReplyGood, SendShuffleReplyGrows
<1>4. ASSUME NEW w \in merged PROVE GoodView(n, w) /\ Grows(v, w, S)
  <2> HIDE DEF replied, fresh
  <2>1. PICK u \in replied : w \in AddAllPassive(u, fresh)
    BY <1>4
  <2>2. GoodView(n, u) /\ Grows(v, u, S)
    BY <1>3
  <2>3. GoodView(n, w)
    BY <1>1, <2>1, <2>2, AddAllPassiveGood
  <2>4. Grows(u, w, S)
    BY <2>1, <2>2, WithPassiveGrows DEF AddAllPassive
  <2> QED BY <2>2, <2>3, <2>4, GrowsTwice
<1>5. InjectShuffle(n, v, from, t, nodes, origin)
        = UNION {ForwardShuffle(n, w, from, t, nodes, origin) : w \in merged}
  BY DEF InjectShuffle
<1> HIDE DEF merged
<1> SUFFICES ASSUME NEW u \in merged,
                    NEW w \in ForwardShuffle(n, u, from, t, nodes, origin)
             PROVE  Grows(v, w, S)
  BY <1>5
<1>6. GoodView(n, u) /\ Grows(v, u, S)
  BY <1>4
<1>7. GoodView(n, w) /\ Grows(u, w, S)
  BY <1>6, ForwardShuffleGood, ForwardShuffleGrows
<1> QED BY <1>6, <1>7, GrowsTwice

\* The timers: a shuffle is a message, and a promoted peer is dialed.
LEMMA ShuffleTimerGrows ==
  ASSUME NEW n \in Node, NEW v, GoodView(n, v), NEW S
  PROVE  \A w \in ShuffleTimer(n, v) : Grows(v, w, S)
<1>1. ASSUME NEW p \in v.active, NEW w \in SendShuffle(n, v, p)
      PROVE  Grows(v, w, S)
  <2>1. PICK T \in SUBSET (v.active \cup v.passive) :
          w = Send(v, {p}, Shuffle(n, T, WalkLength))
    BY <1>1 DEF SendShuffle
  <2>2. T \in SUBSET Node /\ p \in Node
    BY GoodFields
  <2>3. WalkLength \in Ttl
    BY WalkLengthAssumption DEF Ttl
  <2>4. Shuffle(n, T, WalkLength) \in LowMessage
    BY <2>2, <2>3, Constructors
  <2> QED BY <2>1, <2>2, <2>4, SendGrows
<1> QED BY <1>1, GrowsSame DEF ShuffleTimer

\* maybe_move_random_passive_to_active.
LEMMA TickTimerGrows ==
  ASSUME NEW n \in Node, NEW v, GoodView(n, v), NEW S
  PROVE  \A w \in TickTimer(n, v) : Grows(v, w, S)
<1>1. CASE ~Starved(v) \/ v.passive = {}
  BY <1>1, GrowsSame DEF TickTimer
<1>2. CASE Starved(v) /\ v.passive # {}
  <2>1. Cardinality(v.active) < MaxActive
    BY <1>2, GoodFields, Limits, SMT DEF Starved, MinActive
  <2> SUFFICES ASSUME NEW r \in v.passive
               PROVE  Grows(v, AddActive(n,
                        [v EXCEPT !.passive = v.passive \ {r}], r, TRUE), S)
    BY <1>2 DEF TickTimer
  <2> DEFINE u == [v EXCEPT !.passive = v.passive \ {r}]
  <2>2. r \in Node /\ v.passive \ {r} \in SUBSET Node
        /\ Cardinality(v.passive \ {r}) =< MaxPassive
    BY GoodFields, Fewer, NodeSets, Limits
  <2>3. GoodView(n, u) /\ u.active = v.active
    BY <2>2, WithPassive
  <2>4. Grows(v, u, S)
    BY WithPassiveGrows
  <2>5. Cardinality(u.active \cup {r}) =< MaxActive
    <3> HIDE DEF u
    <3> QED BY <2>1, <2>2, <2>3, GoodFields, AddOne, NodeSets, Limits
  <2> HIDE DEF u
  <2>6. GoodView(n, AddActive(n, u, r, TRUE)) /\ Grows(u, AddActive(n, u, r, TRUE), S)
    BY <2>2, <2>3, <2>5, AddActiveGood, AddActiveGrows
  <2>7. Grows(v, AddActive(n, u, r, TRUE), S)
    BY <2>3, <2>4, <2>6, GrowsTwice
  <2> QED BY <2>7 DEF u
<1> QED BY <1>1, <1>2

\* Whatever message arrives: who becomes active is dialed, or has sent it;
\* and the last news the queue has of an active peer is that it was added.
THEOREM DispatchGrows ==
  ASSUME NEW n \in Node, NEW v, GoodView(n, v), NEW from \in Node,
         NEW m \in LowMessage
  PROVE  \A w \in Dispatch(n, v, from, m) : Grows(v, w, {from})
<1>1. CASE m.type = "JOIN"
  BY <1>1, MessageFields, InjectJoinGrows DEF Dispatch
<1>2. CASE m.type = "FORWARDJOIN"
  BY <1>2, MessageFields, InjectForwardJoinGrows DEF Dispatch
<1>3. CASE m.type = "NEIGHBOR"
  <2>1. m.peer \in Node /\ m.priority = "LOW"
    BY <1>3, MessageFields
  <2>2. CASE m.peer = from
    <3>1. \A w \in InjectNeighbor(n, v, from, "LOW") : Grows(v, w, {from})
      BY InjectNeighborGrows
    <3> QED BY <1>3, <2>1, <2>2, <3>1 DEF Dispatch
  <2>3. CASE m.peer # from
    BY <1>3, <2>3, GrowsSame DEF Dispatch
  <2> QED BY <2>2, <2>3
<1>4. CASE m.type = "DISCONNECT"
  BY <1>4, MessageFields, InjectDisconnectGrows DEF Dispatch
<1>5. CASE m.type = "SHUFFLE"
  BY <1>5, MessageFields, InjectShuffleGrows DEF Dispatch
<1>6. CASE m.type = "SHUFFLEREPLY"
  <2>1. \A w \in InjectShuffleReply(v, m.nodes) : Grows(v, w, {from})
    BY WithPassiveGrows DEF InjectShuffleReply
  <2> QED BY <1>6, <2>1 DEF Dispatch
<1> QED BY <1>1, <1>2, <1>3, <1>4, <1>5, <1>6, MessageFields
=============================================================================
