------------------------------ MODULE PlumTree ------------------------------
(***************************************************************************)
(* The broadcast tree of one topic on one node: episub/tree.rs.            *)
(*                                                                         *)
(* A tree is a record of the struct's peer sets, its two message caches    *)
(* and its queue of outgoing events.  As in HyParView, an operator is one  *)
(* method of the code; where the binary search of a cache leaves a choice, *)
(* it returns the set of trees the method can leave behind.  "now" is the  *)
(* instant of the call.  Payloads, and with them the compression, are left *)
(* out.                                                                    *)
(***************************************************************************)
EXTENDS ExpiringCache

CONSTANTS
  OptimizeSenderTree,     \* config.optimize_sender_tree
  HopOptimizationFactor,  \* config.hop_optimization_factor
  LazyPushWindow,         \* config.lazy_push_window, in instants
  HistoryWindow,          \* config.history_window
  TickFrequency           \* config.tick_frequency

\* The read of repair_tree runs from LazyPushWindow ago to two ticks ago.
ASSUME TreeAssumption ==
  /\ OptimizeSenderTree \in BOOLEAN
  /\ {HopOptimizationFactor, LazyPushWindow, HistoryWindow, TickFrequency}
       \subseteq Nat
  /\ LazyPushWindow > 2 * TickFrequency

\* Mutant: the hop is counted twice.
MessageMsgTwice(id, hop) == [type |-> "MESSAGE", id |-> id, hop |-> hop + 1]

\* Mutant: the hop is counted down, as the ttl of a JOIN is.
MessageMsgDown(id, hop) == [type |-> "MESSAGE", id |-> id, hop |-> hop - 2]

MessageMsg(id, hop) == [type |-> "MESSAGE", id |-> id, hop |-> hop]

IHaveMsg(ihaves) == [type |-> "IHAVE", ihaves |-> ihaves]
PruneMsg == [type |-> "PRUNE"]
GraftMsg(ids) == [type |-> "GRAFT", ids |-> ids]

EmptyTree ==
  [eager |-> {}, lazy |-> {}, received |-> EmptyCache, observed |-> EmptyCache,
   out |-> << >>]

PushTree(t, e) == [t EXCEPT !.out = Append(@, e)]

\* One NotifyHandler event per peer in the domain of msgs, queued by a loop
\* over a hash set or a hash map, that is, in any order.
SendEach(t, msgs) ==
  IF DOMAIN msgs = {} THEN t
  ELSE PushTree(t, [type |-> "NotifyEach", msgs |-> msgs])

SendAll(t, to, msg) == SendEach(t, [p \in to |-> msg])

-----------------------------------------------------------------------------
(* Calls of the membership layer.                                          *)

InjectNeighborUp(t, p) == [t EXCEPT !.eager = @ \cup {p}]

InjectNeighborDown(t, p) ==
  [t EXCEPT !.eager = @ \ {p}, !.lazy = @ \ {p}]

-----------------------------------------------------------------------------
(* Calls of the application and messages of peers.                         *)

\* A message is published with hop 1 and cached with hop 0, and only under
\* an id that was neither received nor announced.
Publish(t, n, id, now) ==
  IF Has(t.received, id) \/ Has(t.observed, id) THEN t
  ELSE [SendAll(t, t.eager, MessageMsg(id, 1)) EXCEPT
          !.received = Insert(@, Timed(id, 0, n, now))]

\* A peer is made lazy whether or not it is a neighbour.
InjectPrune(t, p) == [t EXCEPT !.eager = @ \ {p}, !.lazy = @ \cup {p}]

\* Mutant: every copy is delivered, only the push to others looks whether
\* it is the first.
InjectMessageHandsAll(t, from, id, hop, now) ==
  LET u == PushTree([t EXCEPT !.received = Insert(@, Timed(id, hop, from, now))],
                    [type |-> "Message", id |-> id])
  IN  IF Has(t.received, id) THEN u
      ELSE SendAll(u, u.eager \ {from}, MessageMsg(id, hop + 1))

\* The first copy is delivered and pushed on, the caches keep the shorter
\* path of every copy, and a later copy from an eager peer prunes that link.
\* (The payload is one that can be decompressed; with any other the first
\* copy ends the task, which InjectPanics in Episub.tla models.)
InjectMessage(t, from, id, hop, now) ==
  LET u == [t EXCEPT !.received = Insert(@, Timed(id, hop, from, now))]
  IN  IF ~Has(t.received, id)
      THEN SendAll(PushTree(u, [type |-> "Message", id |-> id]),
                   u.eager \ {from}, MessageMsg(id, hop + 1))
      ELSE IF OptimizeSenderTree /\ from \in u.eager
           THEN SendAll(InjectPrune(u, from), {from}, PruneMsg)
           ELSE u

\* Called for every announcement of an IHAVE.
InjectIHave(t, from, id, hop, now) ==
  [t EXCEPT !.observed = Insert(@, Timed(id, hop, from, now))]

\* Mutant: the grafted peer stays lazy too.
InjectGraftStaysLazy(t, p, ids) ==
  LET found == {id \in ids : Has(t.received, id)}
      u == [t EXCEPT !.eager = @ \cup {p}]
  IN  IF found = {} THEN u
      ELSE PushTree(u, [type |-> "Replay", to |-> p,
                        msgs |-> {MessageMsg(id, t.received.data[id].hop) :
                                    id \in found}])

\* The sender becomes eager whether or not it is a neighbour, and gets the
\* messages it asks for that are still in the cache.
InjectGraft(t, p, ids) ==
  LET found == {id \in ids : Has(t.received, id)}
      u == [t EXCEPT !.lazy = @ \ {p}, !.eager = @ \cup {p}]
  IN  IF found = {} THEN u
      ELSE PushTree(u, [type |-> "Replay", to |-> p,
                        msgs |-> {MessageMsg(id, t.received.data[id].hop) :
                                    id \in found}])

-----------------------------------------------------------------------------
(* Periodic maintenance, run by poll() every tick.                         *)

\* Instants start at 1; nothing has happened at 0.
Ago(now, window) == IF now > window THEN now - window ELSE 0

\* IHAVEs of what was received in the last LazyPushWindow, to lazy peers.
PublishIHaves(t, now) ==
  {IF window = << >> THEN t
   ELSE SendAll(t, t.lazy,
          IHaveMsg({[id |-> window[i].id, hop |-> window[i].hop] :
                      i \in DOMAIN window})) :
     window \in IterRange(t.received, Ago(now, LazyPushWindow), now)}

PruneHistory(t, now) ==
  [t EXCEPT !.observed = RemoveOlderThan(@, Ago(now, HistoryWindow)),
            !.received = RemoveOlderThan(@, Ago(now, HistoryWindow))]

SaturatingSub(x, y) == IF x > y THEN x - y ELSE 0

\* An announced message that came on a path longer by the configured factor.
BetterPath(t, o) ==
  /\ Has(t.received, o.id)
  /\ o.hop # 0
  /\ SaturatingSub(t.received.data[o.id].hop, o.hop) >= HopOptimizationFactor

\* Mutant: the ids of the missing messages are left out.
GraftsForNothing(t, announced) ==
  [p \in {o.sender : o \in {x \in announced : ~Has(t.received, x.id)}} |->
     GraftMsg({})]

\* One GRAFT per peer that announced a missing message or a better path,
\* with the ids of the missing ones.  The peer stays lazy here.
Grafts(t, announced) ==
  LET missing == {o \in announced : ~Has(t.received, o.id)}
      better == {o \in announced : BetterPath(t, o)}
  IN  [p \in {o.sender : o \in missing \cup better} |->
         GraftMsg({o.id : o \in {x \in missing : x.sender = p}})]

RepairTree(t, now) ==
  {PruneHistory(SendEach(t, Grafts(t, {window[i] : i \in DOMAIN window})), now) :
     window \in IterRange(t.observed, Ago(now, LazyPushWindow),
                          Ago(now, 2 * TickFrequency))}

TreeTick(t, now) == UNION {RepairTree(u, now) : u \in PublishIHaves(t, now)}
=============================================================================
