------------------------------- MODULE CacheUse -------------------------------
(***************************************************************************)
(* One message cache as PlumTree uses it: entries arrive at any time, with *)
(* any hop and several times for one id; windows of recent entries are     *)
(* read, and every tick prunes the history (tree.rs, publish_ihaves,       *)
(* repair_tree and prune_history).                                         *)
(***************************************************************************)
EXTENDS ExpiringCache

CONSTANTS
  Id,             \* message ids
  Peer,           \* senders
  MaxHop,         \* bound: the longest path of a message
  MaxTime,        \* bound: instants of a behaviour
  HistoryWindow   \* config.history_window, in instants

ASSUME CacheBoundsAssumption == {MaxHop, MaxTime, HistoryWindow} \subseteq Nat

VARIABLES cache,   \* the ExpiringCache
          now      \* Instant::now()

vars == <<cache, now>>

Entry == [id : Id, hop : 0 .. MaxHop, sender : Peer, time : Nat]

Init == cache = EmptyCache /\ now = 1

\* received.insert and observed.insert.
Offer(id, hop, sender) ==
  /\ cache' = Insert(cache, Timed(id, hop, sender, now))
  /\ UNCHANGED now

\* prune_history.
PruneHistory ==
  /\ now > HistoryWindow
  /\ cache' = RemoveOlderThan(cache, now - HistoryWindow)
  /\ UNCHANGED now

Advance == now < MaxTime /\ now' = now + 1 /\ UNCHANGED cache

Next ==
  \/ \E id \in Id, hop \in 0 .. MaxHop, sender \in Peer : Offer(id, hop, sender)
  \/ PruneHistory
  \/ Advance

Spec == Init /\ [][Next]_vars

-----------------------------------------------------------------------------

\* data maps ids to entries with that id; byTime is a sequence of entries.
TypeOK ==
  /\ cache = [data |-> cache.data, byTime |-> cache.byTime]
  /\ cache.data \in [DOMAIN cache.data -> Entry]
  /\ \A id \in DOMAIN cache.data : id \in Id /\ cache.data[id].id = id
  /\ cache.byTime \in Seq(Entry)
  /\ now \in Nat

\* byTime is in the order of time, which both the binary search and the
\* pruning from the front rely on (cache.rs 104, 108 and 114).
Sorted ==
  \A i, j \in DOMAIN cache.byTime :
    i < j => cache.byTime[i].time =< cache.byTime[j].time

\* The two fields describe the same ids, each once, although a replacement
\* changes one of them only and a prune walks only the other (cache.rs 85,
\* 91, 118).
SameIds ==
  /\ \A i, j \in DOMAIN cache.byTime :
       cache.byTime[i].id = cache.byTime[j].id => i = j
  /\ DOMAIN cache.data = {cache.byTime[i].id : i \in DOMAIN cache.byTime}

\* A read of the window from .. until finds everything first heard of
\* strictly inside it and nothing from outside, whichever of several equal
\* instants the binary search meets, and its bounds are never crossed, which
\* would be a panic in VecDeque::range (cache.rs 101-111).
WindowExact ==
  \A from, until \in 0 .. MaxTime + 1 : from < until =>
    /\ \A first \in Positions(cache, from), last \in Positions(cache, until) :
         first =< last
    /\ \A window \in IterRange(cache, from, until) :
         /\ \A i \in DOMAIN window : window[i].time \in from .. until
         /\ \A i \in DOMAIN cache.byTime :
              cache.byTime[i].time \in from + 1 .. until - 1 =>
                \E j \in DOMAIN window : window[j] = cache.byTime[i]

-----------------------------------------------------------------------------
(* The cache implements the expiring map.                                  *)

FirstSeen(id) ==
  cache.byTime[CHOOSE i \in DOMAIN cache.byTime : cache.byTime[i].id = id].time

Known ==
  [id \in DOMAIN cache.data |->
     [since |-> FirstSeen(id), hop |-> cache.data[id].hop]]

Map == INSTANCE ExpiringMap WITH known <- Known

\* insert keeps the shortest path of every id and remove_older_than forgets
\* exactly the ids first heard of up to the cutoff (cache.rs 76-121).
ImplementsMap == Map!Spec
=============================================================================
