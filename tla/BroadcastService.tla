-------------------------- MODULE BroadcastService --------------------------
(***************************************************************************)
(* What a topic promises to the applications on its nodes: a message is    *)
(* handed over only after somebody else has published it, and once.  The   *)
(* nodes remember a message for a while only: of one that is old nothing   *)
(* is promised but that somebody has published it.                         *)
(***************************************************************************)
EXTENDS Sequences

CONSTANTS Node, Id, Nobody

VARIABLES
  author,  \* author[id]: who published id, or Nobody
  log,     \* log[n]: the ids handed to the application of n, in order
  old      \* the published messages that may have been forgotten

Init ==
  /\ author = [id \in Id |-> Nobody]
  /\ log = [n \in Node |-> << >>]
  /\ old = {}

Release(n, id) ==
  /\ author[id] = Nobody
  /\ author' = [author EXCEPT ![id] = n]
  /\ UNCHANGED <<log, old>>

HandOver(n, id) ==
  /\ author[id] # Nobody
  /\ id \in old \/ (author[id] # n /\ \A i \in DOMAIN log[n] : log[n][i] # id)
  /\ log' = [log EXCEPT ![n] = Append(@, id)]
  /\ UNCHANGED <<author, old>>

Age ==
  /\ old \subseteq old'
  /\ \A id \in old' : author[id] # Nobody
  /\ UNCHANGED <<author, log>>

Next == Age \/ \E n \in Node, id \in Id : Release(n, id) \/ HandOver(n, id)

Spec == Init /\ [][Next]_<<author, log, old>>
=============================================================================
