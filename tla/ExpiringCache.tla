---------------------------- MODULE ExpiringCache ----------------------------
(***************************************************************************)
(* The message caches of PlumTree: episub/cache.rs.                        *)
(*                                                                         *)
(* A cache is the record of the two fields of the struct: data, a map from *)
(* message ids to entries, and byTime, the entries in the order in which   *)
(* their ids were first inserted.  An entry is a MessageRecord or a        *)
(* MessageInfo with the instant Timed::new stamped on it; payloads decide  *)
(* nothing and are left out.  Entries compare by hop alone.                *)
(***************************************************************************)
EXTENDS Naturals, Sequences

\* Mutant: the hop is counted twice.
TimedHopTwice(id, hop, sender, now) ==
  [id |-> id, hop |-> hop + 1, sender |-> sender, time |-> now]

Timed(id, hop, sender, now) ==
  [id |-> id, hop |-> hop, sender |-> sender, time |-> now]

EmptyCache == [data |-> << >>, byTime |-> << >>]

Has(c, id) == id \in DOMAIN c.data

\* Mutant: a new entry goes to the front of byTime.
InsertAtFront(c, e) ==
  IF Has(c, e.id) THEN c
  ELSE [data |-> [i \in DOMAIN c.data \cup {e.id} |->
                    IF i = e.id THEN e ELSE c.data[i]],
        byTime |-> <<e>> \o c.byTime]

\* Mutant: every entry is appended to byTime, known or not.
InsertTwice(c, e) ==
  [data |-> [i \in DOMAIN c.data \cup {e.id} |->
               IF i = e.id THEN e ELSE c.data[i]],
   byTime |-> Append(c.byTime, e)]

\* insert: a known id keeps its place in byTime, and a shorter path replaces
\* the entry in data only.
Insert(c, e) ==
  IF ~Has(c, e.id)
  THEN [data |-> [i \in DOMAIN c.data \cup {e.id} |->
                    IF i = e.id THEN e ELSE c.data[i]],
        byTime |-> Append(c.byTime, e)]
  ELSE IF e.hop < c.data[e.id].hop
       THEN [c EXCEPT !.data[e.id] = e]
       ELSE c

\* binary_search_by on byTime: the place of some entry with that time, or
\* the place where one would be inserted.
Positions(c, t) ==
  LET hits == {i \in DOMAIN c.byTime : c.byTime[i].time = t}
      gap == {i \in 1 .. Len(c.byTime) + 1 :
                /\ \A j \in DOMAIN c.byTime : j < i => c.byTime[j].time < t
                /\ \A j \in DOMAIN c.byTime : j >= i => c.byTime[j].time > t}
  IN  IF hits # {} THEN hits ELSE gap

\* Mutant: the end of the range is taken one too early.
IterRangeShort(c, from, until) ==
  {[i \in 1 .. last - first - 1 |-> c.byTime[first + i - 1]] :
     first \in Positions(c, from), last \in Positions(c, until)}

\* iter_range(from .. until): the entries between the two places found.
IterRange(c, from, until) ==
  {[i \in 1 .. last - first |-> c.byTime[first + i - 1]] :
     first \in Positions(c, from), last \in Positions(c, until)}

\* Mutant: an entry of exactly the cutoff is kept.
ExpiredBefore(c, since) ==
  {i \in DOMAIN c.byTime : \A j \in 1 .. i : c.byTime[j].time < since}

\* remove_older_than: drop entries from the front of byTime, each with its
\* id in data, up to the first one younger than "since".
Expired(c, since) ==
  {i \in DOMAIN c.byTime : \A j \in 1 .. i : c.byTime[j].time =< since}

RemoveOlderThan(c, since) ==
  LET gone == {c.byTime[i].id : i \in Expired(c, since)}
      kept == {i \in DOMAIN c.byTime : i \notin Expired(c, since)}
      first == CHOOSE i \in kept : \A j \in kept : i =< j
  IN  [data |-> [i \in DOMAIN c.data \ gone |-> c.data[i]],
       byTime |-> IF kept = {} THEN << >>
                  ELSE SubSeq(c.byTime, first, Len(c.byTime))]
=============================================================================
