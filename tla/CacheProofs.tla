----------------------------- MODULE CacheProofs -----------------------------
(***************************************************************************)
(* The message cache is sorted by time, its two fields describe the same   *)
(* ids, a read of a window is exact, and the cache implements the expiring *)
(* map, for any ids, senders, hops, instants and history window.           *)
(*                                                                         *)
(* Sorted is not inductive by itself: an entry is appended with the time   *)
(* of its insertion, so the invariant also says that no entry is younger   *)
(* than the clock.                                                         *)
(***************************************************************************)
EXTENDS CacheUse, WellFoundedInduction, SequenceTheorems, TLAPS

\* No entry comes from the future.
NoneLater == \A i \in DOMAIN cache.byTime : cache.byTime[i].time =< now

CacheInv == TypeOK /\ Sorted /\ SameIds /\ NoneLater

\* The same, of any cache c at any instant t.
Typed(c) ==
  /\ c = [data |-> c.data, byTime |-> c.byTime]
  /\ c.data \in [DOMAIN c.data -> Entry]
  /\ \A id \in DOMAIN c.data : id \in Id /\ c.data[id].id = id
  /\ c.byTime \in Seq(Entry)
Ordered(c) ==
  \A i, j \in DOMAIN c.byTime : i < j => c.byTime[i].time =< c.byTime[j].time
SameKeys(c) ==
  /\ \A i, j \in DOMAIN c.byTime : c.byTime[i].id = c.byTime[j].id => i = j
  /\ DOMAIN c.data = {c.byTime[i].id : i \in DOMAIN c.byTime}
UpTo(c, t) == \A i \in DOMAIN c.byTime : c.byTime[i].time =< t
Good(c, t) == Typed(c) /\ Ordered(c) /\ SameKeys(c) /\ UpTo(c, t)

\* When c first heard of id.
Since(c, id) ==
  c.byTime[CHOOSE i \in DOMAIN c.byTime : c.byTime[i].id = id].time

\* A set of natural numbers has a least element.
LEMMA Least ==
  ASSUME NEW S, S \subseteq Nat, S # {}
  PROVE  \E i \in S : \A j \in S : i =< j
<1> DEFINE R == OpToRel(<, Nat)
<1>1. \E i \in S : \A j \in S : ~ (<<j, i>> \in R)
  <2>1. IsWellFoundedOn(R, Nat)
    BY NatLessThanWellFounded
  <2> HIDE DEF R
  <2> QED BY <2>1, WFMin
<1>2. \A i, j \in Nat : ~ (<<j, i>> \in R) => i =< j
  BY DEF OpToRel
<1> HIDE DEF R
<1> QED BY <1>1, <1>2

\* The invariant is that the cache is good at the present instant.
LEMMA InvIsGood == CacheInv <=> Good(cache, now) /\ now \in Nat
BY DEF CacheInv, Good, TypeOK, Typed, Sorted, Ordered, SameIds, SameKeys,
   NoneLater, UpTo

-----------------------------------------------------------------------------
(* Facts about a good cache.                                               *)

\* byTime is a sequence of entries with natural times.
LEMMA Places ==
  ASSUME NEW c, Typed(c)
  PROVE  /\ Len(c.byTime) \in Nat /\ DOMAIN c.byTime = 1 .. Len(c.byTime)
         /\ \A i \in DOMAIN c.byTime :
              c.byTime[i] \in Entry /\ c.byTime[i].time \in Nat
<1>1. Len(c.byTime) \in Nat /\ DOMAIN c.byTime = 1 .. Len(c.byTime)
  BY LenProperties DEF Typed
<1>2. \A i \in DOMAIN c.byTime : c.byTime[i] \in Entry
  BY <1>1, ElementOfSeq DEF Typed
<1> QED BY <1>1, <1>2 DEF Entry

\* The time of an id is the time of its only place in byTime.
LEMMA SinceIsTime ==
  ASSUME NEW c, SameKeys(c), NEW i \in DOMAIN c.byTime
  PROVE  Since(c, c.byTime[i].id) = c.byTime[i].time
<1> DEFINE k == CHOOSE j \in DOMAIN c.byTime : c.byTime[j].id = c.byTime[i].id
<1>1. k \in DOMAIN c.byTime /\ c.byTime[k].id = c.byTime[i].id
  OBVIOUS
<1>2. k = i
  BY <1>1 DEF SameKeys
<1> QED BY <1>2 DEF Since

-----------------------------------------------------------------------------
(* insert.                                                                 *)

\* A new id goes to the end of byTime.
LEMMA InsertNew ==
  ASSUME NEW c, NEW t \in Nat, Good(c, t), NEW e \in Entry, e.time = t, ~Has(c, e.id)
  PROVE  LET d == Insert(c, e) IN
         /\ Good(d, t)
         /\ DOMAIN d.data = DOMAIN c.data \cup {e.id}
         /\ d.data[e.id] = e /\ Since(d, e.id) = t
         /\ \A id \in DOMAIN c.data :
              d.data[id] = c.data[id] /\ Since(d, id) = Since(c, id)
<1> DEFINE D == DOMAIN c.data \cup {e.id}
           data == [i \in D |-> IF i = e.id THEN e ELSE c.data[i]]
           s == c.byTime
           n == Len(s)
           d == [data |-> data, byTime |-> Append(s, e)]
<1>1. Insert(c, e) = d
  BY DEF Insert
<1>2. e.id \in Id /\ e.id \notin DOMAIN c.data
  BY DEF Entry, Has
<1>3. /\ n \in Nat /\ DOMAIN s = 1 .. n
      /\ \A i \in DOMAIN s : s[i] \in Entry /\ s[i].time \in Nat
  BY Places DEF Good
<1>4. /\ d.byTime \in Seq(Entry) /\ Len(d.byTime) = n + 1
      /\ \A i \in 1 .. n : d.byTime[i] = s[i]
      /\ d.byTime[n + 1] = e
  BY AppendProperties DEF Good, Typed
<1>5. DOMAIN d.byTime = 1 .. n + 1
  BY <1>4, LenProperties
<1>6. d.data = data /\ DOMAIN d.data = D /\ d.data[e.id] = e
  OBVIOUS
<1>7. \A id \in DOMAIN c.data : d.data[id] = c.data[id]
  BY <1>2
<1>8. Typed(d)
  <2>1. \A id \in D : d.data[id] \in Entry /\ id \in Id /\ d.data[id].id = id
    BY <1>2, <1>6, <1>7 DEF Good, Typed
  <2>2. d.data \in [D -> Entry]
    BY <2>1
  <2> QED BY <1>4, <1>6, <2>1, <2>2 DEF Typed
<1>9. \A i \in 1 .. n + 1 : i = n + 1 \/ i \in 1 .. n
  BY <1>3
<1> HIDE DEF d, n, s
<1>10. UpTo(d, t)
  BY <1>3, <1>4, <1>5, <1>9 DEF Good, UpTo, s
<1>11. Ordered(d)
  <2> SUFFICES ASSUME NEW i \in 1 .. n + 1, NEW j \in 1 .. n + 1, i < j
               PROVE  d.byTime[i].time =< d.byTime[j].time
    BY <1>5 DEF Ordered
  <2>1. i \in 1 .. n
    BY <1>3
  <2>2. CASE j \in 1 .. n
    BY <1>3, <1>4, <2>1, <2>2 DEF Good, Ordered, s
  <2>3. CASE j = n + 1
    BY <1>3, <1>4, <2>1, <2>3 DEF Good, UpTo, s
  <2> QED BY <1>9, <2>2, <2>3
<1>12. \A i \in 1 .. n : s[i].id \in DOMAIN c.data /\ s[i].id # e.id
  BY <1>2, <1>3 DEF Good, SameKeys, s
<1>13. SameKeys(d)
  <2>1. ASSUME NEW i \in 1 .. n + 1, NEW j \in 1 .. n + 1,
               d.byTime[i].id = d.byTime[j].id
        PROVE  i = j
    BY <1>3, <1>4, <1>9, <1>12, <2>1 DEF Good, SameKeys, s
  <2>2. DOMAIN c.data = {s[i].id : i \in 1 .. n}
    BY <1>3 DEF Good, SameKeys, s
  <2>3. n + 1 \in 1 .. n + 1 /\ 1 .. n \subseteq 1 .. n + 1
    BY <1>3
  <2>4. ASSUME NEW x \in D
        PROVE  x \in {d.byTime[i].id : i \in 1 .. n + 1}
    <3>1. CASE x = e.id
      BY <1>4, <2>3, <3>1
    <3>2. CASE x \in DOMAIN c.data
      <4>1. PICK i \in 1 .. n : x = s[i].id
        BY <2>2, <3>2
      <4> QED BY <1>4, <2>3, <4>1
    <3> QED BY <3>1, <3>2
  <2>5. ASSUME NEW i \in 1 .. n + 1
        PROVE  d.byTime[i].id \in D
    BY <1>4, <1>9, <1>12
  <2>6. D = {d.byTime[i].id : i \in 1 .. n + 1}
    <3> HIDE DEF D
    <3> QED BY <2>4, <2>5
  <2> QED BY <1>5, <1>6, <2>1, <2>6 DEF SameKeys
<1>14. Since(d, e.id) = t
  <2>1. n + 1 \in DOMAIN d.byTime
    BY <1>3, <1>5
  <2> QED BY <1>4, <1>13, <2>1, SinceIsTime
<1>15. ASSUME NEW id \in DOMAIN c.data
       PROVE  Since(d, id) = Since(c, id)
  <2>1. PICK i \in DOMAIN s : id = s[i].id
    BY DEF Good, SameKeys, s
  <2>2. i \in DOMAIN d.byTime /\ d.byTime[i] = s[i]
    BY <1>3, <1>4, <1>5
  <2>3. Since(c, id) = s[i].time
    BY <2>1, SinceIsTime DEF Good, s
  <2> QED BY <1>13, <2>1, <2>2, <2>3, SinceIsTime
<1> QED BY <1>1, <1>6, <1>7, <1>8, <1>10, <1>11, <1>13, <1>14, <1>15 DEF Good

\* A known id keeps its place, and the shorter of the two paths.
LEMMA InsertKnown ==
  ASSUME NEW c, NEW t \in Nat, Good(c, t), NEW e \in Entry, Has(c, e.id)
  PROVE  LET d == Insert(c, e) IN
         /\ Good(d, t)
         /\ DOMAIN d.data = DOMAIN c.data
         /\ d.data[e.id].hop = IF e.hop < c.data[e.id].hop THEN e.hop
                               ELSE c.data[e.id].hop
         /\ \A id \in DOMAIN c.data :
              /\ id # e.id => d.data[id] = c.data[id]
              /\ Since(d, id) = Since(c, id)
<1> DEFINE d == Insert(c, e)
<1>1. d.byTime = c.byTime
  BY DEF Insert, Has, Good, Typed
<1>2. e.id \in DOMAIN c.data /\ e.id \in Id
  BY DEF Has, Entry
<1>3. CASE e.hop < c.data[e.id].hop
  <2>1. d.data = [c.data EXCEPT ![e.id] = e] /\ d = [data |-> d.data, byTime |-> d.byTime]
    BY <1>2, <1>3 DEF Insert, Has, Good, Typed
  <2>2. Typed(d)
    BY <1>1, <1>2, <2>1 DEF Good, Typed
  <2> QED BY <1>1, <1>2, <1>3, <2>1, <2>2 DEF Good, Typed, Ordered, SameKeys, UpTo, Since
<1>4. CASE ~ (e.hop < c.data[e.id].hop)
  BY <1>2, <1>4 DEF Insert, Has
<1> QED BY <1>3, <1>4

-----------------------------------------------------------------------------
(* remove_older_than.                                                      *)

\* In a sorted cache the walk from the front meets every entry that is old.
LEMMA ExpiredIsOld ==
  ASSUME NEW c, Typed(c), Ordered(c), NEW since \in Nat
  PROVE  Expired(c, since) = {i \in DOMAIN c.byTime : c.byTime[i].time =< since}
<1>1. /\ Len(c.byTime) \in Nat /\ DOMAIN c.byTime = 1 .. Len(c.byTime)
      /\ \A i \in DOMAIN c.byTime : c.byTime[i].time \in Nat
  BY Places
<1>2. ASSUME NEW i \in DOMAIN c.byTime, c.byTime[i].time =< since, NEW j \in 1 .. i
      PROVE  c.byTime[j].time =< since
  <2>1. j \in DOMAIN c.byTime /\ (j < i \/ j = i)
    BY <1>1
  <2> QED BY <1>1, <1>2, <2>1 DEF Ordered
<1>3. \A i \in DOMAIN c.byTime : i \in 1 .. i
  BY <1>1
<1> QED BY <1>2, <1>3 DEF Expired

\* What is left of byTime is a suffix, and all of it is young.
LEMMA KeptSuffix ==
  ASSUME NEW c, Typed(c), Ordered(c), NEW since \in Nat
  PROVE  LET s == c.byTime
             d == RemoveOlderThan(c, since)
         IN  \E k \in 0 .. Len(s) :
               /\ d.byTime \in Seq(Entry) /\ Len(d.byTime) = Len(s) - k
               /\ \A i \in 1 .. Len(s) - k : d.byTime[i] = s[i + k]
               /\ \A i \in 1 .. Len(s) : s[i].time =< since <=> i =< k
<1> DEFINE s == c.byTime
           n == Len(s)
           old == {i \in 1 .. n : s[i].time =< since}
           kept == {i \in 1 .. n : i \notin old}
           first == CHOOSE i \in kept : \A j \in kept : i =< j
           t == IF kept = {} THEN << >> ELSE SubSeq(s, first, n)
<1>1. /\ n \in Nat /\ DOMAIN s = 1 .. n
      /\ \A i \in 1 .. n : s[i] \in Entry /\ s[i].time \in Nat
  BY Places
<1>2. Expired(c, since) = old
  BY <1>1, ExpiredIsOld
<1>3. RemoveOlderThan(c, since).byTime = t
  BY <1>1, <1>2 DEF RemoveOlderThan
<1>4. \A i, j \in 1 .. n : i < j => s[i].time =< s[j].time
  BY <1>1 DEF Ordered
<1>5. CASE kept = {}
  <2>1. t = << >> /\ \A i \in 1 .. n : s[i].time =< since
    BY <1>5
  <2>2. t \in Seq(Entry) /\ Len(t) = n - n /\ n \in 0 .. n
    BY <1>1, <2>1, EmptySeq
  <2>3. \A i \in 1 .. n : s[i].time =< since <=> i =< n
    BY <1>1, <2>1
  <2>4. \A i \in 1 .. n - n : t[i] = s[i + n]
    BY <1>1
  <2> HIDE DEF t, n, s
  <2> QED BY <1>3, <2>2, <2>3, <2>4 DEF n, s
<1>6. CASE kept # {}
  <2>1. \E i \in kept : \A j \in kept : i =< j
    <3>1. kept \subseteq Nat
      BY <1>1
    <3> HIDE DEF kept
    <3> QED BY <1>6, <3>1, Least
  <2>2. first \in kept /\ \A j \in kept : first =< j
    BY <2>1
  <2> DEFINE k == first - 1
  <2>3. t = SubSeq(s, first, n)
    BY <1>6
  <2> HIDE DEF first, t, n, s
  <2>4. /\ first \in 1 .. n /\ s[first].time > since /\ k \in 0 .. n
        /\ first \in Int /\ n \in Int
    <3>1. first \in 1 .. n /\ ~(s[first].time =< since)
      BY <2>2
    <3> QED BY <1>1, <3>1
  <2>5. \A i \in 1 .. n : i < first => s[i].time =< since
    BY <1>1, <2>2, <2>4
  <2>6. \A i \in 1 .. n : first =< i => s[i].time > since
    BY <1>1, <1>4, <2>4
  <2> HIDE DEF kept
  <2>7. /\ t \in Seq(Entry) /\ Len(t) = n - first + 1
        /\ \A i \in 1 .. n - first + 1 : t[i] = s[first + i - 1]
    <3>1. \A i \in first .. n : s[i] \in Entry
      BY <1>1, <2>4
    <3>2. /\ SubSeq(s, first, n) \in Seq(Entry)
          /\ Len(SubSeq(s, first, n)) = IF first <= n THEN n - first + 1 ELSE 0
          /\ \A i \in 1 .. n - first + 1 : SubSeq(s, first, n)[i] = s[first + i - 1]
      BY <2>4, <3>1, SubSeqProperties
    <3> QED BY <2>4, <2>3, <3>2
  <2>8. Len(t) = n - k /\ \A i \in 1 .. n - k : t[i] = s[i + k]
    <3>1. n - k = n - first + 1
      BY <2>4
    <3>2. \A i \in 1 .. n - k : first + i - 1 = i + k
      BY <2>4
    <3> QED BY <2>7, <3>1, <3>2
  <2>9. \A i \in 1 .. n : s[i].time =< since <=> i =< k
    BY <1>1, <2>4, <2>5, <2>6
  <2> HIDE DEF k
  <2> QED BY <1>3, <2>4, <2>7, <2>8, <2>9 DEF n, s
<1> QED BY <1>5, <1>6

\* The cache stays good, and forgets the ids it has known since the cutoff or
\* longer, and no others.
LEMMA RemoveGood ==
  ASSUME NEW c, NEW t \in Nat, Good(c, t), NEW since \in Nat
  PROVE  LET d == RemoveOlderThan(c, since) IN
         /\ Good(d, t)
         /\ DOMAIN d.data = {id \in DOMAIN c.data : Since(c, id) > since}
         /\ \A id \in DOMAIN d.data :
              d.data[id] = c.data[id] /\ Since(d, id) = Since(c, id)
<1> DEFINE s == c.byTime
           n == Len(s)
           d == RemoveOlderThan(c, since)
           r == d.byTime
<1>1. /\ n \in Nat /\ DOMAIN s = 1 .. n
      /\ \A i \in 1 .. n : s[i] \in Entry /\ s[i].time \in Nat
  BY Places DEF Good
<1>2. PICK k \in 0 .. n :
        /\ r \in Seq(Entry) /\ Len(r) = n - k
        /\ \A i \in 1 .. n - k : r[i] = s[i + k]
        /\ \A i \in 1 .. n : s[i].time =< since <=> i =< k
  BY KeptSuffix DEF Good
<1>3. DOMAIN r = 1 .. n - k
  BY <1>2, LenProperties
<1>4. \A i \in 1 .. n - k : i + k \in 1 .. n /\ s[i + k].time > since
  BY <1>1, <1>2
<1>5. \A i \in 1 .. n : i > k => i - k \in 1 .. n - k /\ r[i - k] = s[i]
  BY <1>1, <1>2
<1>6. d.data = [id \in DOMAIN c.data \ {s[i].id : i \in Expired(c, since)} |-> c.data[id]]
      /\ d = [data |-> d.data, byTime |-> r]
  BY DEF RemoveOlderThan
<1>7. Expired(c, since) = {i \in 1 .. n : s[i].time =< since}
  BY <1>1, ExpiredIsOld DEF Good
<1>8. \A i \in 1 .. n : Since(c, s[i].id) = s[i].time
  BY <1>1, SinceIsTime DEF Good
<1>9. DOMAIN c.data = {s[i].id : i \in 1 .. n}
      /\ \A i, j \in 1 .. n : s[i].id = s[j].id => i = j
  BY <1>1 DEF Good, SameKeys
<1> HIDE DEF d, n, s, r
<1>10. DOMAIN d.data = {id \in DOMAIN c.data : Since(c, id) > since}
  <2>1. ASSUME NEW i \in 1 .. n
        PROVE  s[i].id \in DOMAIN d.data <=> s[i].time > since
    <3>1. s[i].id \in {s[j].id : j \in Expired(c, since)} <=> s[i].time =< since
      BY <1>7, <1>9
    <3> QED BY <1>1, <1>6, <1>9, <3>1
  <2>2. DOMAIN d.data \subseteq DOMAIN c.data
    BY <1>6
  <2> QED BY <1>8, <1>9, <2>1, <2>2
<1>11. \A id \in DOMAIN d.data : d.data[id] = c.data[id]
  BY <1>6
<1>12. Typed(d)
  <2>1. \A id \in DOMAIN d.data : d.data[id] \in Entry /\ id \in Id /\ d.data[id].id = id
    BY <1>10, <1>11 DEF Good, Typed
  <2>2. d.data \in [DOMAIN d.data -> Entry]
    BY <1>6, <1>11, <2>1
  <2> QED BY <1>2, <1>6, <2>1, <2>2 DEF Typed, r
<1>13. Ordered(d)
  <2> SUFFICES ASSUME NEW i \in 1 .. n - k, NEW j \in 1 .. n - k, i < j
               PROVE  r[i].time =< r[j].time
    BY <1>3 DEF Ordered, r
  <2>1. i + k < j + k
    BY <1>1, <1>2
  <2> QED BY <1>1, <1>2, <1>4, <2>1 DEF Good, Ordered, s
<1>14. UpTo(d, t)
  BY <1>1, <1>2, <1>3, <1>4 DEF Good, UpTo, r, s
<1>15. SameKeys(d)
  <2>1. ASSUME NEW i \in 1 .. n - k, NEW j \in 1 .. n - k, r[i].id = r[j].id
        PROVE  i = j
    <3>1. i + k = j + k
      BY <1>2, <1>4, <1>9, <2>1
    <3> QED BY <1>1, <1>2, <3>1
  <2>2. ASSUME NEW i \in 1 .. n - k
        PROVE  r[i].id \in DOMAIN d.data
    BY <1>2, <1>4, <1>8, <1>9, <1>10
  <2>3. ASSUME NEW id \in DOMAIN d.data
        PROVE  id \in {r[i].id : i \in 1 .. n - k}
    <3>1. PICK i \in 1 .. n : id = s[i].id
      BY <1>9, <1>10
    <3>2. s[i].time > since
      BY <1>8, <1>10, <3>1
    <3>3. i > k
      BY <1>1, <1>2, <3>2
    <3> QED BY <1>5, <3>1, <3>3
  <2>4. DOMAIN d.data = {r[i].id : i \in 1 .. n - k}
    BY <2>2, <2>3
  <2> QED BY <1>3, <2>1, <2>4 DEF SameKeys, r
<1>16. ASSUME NEW id \in DOMAIN d.data
       PROVE  Since(d, id) = Since(c, id)
  <2>1. PICK i \in 1 .. n - k : id = r[i].id
    BY <1>3, <1>15 DEF SameKeys, r
  <2>2. Since(d, id) = r[i].time
    BY <1>3, <1>15, <2>1, SinceIsTime DEF r
  <2> QED BY <1>2, <1>4, <1>8, <2>1, <2>2
<1> QED BY <1>10, <1>11, <1>12, <1>13, <1>14, <1>15, <1>16 DEF Good, d

-----------------------------------------------------------------------------
(* iter_range.                                                             *)

\* Whichever place the binary search returns for t, what is before it is not
\* younger than t and what is at or after it is not older.
LEMMA PositionSplits ==
  ASSUME NEW c, Typed(c), Ordered(c), NEW t \in Nat, NEW p \in Positions(c, t)
  PROVE  /\ p \in 1 .. Len(c.byTime) + 1
         /\ \A i \in DOMAIN c.byTime : i < p => c.byTime[i].time =< t
         /\ \A i \in DOMAIN c.byTime : i >= p => c.byTime[i].time >= t
<1> DEFINE s == c.byTime
           hits == {i \in DOMAIN s : s[i].time = t}
           gap == {i \in 1 .. Len(s) + 1 :
                     /\ \A j \in DOMAIN s : j < i => s[j].time < t
                     /\ \A j \in DOMAIN s : j >= i => s[j].time > t}
<1>1. /\ Len(s) \in Nat /\ DOMAIN s = 1 .. Len(s)
      /\ \A i \in DOMAIN s : s[i].time \in Nat
  BY Places
<1>2. p \in hits \/ p \in gap
  BY DEF Positions
<1>3. CASE p \in hits
  BY <1>1, <1>3 DEF Ordered
<1>4. CASE p \in gap
  BY <1>1, <1>4
<1> QED BY <1>2, <1>3, <1>4

\* The range between two places found for from and until.
LEMMA OneWindow ==
  ASSUME TypeOK, Sorted,
         NEW from \in 0 .. MaxTime + 1, NEW until \in 0 .. MaxTime + 1, from < until,
         NEW first \in Positions(cache, from), NEW last \in Positions(cache, until)
  PROVE  LET window == [i \in 1 .. last - first |-> cache.byTime[first + i - 1]]
         IN  /\ first =< last
             /\ \A i \in DOMAIN window : window[i].time \in from .. until
             /\ \A i \in DOMAIN cache.byTime :
                  cache.byTime[i].time \in from + 1 .. until - 1 =>
                    \E j \in DOMAIN window : window[j] = cache.byTime[i]
<1> DEFINE s == cache.byTime
           n == Len(s)
           window == [i \in 1 .. last - first |-> s[first + i - 1]]
<1>1. Typed(cache) /\ Ordered(cache) /\ from \in Nat /\ until \in Nat
  BY CacheBoundsAssumption DEF TypeOK, Sorted, Typed, Ordered
<1>2. /\ n \in Nat /\ DOMAIN s = 1 .. n
      /\ \A i \in DOMAIN s : s[i].time \in Nat
  BY <1>1, Places
<1>3. /\ first \in 1 .. n + 1
      /\ \A i \in 1 .. n : i < first => s[i].time =< from
      /\ \A i \in 1 .. n : i >= first => s[i].time >= from
  BY <1>1, <1>2, PositionSplits
<1>4. /\ last \in 1 .. n + 1
      /\ \A i \in 1 .. n : i < last => s[i].time =< until
      /\ \A i \in 1 .. n : i >= last => s[i].time >= until
  BY <1>1, <1>2, PositionSplits
<1> HIDE DEF s, n
<1>5. first =< last
  <2> SUFFICES ASSUME last < first PROVE FALSE
    BY <1>2, <1>3, <1>4
  <2>1. last \in 1 .. n
    BY <1>2, <1>3, <1>4
  <2> QED BY <1>1, <1>2, <1>3, <1>4, <2>1
<1>6. ASSUME NEW i \in 1 .. last - first
      PROVE  window[i].time \in from .. until
  <2>1. /\ first + i - 1 \in 1 .. n
        /\ first + i - 1 >= first /\ first + i - 1 < last
    BY <1>2, <1>3, <1>4
  <2>2. s[first + i - 1].time >= from /\ s[first + i - 1].time =< until
    BY <1>3, <1>4, <2>1
  <2>3. window[i].time = s[first + i - 1].time /\ s[first + i - 1].time \in Nat
    BY <1>2, <2>1
  <2> QED BY <1>1, <2>2, <2>3
<1>7. ASSUME NEW i \in 1 .. n, s[i].time \in from + 1 .. until - 1
      PROVE  \E j \in 1 .. last - first : window[j] = s[i]
  <2>1. first =< i /\ i < last
    BY <1>1, <1>2, <1>3, <1>4, <1>7
  <2>2. i - first + 1 \in 1 .. last - first /\ first + (i - first + 1) - 1 = i
    BY <1>2, <1>3, <1>4, <2>1
  <2> QED BY <2>2
<1> QED BY <1>2, <1>5, <1>6, <1>7 DEF s

\* A sorted cache is read exactly.
LEMMA ExactWindows == TypeOK /\ Sorted => WindowExact
<1> SUFFICES ASSUME TypeOK, Sorted,
                    NEW from \in 0 .. MaxTime + 1, NEW until \in 0 .. MaxTime + 1,
                    from < until
             PROVE  /\ \A first \in Positions(cache, from), last \in Positions(cache, until) :
                         first =< last
                    /\ \A window \in IterRange(cache, from, until) :
                         /\ \A i \in DOMAIN window : window[i].time \in from .. until
                         /\ \A i \in DOMAIN cache.byTime :
                              cache.byTime[i].time \in from + 1 .. until - 1 =>
                                \E j \in DOMAIN window : window[j] = cache.byTime[i]
  BY DEF WindowExact
<1>1. \A first \in Positions(cache, from), last \in Positions(cache, until) :
        first =< last
  BY OneWindow
<1>2. ASSUME NEW window \in IterRange(cache, from, until)
      PROVE  /\ \A i \in DOMAIN window : window[i].time \in from .. until
             /\ \A i \in DOMAIN cache.byTime :
                  cache.byTime[i].time \in from + 1 .. until - 1 =>
                    \E j \in DOMAIN window : window[j] = cache.byTime[i]
  <2>1. PICK first \in Positions(cache, from), last \in Positions(cache, until) :
          window = [i \in 1 .. last - first |-> cache.byTime[first + i - 1]]
    BY DEF IterRange
  <2> QED BY <2>1, OneWindow
<1> QED BY <1>1, <1>2

-----------------------------------------------------------------------------
(* The cache in use.                                                       *)

\* An entry stamped now is an entry.
LEMMA TimedEntry ==
  ASSUME NEW id \in Id, NEW hop \in 0 .. MaxHop, NEW sender \in Peer, NEW t \in Nat
  PROVE  LET e == Timed(id, hop, sender, t)
         IN  e \in Entry /\ e.id = id /\ e.hop = hop /\ e.time = t
BY DEF Timed, Entry

\* The empty cache is good.
LEMMA InitCache == Init => CacheInv
<1> SUFFICES ASSUME Init PROVE CacheInv
  OBVIOUS
<1>1. cache.data = << >> /\ cache.byTime = << >> /\ cache = EmptyCache /\ now = 1
  BY DEF Init, EmptyCache
<1>2. << >> \in Seq(Entry) /\ DOMAIN << >> = {}
  BY EmptySeq
<1>3. TypeOK
  BY <1>1, <1>2 DEF TypeOK, EmptyCache
<1> QED BY <1>1, <1>2, <1>3 DEF CacheInv, Sorted, SameIds, NoneLater

\* insert, prune_history and the clock keep the invariant.
LEMMA CacheStep == CacheInv /\ [Next]_vars => CacheInv'
<1> SUFFICES ASSUME CacheInv, [Next]_vars PROVE CacheInv'
  OBVIOUS
<1>1. Good(cache, now) /\ now \in Nat
  BY InvIsGood
<1>2. Good(cache', now') /\ now' \in Nat => CacheInv'
  BY DEF CacheInv, Good, TypeOK, Typed, Sorted, Ordered, SameIds, SameKeys,
     NoneLater, UpTo
<1>3. ASSUME NEW id \in Id, NEW hop \in 0 .. MaxHop, NEW sender \in Peer,
             Offer(id, hop, sender)
      PROVE  CacheInv'
  <2> DEFINE e == Timed(id, hop, sender, now)
  <2>1. e \in Entry /\ e.time = now
    BY <1>1, TimedEntry
  <2>2. cache' = Insert(cache, e) /\ now' = now
    BY <1>3 DEF Offer
  <2> HIDE DEF e
  <2> QED BY <1>1, <1>2, <2>1, <2>2, InsertNew, InsertKnown
<1>4. CASE PruneHistory
  <2>1. now - HistoryWindow \in Nat
    BY <1>1, <1>4, CacheBoundsAssumption DEF PruneHistory
  <2> QED BY <1>1, <1>2, <1>4, <2>1, RemoveGood DEF PruneHistory
<1>5. CASE Advance
  <2>1. now' = now + 1 /\ cache' = cache
    BY <1>5 DEF Advance
  <2>2. UpTo(cache, now + 1)
    BY <1>1, Places DEF Good, UpTo
  <2> QED BY <1>1, <1>2, <2>1, <2>2 DEF Good
<1>6. CASE UNCHANGED vars
  BY <1>1, <1>2, <1>6 DEF vars
<1> QED BY <1>3, <1>4, <1>5, <1>6 DEF Next

\* The cache is typed, sorted, consistent and free of entries of the future
\* in every state.
THEOREM CacheInvariant == Spec => []CacheInv
BY InitCache, CacheStep, PTL DEF Spec

\* Both collections hold entries, of which every one has its type
\* (cache.rs 55-97).
THEOREM CacheTypes == Spec => []TypeOK
<1>1. CacheInv => TypeOK
  BY DEF CacheInv
<1> QED BY <1>1, CacheInvariant, PTL

\* byTime stays in the order of time, which the binary search of iter_range
\* and the pruning from the front both need (cache.rs 104-121).
THEOREM CacheSorted == Spec => []Sorted
<1>1. CacheInv => Sorted
  BY DEF CacheInv
<1> QED BY <1>1, CacheInvariant, PTL

\* data and byTime hold the same ids, each once (cache.rs 76-97, 113-121).
THEOREM CacheSameIds == Spec => []SameIds
<1>1. CacheInv => SameIds
  BY DEF CacheInv
<1> QED BY <1>1, CacheInvariant, PTL

\* Every read of a window returns what was first heard of strictly inside it
\* and nothing from outside, and never panics (cache.rs 101-111).
THEOREM CacheWindowExact == Spec => []WindowExact
<1>1. CacheInv => WindowExact
  BY ExactWindows DEF CacheInv
<1> QED BY <1>1, CacheInvariant, PTL

-----------------------------------------------------------------------------
(* The refinement: Known abstracts the cache, and every step of the cache  *)
(* is a step of the expiring map or leaves the map as it is.               *)

\* What the map remembers of a cache c.
KnownIn(c) ==
  [id \in DOMAIN c.data |-> [since |-> Since(c, id), hop |-> c.data[id].hop]]

\* The refinement mapping is KnownIn, now and after the step.
LEMMA Mapping == Known = KnownIn(cache) /\ Known' = KnownIn(cache')
BY DEF Known, FirstSeen, KnownIn, Since

\* The empty cache remembers nothing.
LEMMA InitMaps == Init => Map!Init
<1> SUFFICES ASSUME Init PROVE Map!Init
  OBVIOUS
<1>1. cache.data = << >> /\ now = 1
  BY DEF Init, EmptyCache
<1>2. DOMAIN << >> = {}
  OBVIOUS
<1>3. KnownIn(cache) = [i \in {} |-> 0]
  BY <1>1, <1>2 DEF KnownIn
<1> QED BY <1>1, <1>3, Mapping DEF Map!Init

\* insert is an offer: the first one counts for the time, the shortest for
\* the path.
LEMMA OfferMaps ==
  ASSUME CacheInv, NEW id \in Id, NEW hop \in 0 .. MaxHop, NEW sender \in Peer,
         Offer(id, hop, sender)
  PROVE  Map!Offer(id, hop)
<1> DEFINE e == Timed(id, hop, sender, now)
           K == KnownIn(cache)
           L == KnownIn(cache')
<1>1. Good(cache, now) /\ now \in Nat
  BY InvIsGood
<1>2. e \in Entry /\ e.id = id /\ e.hop = hop /\ e.time = now
  BY <1>1, TimedEntry
<1>3. cache' = Insert(cache, e) /\ now' = now
  BY DEF Offer
<1> HIDE DEF e
<1>4. DOMAIN K = DOMAIN cache.data /\ DOMAIN L = DOMAIN cache'.data
  BY DEF KnownIn
<1>5. \A j \in DOMAIN K : K[j] = [since |-> Since(cache, j), hop |-> cache.data[j].hop]
  BY DEF KnownIn
<1>6. \A j \in DOMAIN L : L[j] = [since |-> Since(cache', j), hop |-> cache'.data[j].hop]
  BY DEF KnownIn
<1> DEFINE M == [j \in DOMAIN K \cup {id} |->
                   IF j # id THEN K[j]
                   ELSE IF id \notin DOMAIN K THEN [since |-> now, hop |-> hop]
                   ELSE IF hop < K[id].hop THEN [K[id] EXCEPT !.hop = hop]
                   ELSE K[id]]
<1>7. L = [j \in DOMAIN L |-> L[j]]
  BY DEF KnownIn
<1> HIDE DEF K, L
<1>8. DOMAIN L = DOMAIN K \cup {id} /\ \A j \in DOMAIN K \cup {id} : L[j] = M[j]
  <2>1. CASE ~Has(cache, id)
    <3>1. /\ DOMAIN cache'.data = DOMAIN cache.data \cup {id}
          /\ cache'.data[id] = e /\ Since(cache', id) = now
          /\ \A j \in DOMAIN cache.data :
               cache'.data[j] = cache.data[j] /\ Since(cache', j) = Since(cache, j)
      BY <1>1, <1>2, <1>3, <2>1, InsertNew
    <3>2. id \notin DOMAIN K
      BY <1>4, <2>1 DEF Has
    <3>3. DOMAIN L = DOMAIN K \cup {id}
      BY <1>4, <3>1
    <3>4. L[id] = M[id]
      BY <1>2, <1>6, <3>1, <3>2, <3>3
    <3>5. \A j \in DOMAIN K : L[j] = M[j]
      BY <1>4, <1>5, <1>6, <3>1, <3>2, <3>3
    <3> QED BY <3>3, <3>4, <3>5
  <2>2. CASE Has(cache, id)
    <3>1. /\ DOMAIN cache'.data = DOMAIN cache.data
          /\ cache'.data[id].hop = IF hop < cache.data[id].hop THEN hop
                                   ELSE cache.data[id].hop
          /\ \A j \in DOMAIN cache.data :
               /\ j # id => cache'.data[j] = cache.data[j]
               /\ Since(cache', j) = Since(cache, j)
      BY <1>1, <1>2, <1>3, <2>2, InsertKnown
    <3>2. id \in DOMAIN K /\ DOMAIN L = DOMAIN K \cup {id}
      BY <1>4, <2>2, <3>1 DEF Has
    <3>3. K[id].hop = cache.data[id].hop
      BY <1>5, <3>2
    <3>4. L[id] = M[id]
      <4>1. L[id] = [since |-> Since(cache, id), hop |-> cache'.data[id].hop]
        BY <1>4, <1>6, <3>1, <3>2
      <4>2. [K[id] EXCEPT !.hop = hop] = [since |-> Since(cache, id), hop |-> hop]
        BY <1>5, <3>2
      <4>3. M[id] = IF hop < K[id].hop THEN [K[id] EXCEPT !.hop = hop] ELSE K[id]
        BY <3>2
      <4> QED BY <1>5, <3>1, <3>2, <3>3, <4>1, <4>2, <4>3
    <3>5. \A j \in DOMAIN K : j # id => L[j] = M[j]
      BY <1>4, <1>5, <1>6, <3>1, <3>2
    <3> QED BY <3>2, <3>4, <3>5
  <2> QED BY <2>1, <2>2
<1>9. L = M
  BY <1>7, <1>8
<1> QED BY <1>3, <1>9, Mapping DEF Map!Offer, K, L

\* prune_history forgets what is at least as old as the cutoff.
LEMMA PruneMaps ==
  ASSUME CacheInv, PruneHistory
  PROVE  now > HistoryWindow /\ Map!Forget(now - HistoryWindow)
<1> DEFINE cutoff == now - HistoryWindow
           K == KnownIn(cache)
           L == KnownIn(cache')
<1>1. Good(cache, now) /\ now \in Nat
  BY InvIsGood
<1>2. cutoff \in Nat /\ now > HistoryWindow /\ now' = now
  BY <1>1, CacheBoundsAssumption DEF PruneHistory
<1>3. cache' = RemoveOlderThan(cache, cutoff)
  BY DEF PruneHistory
<1> HIDE DEF cutoff
<1>4. /\ DOMAIN cache'.data = {j \in DOMAIN cache.data : Since(cache, j) > cutoff}
      /\ \A j \in DOMAIN cache'.data :
           cache'.data[j] = cache.data[j] /\ Since(cache', j) = Since(cache, j)
  BY <1>1, <1>2, <1>3, RemoveGood
<1>5. {j \in DOMAIN K : K[j].since > cutoff} = DOMAIN cache'.data
  BY <1>4 DEF KnownIn
<1>6. L = [i \in {j \in DOMAIN K : K[j].since > cutoff} |-> K[i]]
  BY <1>4, <1>5 DEF KnownIn
<1> HIDE DEF K, L
<1> QED BY <1>2, <1>6, Mapping DEF Map!Forget, K, L, cutoff

\* A step of the cache is a step of the map, or the map does not see it.
LEMMA StepMaps == CacheInv /\ [Next]_vars => [Map!Next]_<<Known, now>>
<1> SUFFICES ASSUME CacheInv, [Next]_vars PROVE [Map!Next]_<<Known, now>>
  OBVIOUS
<1>1. ASSUME NEW id \in Id, NEW hop \in 0 .. MaxHop, NEW sender \in Peer,
             Offer(id, hop, sender)
      PROVE  Map!Next
  BY <1>1, OfferMaps DEF Map!Next
<1>2. CASE PruneHistory
  BY <1>2, PruneMaps DEF Map!Next
<1>3. CASE Advance
  BY <1>3, Mapping DEF Advance, Map!Next, Map!Advance
<1>4. CASE UNCHANGED vars
  BY <1>4, Mapping DEF vars
<1> QED BY <1>1, <1>2, <1>3, <1>4 DEF Next

\* The cache implements the expiring map: a lookup gives the shortest path
\* since the id was first heard of, and a prune forgets exactly the old ids
\* (cache.rs 76-121).
THEOREM CacheImplementsMap == Spec => ImplementsMap
<1>1. Init /\ [][Next]_vars /\ []CacheInv => Map!Init /\ [][Map!Next]_<<Known, now>>
  BY InitMaps, StepMaps, PTL
<1> QED BY <1>1, CacheInvariant, PTL DEF Spec, ImplementsMap, Map!Spec
=============================================================================
