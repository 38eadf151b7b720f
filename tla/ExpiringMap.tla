----------------------------- MODULE ExpiringMap -----------------------------
(***************************************************************************)
(* What a message cache promises, with no word on how it is stored: it     *)
(* remembers, for every id, when it first heard of it and the shortest     *)
(* path it was offered since, and forgets ids first heard of at or before  *)
(* a cutoff, all of them and only them.                                    *)
(***************************************************************************)
EXTENDS Naturals

CONSTANTS Id, MaxHop, MaxTime, HistoryWindow

VARIABLES known,  \* known[i]: [since, hop] of every id the cache remembers
          now

Init == known = [i \in {} |-> 0] /\ now = 1

Offer(i, hop) ==
  /\ known' = [j \in DOMAIN known \cup {i} |->
                 IF j # i THEN known[j]
                 ELSE IF i \notin DOMAIN known THEN [since |-> now, hop |-> hop]
                 ELSE IF hop < known[i].hop THEN [known[i] EXCEPT !.hop = hop]
                 ELSE known[i]]
  /\ UNCHANGED now

Forget(cutoff) ==
  /\ known' = [i \in {j \in DOMAIN known : known[j].since > cutoff} |-> known[i]]
  /\ UNCHANGED now

Advance == now < MaxTime /\ now' = now + 1 /\ UNCHANGED known

Next ==
  \/ \E i \in Id, hop \in 0 .. MaxHop : Offer(i, hop)
  \/ now > HistoryWindow /\ Forget(now - HistoryWindow)
  \/ Advance

Spec == Init /\ [][Next]_<<known, now>>
=============================================================================
