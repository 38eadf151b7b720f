----------------------------- MODULE MCOverlay -----------------------------
(* Small overlays for TLC. *)
EXTENDS Overlay

CONSTANTS n1, n2, n3, n4

\* Two nodes know the address of the third.
StarOfTwo == {<<n1, n2>>, <<n3, n2>>}
\* Two nodes know each other's address, and dial at the same time.
Pair == {<<n1, n2>>, <<n2, n1>>}
\* One node dials three, one more than its active view holds.
FanOfThree == {<<n1, n2>>, <<n1, n3>>, <<n1, n4>>}
=============================================================================
