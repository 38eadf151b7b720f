CONSTANTS
  n1 = n1
  n2 = n2
  n3 = n3
  n4 = n4
  Node = {n1, n2}
  MaxActive = 2
  PassiveViewFactor = 1
  WalkLength = 2
  Bootstrap <- Pair
  MaxTicks = 1
  MaxShuffles = 1
  MaxCloses = 1
  MaxDialFailures = 1
SPECIFICATION FairSpec
CHECK_DEADLOCK FALSE
INVARIANTS NotOwnNeighbour ActiveReachable
PROPERTY Quiesces
