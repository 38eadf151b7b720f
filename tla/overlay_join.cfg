CONSTANTS
  n1 = n1
  n2 = n2
  n3 = n3
  n4 = n4
  Node = {n1, n2, n3, n4}
  MaxActive = 2
  PassiveViewFactor = 1
  WalkLength = 2
  Bootstrap <- FanOfThree
  MaxTicks = 1
  MaxShuffles = 1
  MaxCloses = 0
  MaxDialFailures = 1
SPECIFICATION FairSpec
CHECK_DEADLOCK FALSE
INVARIANTS TypeOK ActiveBound ActiveReachable
PROPERTY Quiesces
