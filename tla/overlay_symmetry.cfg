CONSTANTS
  n1 = n1
  n2 = n2
  n3 = n3
  n4 = n4
  Node = {n1, n2, n3}
  MaxActive = 2
  PassiveViewFactor = 1
  WalkLength = 2
  Bootstrap <- StarOfTwo
  MaxTicks = 0
  MaxShuffles = 0
  MaxCloses = 0
  MaxDialFailures = 0
SPECIFICATION Spec
CHECK_DEADLOCK FALSE
INVARIANT LinksSymmetric
