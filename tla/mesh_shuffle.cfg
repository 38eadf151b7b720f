CONSTANTS
  peer1 = peer1
  peer2 = peer2
  peer3 = peer3
  Self = self
  Node = {self, peer1, peer2, peer3}
  MaxActive = 2
  PassiveViewFactor = 1
  WalkLength = 2
  OptimizeSenderTree = TRUE
  HopOptimizationFactor = 1
  LazyPushWindow = 3
  HistoryWindow = 4
  TickFrequency = 1
  Id = {m1}
  MaxHop = 1
  MaxInputs = 3
  MaxTicks = 1
SPECIFICATION Spec
SYMMETRY PeerSymmetry
PROPERTY ExcessOnly
CHECK_DEADLOCK FALSE
