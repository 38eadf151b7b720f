CONSTANTS
  n1 = n1
  n2 = n2
  n3 = n3
  m1 = m1
  m2 = m2
  Node = {n1, n2, n3}
  Link <- Triangle
  Pruned <- OneEager
  Schedule <- TwoMessages
  Nobody = nobody
  MaxTime = 8
  MaxChanges = 1
  OptimizeSenderTree = TRUE
  HopOptimizationFactor = 1
  LazyPushWindow = 4
  HistoryWindow = 7
  TickFrequency = 1
SPECIFICATION Spec
SYMMETRY NodeSymmetry
INVARIANTS TypeOK HopBound OneSide DeliveredInTime
PROPERTY ImplementsService
CHECK_DEADLOCK FALSE
