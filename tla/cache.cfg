CONSTANTS
  Id = {m1, m2, m3}
  Peer = {p}
  MaxHop = 2
  MaxTime = 4
  HistoryWindow = 1
SPECIFICATION Spec
INVARIANTS TypeOK Sorted SameIds WindowExact
PROPERTY ImplementsMap
