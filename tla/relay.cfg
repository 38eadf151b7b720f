CONSTANTS
  Topic = {"message", "subscribe", "ack"}
  Peer = {p1}
  Address = {loopback, public}
  Loopback = {loopback}
  MinActive = 1
  Bootstrap = {p1}
  Client = {c1}
  Subject = {s1}
  RpcServers = 1
  MaxReceived = 1
  MaxGossip = 1
  MaxRequests = 2
SPECIFICATION FairSpec
CHECK_DEADLOCK FALSE
INVARIANTS TypeOK PanicCause RequestsKept TopicsReachable
PROPERTIES BannedNotAsked EarlyAsked
