CONSTANTS
  Topic = {"message", "subscribe", "ack"}
  Peer = {p1}
  Address = {loopback, public}
  Loopback = {loopback}
  MinActive = 1
  Bootstrap = {p1}
  Client = {c1}
  Subject = {s1}
  RpcServers = 1
  MaxReceived = 0
  MaxGossip = 1
  MaxRequests = 1
SPECIFICATION FairSpec
CHECK_DEADLOCK FALSE
PROPERTY MessagesPublished
