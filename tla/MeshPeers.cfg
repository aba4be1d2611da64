CONSTANTS
  p1 = p1
  c1 = c1
  h1 = h1
  Peers = {p1}
  EventLoop = EventLoop
  RetryLoop = RetryLoop
  Clients = {c1}
  Handshakes = {h1}
  MaxMounts = 2
  MaxEvents = 1
  MaxFailures = 1
  NoRecord = NoRecord
  NoPeer = NoPeer
SPECIFICATION Spec
INVARIANTS
  TypeOK
  SyncsRespectLeave
  NoLostWake
PROPERTIES
  EventsReachPeers
