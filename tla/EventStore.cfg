CONSTANTS
  k1 = k1
  k2 = k2
  k3 = k3
  b1 = b1
  b2 = b2
  self = self
  peer = peer
  w1 = w1
  w2 = w2
  Keys = {k1, k2, k3}
  Bodies = {b1, b2}
  Walls = {1, 2}
  Self = self
  Peers = {peer}
  Requests <- MCRequests
  RemoteEvents <- MCRemoteEvents
  Workers = {w1, w2}
  MaxLogical = 2
  MaxArrivals = 2
  NoEvent = NoEvent
  NoWorker = NoWorker
  NoCall = NoCall
  NoEntry = NoEntry
  NotGiven = NotGiven
SPECIFICATION Spec
SYMMETRY MCSymmetry
INVARIANTS
  TypeOK
  ClockCoversStore
  AnswersAreStored
  LocalAnnouncedInOrder
PROPERTIES
  FreshStampsDominate
  ImplementsEventLog
