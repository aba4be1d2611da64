CONSTANTS
  note = note
  tail = tail
  Ingests = {note}
  Handles = {tail}
  Connections <- MCConnections
  QueueSize = 1
  WireSize = 2
  MaxMeshEvents = 1
  MaxFaults = 1
  EarlyLimit = 1
  None = None
SPECIFICATION Spec
CHECK_DEADLOCK FALSE
INVARIANTS
  TypeOK
  IngestedOnce
  NoSilentGap
PROPERTIES
  SilentAfterStop
  CallsSettle
  SlowSubscriberCut
  CloseEnds
