CONSTANTS
  a = a
  b = b
  c = c
  x = x
  y = y
  PageSize = 1
  MaxFaults = 0
  NoSession = NoSession
  NoId = NoId
  Position <- MCPosition
  Nodes = {a, b}
  Ids = {x}
  Ingests <- BothIngestX
  Resolvers = {}
  Dials <- ADialsB
SPECIFICATION Spec
PROPERTIES
  ConflictNeverBlocks
