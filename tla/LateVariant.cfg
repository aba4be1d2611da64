CONSTANTS
  a = a
  b = b
  c = c
  x = x
  y = y
  PageSize = 1
  MaxFaults = 0
  NoSession = NoSession
  NoId = NoId
  Position <- MCPosition
  Nodes = {a, b, c}
  Ids = {x}
  Ingests <- ThreeIngest
  Resolvers = {a}
  Dials <- ADialsAll
SPECIFICATION Spec
PROPERTIES
  EveryVariantRecovered
