CONSTANTS
  a = a
  b = b
  c = c
  x = x
  y = y
  Nodes = {a, b}
  Ids = {x, y}
  Ingests <- BothIngest
  Resolvers = {a, b}
  Dials <- BothDial
  Position <- MCPosition
  PageSize = 1
  MaxFaults = 1
  NoSession = NoSession
  NoId = NoId
SPECIFICATION Spec
INVARIANTS
  TypeOK
  HeldVariantRecovered
PROPERTIES
  EnvelopesAreImmutable
