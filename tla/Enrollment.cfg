CONSTANTS
  d1 = d1
  d2 = d2
  u1 = u1
  u2 = u2
  Daemons = {d1, d2}
  Operators = {u1, u2}
  Home <- MCHome
  Invitees = {d2}
  MaxNetworks = 1
  MaxOffers = 1
  MaxRequests = 1
  MaxFaults = 1
  None = None
  Lost = Lost
SPECIFICATION Spec
CHECK_DEADLOCK FALSE
INVARIANTS
  TypeOK
  NeedsApproval
  OneDecision
  PendingIsHeard
  DecisionsAreKept
PROPERTIES
  RequestsEnd
  ClosesEnd
