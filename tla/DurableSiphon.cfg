CONSTANTS
  k1 = k1
  k2 = k2
  k3 = k3
  k4 = k4
  c1 = c1
  c2 = c2
  Keys = {k1, k2, k3, k4}
  Arrivals <- MCArrivals
  Home = "home"
  Wanted = {"notes"}
  Consumers = {c1, c2}
  Limits = {1, 2}
  MaxArrivals = 3
  MaxCreates = 2
  MaxFailures = 1
  NoSiphon = NoSiphon
  NoBatch = NoBatch
  NoKey = NoKey
SPECIFICATION Spec
SYMMETRY MCSymmetry
INVARIANTS
  TypeOK
  NothingSkipped
  NoLostWakeup
PROPERTIES
  AcknowledgedStaysDone
