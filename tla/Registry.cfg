CONSTANTS
  archive = archive
  c1 = c1
  c2 = c2
  Names = {archive}
  Snapshots <- MCSnapshots
  Callers = {c1, c2}
  Slots = {1, 2, 3, 4}
  MaxCalls = 3
  MaxEdits = 1
  MaxFaults = 1
  None = None
  Invalid = Invalid
SPECIFICATION Spec
CHECK_DEADLOCK FALSE
INVARIANTS
  TypeOK
  OnlyAcceptedRuns
  NoOrphan
  ResetForgets
  NoCommandPastClose
PROPERTY
  CallsReturn
