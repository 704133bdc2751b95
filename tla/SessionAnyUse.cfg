SPECIFICATION Spec
CONSTANTS
  None = None
  Unnamed = Unnamed
  Name = {a}
  Usage <- UsageKind
  Faults <- FaultKind
  MaxRequest = 3
  MaxTimeout = 1
CHECK_DEADLOCK FALSE
INVARIANTS TypeOK NoSessionNoData
