SPECIFICATION Spec
CONSTANTS
  N = 2
  t1 = t1
  t2 = t2
  Thread <- TwoThreads
  Usage <- UsageKind
  Faults <- FaultKind
SYMMETRY Symmetric
CHECK_DEADLOCK FALSE
INVARIANTS OneOwner FreeSlotHasConnection
