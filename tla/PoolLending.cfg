SPECIFICATION Spec
CONSTANTS
  N = 3
  t1 = t1
  t2 = t2
  Thread <- TwoThreads
  Usage = {}
  Faults = {"lost"}
SYMMETRY Symmetric
INVARIANTS NothingLentMeansFree DisconnectedMeansClosed
PROPERTIES LentReady
