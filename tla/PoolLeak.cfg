SPECIFICATION Spec
CONSTANTS
  N = 2
  t1 = t1
  t2 = t2
  Thread <- OneThread
  Usage = {}
  Faults = {"connect", "lost"}
INVARIANT NothingLentMeansFree
