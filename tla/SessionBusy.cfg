SPECIFICATION Spec
CONSTANTS
  None = None
  Unnamed = Unnamed
  Name = {a}
  Usage = {"poll", "poll_busy"}
  Faults = {}
  MaxRequest = 1
  MaxTimeout = 1
CHECK_DEADLOCK FALSE
INVARIANT UncompletedRequestIsKnown
