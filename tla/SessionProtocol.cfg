SPECIFICATION FairSpec
CONSTANTS
  None = None
  Unnamed = Unnamed
  Name = {a, b}
  Usage = {"wait", "poll", "sync"}
  Faults = {"lost"}
  MaxRequest = 5
  MaxTimeout = 1
CHECK_DEADLOCK FALSE
INVARIANTS RequestInFlight FieldNamesFresh
  ResponseOfProcessedRequest NoDanglingStatement RegistryMatchesServer
  InvariantOk
PROPERTIES AssertionsHold SyncReturns
