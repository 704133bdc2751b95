SPECIFICATION Spec
CONSTANTS
  N = 2
  Client = {c1, c2}
  TaskCalls = {"submit", "query"}
  SpawnFails = TRUE
  MaxTasks = 3
  MaxStarts = 3
CHECK_DEADLOCK FALSE
INVARIANTS NeverTerminates StoppedMeansQuiet InOrder
PROPERTIES ImplementsExecutor
