SPECIFICATION FairSpec
CONSTANTS
  N = 2
  Client = {c1}
  TaskCalls = {"submit", "query", "stop"}
  SpawnFails = TRUE
  MaxTasks = 3
  MaxStarts = 3
CHECK_DEADLOCK FALSE
INVARIANTS AssertionHolds
PROPERTIES WorkIsTaken
