SPECIFICATION FairSpec
CONSTANTS
  N = 2
  Client = {c1}
  TaskCalls = {}
  SpawnFails = FALSE
  MaxTasks = 1
  MaxStarts = 1
CHECK_DEADLOCK FALSE
PROPERTIES StopReturns
