SPECIFICATION ClientSpec
CONSTANTS
  N = 1
  NumTasksPerThread = 3
  Pools <- Deferred
  MaxTasks = 5
  MaxToggles = 0
CHECK_DEADLOCK FALSE
INVARIANT FutureKeepsSlot
