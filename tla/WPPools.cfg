SPECIFICATION Spec
CONSTANTS
  N = 2
  NumTasksPerThread = 2
  Pools <- AllPools
  MaxTasks = 5
  MaxToggles = 1
CONSTRAINT BeforeOverrun
CHECK_DEADLOCK FALSE
INVARIANTS NoOverwriteWhileRead CountIsExact
PROPERTIES StartsOnceUnlessCancelled AcceptedIsServed ShutdownCompletes
