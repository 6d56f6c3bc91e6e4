SPECIFICATION Spec
CONSTANTS
  l1 = l1
  l2 = l2
  l3 = l3
  cs = cs
  app = app
  CmdLists <- ThreeLists
  Submitters <- CsAndApp
  Presenting <- NoThread
  Waiters <- AppOnly
  MaxQueued = 0
  MaxPresents = 1
  Failures <- AnyFailure
SYMMETRY ListSymmetry
CHECK_DEADLOCK FALSE
INVARIANTS InUseWhileExecuting RecycledIsIdle QueueBound
PROPERTIES IdleMeansDone ImplementsStream
