CONSTANTS
  l1 = l1
  l2 = l2
  l3 = l3
  cs = cs
  app = app
  CmdLists <- TwoLists
  Submitters <- CsOnly
  Presenting <- NoThread
  Waiters <- AppOnly
  MaxQueued = 1
  MaxPresents = 1
  Failures <- MemoryOnly
SPECIFICATION FairSpec
CHECK_DEADLOCK FALSE
PROPERTIES WorkerIdleReturns
