CONSTANTS
  l1 = l1
  l2 = l2
  l3 = l3
  cs = cs
  app = app
  CmdLists <- ThreeLists
  Submitters <- CsOnly
  Presenting <- NoThread
  Waiters <- AppOnly
  MaxQueued = 1
  MaxPresents = 1
  Failures <- NoFailure
SPECIFICATION FairSpec
INVARIANTS PendingIsQueued
PROPERTIES SubmitReturns WaitForResourceReturns
