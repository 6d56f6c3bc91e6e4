CONSTANTS
  l1 = l1
  l2 = l2
  l3 = l3
  cs = cs
  app = app
  CmdLists <- OneList
  Submitters <- CsOnly
  Presenting <- CsOnly
  Waiters <- AppOnly
  MaxQueued = 3
  MaxPresents = 1
  Failures <- LossOnly
SPECIFICATION FairSpec
PROPERTIES WaitForSubmissionReturns WaitForIdleReturns ShutdownCompletes
