\* FGSynchronize.cfg
SPECIFICATION Spec
CONSTANTS
    Backbuffers = 2
    MaxInterpolated = 2
    Latency = 1
    MaxFrame = 3
    MaxRecreate = 1
    MaxRetries = 0
    Worlds <- onlyChanges
CHECK_DEADLOCK FALSE
PROPERTY SynchronizeReturns
