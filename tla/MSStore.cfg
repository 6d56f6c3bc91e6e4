SPECIFICATION Spec
CONSTANTS
    k1 = k1
    k2 = k2
    Keys <- TwoKeys
    KeyOrder <- InOrder
    Size <- OneAndTwo
    MaxBytes = 2
    MaxRecords = 2
    MaxJobs = 2
    Records = {1, 2, 3, 4, 5, 6}
    MaxItems <- TwoAndOne
INVARIANTS AccountsExact HitIsComplete
PROPERTIES EvictionFrees FileIsReplacedWhole PendingIsDecided AcceptedIsSaved
CHECK_DEADLOCK FALSE
