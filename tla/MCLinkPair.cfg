CONSTANTS
    Segment <- MCSegment
    NumRetry = 1
    Shared = FALSE
    Scenarios <- MCScenarios
    MaxWire = 2
    MaxOrphans = 1
    MaxOutages = 1

SPECIFICATION Spec
INVARIANT AckedIsReceived
PROPERTY AtMostOnceInOrder
CHECK_DEADLOCK FALSE
