CONSTANTS
    Sessions = {"s", "t"}
    BlockSize = 2
    MaxUserData = 3
    MaxSegment = 2
    SegmentModulus = 4
    maxRxFragSize = 3
    Lives = 2
    StreamOf <- MCStreamOf
    Scenarios <- MCScenarios

SPECIFICATION Spec
INVARIANT TypeOK
INVARIANT ReadHasRoom
INVARIANT FramesAsSent
INVARIANT MessagesWhole
INVARIANT NothingLost
INVARIANT OnlineMeansOpen
INVARIANT TransmissionsProgress
INVARIANT SomethingOpens
INVARIANT ClosedForGood
PROPERTY SessionOpens
CHECK_DEADLOCK FALSE
