CONSTANTS
    Segment = {1, 2}
    UseConfirms = {TRUE, FALSE}
    NumRetry = 1
    Shared = FALSE
    Messages <- MCMessages
    PeerFrames <- MCPeerFrames
    KeepAlive = "any"
    Late = {"response"}
    MaxOrphans = 1
    MaxStale = 1

SPECIFICATION Spec
INVARIANT SegmentsWhileSending
INVARIANT ResponseWaitIsTimed
INVARIANT CompletionIsDue
INVARIANT BuffersIntact
INVARIANT OneCompletionPerSend
