CONSTANTS
    Segment = {1, 2}
    UseConfirms = {TRUE}
    NumRetry = 1
    Shared = FALSE
    Messages <- MCLongMessage
    PeerFrames <- MCLibraryFrames
    KeepAlive = "between"
    Late = {"keepAlive"}
    MaxOrphans = 1
    MaxStale = 1

SPECIFICATION FairSpec
PROPERTY SendEnds
