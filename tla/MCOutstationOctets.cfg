SPECIFICATION Spec
CONSTANTS
    Types <- MCTypes
    Capacity <- MCCapacity
    Classes = {1, 2}
    Variations = {"v"}
    SeqModulus = 2
    Requests <- MCReportRequests
    NoRequest = NoRequest
    Controls = {}
    Rejected = {}
    StaticPoints = {1, 2}
    OctetPoints = {2}
    FragmentSize = 1
    allowUnsolicited = TRUE
    ConfiguredMask = {1}
    MaxArrivals = 0
    MaxOrphans = 1
INVARIANTS
    AnswersOnlyTheRequest
