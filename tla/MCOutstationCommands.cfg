SPECIFICATION Spec
CONSTANTS
    Types <- MCTypes
    Capacity <- MCCapacity
    Classes = {1}
    Variations = {"v"}
    SeqModulus = 2
    Requests <- MCCommandRequests
    NoRequest = NoRequest
    Controls = {"on", "refused"}
    Rejected = {"refused"}
    StaticPoints = {}
    OctetPoints = {}
    FragmentSize = 1
    allowUnsolicited = TRUE
    ConfiguredMask = {1}
    MaxArrivals = 1
    MaxOrphans = 1
INVARIANTS
    NothingLeftPending
