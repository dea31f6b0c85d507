SPECIFICATION Spec
CONSTANTS
    Types <- MCTypes
    Capacity <- MCCapacity
    Classes = {1}
    Variations = {"v"}
    SeqModulus = 2
    Requests <- MCDeferRequests
    NoRequest = NoRequest
    Controls = {}
    Rejected = {}
    StaticPoints = {}
    OctetPoints = {}
    FragmentSize = 1
    allowUnsolicited = TRUE
    ConfiguredMask = {1}
    MaxArrivals = 1
    MaxOrphans = 1
PROPERTIES
    DeferredIsServed
