SPECIFICATION Spec
CONSTANTS
    Types <- MCTwoTypes
    Capacity <- MCTwoCapacity
    Classes = {1, 2}
    Variations = {"v"}
    SeqModulus = 2
    Requests <- MCReportRequests
    NoRequest = NoRequest
    Controls = {}
    Rejected = {}
    StaticPoints = {1, 2}
    OctetPoints = {}
    FragmentSize = 1
    allowUnsolicited = TRUE
    ConfiguredMask = {1}
    MaxArrivals = 2
    MaxOrphans = 1
INVARIANTS
    WaitIsTimed
    NeverOverlapped
    RepeatAnswersSameRequest
    ConfirmMatchesFragment
    WrittenInFragment
    NothingLeftPending
    AnswersOnlyTheRequest
PROPERTIES
    RemovedOnlyIfConfirmed
