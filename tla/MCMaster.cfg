CONSTANTS
    Masters = {"m", "n"}
    Configured <- MCConfigured
    Off <- MCOff
    ScanPeriod = 1
    taskRetryPeriod = 1
    maxTaskRetryPeriod = 2
    taskStartTimeout = 1
    Never = 3
    SeqModulus = 2
    MaxAge = 1
    ReactsTo = {"restart"}
    AdhocKinds = {"select"}
    UserScans = {"scan"}
    MayNotFit = {"select"}
    Scenarios <- MCScenarios
    Responses <- MCResponses
    UnsolResponses <- MCUnsolResponses

SPECIFICATION Spec
INVARIANT TypeOK
INVARIANT SchedulerAgrees
INVARIANT ScheduledOnce
INVARIANT NeverOverlapped
INVARIANT ResponseWaitIsTimed
INVARIANT AnswersItsRequest
INVARIANT ConfirmNotStranded
INVARIANT SchedulerWakes
INVARIANT StartIsTimed
PROPERTY CommandEnds
CHECK_DEADLOCK FALSE
