SPECIFICATION LateSpec
CONSTANTS
    WorkerCount = 2
    MaxRequests = 4
    MaxCrashes = 2
INVARIANTS
    SettledOnce
PROPERTIES
    Answered
    LeastBusy
CHECK_DEADLOCK FALSE
