SPECIFICATION Spec
CHECK_DEADLOCK FALSE
CONSTANTS
    Contents <- SomeContents
    Given <- Documented
    CacheLimit = 2
    MaxSteps = 2
INVARIANTS
    ConditionsHold
