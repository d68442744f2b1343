SPECIFICATION Spec
CONSTANTS
    Order = 2
    Keys = {1, 2, 3, 4}
    Values = {1, 2}
    MaxSteps = 8
    Undefined = Undefined
INVARIANTS
    InKeyOrder
    LookupsFind
PROPERTIES
    StepsAreLocal
CHECK_DEADLOCK FALSE
