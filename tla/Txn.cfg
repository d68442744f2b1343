SPECIFICATION FairSpec
CONSTANTS
    Tables = {"t1", "t2", "t3"}
    Triggers <- Chain
    MaxOps = 3
    MaxLonger = 1
    MaxNesting = 2
INVARIANTS
    Isolated
    InOrder
    TriggersAnswer
PROPERTIES
    Returns
CHECK_DEADLOCK FALSE
