SPECIFICATION CalmSpec
CONSTANTS
    SyncModes = {"full", "normal", "off"}
    BufferSlots = 2
    CheckpointInterval = 3
    MaxOps = 4
    MaxRestarts = 2
    CutTails = {"stub", "head", "body"}
    None = None
INVARIANTS
    LsnNamesOneOp
    CalmIsComplete
PROPERTIES
    EventuallyDurable
CHECK_DEADLOCK FALSE
