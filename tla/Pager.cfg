SPECIFICATION Spec
CONSTANTS
    MaxPages = 3
    Data = {"d1"}
    None = None
    Buffers = {b1, b2, b3, b4}
    CacheLimit = 2
    MaxPoolSize = 1
    HoldSpan = 1
SYMMETRY BufferSymmetry
INVARIANTS
    TypeOK
    BuffersApart
    ObjectsFresh
    CleanIsOnDisk
    HeldIsCurrent
PROPERTIES
    ImplementsPageStore
CHECK_DEADLOCK FALSE
