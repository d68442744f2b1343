SPECIFICATION WorkSpec
CONSTANTS
    MaxPages = 4
    Data = {"d1"}
    None = None
    Buffers = {b1, b2, b3, b4, b5, b6}
    CacheLimit = 2
    MaxPoolSize = 1
    HoldSpan = 3
SYMMETRY BufferSymmetry
INVARIANTS
    OwnBytes
CHECK_DEADLOCK FALSE
