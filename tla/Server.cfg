SPECIFICATION UseSpec
CONSTANTS
    Clients = {c1, c2}
    Databases = {"d1"}
    Limits = {1, 2}
    MaxRequests = 2
    Types = {"use", "query", "unbound", "make", "enter", "burn", "ping", "drop"}
    Credentials = {"good", "bad"}
    None = None
SYMMETRY ClientSymmetry
INVARIANTS
    TypeOK
    AuthFirst
    NothingLost
    OwnResponses
    ViewsAgree
CHECK_DEADLOCK FALSE
