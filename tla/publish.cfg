SPECIFICATION Spec
CONSTANTS
    p1 = p1
    p2 = p2
    a = a
    c = c
    f = f
    None = None
    Peer = {p1, p2}
    TX = {a, c, f}
    Parents <- MCParents
    Foreign = {f}
    Sends = {a, c}
    Invalid = {}
    Stored = {a}
    MaxConnectCount = 2
    MaxConnectFailures = 1
    MaxEvents = 5
    MaxPongs = 0
SYMMETRY Symmetric
INVARIANTS
    TypeOK
    CallbackOnce
    RelaysAreConnected
PROPERTIES
    TimeoutKept
CHECK_DEADLOCK FALSE
