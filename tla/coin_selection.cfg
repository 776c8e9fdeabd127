SPECIFICATION Spec
CONSTANTS
    s1 = s1
    s2 = s2
    c1 = c1
    c2 = c2
    c3 = c3
    c4 = c4
    Sender = {s1, s2}
    Coin = {c1, c2, c3, c4}
    Value <- MCValue
    Requests <- MCRequests
    Fees = {0, 2}
    BaseSize = 1
    InputSize = 2
    OutputSize = 1
    MaxSize = 7
INVARIANTS
    TypeOK
    DraftIsBalanced
    DueFalls
CHECK_DEADLOCK FALSE
