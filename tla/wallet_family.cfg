SPECIFICATION FairSpec
CONSTANTS
    a = a
    b = b
    c = c
    TX <- FamTX
    Inputs <- FamInputs
    OutCount <- FamCount
    AddrOf <- FamAddr
    Value <- FamValue
    Rbf = {b}
    NonFinal = {a, b, c}
    LockTime <- FamLock
    Oversize = {}
    MaxIndex = 2
    GapLimit <- OneGap
    TX_UNCONFIRMED = 9
    TX_MAX_LOCK_HEIGHT = 20
    Heights = {1}
    Times = {0}
    Clock = {30, 32}
    UiGaps = {2}
    Rows <- FamRows
INVARIANTS
    BookIsHeld
    UtxosAreSpendable
PROPERTY CallsReturn
CHECK_DEADLOCK FALSE
