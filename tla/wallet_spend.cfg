SPECIFICATION Spec
CONSTANTS
    a = a
    b = b
    c = c
    TX <- SpendTX
    Inputs <- SpendInputs
    OutCount <- SpendCount
    AddrOf <- SpendAddr
    Value <- SpendValue
    Rbf = {}
    NonFinal = {}
    LockTime <- SpendLock
    Oversize = {}
    MaxIndex = 2
    GapLimit <- OneGap
    TX_UNCONFIRMED = 9
    TX_MAX_LOCK_HEIGHT = 20
    Heights = {1, 2}
    Times = {0, 1}
    Clock = {30}
    UiGaps = {1}
    Rows <- NoRows
INVARIANTS
    TypeOK
    BookIsSorted
    NoDoubleSpend
    UtxosAreSpendable
    BalanceIsUtxoValue
PROPERTIES
    ReorgIsComplete
    IsTxBook
CHECK_DEADLOCK FALSE
