SPECIFICATION FairSpec
CONSTANTS
    ether = ether
    token = token
    h1 = h1
    h2 = h2
    h3 = h3
    Unknown = Unknown
    NoHash = NoHash
    ForeignHash = {h1, h2, h3}
    Kind = {ether, token}
    Past <- MCPast
    Others <- MCOthers
    NotAssigned = 99
    Answer = {1}
    MaxSends = 2
    MaxReorgs = 1
INVARIANTS
    TypeOK
    BlockedAreInOrder
    HashesDiffer
PROPERTIES
    ShownAtLast
CHECK_DEADLOCK FALSE
