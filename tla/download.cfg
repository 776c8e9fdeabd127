SPECIFICATION FairSpec
CONSTANTS
    p1 = p1
    p2 = p2
    None = None
    Peer = {p1, p2}
    Top = 5
    Pays <- MCPays
    Floating = {6}
    Forgets = FALSE
    Time <- MCTime
    Since = 3
    Drift = 1
    Recent = {5}
    Gap = 2
    Spare = 2
    Window = 3
    HeaderWindow = 3
    Worn = {3}
    Far = 1
    MaxKnown = 6
    MaxConnectCount = 2
    Best <- MCBest
    MaxFailures <- MCFailures
INVARIANTS
    TypeOK
    NoTxMissed
PROPERTIES
    DownloadEnds
CHECK_DEADLOCK FALSE
