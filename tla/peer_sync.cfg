SPECIFICATION FairSpec
CONSTANTS
    p1 = p1
    p2 = p2
    None = None
    Peer = {p1, p2}
    PeerLast <- MCLast
    Stored = {p1}
    Unfit = {}
    MaxLag = 0
    MaxConnectCount = 2
    MaxConnectFailures = 1
    MaxEvents = 2
    MaxPongs = 0
    MaxCalls = 1
    MaxHeight = 1
INVARIANTS
    TypeOK
    DownloadPeerServes
    UpdateIsUnderWay
    SyncIsServed
PROPERTIES
    UpdateEnds
CHECK_DEADLOCK FALSE
