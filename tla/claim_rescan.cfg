SPECIFICATION Spec
CONSTANTS
    c0 = c0
    b1 = b1
    c2 = c2
    a3 = a3
    d3 = d3
    d4 = d4
    d5 = d5
    x4 = x4
    None = None
    t = t
    u = u
    p = p
    q = q
    Block <- MCBlock
    Prev <- MCPrev
    Height <- MCHeight
    Tx = {t, u}
    Txs <- MCTxs
    Interval = 2
    Checkpoints = {c0, c2}
    StartBlock = c0
    BadTarget = {x4}
    Past = 0
    Peer = {p, q}
    PeerLast <- MCLast
    Relays <- MCRelays
    TX_UNCONFIRMED = 9
    MaxResumes = 1
    MaxQueue = 1
INVARIANT LastBlockIsHeld
CHECK_DEADLOCK FALSE
