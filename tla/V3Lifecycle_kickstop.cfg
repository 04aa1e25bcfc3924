CONSTANTS
    c1 = c1
    c2 = c2
    c3 = c3
    m1 = m1
    NoConn = NoConn
    BroadcastMax = 0
    MaxBroadcasts = 0
    Broadcasters <- MCBroadcasters
    Conns <- MCConns2
    Msgs <- MCMsgs1
    EnableConnectHook = FALSE
    EarlyFaults = FALSE
    MaxKicks = 1
    EnableV5Takeover = TRUE

SPECIFICATION Spec

INVARIANT KickStopsOfflineLoop
