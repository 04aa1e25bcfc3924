CONSTANTS
    c1 = c1
    c2 = c2
    c3 = c3
    m1 = m1
    NoConn = NoConn
    BroadcastMax = 1
    MaxBroadcasts = 1
    Broadcasters <- MCBroadcasters
    Conns <- MCConns2
    Msgs <- MCMsgs1
    EnableConnectHook = FALSE
    EarlyFaults = FALSE
    MaxKicks = 0
    EnableV5Takeover = FALSE

SPECIFICATION Spec

PROPERTY BroadcastCreditRestored
