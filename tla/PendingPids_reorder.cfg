CONSTANTS
    m1 = m1
    m2 = m2
    m3 = m3
    m4 = m4
    m5 = m5
    m6 = m6
    Msgs <- MCMsgs
    PidMax = 3
    MaxInflight = 2
    MaxPending = 1
    InOrderAcks = FALSE

SPECIFICATION Spec

INVARIANT NoPidCollision

