CONSTANTS
    c1 = c1
    c2 = c2
    Conns <- MCConns
    V5Conns <- MCV5Conns
    HookConfigs <- MCHookConfigs
    HandlerFaults = TRUE
    MaxPackets = 2

SPECIFICATION Spec

INVARIANT AcksInPacketOrder
INVARIANT VetoedPublishNotRouted
PROPERTY ExclusiveSessionAccess
PROPERTY ParkedResumes
