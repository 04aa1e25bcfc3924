--------------------------- MODULE MCPendingPids ---------------------------
(* PendingPids with six publishes, so that the pid counter wraps twice.    *)
EXTENDS PendingPids

CONSTANTS m1, m2, m3, m4, m5, m6

MCMsgs == {m1, m2, m3, m4, m5, m6}

=============================================================================
