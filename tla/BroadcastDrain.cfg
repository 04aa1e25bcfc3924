CONSTANTS
    a = a
    b = b
    None = None
    Clients <- MCClients
    Routes <- MCRoutes
    MailboxCap = 1
    BroadcastMax = 1
    MaxPublishes = 2

SPECIFICATION Spec

\* The stuck drain is the behaviour under study: TLC's deadlock report
\* would only restate it, so the temporal property is what is checked.
CHECK_DEADLOCK FALSE

PROPERTY ExitCompletes
