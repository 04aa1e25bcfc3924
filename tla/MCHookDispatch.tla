--------------------------- MODULE MCHookDispatch ---------------------------
EXTENDS HookDispatch

CONSTANTS c1, c2

\* One v3 and one v5 connection, so that both veto paths and concurrent
\* tasks of two connections occur.
MCConns == {c1, c2}
MCV5Conns == {c2}

\* Hook configurations the broker may be started with: every packet hook
\* on, only the subscribe hook on (so hooked and inline packets mix on one
\* connection).
AllHooks == [publish |-> TRUE, subscribe |-> TRUE, unsubscribe |-> TRUE]
SubscribeHookOnly == [publish |-> FALSE, subscribe |-> TRUE, unsubscribe |-> FALSE]

MCHookConfigs == {AllHooks, SubscribeHookOnly}
=============================================================================
