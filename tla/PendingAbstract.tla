-------------------------- MODULE PendingAbstract --------------------------
(***************************************************************************)
(* What the outgoing pending-packet queue of a session promises, with no   *)
(* packet identifiers at all (spec.md 3, 4.1): a publish the broker sends  *)
(* is outstanding until the client has acknowledged that very publish,     *)
(* and only then may the broker forget it.  A publish may also be refused  *)
(* when the queue is full, in which case it never becomes outstanding.     *)
(***************************************************************************)
CONSTANT Msgs

VARIABLES
    sent,          \* publishes handed to the session
    outstanding,   \* publishes the broker still waits an acknowledgement for
    acked          \* publishes the client has acknowledged

absVars == <<sent, outstanding, acked>>

Init ==
    /\ sent = {}
    /\ outstanding = {}
    /\ acked = {}

(* A new publish is sent and awaits its acknowledgement, or is refused.    *)
Send(m) ==
    /\ m \notin sent
    /\ sent' = sent \cup {m}
    /\ outstanding' \in {outstanding, outstanding \cup {m}}
    /\ UNCHANGED acked

(* The client acknowledges an outstanding publish.                         *)
Ack(m) ==
    /\ m \in outstanding \ acked
    /\ acked' = acked \cup {m}
    /\ UNCHANGED <<sent, outstanding>>

(* The broker forgets a publish, which the client must have acknowledged.  *)
Complete(m) ==
    /\ m \in outstanding \cap acked
    /\ outstanding' = outstanding \ {m}
    /\ UNCHANGED <<sent, acked>>

Next == \E m \in Msgs : Send(m) \/ Ack(m) \/ Complete(m)

Spec == Init /\ [][Next]_absVars

=============================================================================
