--------------------------- MODULE MCV3Lifecycle ---------------------------
(* Connections presenting one client identifier, and the QoS 1 messages   *)
(* other clients route to it, as model values.                             *)
EXTENDS V3Lifecycle

CONSTANTS c1, c2, c3, m1

(* Three connections: a holder, a taker and a second taker queued behind   *)
(* it on the same control mailbox.                                         *)
MCConns3 == {c1, c2, c3}

(* Two connections suffice for a single takeover and an early failure.     *)
MCConns2 == {c1, c2}

\* The connection that publishes to the busy subscriber; the other one
\* takes its session over.
MCBroadcasters == {c1}

(* One message: loss and duplication are about where a message is, and     *)
(* per-message; more messages only multiply interleavings.                 *)
MCMsgs1 == {m1}
=============================================================================
