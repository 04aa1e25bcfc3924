-------------------------- MODULE MCBroadcastDrain --------------------------
(* Two sessions as model values.                                           *)
EXTENDS BroadcastDrain

CONSTANTS a, b

MCClients == {a, b}

(* a and b subscribe to each other's topics.  With <<a, a>> added (MQTT   *)
(* v3 has no no-local option) a single client already shows the stall.    *)
MCRoutes == {<<a, b>>, <<b, a>>}
=============================================================================
