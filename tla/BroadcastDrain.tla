--------------------------- MODULE BroadcastDrain ---------------------------
(***************************************************************************)
(* Broadcast packets between v3 sessions and the drain on exit            *)
(* (handle_online, akasa-core/src/protocols/mqtt/v3/message.rs), with the  *)
(* parts of send_publish and the online loop they rely on, modelled from   *)
(* spec.md 3, 4.5 and 5.                                                   *)
(*                                                                         *)
(* Every client owns a bounded normal mailbox.  A publish for a subscriber *)
(* whose mailbox is full, or for which messages are already queued, is     *)
(* kept in the publisher's broadcast_packets and broadcast_packets_cnt     *)
(* grows; the online loop forwards queued messages when the mailbox has    *)
(* room.  When the loop ends, handle_online drains broadcast_packets with  *)
(* send_async, which waits for room, before the session goes offline.      *)
(* Only the online and the offline loop read a client's normal mailbox.    *)
(***************************************************************************)
EXTENDS Naturals, FiniteSets

CONSTANTS
    Clients,        \* sessions, by ClientId
    Routes,         \* <<publisher, subscriber>> pairs the route table yields
    MailboxCap,     \* capacity of a normal mailbox
    BroadcastMax,   \* session.broadcast_packets_max
    MaxPublishes,   \* publishes each client sends
    None            \* the drain is not sending to any subscriber

ASSUME /\ Routes \subseteq Clients \X Clients
       /\ MailboxCap \in Nat \ {0}
       /\ BroadcastMax \in Nat /\ MaxPublishes \in Nat
       /\ None \notin Clients

VARIABLES
    phase,      \* "online", "exiting" (after the loop) or "offline"
    box,        \* messages in each client's normal mailbox
    bq,         \* bq[c][t]: broadcast_packets of c for subscriber t
    bcnt,       \* broadcast_packets_cnt of c
    draining,   \* the subscriber the exit drain of c is sending to
    sent        \* publishes c has sent

vars == <<phase, box, bq, bcnt, draining, sent>>

TypeOK ==
    /\ phase \in [Clients -> {"online", "exiting", "offline"}]
    /\ box \in [Clients -> 0..MailboxCap]
    /\ bq \in [Clients -> [Clients -> 0..BroadcastMax]]
    /\ bcnt \in [Clients -> 0..BroadcastMax]
    /\ draining \in [Clients -> Clients \cup {None}]
    /\ sent \in [Clients -> 0..MaxPublishes]

Init ==
    /\ phase = [c \in Clients |-> "online"]
    /\ box = [c \in Clients |-> 0]
    /\ bq = [c \in Clients |-> [t \in Clients |-> 0]]
    /\ bcnt = [c \in Clients |-> 0]
    /\ draining = [c \in Clients |-> None]
    /\ sent = [c \in Clients |-> 0]

HasRoom(t) == box[t] < MailboxCap

(* send_publish from the online loop of c: straight into t's mailbox when  *)
(* nothing is queued for t and it has room, otherwise into                 *)
(* broadcast_packets with broadcast_packets_cnt + 1.  At                   *)
(* broadcast_packets_max the loop reads no further publish of c.           *)
Publish(c, t) ==
    /\ phase[c] = "online" /\ <<c, t>> \in Routes
    /\ sent[c] < MaxPublishes /\ bcnt[c] < BroadcastMax
    /\ sent' = [sent EXCEPT ![c] = @ + 1]
    /\ IF bq[c][t] = 0 /\ HasRoom(t)
       THEN /\ box' = [box EXCEPT ![t] = @ + 1]
            /\ UNCHANGED <<bq, bcnt>>
       ELSE /\ bq' = [bq EXCEPT ![c][t] = @ + 1]
            /\ bcnt' = [bcnt EXCEPT ![c] = @ + 1]
            /\ UNCHANGED box
    /\ UNCHANGED <<phase, draining>>

(* The online loop forwards one queued message to t's mailbox and calls    *)
(* consume_broadcast(1).                                                   *)
LoopFlush(c, t) ==
    /\ phase[c] = "online" /\ bq[c][t] > 0 /\ HasRoom(t)
    /\ bq' = [bq EXCEPT ![c][t] = @ - 1]
    /\ bcnt' = [bcnt EXCEPT ![c] = @ - 1]
    /\ box' = [box EXCEPT ![t] = @ + 1]
    /\ UNCHANGED <<phase, draining, sent>>

(* The online loop (handle_normal) or the offline loop (handle_offline's   *)
(* normal branch) takes a message from c's mailbox.  After the loop,       *)
(* handle_online reads no mailbox until handle_offline starts.             *)
RecvNormal(c) ==
    /\ phase[c] \in {"online", "offline"} /\ box[c] > 0
    /\ box' = [box EXCEPT ![c] = @ - 1]
    /\ UNCHANGED <<phase, bq, bcnt, draining, sent>>

(* The socket closes or the client sends DISCONNECT: the loop ends.        *)
LoopEnd(c) ==
    /\ phase[c] = "online"
    /\ phase' = [phase EXCEPT ![c] = "exiting"]
    /\ UNCHANGED <<box, bq, bcnt, draining, sent>>

(* for (target_id, info) in broadcast_packets.drain(): the map is visited  *)
(* in hash order, and every message of one subscriber is sent before the  *)
(* next subscriber is visited.                                             *)
DrainNext(c) ==
    /\ phase[c] = "exiting" /\ draining[c] = None
    /\ \E t \in Clients :
          /\ bq[c][t] > 0
          /\ draining' = [draining EXCEPT ![c] = t]
    /\ UNCHANGED <<phase, box, bq, bcnt, sent>>

(* send_async(...).await: the message enters t's mailbox once it has       *)
(* room.  broadcast_packets_cnt is not lowered.                            *)
DrainSend(c) ==
    /\ phase[c] = "exiting" /\ draining[c] # None
    /\ LET t == draining[c] IN
       /\ HasRoom(t)
       /\ box' = [box EXCEPT ![t] = @ + 1]
       /\ bq' = [bq EXCEPT ![c][t] = @ - 1]
       /\ draining' = [draining EXCEPT ![c] = IF bq[c][t] = 1 THEN None ELSE t]
    /\ UNCHANGED <<phase, bcnt, sent>>

(* The drain is done: offline_client and handle_offline for a persistent   *)
(* session.                                                                *)
GoOffline(c) ==
    /\ phase[c] = "exiting" /\ draining[c] = None
    /\ \A t \in Clients : bq[c][t] = 0
    /\ phase' = [phase EXCEPT ![c] = "offline"]
    /\ UNCHANGED <<box, bq, bcnt, draining, sent>>

(* Steps of c's own task.                                                  *)
SessionStep(c) ==
    \/ \E t \in Clients : LoopFlush(c, t)
    \/ RecvNormal(c) \/ DrainNext(c) \/ DrainSend(c) \/ GoOffline(c)

Next ==
    \E c \in Clients :
        \/ SessionStep(c) \/ LoopEnd(c)
        \/ \E t \in Clients : Publish(c, t)

(* Each session is a task the executor keeps polling.  Publishes and the   *)
(* end of a connection are the clients' choice.                            *)
Spec == Init /\ [][Next]_vars /\ \A c \in Clients : WF_vars(SessionStep(c))

(***************************************************************************)
(* Properties.                                                             *)
(***************************************************************************)
(* A connection that has ended gets through handle_online's exit path and  *)
(* its session goes offline (spec.md 5: the loop exits after flushing      *)
(* what it can in a bounded number of steps): the broadcast drain never    *)
(* waits forever.                                                          *)
ExitCompletes ==
    \A c \in Clients : phase[c] = "exiting" ~> phase[c] = "offline"

=============================================================================
