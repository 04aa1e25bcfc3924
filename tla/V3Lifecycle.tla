---------------------------- MODULE V3Lifecycle ----------------------------
(***************************************************************************)
(* The life of MQTT v3.x connections that present the same client         *)
(* identifier: handle_online / handle_offline / handle_control /           *)
(* handle_normal / handle_will of                                          *)
(* akasa-core/src/protocols/mqtt/v3/message.rs, together with the parts of *)
(* the client registry (add_client, remove_client, offline_client) and of  *)
(* the online loop they rely on, which are modelled from spec.md.          *)
(*                                                                         *)
(* Every connection is a task running handle_online and, if its session    *)
(* is persistent, handle_offline.  The identifier's registry entry owns a  *)
(* control mailbox (takeover requests) and a normal mailbox (publishes     *)
(* routed to the identifier); both travel with the session state when a    *)
(* newer connection takes the session over.  Messages are QoS 1 publishes  *)
(* routed to the identifier by other clients.                              *)
(***************************************************************************)
EXTENDS Naturals, Sequences, FiniteSets, SequencesExt

CONSTANTS
    Conns,              \* TCP connections presenting the same identifier
    Msgs,               \* QoS 1 publishes other clients route to it
    EnableConnectHook,  \* global.config.hook.enable_before_connect
    EarlyFaults,        \* a connection may fail between CONNACK and the loop
    MaxKicks,           \* Kick control messages sent to the identifier
    EnableV5Takeover,   \* a v5 CONNECT may try to take the v3 session over
    BroadcastMax,       \* session.broadcast_packets_max
    MaxBroadcasts,      \* publishes the client sends to that subscriber
    Broadcasters,       \* connections whose client sends those publishes
    NoConn              \* no connection holds the identifier

ASSUME /\ Conns # {} /\ Msgs # {} /\ NoConn \notin Conns
       /\ EnableConnectHook \in BOOLEAN /\ EarlyFaults \in BOOLEAN
       /\ MaxKicks \in Nat /\ EnableV5Takeover \in BOOLEAN
       /\ BroadcastMax \in Nat /\ MaxBroadcasts \in Nat
       /\ Broadcasters \subseteq Conns

(* SessionState of session.rs / v3: the part that survives a connection.  *)
(* subs abstracts `subscribes` (is a matching filter held), pending the    *)
(* pending_packets still unacknowledged by the client, bq the messages     *)
(* broadcast_packets holds for one subscriber whose mailbox was full, and  *)
(* bcnt broadcast_packets_cnt.                                             *)
States == [subs : BOOLEAN, pending : SUBSET Msgs,
           bq : 0..BroadcastMax, bcnt : 0..BroadcastMax]
EmptyState == [subs |-> FALSE, pending |-> {}, bq |-> 0, bcnt |-> 0]

(* The flume channel on which add_client waits for the old SessionState.   *)
Replies == [kind : {"none", "state", "dropped"}, st : States]
NoReply == [kind |-> "none", st |-> EmptyState]

Phases == {"init", "before_hook", "connect", "wait_state", "after_hook",
           "resend", "online", "exiting", "offline", "closed"}
Reasons == {"none", "refused", "disconnect", "lost", "takeover", "early", "kick"}

(* ControlMessage values a v3 session can receive: OnlineV3 and OnlineV5   *)
(* carry the requester's sender (a v5 requester is outside this model),    *)
(* Kick carries none.                                                      *)
ControlMsgs == [kind : {"online_v3", "online_v5", "kick"}, from : Conns \cup {NoConn}]

VARIABLES
    pc,            \* where each connection's task is
    clean,         \* clean_session of its CONNECT
    hasWill,       \* its CONNECT carried a last will
    disconnected,  \* session.disconnected: the client sent DISCONNECT
    sess,          \* the SessionState the task holds
    reply,         \* the takeover reply addressed to the connection
    holder,        \* registry: connection owning the identifier's entry
    mailboxUp,     \* the entry's ClientReceiver is still alive
    control,       \* control mailbox: queued ControlMessages
    normal,        \* normal mailbox: routed publishes
    trie,          \* route table holds a subscription for the entry
    willSent,      \* history: a will was published for the connection
    endReason,     \* history: why the connection's task ended
    routed,        \* history: messages routed to the identifier
    delivered,     \* history: messages the client acknowledged
    discarded,     \* history: messages dropped with a discarded session
    v5Wait,        \* a v5 CONNECT's add_client: "idle", "waiting", "answered"
    kicks,         \* Kick messages sent so far
    kicked,        \* history: what each offline loop did with a Kick
    bsent          \* publishes the client has sent to the subscriber

ctlVars == <<v5Wait, kicks, kicked>>
bcastVars == <<bsent>>

vars == <<pc, clean, hasWill, disconnected, sess, reply, holder, mailboxUp,
          control, normal, trie, willSent, endReason, routed, delivered,
          discarded, ctlVars, bcastVars>>

TypeOK ==
    /\ pc \in [Conns -> Phases]
    /\ clean \in [Conns -> BOOLEAN]
    /\ hasWill \in [Conns -> BOOLEAN]
    /\ disconnected \in [Conns -> BOOLEAN]
    /\ sess \in [Conns -> States]
    /\ reply \in [Conns -> Replies]
    /\ holder \in Conns \cup {NoConn}
    /\ mailboxUp \in BOOLEAN
    /\ control \in Seq(ControlMsgs)
    /\ normal \in Seq(Msgs)
    /\ trie \in BOOLEAN
    /\ willSent \in [Conns -> BOOLEAN]
    /\ endReason \in [Conns -> Reasons]
    /\ routed \in SUBSET Msgs
    /\ delivered \in SUBSET Msgs
    /\ discarded \in SUBSET Msgs
    /\ v5Wait \in {"idle", "waiting", "answered"}
    /\ kicks \in 0..MaxKicks
    /\ kicked \in [Conns -> {"none", "ignored", "stopped"}]
    /\ bsent \in 0..MaxBroadcasts

Init ==
    /\ pc = [c \in Conns |-> "init"]
    /\ clean = [c \in Conns |-> FALSE]
    /\ hasWill = [c \in Conns |-> FALSE]
    /\ disconnected = [c \in Conns |-> FALSE]
    /\ sess = [c \in Conns |-> EmptyState]
    /\ reply = [c \in Conns |-> NoReply]
    /\ holder = NoConn
    /\ mailboxUp = FALSE
    /\ control = <<>>
    /\ normal = <<>>
    /\ trie = FALSE
    /\ willSent = [c \in Conns |-> FALSE]
    /\ endReason = [c \in Conns |-> "none"]
    /\ routed = {}
    /\ delivered = {}
    /\ discarded = {}
    /\ v5Wait = "idle"
    /\ kicks = 0
    /\ kicked = [c \in Conns |-> "none"]
    /\ bsent = 0

(***************************************************************************)
(* Helpers.                                                                *)
(***************************************************************************)
Set(f, x, v) == [f EXCEPT ![x] = v]

(* Mutant: the refused request's sender is kept instead of dropped.       *)
RefuseKeepingSender(msgs) == UNCHANGED v5Wait

(* An OnlineV5 request is refused: its sender is dropped and the v5        *)
(* add_client wait ends with an error.                                     *)
Refuse(msgs) ==
    v5Wait' = IF \E r \in msgs : r.kind = "online_v5" THEN "answered" ELSE v5Wait

(* Dropping the ClientReceiver drops every queued request: the sender each *)
(* one carries is dropped, so its add_client wait fails.                   *)
DropReceiver ==
    /\ reply' = [c \in Conns |->
                   IF [kind |-> "online_v3", from |-> c] \in ToSet(control)
                   THEN [kind |-> "dropped", st |-> EmptyState]
                   ELSE reply[c]]
    /\ Refuse(ToSet(control))
    /\ mailboxUp' = FALSE
    /\ control' = <<>>
    /\ normal' = <<>>

(* handle_control (message.rs): OnlineV3 yields the requester's sender,    *)
(* OnlineV5 is refused, Kick stops the loop only if !session.disconnected. *)
HandleControl(c, r) ==
    [stop   |-> r.kind = "kick" /\ ~disconnected[c],
     sender |-> IF r.kind = "online_v3" THEN r.from ELSE NoConn]

(* build_state (message.rs): the pending packets, qos2 pids, subscribes    *)
(* and broadcast packets are swapped out of the session into the state     *)
(* handed to the taking-over connection, with broadcast_packets_cnt.      *)
(* Mutant: the mem::swap of subscribes is missing, so the state carries   *)
(* an empty subscription map.                                              *)
BuildStateWithoutSubs(c) == [sess[c] EXCEPT !.subs = FALSE]

(* Mutant: pending_packets left out of the mem::swap.                      *)
BuildStateWithoutPending(c) == [sess[c] EXCEPT !.pending = {}]

BuildState(c) ==
    [subs |-> sess[c].subs, pending |-> sess[c].pending,
     bq |-> sess[c].bq, bcnt |-> sess[c].bcnt]

(* handle_will runs only when !session.disconnected (disc), and publishes  *)
(* last_will.take(): a will exists only if the CONNECT carried one.        *)
(* Mutant: the disconnected check dropped.                                 *)
HandleWillIgnoringDisconnect(c, disc) == hasWill[c]

HandleWill(c, disc) == hasWill[c] /\ ~disc

(* The online loop has returned without taken_over: handle_online runs     *)
(* the will at once (handle_will awaits nothing; send_publish queues it),  *)
(* before the broadcast drain.                                             *)
EndLoop(c, reason, disc) ==
    /\ pc' = Set(pc, c, "exiting")
    /\ endReason' = Set(endReason, c, reason)
    /\ willSent' = Set(willSent, c, HandleWill(c, disc))

(***************************************************************************)
(* handle_online, before the online loop.                                  *)
(***************************************************************************)
(* The CONNECT packet is decoded before timeout_receiver fires.            *)
ReadConnect(c) ==
    /\ pc[c] = "init"
    /\ \E cs, w \in BOOLEAN :
          /\ clean' = Set(clean, c, cs)
          /\ hasWill' = Set(hasWill, c, w)
    /\ pc' = Set(pc, c, IF EnableConnectHook THEN "before_hook" ELSE "connect")
    /\ UNCHANGED <<disconnected, sess, reply, holder, mailboxUp, control,
                   normal, trie, willSent, endReason, routed, delivered,
                   discarded, ctlVars, bcastVars>>

(* The connect timeout wins the race, or the codec fails: InvalidData.     *)
ConnectTimeout(c) ==
    /\ pc[c] = "init"
    /\ pc' = Set(pc, c, "closed")
    /\ endReason' = Set(endReason, c, "refused")
    /\ UNCHANGED <<clean, hasWill, disconnected, sess, reply, holder,
                   mailboxUp, control, normal, trie, willSent, routed,
                   delivered, discarded, ctlVars, bcastVars>>

(* before_connect_hook: a non-Accepted code, or a hook service that is     *)
(* gone, ends the connection with InvalidData.                             *)
BeforeConnectHook(c) ==
    /\ pc[c] = "before_hook"
    /\ \E accepted \in BOOLEAN :
          /\ pc' = Set(pc, c, IF accepted THEN "connect" ELSE "closed")
          /\ endReason' = IF accepted THEN endReason
                          ELSE Set(endReason, c, "refused")
    /\ UNCHANGED <<clean, hasWill, disconnected, sess, reply, holder,
                   mailboxUp, control, normal, trie, willSent, routed,
                   delivered, discarded, ctlVars, bcastVars>>

(* handle_connect and add_client.  A refused CONNECT leaves                *)
(* session.connected false.  An identifier nobody holds, or whose          *)
(* receiver is gone, gets a fresh entry; otherwise an OnlineV3 request is  *)
(* queued on the holder's control mailbox and the connection waits.        *)
HandleConnect(c) ==
    /\ pc[c] = "connect"
    /\ \/ /\ pc' = Set(pc, c, "closed")
          /\ endReason' = Set(endReason, c, "refused")
          /\ UNCHANGED <<sess, holder, mailboxUp, control, normal, trie>>
       \/ /\ holder = NoConn \/ ~mailboxUp
          /\ holder' = c
          /\ mailboxUp' = TRUE
          /\ control' = <<>>
          /\ normal' = <<>>
          /\ trie' = FALSE
          /\ sess' = Set(sess, c, EmptyState)
          /\ pc' = Set(pc, c, "after_hook")
          /\ UNCHANGED endReason
       \/ /\ holder # NoConn /\ mailboxUp
          /\ control' = Append(control, [kind |-> "online_v3", from |-> c])
          /\ pc' = Set(pc, c, "wait_state")
          /\ UNCHANGED <<sess, holder, mailboxUp, normal, trie, endReason>>
    /\ UNCHANGED <<clean, hasWill, disconnected, reply, willSent, routed,
                   delivered, discarded, ctlVars, bcastVars>>

(* add_client returns the old SessionState.  With clean_session the old    *)
(* subscriptions are removed and its pending packets dropped; otherwise    *)
(* the session is adopted (session_present).  The receiver comes along.    *)
ReceiveState(c) ==
    /\ pc[c] = "wait_state"
    /\ reply[c].kind = "state"
    /\ LET st == reply[c].st IN
       /\ sess' = Set(sess, c, IF clean[c] THEN EmptyState ELSE st)
       /\ trie' = IF clean[c] THEN FALSE ELSE trie
       /\ discarded' = IF clean[c] THEN discarded \cup st.pending
                       ELSE discarded
    /\ holder' = c
    /\ reply' = Set(reply, c, NoReply)
    /\ pc' = Set(pc, c, "after_hook")
    /\ UNCHANGED <<clean, hasWill, disconnected, mailboxUp, control, normal,
                   willSent, endReason, routed, delivered, ctlVars, bcastVars>>

(* The holder dropped its receiver before answering: add_client starts    *)
(* over against the current registry entry.                                *)
WaitFailed(c) ==
    /\ pc[c] = "wait_state"
    /\ reply[c].kind = "dropped"
    /\ reply' = Set(reply, c, NoReply)
    /\ pc' = Set(pc, c, "connect")
    /\ UNCHANGED <<clean, hasWill, disconnected, sess, holder, mailboxUp,
                   control, normal, trie, willSent, endReason, routed,
                   delivered, discarded, ctlVars, bcastVars>>

(* An early `?` return of handle_online after the client was registered:   *)
(* the session and its receiver are dropped, no will is sent, and the      *)
(* registry is neither told remove_client nor offline_client.              *)
EarlyExit(c) ==
    /\ pc' = Set(pc, c, "closed")
    /\ endReason' = Set(endReason, c, "early")
    /\ sess' = Set(sess, c, EmptyState)
    /\ DropReceiver
    /\ UNCHANGED <<clean, hasWill, disconnected, holder, trie, willSent,
                   routed, delivered, discarded, kicks, kicked, bcastVars>>

(* after_connect_hook, run when hook.enable_before_connect is set: the     *)
(* hook's SubscribeAction / UnsubscribeAction go through handle_subscribe  *)
(* / handle_unsubscribe; a PublishAction whose encode_len fails returns    *)
(* InvalidData.  A PublishAction that encodes is routed to other clients.  *)
AfterConnectHook(c) ==
    /\ pc[c] = "after_hook"
    /\ \/ /\ pc' = Set(pc, c, "resend")
          /\ UNCHANGED <<endReason, sess, mailboxUp, reply, control, normal,
                         trie, ctlVars>>
       \/ /\ EnableConnectHook
          /\ \E on \in BOOLEAN :
                /\ sess' = Set(sess, c, [sess[c] EXCEPT !.subs = on])
                /\ trie' = on
          /\ pc' = Set(pc, c, "resend")
          /\ UNCHANGED <<endReason, mailboxUp, reply, control, normal,
                         ctlVars>>
       \/ /\ EnableConnectHook /\ EarlyFaults
          /\ EarlyExit(c)
    /\ UNCHANGED <<clean, hasWill, disconnected, holder, willSent, routed,
                   delivered, discarded, kicks, kicked, bcastVars>>

(* after_handle_packet: the adopted pending packets are written before the *)
(* loop starts; a failed write returns the io error.                       *)
ResendPending(c) ==
    /\ pc[c] = "resend"
    /\ \/ /\ pc' = Set(pc, c, "online")
          /\ UNCHANGED <<endReason, sess, mailboxUp, reply, control, normal,
                         ctlVars>>
       \/ /\ EarlyFaults /\ sess[c].pending # {}
          /\ EarlyExit(c)
    /\ UNCHANGED <<clean, hasWill, disconnected, holder, trie, willSent,
                   routed, delivered, discarded, kicks, kicked, bcastVars>>

(***************************************************************************)
(* The online loop (spec.md 4.5): the socket, the control mailbox and the  *)
(* normal mailbox of the entry the connection holds.                       *)
(***************************************************************************)
(* A routed publish is turned into an outgoing QoS 1 PUBLISH and kept in   *)
(* pending_packets until the client acknowledges it.                       *)
LoopRecvNormal(c) ==
    /\ pc[c] = "online"
    /\ normal # <<>>
    /\ sess' = Set(sess, c, [sess[c] EXCEPT !.pending = @ \cup {Head(normal)}])
    /\ normal' = Tail(normal)
    /\ UNCHANGED <<pc, clean, hasWill, disconnected, reply, holder, mailboxUp,
                   control, trie, willSent, endReason, routed, delivered,
                   discarded, ctlVars, bcastVars>>

ClientPuback(c) ==
    /\ pc[c] = "online"
    /\ \E m \in sess[c].pending :
          /\ sess' = Set(sess, c, [sess[c] EXCEPT !.pending = @ \ {m}])
          /\ delivered' = delivered \cup {m}
    /\ UNCHANGED <<pc, clean, hasWill, disconnected, reply, holder, mailboxUp,
                   control, normal, trie, willSent, endReason, routed,
                   discarded, ctlVars, bcastVars>>

(* SUBSCRIBE / UNSUBSCRIBE of the matching filter.                         *)
ClientSubscribe(c) ==
    /\ pc[c] = "online"
    /\ \E on \in BOOLEAN :
          /\ sess' = Set(sess, c, [sess[c] EXCEPT !.subs = on])
          /\ trie' = on
    /\ UNCHANGED <<pc, clean, hasWill, disconnected, reply, holder, mailboxUp,
                   control, normal, willSent, endReason, routed, delivered,
                   discarded, ctlVars, bcastVars>>

(* handle_disconnect sets session.disconnected and ends the loop.          *)
ClientDisconnect(c) ==
    /\ pc[c] = "online"
    /\ disconnected' = Set(disconnected, c, TRUE)
    /\ EndLoop(c, "disconnect", TRUE)
    /\ UNCHANGED <<clean, hasWill, sess, reply, holder, mailboxUp, control,
                   normal, trie, routed, delivered, discarded, ctlVars, bcastVars>>

(* The socket fails (EOF without DISCONNECT, io or decode error).          *)
ConnectionLost(c) ==
    /\ pc[c] = "online"
    /\ EndLoop(c, "lost", disconnected[c])
    /\ UNCHANGED <<clean, hasWill, disconnected, sess, reply, holder,
                   mailboxUp, control, normal, trie, routed,
                   delivered, discarded, ctlVars, bcastVars>>

(* Mutant: taken_over is not checked after the loop, so the connection     *)
(* goes on to the will and the registry update like any other exit.        *)
LoopTakeoverWithoutReturn(c) ==
    /\ pc[c] = "online"
    /\ control # <<>>
    /\ HandleControl(c, Head(control)).sender # NoConn
    /\ reply' = Set(reply, HandleControl(c, Head(control)).sender,
                     [kind |-> "state", st |-> BuildState(c)])
    /\ control' = Tail(control)
    /\ sess' = Set(sess, c, EmptyState)
    /\ EndLoop(c, "takeover", disconnected[c])
    /\ UNCHANGED <<clean, hasWill, disconnected, holder, mailboxUp, normal,
                   trie, routed, delivered, discarded, ctlVars, bcastVars>>

(* OnlineV3 on the control mailbox: the loop answers with build_state,     *)
(* sets taken_over, and handle_online returns Ok(None) at once: no will,   *)
(* no broadcast drain, no registry update.                                 *)
LoopTakeover(c) ==
    /\ pc[c] = "online"
    /\ control # <<>>
    /\ HandleControl(c, Head(control)).sender # NoConn
    /\ reply' = Set(reply, HandleControl(c, Head(control)).sender,
                     [kind |-> "state", st |-> BuildState(c)])
    /\ control' = Tail(control)
    /\ sess' = Set(sess, c, EmptyState)
    /\ pc' = Set(pc, c, "closed")
    /\ endReason' = Set(endReason, c, "takeover")
    /\ UNCHANGED <<clean, hasWill, disconnected, holder, mailboxUp, normal,
                   trie, willSent, routed, delivered, discarded, ctlVars, bcastVars>>

(* Kick or OnlineV5 on the control mailbox of the online loop: a Kick      *)
(* stops the loop (the client cannot be disconnected here), which goes on  *)
(* to the will and the registry update; OnlineV5 is refused.               *)
LoopControl(c) ==
    /\ pc[c] = "online"
    /\ control # <<>>
    /\ LET r == Head(control) IN
       /\ HandleControl(c, r).sender = NoConn
       /\ control' = Tail(control)
       /\ Refuse({r})
       /\ IF HandleControl(c, r).stop
          THEN EndLoop(c, "kick", disconnected[c])
          ELSE UNCHANGED <<pc, endReason, willSent>>
    /\ UNCHANGED <<clean, hasWill, disconnected, sess, reply, holder,
                   mailboxUp, normal, trie, routed, delivered,
                   discarded, kicks, kicked, bcastVars>>

(***************************************************************************)
(* Publishes of the client to a subscriber outside the identifier (spec.md *)
(* 3, 4.5; send_publish and the online loop are not in this repository).  *)
(* A publish goes straight to the subscriber's bounded normal mailbox when *)
(* nothing is queued for it and it has room; otherwise it is queued in     *)
(* broadcast_packets and broadcast_packets_cnt grows.  At the bound the    *)
(* QoS 1 publisher is held back: the loop reads no further publish.  The   *)
(* subscriber runs on its own, so whether its mailbox has room at a step   *)
(* is a free choice.                                                       *)
(***************************************************************************)
ClientBroadcast(c) ==
    /\ c \in Broadcasters
    /\ pc[c] = "online"
    /\ bsent < MaxBroadcasts
    /\ sess[c].bcnt < BroadcastMax
    /\ bsent' = bsent + 1
    /\ \/ sess[c].bq = 0 /\ UNCHANGED sess
       \/ sess' = Set(sess, c, [sess[c] EXCEPT !.bq = @ + 1, !.bcnt = @ + 1])
    /\ UNCHANGED <<pc, clean, hasWill, disconnected, reply, holder, mailboxUp,
                   control, normal, trie, willSent, endReason, routed,
                   delivered, discarded, ctlVars>>

(* consume_broadcast(count): the loop moves a queued message into the      *)
(* subscriber's mailbox once it has room and lowers broadcast_packets_cnt  *)
(* by the number moved.  The subscriber's reads are not modelled; the      *)
(* loop's fairness stands for its mailbox getting room.                    *)
ConsumeBroadcast(st, n) == [st EXCEPT !.bq = @ - n, !.bcnt = @ - n]

LoopFlushBroadcast(c) ==
    /\ pc[c] = "online"
    /\ sess[c].bq > 0
    /\ sess' = Set(sess, c, ConsumeBroadcast(sess[c], 1))
    /\ UNCHANGED <<pc, clean, hasWill, disconnected, reply, holder, mailboxUp,
                   control, normal, trie, willSent, endReason, routed,
                   delivered, discarded, ctlVars, bsent>>

(***************************************************************************)
(* handle_online after the loop, when not taken over and once the will    *)
(* has gone out (EndLoop): the broadcast drain, then remove_client for a   *)
(* clean session (its receiver is dropped on return) or offline_client and *)
(* handle_offline for a persistent one.                                    *)
(***************************************************************************)
(* The drain as it would be with consume_broadcast, like the loop's flush. *)
DrainBroadcastConsuming(c) ==
    /\ pc[c] = "exiting"
    /\ sess[c].bq > 0
    /\ sess' = Set(sess, c, ConsumeBroadcast(sess[c], 1))

(* The drain: broadcast_packets.drain() and send_async of every queued     *)
(* message, each waiting for room in the subscriber's mailbox.  The        *)
(* messages leave the map; broadcast_packets_cnt is not touched.           *)
DrainBroadcast(c) ==
    /\ pc[c] = "exiting"
    /\ sess[c].bq > 0
    /\ sess' = Set(sess, c, [sess[c] EXCEPT !.bq = @ - 1])

LoopDrainBroadcast(c) ==
    /\ DrainBroadcast(c)
    /\ UNCHANGED <<pc, clean, hasWill, disconnected, reply, holder, mailboxUp,
                   control, normal, trie, willSent, endReason, routed,
                   delivered, discarded, ctlVars, bsent>>

HandleOnlineExit(c) ==
    /\ pc[c] = "exiting"
    /\ sess[c].bq = 0
    /\ IF clean[c]
       THEN /\ holder' = NoConn
            /\ mailboxUp' = FALSE
            /\ trie' = FALSE
            /\ DropReceiver
            /\ discarded' = discarded \cup sess[c].pending \cup ToSet(normal)
            /\ sess' = Set(sess, c, EmptyState)
            /\ pc' = Set(pc, c, "closed")
       ELSE /\ pc' = Set(pc, c, "offline")
            /\ UNCHANGED <<holder, mailboxUp, trie, reply, control, normal,
                           discarded, sess, v5Wait>>
    /\ UNCHANGED <<clean, hasWill, disconnected, willSent, endReason, routed,
                   delivered, kicks, kicked, bcastVars>>

(***************************************************************************)
(* handle_offline: select! over the control and the normal mailbox.        *)
(***************************************************************************)
(* Mutant: the select! has no control branch.                              *)
OfflineLoopWithoutControl(c) == FALSE

(* handle_control returns the OnlineV3 sender: build_state is sent to it   *)
(* and the offline loop breaks.                                            *)
OfflineControl(c) ==
    /\ pc[c] = "offline"
    /\ control # <<>>
    /\ HandleControl(c, Head(control)).sender # NoConn
    /\ reply' = Set(reply, HandleControl(c, Head(control)).sender,
                     [kind |-> "state", st |-> BuildState(c)])
    /\ control' = Tail(control)
    /\ sess' = Set(sess, c, EmptyState)
    /\ pc' = Set(pc, c, "closed")
    /\ UNCHANGED <<clean, hasWill, disconnected, holder, mailboxUp, normal,
                   trie, willSent, endReason, routed, delivered, discarded,
                   ctlVars, bcastVars>>

(* Kick or OnlineV5 on the control mailbox of the offline loop.  A Kick    *)
(* breaks the loop unless the client had sent DISCONNECT; handle_offline   *)
(* then returns, dropping the session and the receiver, without a          *)
(* remove_client: the registry entry and the routes stay behind.           *)
OfflineStopControl(c) ==
    /\ pc[c] = "offline"
    /\ control # <<>>
    /\ LET r == Head(control) IN
       /\ HandleControl(c, r).sender = NoConn
       /\ kicked' = IF r.kind # "kick" THEN kicked
                    ELSE Set(kicked, c, IF HandleControl(c, r).stop
                                        THEN "stopped" ELSE "ignored")
       /\ IF HandleControl(c, r).stop
          THEN /\ pc' = Set(pc, c, "closed")
               /\ sess' = Set(sess, c, EmptyState)
               /\ discarded' = discarded \cup sess[c].pending \cup ToSet(normal)
               /\ DropReceiver
          ELSE /\ control' = Tail(control)
               /\ Refuse({r})
               /\ UNCHANGED <<pc, sess, discarded, reply, mailboxUp, normal>>
    /\ UNCHANGED <<clean, hasWill, disconnected, holder, trie, willSent,
                   endReason, routed, delivered, kicks, bcastVars>>

(* handle_normal -> recv_publish: the publish is queued in pending_packets *)
(* for delivery once the client is back; the returned packet is dropped.   *)
OfflineNormal(c) ==
    /\ pc[c] = "offline"
    /\ normal # <<>>
    /\ sess' = Set(sess, c, [sess[c] EXCEPT !.pending = @ \cup {Head(normal)}])
    /\ normal' = Tail(normal)
    /\ UNCHANGED <<pc, clean, hasWill, disconnected, reply, holder, mailboxUp,
                   control, trie, willSent, endReason, routed, delivered,
                   discarded, ctlVars, bcastVars>>

(***************************************************************************)
(* Another client publishes a matching message: the route table yields the *)
(* entry's client id and the message is sent to its normal mailbox.  The   *)
(* send fails, and the message is gone, when the receiver was dropped.     *)
(***************************************************************************)
Publish(m) ==
    /\ m \notin routed
    /\ trie /\ holder # NoConn
    /\ routed' = routed \cup {m}
    /\ normal' = IF mailboxUp THEN Append(normal, m) ELSE normal
    /\ discarded' = IF mailboxUp THEN discarded ELSE discarded \cup {m}
    /\ UNCHANGED <<pc, clean, hasWill, disconnected, sess, reply, holder,
                   mailboxUp, control, trie, willSent, endReason, delivered,
                   ctlVars, bcastVars>>

(* Senders of control messages outside the v3 code (spec.md 3, 4.5): an   *)
(* administrative Kick, and a v5 CONNECT with the same identifier that the *)
(* registry lets through to the v3 holder.  Both reach a live receiver.    *)
SendKick ==
    /\ kicks < MaxKicks
    /\ holder # NoConn /\ mailboxUp
    /\ control' = Append(control, [kind |-> "kick", from |-> NoConn])
    /\ kicks' = kicks + 1
    /\ UNCHANGED <<pc, clean, hasWill, disconnected, sess, reply, holder,
                   mailboxUp, normal, trie, willSent, endReason, routed,
                   delivered, discarded, v5Wait, kicked, bcastVars>>

SendOnlineV5 ==
    /\ EnableV5Takeover /\ v5Wait = "idle"
    /\ holder # NoConn /\ mailboxUp
    /\ control' = Append(control, [kind |-> "online_v5", from |-> NoConn])
    /\ v5Wait' = "waiting"
    /\ UNCHANGED <<pc, clean, hasWill, disconnected, sess, reply, holder,
                   mailboxUp, normal, trie, willSent, endReason, routed,
                   delivered, discarded, kicks, kicked, bcastVars>>

(* Every connection has ended or sits offline waiting on its mailboxes.    *)
Quiescent ==
    /\ \A c \in Conns : pc[c] \in {"closed", "offline"}
    /\ UNCHANGED vars

(* Steps the broker takes on its own: its tasks and the hook service.      *)
BrokerStep(c) ==
    \/ BeforeConnectHook(c) \/ HandleConnect(c) \/ ReceiveState(c)
    \/ WaitFailed(c) \/ AfterConnectHook(c) \/ ResendPending(c)
    \/ LoopRecvNormal(c) \/ LoopTakeover(c) \/ LoopControl(c)
    \/ LoopFlushBroadcast(c) \/ LoopDrainBroadcast(c)
    \/ HandleOnlineExit(c) \/ OfflineControl(c) \/ OfflineStopControl(c)
    \/ OfflineNormal(c)

(* Steps of the clients and the network.                                   *)
ClientStep(c) ==
    \/ ReadConnect(c) \/ ConnectTimeout(c) \/ ClientPuback(c)
    \/ ClientSubscribe(c) \/ ClientDisconnect(c) \/ ConnectionLost(c)
    \/ ClientBroadcast(c)

Next ==
    \/ \E c \in Conns : BrokerStep(c) \/ ClientStep(c)
    \/ \E m \in Msgs : Publish(m)
    \/ SendKick \/ SendOnlineV5
    \/ Quiescent

(* Each connection is a task on an executor that keeps polling it, so      *)
(* every broker step that stays enabled is eventually taken.  Clients and  *)
(* the network are under no obligation.                                    *)
Spec ==
    /\ Init /\ [][Next]_vars
    /\ \A c \in Conns : WF_vars(BrokerStep(c))

(***************************************************************************)
(* Properties.                                                             *)
(***************************************************************************)
(* Phases in which a connection holds the identifier's session on a live   *)
(* socket.                                                                 *)
Active == {"after_hook", "resend", "online", "exiting"}

(* At most one connection per client identifier is active at any time:    *)
(* a CONNECT with the same identifier waits in add_client until the old    *)
(* online or offline loop has handed over its state and returned           *)
(* (handle_control / taken_over in message.rs).                            *)
AtMostOneActive ==
    Cardinality({c \in Conns : pc[c] \in Active}) <= 1

(* Where a routed message can be: acknowledged, dropped by clean-session   *)
(* semantics, in the live normal mailbox, in the pending packets of a      *)
(* session, or in a SessionState on its way to the taking-over connection. *)
Copies(m) ==
      (IF m \in delivered THEN 1 ELSE 0)
    + (IF m \in discarded THEN 1 ELSE 0)
    + (IF mailboxUp /\ m \in ToSet(normal) THEN 1 ELSE 0)
    + Cardinality({c \in Conns : m \in sess[c].pending})
    + Cardinality({c \in Conns : reply[c].kind = "state"
                                 /\ m \in reply[c].st.pending})

(* The route table agrees with the subscriptions of the session that owns  *)
(* the identifier's entry, across takeovers: build_state moves subscribes  *)
(* into the state the next connection adopts, a clean session starts with  *)
(* none and has its routes removed, and SUBSCRIBE / UNSUBSCRIBE and the    *)
(* after-connect hook change both.  A session whose subscribes lost a      *)
(* filter the route table still holds would never remove that route       *)
(* (remove_client passes session.subscribes().keys()).                     *)
Owning == {"after_hook", "resend", "online", "exiting", "offline"}

SubscriptionsInSync ==
    \A c \in Conns : holder = c /\ pc[c] \in Owning => sess[c].subs = trie

(* A QoS 1 message routed to a persistent session is never lost nor        *)
(* duplicated while the session moves between connections: through the    *)
(* offline loop (handle_normal), takeover (build_state) and session        *)
(* adoption, it is in exactly one place until acknowledged, unless a clean *)
(* session legitimately dropped it.                                        *)
NoLostOrDuplicatedMessage ==
    \A m \in routed : Copies(m) = 1

(* The will is published exactly when a connection that was accepted ends  *)
(* by network loss or a kick, never after DISCONNECT or a takeover         *)
(* (handle_will is skipped on takeover and when session.disconnected).    *)
WillOnAbnormalExit ==
    \A c \in Conns :
        endReason[c] \in {"disconnect", "lost", "takeover", "early", "kick"}
        /\ pc[c] \in {"offline", "closed"}
        => (willSent[c] <=> hasWill[c]
                            /\ endReason[c] \in {"lost", "early", "kick"})

(* A CONNECT waiting for the old session's state is always answered: the   *)
(* holder's online or offline loop replies, or drops the request, and the  *)
(* connection moves on.                                                    *)
TakeoverAnswered ==
    \A c \in Conns : pc[c] = "wait_state" ~> pc[c] # "wait_state"

(* A v5 CONNECT that reached the v3 holder's control mailbox is always     *)
(* answered: the online loop, the offline loop or the dropped receiver     *)
(* drops its sender (handle_control refuses OnlineV5).                     *)
V5TakeoverAnswered ==
    v5Wait = "waiting" ~> v5Wait = "answered"

(* A Kick ends an offline session (spec.md 5: the target exits at its     *)
(* next scheduling step): once a Kick has reached the offline loop of c,   *)
(* that loop no longer runs, however the connection had ended.             *)
KickStopsOfflineLoop ==
    \A c \in Conns : kicked[c] # "none" => pc[c] # "offline"

(* An offline loop that a Kick stopped leaves no registry entry behind     *)
(* (spec.md 4.8: the offline loop's exit causes unsubscribe-all and        *)
(* registry removal): c no longer holds the identifier and no route leads  *)
(* to it.                                                                  *)
KickRemovesEntry ==
    \A c \in Conns : kicked[c] = "stopped" => holder # c

(* Back-pressure on broadcasts is temporary (spec.md 3, 4.5): a session   *)
(* whose broadcast_packets_cnt has reached broadcast_packets_max while it  *)
(* is online gets below the bound again once the subscriber reads its      *)
(* mailbox, through the loop's flush and consume_broadcast, across exits,  *)
(* the broadcast drain, the offline loop and takeovers (build_state).      *)
BroadcastHeldBack(c) == pc[c] = "online" /\ sess[c].bcnt >= BroadcastMax

BroadcastCreditRestored ==
    \A c \in Conns : BroadcastHeldBack(c) ~> ~BroadcastHeldBack(c)

=============================================================================
