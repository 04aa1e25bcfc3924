---------------------------- MODULE HookDispatch ----------------------------
(***************************************************************************)
(* Dispatch of per-packet hook requests (akasa-core/src/hook.rs) from the  *)
(* online loop's handle_packet (protocols/mqtt/v3/message.rs, 289-374).    *)
(*                                                                         *)
(* A connection's loop reads a packet.  When the hook for its kind is      *)
(* enabled it lends its session and write queue to a HookRequest          *)
(* (LockedHookContext, raw pointers) and parks until the oneshot receipt   *)
(* arrives.  The single HookService drains the request channel and spawns  *)
(* one handle_request task per request; tasks of different connections     *)
(* run concurrently.  A task awaits the user's before-hook, then runs the  *)
(* packet handler on the borrowed session, pushes the replies into the     *)
(* borrowed write queue, awaits the after-hook (subscribe, unsubscribe)    *)
(* and finally sends the receipt.                                          *)
(*                                                                         *)
(* Packets are abstracted to their kind and their position in the          *)
(* connection's stream; publishes are QoS 1 and a subscription is one      *)
(* boolean per connection.                                                 *)
(***************************************************************************)
EXTENDS Naturals, Sequences, FiniteSets

CONSTANTS
    Conns,              \* connections, one online loop each
    V5Conns,            \* the connections that speak MQTT v5 (the rest v3)
    HookConfigs,        \* the config.hook.enable_* settings the broker may start with
    HandlerFaults,      \* handle_publish / handle_subscribe may reject a packet
    MaxPackets          \* packets a client sends on one connection

HookFlags == [publish : BOOLEAN, subscribe : BOOLEAN, unsubscribe : BOOLEAN]

ASSUME /\ V5Conns \subseteq Conns /\ MaxPackets \in Nat
       /\ HookConfigs \subseteq HookFlags /\ HandlerFaults \in BOOLEAN

PacketKinds == {"publish", "subscribe", "unsubscribe", "pingreq", "too_large"}

\* Replies written by the connection: an ack of its own packet number seq,
\* or a publish routed to it from the normal mailbox (seq 0).
\* "error" is the packet a v5 handler returns as Err(err_pkt).
AckKinds == {"puback", "suback", "unsuback", "pingresp", "publish_out", "error"}
Replies == [kind : AckKinds, seq : 0..MaxPackets, code : {"success", "veto", "fail"}]

HookKinds == {"publish", "subscribe", "unsubscribe"}
Requests == [conn : Conns, kind : HookKinds, seq : 1..MaxPackets]
\* A task past its handler holds the receipt it will send after the after-hook.
Tasks == [conn : Conns, kind : HookKinds, seq : 1..MaxPackets,
          stage : {"before", "after"}, res : {"ok", "err"}]

VARIABLES
    hookCfg,    \* global.config.hook, fixed when the broker starts
    loop,       \* online loop: "reading", "parked" on a receipt, or "closed"
    closeReason,\* why the loop ended
    nread,      \* packets read from the socket so far
    requests,   \* the HookRequest channel drained by HookService::start
    tasks,      \* spawned handle_request tasks still running
    receipt,    \* the connection's hook oneshot: "none", "ok" or "err"
    out,        \* write queue of the connection, in push order
    subs,       \* the connection's subscription (session + route table)
    inbox,      \* routed publishes waiting in the normal mailbox
    routed      \* history: <<conn, seq>> of every publish routed

vars == <<hookCfg, loop, closeReason, nread, requests, tasks, receipt, out, subs,
          inbox, routed>>

MaxInbox == Cardinality(Conns) * MaxPackets

TypeOK ==
    /\ hookCfg \in HookConfigs
    /\ loop \in [Conns -> {"reading", "parked", "closed"}]
    /\ closeReason \in [Conns -> {"none", "eof", "error", "hook_err"}]
    /\ nread \in [Conns -> 0..MaxPackets]
    /\ requests \in Seq(Requests)
    /\ tasks \subseteq Tasks
    /\ receipt \in [Conns -> {"none", "ok", "err"}]
    /\ out \in [Conns -> Seq(Replies)]
    /\ subs \in [Conns -> BOOLEAN]
    /\ inbox \in [Conns -> 0..MaxInbox]
    /\ routed \subseteq Conns \X (1..MaxPackets)

Init ==
    /\ hookCfg \in HookConfigs
    /\ loop = [c \in Conns |-> "reading"]
    /\ closeReason = [c \in Conns |-> "none"]
    /\ nread = [c \in Conns |-> 0]
    /\ requests = <<>>
    /\ tasks = {}
    /\ receipt = [c \in Conns |-> "none"]
    /\ out = [c \in Conns |-> <<>>]
    /\ subs = [c \in Conns |-> FALSE]
    /\ inbox = [c \in Conns |-> 0]
    /\ routed = {}

\* The kinds whose handling handle_packet hands to the hook service.
HookedKinds == {k \in HookKinds : hookCfg[k]}

Ack(kind, seq, code) == [kind |-> kind, seq |-> seq, code |-> code]

\* The session of c is lent to a request or a task that has not answered.
Lent(c) ==
    \/ \E i \in 1..Len(requests) : requests[i].conn = c
    \/ \E t \in tasks : t.conn = c

(***************************************************************************)
(* Routing of publish (c, s): the route table puts it into the normal      *)
(* mailbox of every subscribed connection that is still registered.        *)
(***************************************************************************)
Route(c, s) ==
    /\ routed' = routed \cup {<<c, s>>}
    /\ inbox' = [d \in Conns |->
                    IF subs[d] /\ loop[d] # "closed" THEN inbox[d] + 1
                                                     ELSE inbox[d]]

(***************************************************************************)
(* handle_publish / handle_subscribe / handle_unsubscribe / Pingreq run    *)
(* inline by handle_packet when no hook is enabled for the kind.           *)
(***************************************************************************)
HandleDirect(c, k, s) ==
    \/ /\ k = "publish"
       /\ Route(c, s)
       /\ out' = [out EXCEPT ![c] = Append(@, Ack("puback", s, "success"))]
       /\ UNCHANGED subs
    \/ /\ k \in {"subscribe", "unsubscribe"}
       /\ subs' = [subs EXCEPT ![c] = (k = "subscribe")]
       /\ out' = [out EXCEPT ![c] = Append(@, Ack(IF k = "subscribe"
                                                 THEN "suback" ELSE "unsuback",
                                              s, "success"))]
       /\ UNCHANGED <<inbox, routed>>
    \/ /\ k = "pingreq"
       /\ out' = [out EXCEPT ![c] = Append(@, Ack("pingresp", s, "success"))]
       /\ UNCHANGED <<subs, inbox, routed>>

(***************************************************************************)
(* The online loop reads one packet and runs handle_packet on it: a packet *)
(* over max_packet_size_server ends the loop with InvalidData; a hooked    *)
(* kind becomes a HookRequest and the loop parks on its receipt; any other *)
(* kind is handled inline, where a v3 handle_publish or handle_subscribe   *)
(* error is returned with `?` and ends the loop.                           *)
(***************************************************************************)
ReadPacketStep(c, parks) ==
    /\ loop[c] = "reading"
    /\ nread[c] < MaxPackets
    /\ \E k \in PacketKinds :
        LET s == nread[c] + 1 IN
        /\ nread' = [nread EXCEPT ![c] = s]
        /\ \/ /\ k = "too_large"
              /\ loop' = [loop EXCEPT ![c] = "closed"]
              /\ closeReason' = [closeReason EXCEPT ![c] = "error"]
              /\ UNCHANGED <<requests, out, subs, inbox, routed>>
           \/ /\ k \in HookedKinds
              /\ requests' = Append(requests, [conn |-> c, kind |-> k, seq |-> s])
              /\ loop' = [loop EXCEPT ![c] = IF parks THEN "parked" ELSE "reading"]
              /\ UNCHANGED <<closeReason, out, subs, inbox, routed>>
           \/ /\ k \notin HookedKinds \cup {"too_large"}
              /\ HandleDirect(c, k, s)
              /\ UNCHANGED <<loop, closeReason, requests>>
           \/ /\ k \in {"publish", "subscribe"} \ HookedKinds
              /\ HandlerFaults /\ c \notin V5Conns
              /\ loop' = [loop EXCEPT ![c] = "closed"]
              /\ closeReason' = [closeReason EXCEPT ![c] = "error"]
              /\ UNCHANGED <<requests, out, subs, inbox, routed>>
    /\ UNCHANGED <<hookCfg, tasks, receipt>>

\* Mutant: the loop goes on reading while its request is outstanding.
ReadPacketWithoutPark(c) == ReadPacketStep(c, FALSE)

ReadPacket(c) == ReadPacketStep(c, TRUE)

(***************************************************************************)
(* HookService::start: receive the next request and spawn handle_request.  *)
(***************************************************************************)
HookServiceRecv ==
    /\ requests # <<>>
    /\ LET r == Head(requests) IN
         tasks' = tasks \cup {[conn |-> r.conn, kind |-> r.kind, seq |-> r.seq,
                               stage |-> "before", res |-> "ok"]}
    /\ requests' = Tail(requests)
    /\ UNCHANGED <<hookCfg, loop, closeReason, nread, receipt, out, subs, inbox, routed>>

\* The task ends by sending result r on the connection's oneshot.
Finish(t, r) ==
    /\ tasks' = tasks \ {t}
    /\ receipt' = [receipt EXCEPT ![t.conn] = r]

\* The task pushes a packet into the borrowed write queue.
Push(t, kind, code) ==
    out' = [out EXCEPT ![t.conn] = Append(@, Ack(kind, t.seq, code))]

\* What the packet handler returns: Ok, or Err when HandlerFaults.
HandlerResults == IF HandlerFaults THEN BOOLEAN ELSE {TRUE}

(***************************************************************************)
(* handle_request, V5Publish, after v5_before_publish returned code:       *)
(* Success runs v5_handle_publish, which routes and yields the PUBACK, or  *)
(* fails with an error packet; a veto pushes a PUBACK carrying the hook's  *)
(* reason code and routes nothing.  Every arm sends receipt Ok.            *)
(***************************************************************************)
V5PublishRoutingVeto(t, code, handled) ==
    /\ Route(t.conn, t.seq)
    /\ Push(t, "puback", code)
    /\ Finish(t, "ok")

V5Publish(t, code, handled) ==
    /\ Finish(t, "ok")
    /\ \/ /\ code = "success" /\ handled
          /\ Route(t.conn, t.seq)
          /\ Push(t, "puback", "success")
       \/ /\ code = "success" /\ ~handled
          /\ Push(t, "error", "fail")
          /\ UNCHANGED <<inbox, routed>>
       \/ /\ code = "veto"
          /\ Push(t, "puback", "veto")
          /\ UNCHANGED <<inbox, routed>>

(***************************************************************************)
(* handle_request, V3Publish, after v3_before_publish returned code:       *)
(* Success runs v3_handle_publish: Ok routes and pushes the PUBACK with    *)
(* receipt Ok, Err(err) is sent as the receipt; a veto sends               *)
(* Err(InvalidData).  The error arms write nothing.                        *)
(***************************************************************************)
V3Publish(t, code, handled) ==
    \/ /\ code = "success" /\ handled
       /\ Route(t.conn, t.seq)
       /\ Push(t, "puback", "success")
       /\ Finish(t, "ok")
    \/ /\ code = "veto" \/ ~handled
       /\ Finish(t, "err")
       /\ UNCHANGED <<out, inbox, routed>>

HookPublish(t, code, handled) ==
    IF t.conn \in V5Conns THEN V5Publish(t, code, handled)
                          ELSE V3Publish(t, code, handled)

(***************************************************************************)
(* handle_request, V5/V3 Subscribe and Unsubscribe after the before-hook:  *)
(* the handler updates the session and route table and pushes the         *)
(* SUBACK/UNSUBACK; the task then awaits the after-hook, still holding the *)
(* session, and only then sends the receipt.  handle_subscribe may fail:   *)
(* v5 pushes its error packet and answers Ok, v3 writes nothing and        *)
(* answers Err; both run the after-hook first (with codes None).           *)
(* handle_unsubscribe cannot fail.                                         *)
(***************************************************************************)
SubAck(t) == IF t.kind = "subscribe" THEN "suback" ELSE "unsuback"

SubscribeHandledEarlyReceipt(t, handled) ==
    /\ subs' = [subs EXCEPT ![t.conn] = (t.kind = "subscribe")]
    /\ Push(t, SubAck(t), "success")
    /\ tasks' = (tasks \ {t}) \cup {[t EXCEPT !.stage = "after"]}
    /\ receipt' = [receipt EXCEPT ![t.conn] = "ok"]

SubscribeHandled(t, handled) ==
    /\ \/ /\ handled
          /\ subs' = [subs EXCEPT ![t.conn] = (t.kind = "subscribe")]
          /\ Push(t, SubAck(t), "success")
          /\ tasks' = (tasks \ {t}) \cup {[t EXCEPT !.stage = "after"]}
       \/ /\ ~handled /\ t.kind = "subscribe" /\ t.conn \in V5Conns
          /\ Push(t, "error", "fail")
          /\ tasks' = (tasks \ {t}) \cup {[t EXCEPT !.stage = "after"]}
          /\ UNCHANGED subs
       \/ /\ ~handled /\ t.kind = "subscribe" /\ t.conn \notin V5Conns
          /\ tasks' = (tasks \ {t}) \cup {[t EXCEPT !.stage = "after", !.res = "err"]}
          /\ UNCHANGED <<subs, out>>
    /\ UNCHANGED receipt

\* The user's before-hook of task t returns and the handler runs.
HookBefore(t) ==
    /\ t.stage = "before"
    /\ \E handled \in HandlerResults :
       \/ /\ t.kind = "publish"
          /\ \E code \in {"success", "veto"} : HookPublish(t, code, handled)
          /\ UNCHANGED subs
       \/ /\ t.kind \in {"subscribe", "unsubscribe"}
          /\ SubscribeHandled(t, handled)
          /\ UNCHANGED <<inbox, routed>>
    /\ UNCHANGED <<hookCfg, loop, closeReason, nread, requests>>

\* The after-subscribe / after-unsubscribe hook returns; the receipt is sent.
HookAfter(t) ==
    /\ t.stage = "after"
    /\ Finish(t, t.res)
    /\ UNCHANGED <<hookCfg, loop, closeReason, nread, requests, out, subs, inbox,
                   routed>>

(***************************************************************************)
(* The online loop takes the hook receipt: Ok resumes reading (after       *)
(* after_handle_packet), Err ends the loop with that io error.             *)
(***************************************************************************)
LoopResumeOnOkOnly(c) ==
    /\ loop[c] = "parked" /\ receipt[c] = "ok"
    /\ receipt' = [receipt EXCEPT ![c] = "none"]
    /\ loop' = [loop EXCEPT ![c] = "reading"]
    /\ UNCHANGED <<hookCfg, closeReason, nread, requests, tasks, out, subs, inbox,
                   routed>>

LoopResume(c) ==
    /\ loop[c] = "parked"
    /\ receipt[c] # "none"
    /\ receipt' = [receipt EXCEPT ![c] = "none"]
    /\ \/ /\ receipt[c] = "ok"
          /\ loop' = [loop EXCEPT ![c] = "reading"]
          /\ UNCHANGED closeReason
       \/ /\ receipt[c] = "err"
          /\ loop' = [loop EXCEPT ![c] = "closed"]
          /\ closeReason' = [closeReason EXCEPT ![c] = "hook_err"]
    /\ UNCHANGED <<hookCfg, nread, requests, tasks, out, subs, inbox, routed>>

(***************************************************************************)
(* The loop takes a routed publish from its normal mailbox: handle_normal  *)
(* -> recv_publish mutates the session (pid, pending queue) and pushes the *)
(* outgoing PUBLISH into the write queue.                                  *)
(***************************************************************************)
LoopRecvNormal(c) ==
    /\ loop[c] = "reading"
    /\ inbox[c] > 0
    /\ inbox' = [inbox EXCEPT ![c] = @ - 1]
    /\ out' = [out EXCEPT ![c] = Append(@, Ack("publish_out", 0, "success"))]
    /\ UNCHANGED <<hookCfg, loop, closeReason, nread, requests, tasks, receipt,
                   subs, routed>>

\* The client closes the socket; the loop sees EOF on its next read.
ClientEof(c) ==
    /\ loop[c] = "reading"
    /\ loop' = [loop EXCEPT ![c] = "closed"]
    /\ closeReason' = [closeReason EXCEPT ![c] = "eof"]
    /\ UNCHANGED <<hookCfg, nread, requests, tasks, receipt, out, subs, inbox,
                   routed>>

\* Every client has sent all its packets and everything has been answered.
Done ==
    /\ requests = <<>> /\ tasks = {}
    /\ \A c \in Conns : loop[c] = "closed" \/ (loop[c] = "reading" /\ inbox[c] = 0)
    /\ UNCHANGED vars

LoopStep(c) == ReadPacket(c) \/ LoopResume(c) \/ LoopRecvNormal(c)

TaskStep(t) == HookBefore(t) \/ HookAfter(t)

Next ==
    \/ \E c \in Conns : LoopStep(c) \/ ClientEof(c)
    \/ HookServiceRecv
    \/ \E t \in tasks : TaskStep(t)
    \/ Done

(***************************************************************************)
(* Fairness: each online loop, the hook service and every spawned task are *)
(* polled by their executors, and hook handlers are assumed to return.     *)
(* Reading a packet is the client's choice and gets no fairness.           *)
(***************************************************************************)
Spec ==
    /\ Init /\ [][Next]_vars
    /\ \A c \in Conns : WF_vars(LoopResume(c)) /\ WF_vars(LoopRecvNormal(c))
    /\ WF_vars(HookServiceRecv)
    /\ \A t \in Tasks : WF_vars(t \in tasks /\ TaskStep(t))
-----------------------------------------------------------------------------
(***************************************************************************)
(* Properties                                                              *)
(***************************************************************************)

\* The session and write queue lent through LockedHookContext are never
\* touched by their online loop (reading and handling a packet, or
\* handle_normal on a routed publish) until the hook task has sent its
\* receipt: the raw pointers of hook.rs are only sound under this exclusion.
ExclusiveSessionAccess ==
    [][\A c \in Conns : Lent(c) => ~(ReadPacket(c) \/ LoopRecvNormal(c))]_vars

\* The acks a connection writes for its own packets (PUBACK, SUBACK,
\* UNSUBACK, PINGRESP) appear in the order the packets were read, whether a
\* packet went through a hook task on the hook executor or was handled
\* inline by handle_packet.
OwnAcks(c) == SelectSeq(out[c], LAMBDA a : a.seq > 0)

AcksInPacketOrder ==
    \A c \in Conns : \A i \in 1..Len(OwnAcks(c)) - 1 :
        OwnAcks(c)[i].seq < OwnAcks(c)[i + 1].seq

\* A publish is routed exactly when the connection acknowledged it with a
\* success PUBACK: a v5 before_publish veto is answered with its reason code
\* and never reaches a subscriber, a v3 veto is neither routed nor acked.
Written(c) == {out[c][i] : i \in DOMAIN out[c]}

VetoedPublishNotRouted ==
    \A c \in Conns : \A s \in 1..MaxPackets :
        <<c, s>> \in routed <=> Ack("puback", s, "success") \in Written(c)

\* A loop parked on a hook receipt is eventually resumed or ended by it:
\* every handle_request branch answers its oneshot and the loop acts on
\* both Ok and Err.
ParkedResumes == \A c \in Conns : loop[c] = "parked" ~> loop[c] # "parked"

=============================================================================
