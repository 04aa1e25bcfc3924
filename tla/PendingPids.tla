---------------------------- MODULE PendingPids ----------------------------
(***************************************************************************)
(* Outgoing QoS 1 publishes of one v5 session: the server packet id        *)
(* allocator (Session::incr_server_packet_id, v5/session.rs) and the       *)
(* pending-packet queue it feeds (spec.md 4.1; its code is not in this     *)
(* repository).  Each publish takes the next server pid and is pushed on   *)
(* the queue; the client answers with PUBACK(pid) over the ordered         *)
(* connection and the broker removes the first pending entry with that     *)
(* pid.  A full queue makes the v5 broker disconnect with QuotaExceeded.   *)
(***************************************************************************)
EXTENDS Naturals, Sequences, SequencesExt

CONSTANTS
    Msgs,          \* publishes routed to the session
    PidMax,        \* largest Pid, 65535 in mqtt-proto
    MaxInflight,   \* max_inflight
    MaxPending,    \* max_in_mem_pending
    InOrderAcks    \* completions come back in send order

ASSUME /\ PidMax \in Nat \ {0}
       /\ MaxInflight \in Nat /\ MaxPending \in Nat
       /\ InOrderAcks \in BOOLEAN

Pids == 1..PidMax

(* Queue capacity (spec.md 3: length <= inflight limit + pending limit).   *)
Capacity == MaxInflight + MaxPending

Entries == [pid : Pids, msg : Msgs]

VARIABLES
    serverPid,     \* session.server_packet_id
    pending,       \* pending_packets, oldest first
    sent,          \* publishes handed to the session
    unacked,       \* PUBLISHes the client holds without having answered
    pubacks,       \* PUBACK pids on the way to the broker, in order
    ackedMsgs,     \* history: publishes the client acknowledged
    closed         \* the broker disconnected the client

vars == <<serverPid, pending, sent, unacked, pubacks, ackedMsgs, closed>>

TypeOK ==
    /\ serverPid \in Pids
    /\ pending \in Seq(Entries)
    /\ sent \in SUBSET Msgs
    /\ unacked \in Seq(Entries)
    /\ pubacks \in Seq(Pids)
    /\ ackedMsgs \in SUBSET Msgs
    /\ closed \in BOOLEAN

(* Session::new sets server_packet_id to Pid::default(), which is 1.       *)
Init ==
    /\ serverPid = 1
    /\ pending = <<>>
    /\ sent = {}
    /\ unacked = <<>>
    /\ pubacks = <<>>
    /\ ackedMsgs = {}
    /\ closed = FALSE

(* Mutant: the counter runs past 65535 instead of wrapping.                *)
IncrPidNoWrap(p) == p + 1

(* Mutant: the counter wraps one id early.                                 *)
IncrPidShortCycle(p) == IF p >= PidMax - 1 THEN 1 ELSE p + 1

(* incr_server_packet_id: the new value is the old one plus one, with      *)
(* Pid's addition wrapping 65535 to 1; no pending pid is skipped.          *)
IncrPid(p) == IF p = PidMax THEN 1 ELSE p + 1

(* A routed publish for the client: it takes the current server pid        *)
(* (incr_server_packet_id returns the old value) and is pushed on the      *)
(* pending queue and written; when the queue is full, push fails with      *)
(* QueueFull and the v5 connection is closed with QuotaExceeded.           *)
SendPublish(m) ==
    /\ ~closed
    /\ m \notin sent
    /\ sent' = sent \cup {m}
    /\ \/ /\ Len(pending) < Capacity
          /\ pending' = Append(pending, [pid |-> serverPid, msg |-> m])
          /\ unacked' = Append(unacked, [pid |-> serverPid, msg |-> m])
          /\ serverPid' = IncrPid(serverPid)
          /\ UNCHANGED closed
       \/ /\ Len(pending) = Capacity
          /\ closed' = TRUE
          /\ UNCHANGED <<pending, unacked, serverPid>>
    /\ UNCHANGED <<pubacks, ackedMsgs>>

(* The client acknowledges a publish it holds: the oldest one when         *)
(* completions come back in send order, any one otherwise.                 *)
ClientAck ==
    /\ ~closed
    /\ \E i \in 1..Len(unacked) :
          /\ InOrderAcks => i = 1
          /\ pubacks' = Append(pubacks, unacked[i].pid)
          /\ ackedMsgs' = ackedMsgs \cup {unacked[i].msg}
          /\ unacked' = RemoveAt(unacked, i)
    /\ UNCHANGED <<serverPid, pending, sent, closed>>

(* Index of the first pending entry with pid p, 0 if there is none.        *)
FirstWithPid(p) == SelectInSeq(pending, LAMBDA e : e.pid = p)

(* Mutant: the PUBACK is taken as cumulative, as if pids only grew.        *)
AckPidCumulative(p) ==
    SelectSeq(pending, LAMBDA e : e.pid > p)

(* ack(pid, kind): the first pending entry with the pid is removed.        *)
AckPid(p) == RemoveAt(pending, FirstWithPid(p))

(* The session reads the next PUBACK off the connection.  A PUBACK for a   *)
(* pid with no pending entry is a protocol error (spec.md 7); no behaviour *)
(* of the client modelled here sends one.                                  *)
HandlePuback ==
    /\ ~closed
    /\ pubacks # <<>>
    /\ FirstWithPid(Head(pubacks)) # 0
    /\ pending' = AckPid(Head(pubacks))
    /\ pubacks' = Tail(pubacks)
    /\ UNCHANGED <<serverPid, sent, unacked, ackedMsgs, closed>>

(* Every publish was sent and every answer handled, or the client was      *)
(* disconnected.                                                            *)
Finished ==
    /\ closed \/ (sent = Msgs /\ unacked = <<>> /\ pubacks = <<>>)
    /\ UNCHANGED vars

Next ==
    \/ \E m \in Msgs : SendPublish(m)
    \/ ClientAck
    \/ HandlePuback
    \/ Finished

(* The session's loop keeps reading its socket, so a PUBACK that has       *)
(* arrived is eventually handled.                                          *)
Spec == Init /\ [][Next]_vars /\ WF_vars(HandlePuback)

(***************************************************************************)
(* Properties.                                                             *)
(***************************************************************************)
(* The server pid never collides with an id currently pending (spec.md 3): *)
(* however many times incr_server_packet_id wraps, no two pending entries  *)
(* share a pid.                                                            *)
NoPidCollision ==
    \A i, j \in 1..Len(pending) : i < j => pending[i].pid # pending[j].pid

(* The queue refines PendingAbstract: a publish stays outstanding until    *)
(* the client has acknowledged that very publish, so a PUBACK never        *)
(* removes another publish that happens to carry the same pid.             *)
Abs == INSTANCE PendingAbstract
           WITH outstanding <- {pending[i].msg : i \in 1..Len(pending)},
                acked <- ackedMsgs

AbstractSpec == Abs!Spec

=============================================================================
