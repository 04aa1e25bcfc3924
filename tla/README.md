# TLA+ models of the akasa MQTT broker core

This directory holds TLA+ models of the akasa broker core, with the TLC configurations that check them. Each model is a faithful abstraction of the code under `src/`. Where the code is not in this repository, the model follows `spec.md`, and `PROJECT.json` marks those definitions `spec_modelled`.

## 1. Inventory

### Source files

| File | What it contains |
|---|---|
| `akasa-core/src/protocols/mqtt/v5/session.rs` | v5 `Session` (all per-connection data), `SessionState` (the part handed over on takeover), `Session::new`, `incr_server_packet_id`, `TracedRng` (SCRAM nonce record/replay), `ScramStage`, `SubscriptionData`, `PubPacket` |
| `akasa-core/src/hook.rs` | `Hook` trait (12 async events), `HookRequest` (10 kinds), `LockedHookContext` (raw pointers to the session and its write queue), `HookService::start` (dispatcher), `handle_request` (per-request task) |
| `akasa-core/src/protocols/mqtt/v3/message.rs` | v3 connection lifecycle: `handle_connection`, `handle_online`, `OnlineSession for Session` (`build_state`, `handle_packet`, `handle_decode_error`, ...), `handle_offline`, `handle_will`, `handle_control`, `handle_normal`, `before_connect_hook`, `after_connect_hook` |
| `src/tests/utils.rs`, `src/tests/mosquitto/mod.rs` | test harness (`MockConn`, an in-memory socket) and the list of test modules |

The following code is referenced by these files but is not in the repository: the online loop (`OnlineLoop`), `PendingPackets`, the route table and retained store, the client registry (`GlobalState`), the v3 and v5 packet handlers, and the v5 `message.rs`. Their behaviour is taken from `spec.md`.

### Components, their state and operations

1. **Session (v3/v5)**, pure data (`session.rs`). It holds the connection flags (`connected`, `client_disconnected`, `server_disconnected`, and `disconnected` in v3), `server_packet_id`, `pending_packets`, `qos2_pids`, `subscribes`, `topic_aliases`, the broadcast queues (`broadcast_packets`, `broadcast_packets_cnt`, `broadcast_packets_max = 10`), the will, `clean_start`, and the v5 properties. Its operations are `Session::new` and `incr_server_packet_id`, which post-increments a `Pid` over 1..65535 and never skips ids that are still in use. `SessionState` is the part that survives a connection: the receiver, pending packets, qos2 pids, subscribes and broadcast queues.
2. **Pending-packet queue** (spec §4.1). It is a window of `max_inflight` entries plus `max_in_mem_pending` queued entries, with an inflight timeout. Its operations are push, ack by pid, expire, and clean.
3. **Subscription trie** (spec §4.2). It maps filters with `+` and `#` to (client, options). Its operations are subscribe, unsubscribe, match and remove_client.
4. **Retained store** (spec §4.3). It maps a topic to a retained message. Its operations are set, clear (empty payload) and match(filter).
5. **Client registry** (spec §4.4). It maps identifier → (ClientId, control sink, online). Its operations are `add_client`, `remove_client`, `offline_client` and `online_client`. On takeover, `add_client` sends `OnlineV3`/`OnlineV5 {sender}` to the holder's control mailbox and waits for the holder's `SessionState`.
6. **Online loop** (spec §4.5). This is one task per connection. It polls the socket, the control mailbox, the normal mailbox and the pending timer. While a hook request is outstanding, it parks on the hook receipt.
7. **Packet handlers** (spec §4.6). These are CONNECT, PUBLISH (QoS 0/1/2, topic alias, retain), PUBACK/PUBREC/PUBREL/PUBCOMP, SUBSCRIBE, UNSUBSCRIBE, PINGREQ and DISCONNECT. The v3 dispatch is `handle_packet` in `message.rs`.
8. **Hook dispatch** (`hook.rs`). One `HookService` drains the `HookRequest` channel and spawns one `handle_request` task per request. A task awaits the user's handler, then runs the packet handler on the session through the `LockedHookContext` raw pointers, writes the replies into the connection's write queue, and sends a receipt on a oneshot.
9. **Offline loop** (`handle_offline`). It selects over the control and normal mailboxes. `OnlineV3` hands over the state and stops the loop. `OnlineV5` is refused and only logged. `Kick` stops the loop only if `!disconnected`. A normal message is queued with `recv_publish`.
10. **Will handling** (`handle_will`). The will is published when the loop ends without `disconnected` and the session was not taken over.
11. **TracedRng** (`session.rs`). It runs in one of two modes. In generate mode it records every random byte. In replay mode it re-reads recorded bytes and panics with "data not enough" when they run out.
12. **Test harness** (`tests/utils.rs`). This is an in-memory connection for the test suite.

### How they interact

- A connection task runs `handle_online`. It decodes CONNECT, racing it against `timeout_receiver`. It then runs the before-connect hook request, then `handle_connect`, which calls the registry's `add_client` and may take over another connection's session. Next come the after-connect hook and the resend of adopted pending packets, then the online loop. After the loop it runs the will, drains the broadcast queues, and calls `remove_client` (clean session) or `offline_client` followed by `handle_offline`.
- Takeover is message passing. The registry queues `OnlineV3 {sender}` on the holder's **control** mailbox. The holder's online or offline loop answers with `build_state`. That moves its pending packets, qos2 pids, subscribes, broadcast queues and the **receiver** (both mailboxes) to the new connection.
- Publishes are routed through the trie into each matching client's **normal** mailbox (`NormalMessage::PublishV3/V5`). A mailbox whose receiver has been dropped refuses the send.
- Hook dispatch is shared state. `LockedHookContext` gives the hook task raw `*mut` access to the session and the write queue. The only thing that stops a data race is the online loop parking until the receipt arrives.

### What is hard

- **Interleavings.** Takeover requests can race a loop that is exiting, going offline or already gone. Several connections can queue behind one holder. Hook tasks of different connections run concurrently on the hook executor, while each connection's loop runs on its own executor.
- **Partial failure.** `handle_online` registers the client in `handle_connect`, then can return early with `?` (the after-connect hook failing at line 155, or the resend write failing at line 159). That path skips the will, `remove_client` and `offline_client`.
- **Ordering.** Per-connection packet order must survive the detour through the hook channel and spawned tasks.
- **Timeouts and liveness.** The connect timeout covers only the decode of CONNECT. `before_connect_hook` waits with no timeout. A connection that is taking over another waits for that holder's reply.
- **Everyone waiting on everyone.** The exit drain awaits room in other sessions' bounded mailboxes. Meanwhile it reads neither its own mailboxes nor its control mailbox. Sessions that publish to each other, or to themselves, can wait on each other forever.
- **Stale state.** `broadcast_packets_cnt` travels with the session state across a takeover, so any path that empties `broadcast_packets` without lowering the count leaves back-pressure on a session with nothing queued.
- **Numeric edges.** `server_packet_id` wraps from 65535 to 1 without skipping pids still pending.

### Properties that make each component correct

- Registry, lifecycle and takeover. At most one connection holds an identifier at a time. The route table agrees with the subscriptions of the session that owns the entry. Every takeover request is answered. A QoS 1 message routed to a persistent session is neither lost nor duplicated across offline periods and takeovers. The will is published exactly on abnormal exits.
- Hook dispatch. The session and write queue are touched by one party at a time. Replies go out in packet order. A vetoed publish is never routed, and a v5 veto is answered with the veto code. Every hook request is answered.
- Pending queue and pid allocation. The queue stays within its bound. A pid being allocated never collides with a pending pid. A PUBACK removes the publish the client acknowledged and no other.
- Trie and retained store. Matching agrees with the MQTT matching rules. A retained message is cleared by an empty payload.
- v5 session. Topic alias rules hold, and a QoS 2 redelivery is routed only once.
- TracedRng. Replay reproduces the recorded values, in order.

## 2. Plan

The plan is ordered by importance. The most important behaviour is the connection lifecycle, because it decides who owns a client's session and whether messages survive.

1. `V3Lifecycle` (done). This is `message.rs` together with the registry and online loop it depends on (those two from the spec): takeover, offline loop, will, and the early-return paths.
2. `HookDispatch` (done). This is `hook.rs` together with `handle_packet` from `message.rs`: per-connection parking, concurrent hook tasks, and the publish/subscribe/unsubscribe paths for v3 and v5.
3. `PendingPids` with `incr_server_packet_id` (done for QoS 1). This covers push with QueueFull, ack by pid and the pid wrap-around, with `PidMax` standing for 65535. It refines `PendingAbstract`, a queue of unacknowledged messages without pids, through `INSTANCE ... WITH`. Expiry and the QoS 2 ack kinds remain.
4. `TopicMatch` (pure operators). This is a RECURSIVE filter/topic matcher checked against a reference definition over all topics and filters of up to 3 levels drawn from a 2-word alphabet, `$` topics included.
5. `RetainedStore` and `Subscribe`. These cover retain-handling on SUBSCRIBE and clearing with an empty payload.
6. `V5Publish`. This covers topic aliases, qos2 pid fingerprints (idempotent redelivery) and message expiry.
7. `TracedRng` (done). This is record and replay, refining an ideal random source (`RandomSource`).
8. Kick and OnlineV5 towards a v3 holder (done, inside `V3Lifecycle`). A `Broker` module composing `V3Lifecycle` and `HookDispatch` through INSTANCE remains.
9. `BroadcastDrain` (done). This covers broadcast packets between sessions with bounded mailboxes, and the exit drain that waits on them.

## 3. Modules and runs

### V3Lifecycle (`V3Lifecycle.tla`, `MCV3Lifecycle.tla`)

The state maps onto `message.rs` as follows.

- `pc[c]` is the position of connection `c`'s task in `handle_online` / `handle_offline`.
- `clean` and `hasWill` come from CONNECT. `disconnected` is `session.disconnected`.
- `sess[c]` is the `SessionState` content (subscribes and pending packets) held by the task.
- `reply[c]` is the flume channel on which `add_client` awaits the old state. It can also be "dropped", when the holder's receiver is dropped.
- The registry entry is `holder`, `mailboxUp` (the `ClientReceiver` is alive), `control` (the queue of `ControlMessage`s: `OnlineV3` with its requester, `OnlineV5`, `Kick`) and `normal` (routed publishes).
- `v5Wait` is the `add_client` wait of a v5 CONNECT for the same identifier, and `kicks` counts the Kicks sent (bounded by `MaxKicks`). `kicked[c]` records whether `c`'s offline loop ignored or obeyed a Kick.
- `trie` says whether the route table holds the entry's subscription.
- `routed`, `delivered`, `discarded`, `willSent` and `endReason` are history variables.
- `sess[c].bq` and `sess[c].bcnt` are `broadcast_packets` (the number of queued packets for one busy subscriber) and `broadcast_packets_cnt`. `bsent` counts the publishes the client sends that subscriber. It is bounded by `MaxBroadcasts`, and only the connections in `Broadcasters` send them. The subscriber runs on its own, so whether its mailbox has room at a step is a free choice.

The actions follow the code in order:

- `ReadConnect` and `ConnectTimeout` (lines 117-130)
- `BeforeConnectHook` (134-136, 569-595)
- `HandleConnect`, `ReceiveState` and `WaitFailed` (registry, from the spec)
- `AfterConnectHook` (154-156, 597-689)
- `ResendPending` (158-160)
- `EarlyExit`: the early `?` returns
- the online-loop steps
- `LoopTakeover` (171-186) for `OnlineV3`, and `LoopControl` (381-387) for `Kick` (the loop stops and goes on to the will) and `OnlineV5` (refused)
- `EndLoop` (183-192): every way the loop ends without `taken_over` (DISCONNECT, socket loss, Kick) publishes the will in the same step, as `handle_online` does before its first await after the loop. `HandleWill` is the `!session.disconnected` guard with `last_will.take()`.
- `HandleControl` is `handle_control` (474-503): it returns `stop` (a Kick, and only if `!disconnected`) and the requester's sender. `Refuse` drops an `OnlineV5` sender (486-488). `DropReceiver` answers every queued request with a dropped channel.
- `HandleOnlineExit` (210-222): `remove_client` or `offline_client`, after the broadcast drain
- `OfflineControl`, `OfflineStopControl` and `OfflineNormal` (403-437, 506-567). A Kick that stops the offline loop drops the session and the receiver, but never calls `remove_client`.
- `SendKick` and `SendOnlineV5`: control messages whose senders are not in this repository (spec §3, §4.4, §4.5). They reach only a live receiver.
- `Publish` to an entry whose receiver was dropped fails, and the message counts as discarded. No session exists to lose it: a loss caused by the drop itself is a session's pending message vanishing, which `NoLostOrDuplicatedMessage` still sees.
- `Publish`: routing by another client
- `ClientBroadcast` (from the spec, `send_publish`): a publish to the busy subscriber goes straight to its mailbox when nothing is queued and the mailbox has room (a free choice), and is otherwise queued with `broadcast_packets_cnt + 1`. The client's packets are not read while the count is at `broadcast_packets_max`.
- `LoopFlushBroadcast` (from the spec): the online loop moves one queued packet into the mailbox and calls `consume_broadcast(1)` (`ConsumeBroadcast`, 258-266).
- `LoopDrainBroadcast` (193-209): after the loop, `broadcast_packets.drain()` sends every queued packet with `send_async`, which waits while the mailbox is full. It does not call `consume_broadcast`. The will has already gone out; `HandleOnlineExit` runs once the drain is done.

Modelling choices:

- Messages are QoS 1 publishes. Pids, payloads and filters are abstracted away. A subscription is a boolean, because the properties only need to know whether routing reaches the identifier.
- When a takeover request is dropped because the holder dropped its receiver, `add_client` re-reads the registry (`WaitFailed` → `connect`). When the entry's receiver is already dead, a new entry replaces it. The spec does not say what `add_client` does in these two cases. These are the two least committal readings.
- Fairness: each connection's task is weakly fair (`WF_vars(BrokerStep(c))`). For the flush and the drain, this fairness also stands for the subscriber's mailbox eventually having room. A `send_async` that waits forever is a different failure from the one checked. This is justified because the executor keeps polling every spawned task, and the online loop polls its control mailbox on every step. Client and network actions get no fairness.
- `Quiescent` allows stuttering only once every connection is closed or sits in the offline loop, so deadlock checking still catches a connection stuck waiting.

Runs:

| Run | Config | Checks | Shows |
|---|---|---|---|
| `lifecycle` | `V3Lifecycle.cfg`: 3 connections, 1 message, no hooks, no early faults | `SubscriptionsInSync`, `AtMostOneActive`, `NoLostOrDuplicatedMessage`, `WillOnAbnormalExit`, `TakeoverAnswered` | Chains of takeover (a holder, a taker and a second taker queued behind it), offline periods and clean/persistent reconnects keep one owner per identifier. The route table stays in step with the subscriptions of the session that owns the entry, through `build_state`'s swap of `subscribes` and clean-session adoption. No message is lost, publish the will exactly on abnormal exit, and answer every waiting CONNECT. |
| `lifecycle_faults` | `V3Lifecycle_faults.cfg`: 2 connections, hooks on, early faults on, 1 Kick, 1 v5 takeover attempt | `AtMostOneActive`, `SubscriptionsInSync`, `TakeoverAnswered`, `V5TakeoverAnswered` | Ownership, the route table and liveness still hold when the after-connect hook (which may subscribe or unsubscribe) or the resend write fails after registration. They also hold with a Kick (to an online or offline loop) and a refused v5 takeover interleaved with v3 takeovers. The v5 requester is always answered, by the loop or by the dropped receiver. `WillOnAbnormalExit` and `NoLostOrDuplicatedMessage` are not checked here, because the early faults break them (the two findings below). |
| `kick_leaves_registry_entry` | `V3Lifecycle_kick.cfg`: 2 connections, 1 Kick, 1 v5 attempt | `KickRemovesEntry` (violation) | c1's connection is lost and its persistent session goes offline. A Kick stops the offline loop, which breaks (`message.rs:417`) and returns without `remove_client`: the session and receiver are dropped, but the registry still names c1 and its routes stay. Spec §4.8 says the offline loop's exit causes unsubscribe-all and registry removal. |
| `kick_ignored_after_disconnect` | `V3Lifecycle_kickstop.cfg`: the same bounds | `KickStopsOfflineLoop` (violation) | c1 sends DISCONNECT and its persistent session goes offline. The Kick is ignored (`stop = !session.disconnected`, `message.rs:496`), so the loop keeps the session, its subscriptions and queued messages; the same Kick stops a session whose connection was lost. Spec §5 says the target of a Kick exits at its next step. |
| `early_exit_loses_session` | `V3Lifecycle_loss.cfg` | `NoLostOrDuplicatedMessage` (violation) | A persistent session adopted by takeover is dropped, with its pending QoS 1 message, when the resend write after CONNACK fails (`message.rs:159`). |
| `early_exit_skips_will` | `V3Lifecycle_will.cfg` | `WillOnAbnormalExit` (violation) | The same early return skips `handle_will`, although the connection was accepted and then lost. |
| `broadcast_credit_leak` | `V3Lifecycle_broadcast.cfg`: 2 connections, `BroadcastMax = 1`, 1 publish from c1 | `BroadcastCreditRestored` (violation) | Client c1 publishes to a subscriber whose mailbox is full, so the publish is queued and the count reaches the maximum. c1 disconnects, and the exit drain delivers the queued packet without `consume_broadcast` (`message.rs:193`). `build_state` (254) hands the count of 1 to c2's takeover. c2 is online with nothing queued and is held back forever. Spec §3 and §4.5 say the count bounds the packets queued. With the drain calling `consume_broadcast` (`DrainBroadcastConsuming`), the same configuration passes. |

Bounds: Kicks and v5 attempts are checked with 2 connections, because 3 connections with them exceed what TLC explores in minutes. One Kick and one v5 attempt are enough, because each is consumed by a single step of whichever loop holds the entry. The interesting cases are the loop being online, offline-after-loss or offline-after-DISCONNECT, and all three occur with 2 connections. 3 connections are the fewest that exercise a takeover queued behind another one on the same control mailbox. A single message is enough, because loss and duplication are properties of one message's location. Broadcast back-pressure needs only `BroadcastMax = 1` and one publish: a queued publish reaches the maximum. `lifecycle` sets these bounds to 0 (no broadcasts). `lifecycle_faults` sets them to 1, so the flush and the drain run there while its properties are checked. There, c1 publishes and c2 takes the session over. Letting both connections publish nearly doubles that run (1m53 against 1m08) and reaches no new branch. TLC explores the complete state space for each bound.

### HookDispatch (`HookDispatch.tla`, `MCHookDispatch.tla`)

State:

- `loop[c]` is the online loop: reading, parked on a hook receipt, or closed (`closeReason` says why).
- `nread[c]` is the number of packets read from the socket.
- `requests` is the `HookRequest` flume channel.
- `tasks` holds the spawned `handle_request` tasks, at the before-hook await or the after-hook await.
- `receipt[c]` is the oneshot.
- `out[c]` is the write queue, in push order.
- `subs[c]` is the subscription, kept in the session and the route table.
- `inbox[c]` is the normal mailbox.
- `routed` is a history of routed publishes.

Actions:

- `hookCfg` is the broker's hook configuration (`config.hook`: which of publish, subscribe and unsubscribe are hooked). It is chosen at Init from `HookConfigs`, and never changes.
- `ReadPacket`: `handle_packet`, `message.rs` 289-374. It handles too-large packets, a hooked kind (the loop parks) and inline handling (`HandleDirect`). When `HandlerFaults` is on, an inline v3 publish or subscribe handler may fail, and the `?` ends the loop.
- `HookServiceRecv`: `HookService::start`.
- `HookBefore`: the before-hook returns and the task runs the packet handler on the lent session. It covers `V5Publish` / `V3Publish` (`hook.rs` 404-456 / 537-570) and `SubscribeHandled` for subscribe and unsubscribe (571-629, 457-512). With `HandlerFaults`, the handler may fail (`HandlerResults`). A v5 handler error pushes an error packet and still answers Ok (`hook.rs:425`). A v3 publish or subscribe error makes the task answer Err without writing.
- `HookAfter`: the after-hook returns and the task sends the receipt.
- `LoopResume`: the loop takes the receipt. Ok resumes it, Err ends it. This is from the spec, because `OnlineLoop` is not in the repository.
- `LoopRecvNormal`: `handle_normal`.
- `ClientEof`.

Model values `c1` (v3) and `c2` (v5) exercise both veto paths and concurrent tasks of two connections. Packets are QoS 1 publishes, subscribes, unsubscribes, pings and oversize packets.

Fairness: weak fairness for the loop's receipt and mailbox steps, the hook service and every task. This assumes the user's hook handlers return, which the code takes for granted; it has no timeout. Reading a packet is the client's choice and gets no fairness.

The spec can be read two ways here, and the model takes §4.7's reading: a parked loop does not advance, so it does not serve its normal mailbox either. §4.5's polling order puts the normal mailbox ahead of the hook reply. Under that reading, `handle_normal` would run on a session that a subscribe hook task holds through raw pointers. An earlier version of this model checked that reading and found exactly that trace. So `hook.rs` is sound only if `OnlineLoop` follows §4.7. `OnlineLoop` is not in this repository.

| Run | Config | Checks | Shows |
|---|---|---|---|
| `hooks` | two hook configurations (every packet hook; only the subscribe hook, so hooked and inline packets mix), handler errors on, 2 packets per connection | `AcksInPacketOrder`, `VetoedPublishNotRouted`, `ExclusiveSessionAccess`, `ParkedResumes` | A lent session is never touched by its loop. Acks go out in packet order. A publish is routed exactly when it is acked with success. Every parked loop is resumed or ended. |

A v3 `before_publish` veto answers `Err(InvalidData)` (`hook.rs:567`) and the loop closes the connection. This is not checked against spec.md's rule that a veto becomes an ack reason code: MQTT 3.1.1 gives a PUBACK no reason code, so that rule can only apply to v5, where the code does push the veto code.

Bounds: 2 packets per connection already give a hooked packet followed by an inline one, and a subscribe on one connection followed by a publish on the other. Both configurations are explored in one run, because `hookCfg` is chosen at Init.

### BroadcastDrain (`BroadcastDrain.tla`, `MCBroadcastDrain.tla`)

This module models broadcast packets between sessions and the exit drain of `handle_online` (`message.rs` 193-220). `V3Lifecycle` follows one identifier and one outside subscriber whose mailbox always gets room eventually. This module drops that assumption: every client has a bounded normal mailbox, and the subscribers are the clients themselves.

State:

- `phase[c]` is online, exiting (the loop has ended and `handle_online` runs its exit path) or offline (`handle_offline`).
- `box[c]` counts the messages in c's normal mailbox (capacity `MailboxCap`).
- `bq[c][t]` is `broadcast_packets` of c for subscriber t, and `bcnt[c]` is `broadcast_packets_cnt`.
- `draining[c]` is the subscriber whose messages the drain is sending.
- `sent[c]` counts publishes, up to `MaxPublishes`.

Actions:

- `Publish` (from the spec, `send_publish`): the message goes straight into the subscriber's mailbox if nothing is queued for it and there is room. Otherwise it is queued and the count grows. At `BroadcastMax` the loop reads no more publishes.
- `LoopFlush` (from the spec): the online loop forwards one queued message and calls `consume_broadcast`.
- `RecvNormal`: the online loop, or the offline loop (425-428), reads the mailbox.
- `LoopEnd`: the connection ends.
- `DrainNext` and `DrainSend` (193-209): `broadcast_packets.drain()` visits subscribers in hash order. For each one it awaits `send_async` of every message, which waits for room.
- `GoOffline` (215-220): `offline_client` and `handle_offline`.

Fairness: each session's task is weakly fair (`WF_vars(SessionStep(c))`), because the executor keeps polling it. Publishes and the end of a connection are the clients' choice.

| Run | Config | Checks | Shows |
|---|---|---|---|
| `exit_drain_deadlock` | `BroadcastDrain.cfg`: clients a and b subscribed to each other, `MailboxCap = 1`, `BroadcastMax = 1`, 2 publishes each | `ExitCompletes` (violation) | In the trace, a and b each fill the other's mailbox and then queue one more message for it. Both disconnect. Each exit drain then waits in `send_async` (`message.rs:198`) for room that only the other's loop would make, and that loop is itself stuck in its drain. Neither session reaches `handle_offline`. Its control mailbox is not read either, so a takeover CONNECT or a Kick for either identifier would wait forever. spec.md §5 says the loop exits after flushing what it can in a bounded number of steps. |

With `<<a, a>>` added to the routes (MQTT v3 has no no-local option), TLC finds a shorter trace in which one client, subscribed to its own topic, stalls on its own mailbox. When the model lets an exiting session keep reading its own mailbox while it drains, `ExitCompletes` holds in both configurations. So the stall comes from the drain not reading its own mailbox, and not from the bounds. The run sets `CHECK_DEADLOCK FALSE`, because the stuck drain is exactly what the property reports.

Bounds: a mailbox of one and one queued message per client are the smallest case in which a drain has something to wait for. Larger bounds only need more publishes to fill the mailboxes.

Not modelled here: the will's `send_publish` at exit, QoS 0 drops, and the clean-session exit. `V3Lifecycle` models the will. A clean-session drain also runs before `remove_client`, so it can stall the same way.

### PendingPids (`PendingPids.tla`, `MCPendingPids.tla`, `PendingAbstract.tla`)

One v5 session's outgoing QoS 1 publishes:

- `serverPid` is `server_packet_id`. It starts at `Pid::default()` = 1 (`Session::new`, `session.rs` 102) and advances with `IncrPid`, which is `incr_server_packet_id` (196-200): the old value is used and the new one is one more, with 65535 wrapping to 1 (`PidMax` stands for 65535).
- `pending` is `pending_packets`, with `Capacity` = `max_inflight + max_in_mem_pending` as set in `Session::new` (103-107).
- `unacked` holds the publishes the client has and has not answered. `pubacks` holds the PUBACKs on the ordered connection. `ackedMsgs` and `sent` are histories.

`SendPublish` pushes a publish with the current pid, or closes the v5 connection with QuotaExceeded when the queue is full (spec §4.1). `ClientAck` answers one publish. `HandlePuback` removes the first pending entry with that pid (`AckPid`). The queue's code is not in this repository, so these three are `spec_modelled`.

`PendingAbstract` says what the queue promises, with no pids at all: a publish stays outstanding until the client has acknowledged that very publish. `PendingPids` instantiates it with `outstanding` mapped to the messages in `pending`, and checks `Abs!Spec` as the property `AbstractSpec`.

Fairness: `HandlePuback` is weakly fair, because the session's loop keeps reading its socket. The client and the routing of publishes get no fairness. No property of the runs is a liveness property, so the fairness only documents the loop.

`InOrderAcks` says whether completions come back in send order. MQTT requires a client to send PUBACKs in the order of the PUBLISHes, which is the TRUE case. Completions come back out of send order once QoS 2 exchanges are outstanding while later QoS 1 publishes complete, and a client may also misbehave; FALSE stands for both.

| Run | Config | Checks | Shows |
|---|---|---|---|
| `pids` | 6 publishes, `PidMax` 3, capacity 2+1, in-order completions | `TypeOK`, `NoPidCollision`, `AbstractSpec` | The counter wraps twice. As long as the queue is no larger than the pid space and completions come in order, no pending pid is handed out again, and every PUBACK removes the publish it acknowledges. |
| `pid_reuse_out_of_order` | the same, completions in any order | `NoPidCollision` (violation) | A publish left pending while later ones complete gets its pid reused by `incr_server_packet_id` (`session.rs:198`), against spec §3 ("skipping in-use ids"). In the same configuration the client's PUBACK for the new publish then removes the old one (`AbstractSpec` fails too). |

Bounds: with `PidMax` 3 and capacity 3, the queue can hold every pid at once, which is the edge where a collision would first appear. 6 publishes take the counter round twice. An off-by-one in the capacity guard is caught too: one more entry than the pid space forces a collision.

### TracedRng (`TracedRng.tla`, `MCTracedRng.tla`, `RandomSource.tla`)

`TracedRng` (`session.rs` 203-278) keeps the SCRAM server nonce. A recording instance (`new_empty`, `rng = Some(OsRng)`) appends the bytes of every value it hands out to `data`. `into_data` then `new_from(data)` give a replaying instance (`rng = None`), which reads `data[data_idx..]` and advances `data_idx`.

State: `rngMode` is the `rng` field, plus "aborted" for a failed `try_fill_bytes`. `data` and `dataIdx` are the fields. `calls` records the calls made while recording, and `drawnVals` / `replayVals` are the values returned in each phase.

Actions:

- `Record(c)` is the record arm of each of the four methods. `next_u32` and `next_u64` draw a number and append `ToLE` (`to_le_bytes`). The fill methods append the bytes of `dest`.
- `TryFillFails` is the `?` on OsRng's error.
- `Restart` is `into_data` followed by `new_from`.
- `ReplayNext` is the replay arm. It reads a slice, converts it with `FromLE` (RECURSIVE, `from_le_bytes`), and panics when the slice runs past `data`.

The caller replays the recorded calls in order, because the SCRAM code runs again on the same values. A byte has two values here instead of 256. u32 and u64 keep their 4 and 8 bytes, so a wrong byte order or a wrong `data_idx` step changes what is read.

`RandomSource` is the promise: values drawn, then the same values replayed in order, never more of them than were drawn. `TracedRng` instantiates it with `drawn <- drawnVals, replayed <- replayVals`.

| Run | Config | Checks | Shows |
|---|---|---|---|
| `traced_rng` | bytes of 2 values, fill lengths 1 and 3, 2 calls | `RefinesRandomSource` | Any two calls, of any mix of kinds and lengths, give back the drawn values in order when replayed. A `try_fill_bytes` failure records nothing. |

Bounds: two calls are enough for one call's `data_idx` step to decide where the next call reads.

No run checks that replay never runs out of data: with the recorded calls replayed, every slice lies inside what its own record arm appended, which holds by the shape of the model. `TypeOK` is not checked either, because `to_le_bytes` cannot produce an out-of-range byte.

### Mutants

Each property of a passing run is broken by a plausible bug in the definition it is about:

| Property | Mutant | Bug it stands for |
|---|---|---|
| `SubscriptionsInSync` | `BuildStateWithoutSubs` | `build_state` without the `mem::swap` of `subscribes`: the adopting session has none while the routes stay |
| `NoLostOrDuplicatedMessage` | `BuildStateWithoutPending` | `build_state` without the pending swap |
| `WillOnAbnormalExit` | `HandleWillIgnoringDisconnect` | the will guard without `!disconnected` |
| `AtMostOneActive` | `LoopTakeoverWithoutReturn` | a takeover that does not end the old loop |
| `TakeoverAnswered` | `OfflineLoopWithoutControl` | an offline loop that ignores the control mailbox |
| `AcksInPacketOrder` | `ReadPacketWithoutPark` | a loop that does not park |
| `VetoedPublishNotRouted` | `V5PublishRoutingVeto` | a v5 veto that still routes |
| `ExclusiveSessionAccess` | `SubscribeHandledEarlyReceipt` | a receipt sent before the after-hook |
| `ParkedResumes` | `LoopResumeOnOkOnly` | a loop that ignores an Err receipt |
| `V5TakeoverAnswered` | `RefuseKeepingSender` | a refused OnlineV5 whose sender is kept instead of dropped |
| `TypeOK` (PendingPids) | `IncrPidNoWrap` | a pid counter that does not wrap at 65535 |
| `NoPidCollision` | `IncrPidShortCycle` | a counter that wraps one id early |
| `AbstractSpec` | `AckPidCumulative` | PUBACK taken as cumulative (every pid up to it acked) |
| `RefinesRandomSource` | `FromBE` | the replayed bytes read big-endian |

In `lifecycle_faults`, `AtMostOneActive`, `SubscriptionsInSync` and `TakeoverAnswered` are broken by the same mutants as in `lifecycle`.

Type invariants are checked only where a plausible code change breaks them (`PendingPids`: a pid counter that does not wrap). The other modules keep `TypeOK` as documentation of their state; a change that breaks it (a dropped struct field, a byte over 255) would not compile in Rust.

## 4. Not modelled (yet)

- The listener, TLS, config loading, logging and the CLI are out of scope.
- The codec is treated as a pure conversion, assumed correct.
- SCRAM authentication is modelled only as an accept-or-refuse outcome of CONNECT.
- The test harness (`tests/utils.rs`) is test-only I/O.
- The v5 connect hooks are not modelled. Whether `OnlineLoop` closes a v5 connection after a hook task wrote an error packet with receipt Ok (`hook.rs:425`) is decided in code not in this repository, so no property states what follows.
- `WillDelayReached` and `SessionExpired` reach only v5 sessions (they are sent by v5 timers), so the `unreachable!()` arm of `handle_control` (`message.rs:499`) is not a hazard for v3 sessions, and the model's control mailbox never carries them.
- The channel-error arms of `handle_offline` (421-422, 429-431) are not modelled. A receive fails only when every sender is gone. The senders belong to the registry, whose code is not in this repository, so the model assumes the registry keeps them for as long as the entry exists.
- Pending queue: expiry (`expire`, `clean_incomplete`) and the QoS 2 ack kinds are not modelled. Retransmission timing is outside what the properties distinguish.
- TracedRng replay driven by a call sequence different from the recording is not modelled. The SCRAM code that drives both phases is not in this repository. A different sequence would read other values, or panic when it asks for more bytes than were recorded.
