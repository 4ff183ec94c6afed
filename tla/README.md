# TLA+ models of the kNet UDP message connection

These modules model the message-connection engine of kNet (`src/src/`). Each end of a connection runs one `UDPMessageConnection`. The application thread calls `SendMessage`, `ProcessMessages` and `Disconnect`. A network worker thread (`NetworkWorkerThread::MainLoop`) calls `UpdateConnection`, `ReadSocket` and `SendOutPackets`. The model checker TLC explores every interleaving of these two threads at both ends of one connection. The network between the ends loses, duplicates and reorders datagrams.

## 1. Inventory of the system

### Parts, their state, and how they interact

- **Application interface and connection state machine** (`MessageConnection.cpp`).
  - **State:**
    - `connectionState`, one of Pending, OK, Disconnecting, PeerClosed and Closed;
    - the SPSC `outboundAcceptQueue` (application → worker);
    - the SPSC `inboundMessageQueue` (worker → application);
    - `outboundReliableMessageNumberCounter`.
  - **Operations:**
    - `SendMessage` and `EndAndQueueMessage`. A message is freed if the connection is closed or not write-open. Otherwise it takes a reliable number and goes on the accept queue, and is freed if that queue is full.
    - `ProcessMessages`.
    - `Disconnect`, `Close`, `Pause` and `Resume`.
    - `UpdateConnection`, which runs `AcceptOutboundMessages`. In state OK with the ping timer due, it also runs the ping and `DetectConnectionTimeOut`. It then runs the stats and `SetPeerClosed`, then `DoUpdateConnection`.
    - `HandleInboundMessage`.
- **UDP engine** (`UDPMessageConnection.cpp`).
  - **State:**
    - the priority `outboundQueue`;
    - `outboundPacketAckTrack`: the unacked reliable datagrams, in send order;
    - `datagramPacketIDCounter`: 22-bit and wrapping;
    - `inboundPacketAckTrack`: the acks still to send;
    - `receivedPacketIDs`;
    - `receivedReliableMessages`.
  - **Operations:**
    - `SendOutPacket` packs messages in priority order into a datagram. It keeps the reliable ones in a `PacketAckTrack`, and closes the connection after sending a DisconnectAck.
    - `ProcessPacketTimeouts` requeues the messages of expired tracks, oldest first.
    - `PerformPacketAckSends` and `SendPacketAckMessage` send a base id plus a 32-bit bitfield, once the oldest pending ack is 33 ms old or 33 acks are pending.
    - `ExtractMessages` does the following, in order:
      1. drops the datagram if `CapacityLeft() < 64`;
      2. records an ack for a reliable datagram;
      3. returns if the packet id was already seen;
      4. for each message, skips already-seen reliable numbers and dispatches the rest;
      5. remembers the packet id.
    - `HandlePacketAckMessage`, `HandleDisconnectMessage`, `HandleDisconnectAckMessage`.
    - Flow control (AIMD rate) and the RTO estimator (RFC 2988).
- **Worker thread** (`NetworkWorkerThread.cpp`). On every pass it calls `UpdateConnection` for every connection. It then drops Closed connections, and calls `ReadSocket` and `SendOutPackets` on the rest.
- **Fragmented transfers.** These are `SplitAndQueueMessage` and the send and receive fragment managers.
- **Content-id obsolescence.** These are the outbound table of newest messages and the inbound table of stamps.
- **Ping and RTT.** This is 8-bit ping ids with a reply matched to a request.
- **Serialisation and timers.** These are the VLE codec and `PolledTimer`, in `include/kNet`.

### Hard behaviours the code is exposed to

- Two threads at each end share `connectionState`, with no lock on it.
- Datagrams are lost, duplicated and reordered.
- Retransmission races a late original.
- Acks are lost, and they cover a base id plus a bitfield.
- Queues have limits: the accept queue, the inbound queue and its 64-slot reserve.
- Packet ids wrap at 2^22, ping ids at 2^8, and reliable-number deltas are VLE 15-bit.
- The disconnect handshake must complete, or the timeout must close the connection.
- Pooled messages are freed and reused while content-id tables still point at them.

PROJECT.json `hazards` lists each of these at its source line, with the properties that cover it.

### Properties worth checking

- Reliable messages are never released by the sender before delivery.
- No message is delivered twice, and nothing delivered was not sent (the channel refinement).
- Closed is terminal.
- Disconnect eventually closes the connection.
- After `Disconnect()` returns, the connection is never write-open again.
- Queues stay within their capacities.
- Content-id obsolescence cancels a message only for a newer message of another send, never for a fragment of the same message.
- Fragments are reassembled exactly once.

## 2. Modules

| Module | Models |
|---|---|
| `MessageChannel` | The abstract promise of a connection. Applications submit messages, and each end's inbound queue receives submitted messages addressed to it, each uid at most once. |
| `UDPMessageConnection` | The engine at both ends, the network, and the application threads. |
| `MCUDPMessageConnection` | Peers `a` and `b` as model values, and the starting states. |
| `ContentID` | The sending side of one connection as far as content-id coalescing goes: the message pool, the accept queue, the outbound queue, the reliable messages held by unacked tracks, and `outboundContentIDMessages`. |
| `MCContentID` | Pool slots `s1`..`s3` and content keys `k1`, `k2` as model values. |
| `RTOEstimator` | The retransmission-timeout estimator of the UDP engine and the two events that drive it, with exact rational arithmetic. |
| `Pacing` | The datagram-rate control of one UDP connection: the AIMD rate update of `UpdateConnection`, the send slots of `SendOutPackets`, and the 16-bit tick clock they are measured on. |
| `Ping` | The ping of one connection and its peer's replies: the ping history (`ConnectionStatistics::ping`), the 8-bit ping id, `rtt`, and a lossy, reordering network. |

### How `UDPMessageConnection` corresponds to the code

- **Variables** are the members of the same name, one function per peer.
- **Histories.** `submitted` and `received` are history variables used only by the properties.
- **Message data** is abstracted to a record. It holds the kind (App, PacketAck, Disconnect, DisconnectAck), a uid, the reliable flag, the reliable number, the priority, and the packet ids a PacketAck covers.
- **Datagrams** carry the packet id, the reliable flag and the messages. The wire encoding is replaced by the values it carries.
- **Actions:**

| Action | Code it models |
|---|---|
| `SendMessage` | `SendMessage` → `EndAndQueueMessage`. The reliable number is taken even when the accept-queue insert then fails, as in the code. |
| `ProcessMessages` | `ProcessMessages`: on an open connection it pops up to k messages. On a Closed one it calls `Close()`, modelled by `Close` and `FreeMessageData`: the accept, inbound and outbound queues are emptied and the fragment managers cleared. |
| `DisconnectSend` and `DisconnectSetState` | `Disconnect()`, split at the point where the worker can interleave. The first step reads the state and queues the Disconnect message. The second writes `ConnectionDisconnecting`. |
| `UpdateConnection` | `UpdateConnection` with `AcceptOutboundMessages`, `DetectConnectionTimeOut`, `ProcessPacketTimeouts` and `PerformPacketAckSends`. |
| `SendOutPacket` | `SendOutPacket`, with `PopBatches` as its fill loop. A second branch is a failed `socket->EndSend`: the serialized messages go back to the queue (`Requeue`), with no packet id, track or state change. `MaxSendFailures` bounds these failures. |
| `ReadDatagram` | `ReadSocket` → `ExtractMessages`. It folds `ExtractMessage` over the datagram, which calls `HandleInboundMessage` and its handlers. |
| `ReceiveMessage` | `ReceiveMessage(0)`: on a Closed connection it calls `Close()`, otherwise it pops the front of the inbound queue. `WaitForMessage` with no wait is the same pop. |
| `PauseOutboundSends`, `ResumeOutboundSends` | Set and clear `bOutboundSendsPaused`, which `SendOutPacket` tests first (peers in `Pausers`). |
| `AppClose` | The application's own `Close(0)` in any state (peers in `Closers`): the state becomes Closed and `FreeMessageData` runs; no Disconnect is sent. The socket open-state checks at its start are taken as open. |
| `LoseDatagram` and `DuplicateDatagram` | The network: loss when `Lossy`, at most `MaxDups` duplications. |

- **Fragmentation.** `SendMessage` picks the number of fragments from `AppFragments`. For more than one it models `SplitAndQueueMessage`: each fragment is forced reliable, inherits the parent's reliable number (any value the pooled message may still hold, `stale`, since it is not yet assigned), and gets a `fragIndex`; as many as fit go to the accept queue. `SendOutPacket` gives each new transfer in the batch a free id from `TransferIDs` (`AllocateFragmentedTransferID`); when none is free, fragments of unowned transfers are `Skipped` and put back. The receiver's `NewFragmentStartReceived` (re)starts the buffer of a transfer id, and `NewFragmentReceived` adds a fragment and delivers the message when all have arrived. `sendTransfers` and `reassembly` are the two fragment managers (spec-modelled: their code, `FragmentedSendManager` and `FragmentedReceiveManager`, is not under `src/`). A transfer id is released when none of its fragments is held any more.
- **Control messages.** `HandleInboundMessage` passes PacketAck, Disconnect and DisconnectAck to `HandleMessage`, which dispatches them (`SendDisconnectMessage`, `SendDisconnectAckMessage` build the two control messages); an App message is inserted into the inbound queue if it has room.
- **Time.** Every decision taken on the clock is a nondeterministic choice. These are the 10 ms update timer, the ping timer, packet timeouts, the 33 ms ack age, and the 15 s silence.
- **Byte budget.** A datagram's byte budget is a choice of 1..`MaxBatch` messages.

### How `ContentID` corresponds to the code

- **`pool`** maps a slot to the `NetworkMessage` stored in it. `FreeMessage` only sets `free`, because `messagePool.Free` leaves the contents in place. Nothing removes the slot from `outboundContentIDMessages`, because `ClearOutboundMessageWithContentID` is never called.
- **A content key** stands for the pair (message id, content id) with content id ≠ 0. `NoKey` is content id 0.
- **Actions:**

| Action | Code it models |
|---|---|
| `SendMessage` | `SendMessage` → `EndAndQueueMessage` on an open connection: a free slot, the next message number, the accept queue. |
| `SplitAndQueueMessage` | A message too big for a datagram: n fragments, each from a free slot, with the parent's content key, forced reliable, with consecutive message numbers, appended to the accept queue. `app` records which application send a fragment belongs to. |
| `AcceptOutboundMessages` | The accept loop, folding `CheckAndSaveOutboundMessageWithContentID` over the queue in order. The entry found is dereferenced whatever the slot now holds. |
| `SendOutPacket` | The fill loop. Obsolete messages popped before the one sent are freed. The sent message goes to a track if reliable and is freed if not. When only obsolete messages are left, all of them are freed. |
| `FreeOutboundPacketAckTrack` | An ack frees a track's message. |
| `ProcessPacketTimeouts` | A timed-out track's message goes back to the outbound queue. |
| `Done` | The bounded application has finished and nothing is left to send: the connection idles. |

- **Left out:** the connection state (open throughout), priorities and byte sizes (any live message may be sent, after any subset of the obsolete ones), and the accept-queue limit (modelled in `UDPMessageConnection`).

### How `Ping` corresponds to the code

- **`ping`** is the statistics' ping history, a sequence of `PingTrack` records. No action removes an entry, because the code never does (`ComputeStats` prunes only the traffic samples).
- **Time** counts ping intervals (3.5 s). `now` is the number of times the ping timer has fired. A reply read before the next firing measures a round trip of 0.
- **`rtt`** is kept exactly, as a dyadic rational (`DyadicRationals`). With a bias of 0.5 the float update `0.5·newRtt + 0.5·rtt` is exact at these magnitudes.
- **Ping ids** keep their u8 width (`PingIDMod = 2^8`).
- **Actions:**

| Action | Code it models |
|---|---|
| `SendPingRequestMessage` | The ping timer firing in `UpdateConnection`, then `SendPingRequestMessage`. |
| `HandlePingRequestMessage` | The peer's reply with the same id. |
| `HandlePingReplyMessage` | The first unreplied entry with the reply's id is marked replied, and its round trip is folded into `rtt`. A reply with no such entry is only logged. |
| `LoseMessage` | The network drops an unreliable ping message. |
| `Done` | The bounded ping timer has stopped and nothing is in flight. |

### How `RTOEstimator` corresponds to the code

- **Variables** are the members `retransmissionTimeout`, `smoothedRTT`, `rttVariation` and `rttCleared`. `Init` is their value after the constructor. `UDPMessageConnection::Initialize` would set the same values, but nothing reaches it (see Pacing).
- **Floats** are rationals `[num, den]` in lowest terms. The round trips offered are multiples of 125 ms, so every value computed is dyadic and a float holds it exactly.
- **Actions:**

| Action | Code it models |
|---|---|
| `PacketAcked(ms)` | `FreeOutboundPacketAckTrack` for a track sent once: `UpdateRTOCounterOnPacketAck` with the round trip converted to seconds, as at line 810. |
| `PacketTimedOut` | `ProcessPacketTimeouts` for one expired track: `UpdateRTOCounterOnPacketLoss`. |
| `Done` | The bounded run of events is over. |

- **Units.** The timeout is compared in milliseconds, the unit `SendOutPacket` uses it in (line 434).

### How `Pacing` corresponds to the code

- **Variables** are the members `datagramSendRate`, `lowestDatagramSendRateOnPacketLoss`, `numLossesLastFrame`, `lastFrameTime` and `lastDatagramSendTime`; `tracks` is the send-time rate of each unacked reliable track; `now` is the clock; `maxSends` is the loop counter of one `SendOutPackets` call (-1 outside it).
- **Units.** Rates are in milli-datagrams per second, so the integer arithmetic keeps the code's float results to 1/1000; a tick is 1 ms and the clock wraps at `TickMod` = 2^16, as `TicksInBetween`/`IsNewer`/`AddTicks` do (spec-modelled: `Clock` is not under `src/`).
- **Init is the constructor's state, not `Initialize`'s.** The `MessageConnection` constructor calls the virtual `Initialize()` while the object is still a base, so `UDPMessageConnection::Initialize` never runs. The rate starts at 10/s (constructor, line 53), not 70 (spec). The other four fields are never initialized: `Init` draws them from the `Garbage*` sets (zero, and values far from zero).
- **Actions:**

| Action | Code it models |
|---|---|
| `Advance(d)` | Time passes between worker passes. One `SendOutPackets` call runs within one tick. |
| `DoUpdateConnection(k)` | `UpdateConnection`'s flow-control part with k packet losses from `ProcessPacketTimeouts`: the lowest rate at a loss, the frame count, and the multiplicative decrease (to 9/10 of the lowest, floored at 1/s) or the additive increase (capped at the estimated bandwidth). |
| `PacketAcked(i)` | `HandlePacketAckMessage` → `FreeOutboundPacketAckTrack`: the track leaves. |
| `SendOutPacketsCall`, `SendOutPacketsStep` | `SendOutPackets`: up to 50 iterations; each tests `TimeUntilCanSendPacket` and then `SendOutPacket`'s `CanSendOutNewDatagram`, and a sent datagram advances `lastDatagramSendTime` by `NewDatagramSent` (one slot, or a jump to now when 20 or more slots behind). |

## 3. Runs

| Run (cfg) | Expect | Checks | Shows |
|---|---|---|---|
| core (`UDPCore.cfg`) | pass | TypeOK, ReliableNoLoss, ChannelRefinement | `a` sends two reliable messages over a lossy, reordering network with retransmission. One socket send may fail. No reliable message is freed before `b` queued it, and none is delivered twice. |
| faults (`UDPFaults.cfg`) | pass | ChannelRefinement | `a` sends one unreliable message and calls `Disconnect()`. `b` starts Pending, the network duplicates a datagram, the silence timeout may close `a`, `a` may pause and resume its sends, and `b` may close on its own. Nothing is delivered that was not submitted, and nothing twice: the duplicate datagram is suppressed by packet id after its re-ack. |
| closed_race (`UDPClosedRace.cfg`) | violation | ClosedIsFinal | The worker closes on timeout between `Disconnect()`'s two steps, and the application thread writes Disconnecting over Closed. |
| disconnect_hang (`UDPDisconnectHang.cfg`) | violation | DisconnectCompletes | On a network that loses nothing, under weak fairness of both workers, `Disconnect()` never reaches Closed. Shortest trace: the Disconnect message waits in the accept queue, `Disconnect()` sets Disconnecting, and `AcceptOutboundMessages` (OK only) never takes it. When the worker does take it in the window, `HandleDisconnectMessage` sets Disconnecting before it queues the DisconnectAck, which `EndAndQueueMessage` then frees. With both faults corrected the same cfg passes (629 states), so the violation is the code's, not the bounds'. |
| ack_drop (`UDPAckDrop.cfg`) | violation | AcksErasedOnlyWhenSent | `b` receives `a`'s reliable Disconnect and turns Disconnecting. Its next ack flush erases the pending ack, and `EndAndQueueMessage` frees the PacketAck, since the connection is no longer write-open. The Disconnect datagram is never acked. |
| contentid_pool (`ContentIDPool.cfg`) | pass | SlotOwnership, CoalescingSupersedes | Four messages over two content keys, from three slots. A slot is owned by one queue or track at a time. Spec P4 holds: no message leaves the outbound queue to be sent after a newer message with its key was accepted. Every message taken from the queue is checked, a resend after a timeout requeue included. |
| contentid_reuse (`ContentIDReuse.cfg`) | violation | ObsoleteOnlyIfSuperseded | A message with key `k1` is sent unreliably and freed. The next `k1` message gets the same slot, finds itself in the table, is not newer than itself, and is freed unsent as obsolete. |
| pacing (`PacingBurst.cfg`) | pass | SendSlotWithinASecond, BurstBound | From the constructor's state with uninitialized send and frame times, over idle gaps, losses and acks: once a `SendOutPackets` call has run, the next send slot is at most a second away (the clamp of `TimeUntilCanSendPacket` undoes a garbage send time ahead of now), and no call sends more than 20 datagrams. |
| ping_wrap (`PingWrap.cfg`) | violation | ReplyMatchesOwnRequest | Ping 1's request is lost, and its entry is never pruned. The 8-bit id comes round at ping 257, whose reply is matched to ping 1's entry: `rtt` jumps from 0 to 128 intervals (7.5 min). Spec §3 says entries older than 5 s are pruned. |
| rto_units (`RTOUnits.cfg`) | violation | FirstSampleCovered | A first round trip of 2000 ms is passed as 2 seconds. The resulting timeout is 1000 ms, shorter than the round trip, so every datagram on such a link is retransmitted before its ack. |
| contentid_fragments (`ContentIDFragments.cfg`) | violation | ObsoleteOnlyIfSuperseded | One message with key `k1` is split into two fragments. Both carry `k1`, and the second has the larger message number, so accepting it marks the first obsolete. `SendOutPacket` frees the first fragment unsent: the message can never be reassembled. |
| fragment_loss (`UDPFragments.cfg`) | violation | ReliableNoLoss | `a` sends one reliable message split into two fragments. Both fragments carry the parent's unassigned reliable number (0), because `EndAndQueueMessage` splits before it assigns one. `b` reads the second fragment first, with no reassembly buffer, and drops it; it records reliable number 0. The first fragment is then a duplicate by that number, so its buffer is never started. `b` acks both, `a` frees both, and the message is never delivered. |

An earlier run, inbound_overflow, showed that the 64-slot inbound reserve of `ExtractMessages` (line 534) is smaller than a datagram of small messages can hold. With `InboundReserve = 1` and `MaxBatch = 2`, a reliable message was acked and then dropped by the full inbound queue. The run was retired to make room for contentid_fragments, which shows a loss that needs no stalled application. The hazard stays listed.

Properties dropped as too shallow to be worth a run: a second `TypeOK` in the faults run (the same check as core's); `DisconnectedStaysClosed`, which held by the guard of `EstablishedOnRead` (the disconnector starts OK, and the read's Pending test and its write are one step, so the real window at UDP:78–80 is not in the model; it is listed as a hazard); a ping run without id wrap, where matching by id is matching by request; and Pacing's `TypeOK` and `RateBounds`, which restated the tick type and the one-line floor and cap.

The RTO clamp property of the first sittings (`RTOBoundedOnceUpdated`) was dropped: it restated the clamp at the end of `UpdateRTOCounterOnPacketAck`, and its run slot went to `fragment_loss`.

Each property of a passing run has a mutant in PROJECT.json, and TLC finds the property violated under that mutant:

| Property | Mutant |
|---|---|
| TypeOK | an off-by-one accept-queue capacity test |
| ReliableNoLoss | acks taken as cumulative |
| ChannelRefinement | the reliable-number check removed, or the packet-id check removed |
| SlotOwnership | an ack frees the message but keeps the track |
| CoalescingSupersedes | the older message is not marked obsolete |
| SendSlotWithinASecond | `TimeUntilCanSendPacket` never pulls a send time back |
| BurstBound | `NewDatagramSent` never jumps to now when far behind |

### Bounds

- **Core run.** `MaxDatagrams = 3` datagrams per peer is enough for a lost datagram, its retransmission and an ack from `b`. `MaxBatch = 2` lets both messages share a datagram. `AcceptCap = 1` reaches the full accept queue. `MaxSendFailures = 1` lets one send fail at any point, which doubles the run to about 127k states (85 s); the other runs keep it at 0.
- **Faults run.** Duplication (`MaxDups = 1`) multiplies the state space by about 15. It is therefore checked with one unreliable message, which only the packet-id check (`receivedPacketIDs`) keeps from being delivered twice. With the Pending peer, the silence timeout and `Disconnect()` in the same run, and `a` pausing its sends and `b` closing on its own, that gives 74k states (41 s). The same run with reliable messages too did not finish in 10 minutes. Reliable retransmission is checked without duplication in the core run.
- **Packet ids.** `PidMod = 8 > MaxDatagrams`, so no packet id wraps within a run. A wrap run is planned.

- **ContentID.** Three slots and four messages let a slot be freed and reused while the table points at it, with a second key in the same pool. The reuse run needs only two slots and one key, and its shortest violation is six steps. The pool run also splits messages into two fragments (`FragmentCounts = {2}`, 3.3M states, about 65 s). The reuse run splits none, so that its shortest trace stays the reuse. The fragment run needs one message of two fragments and two slots.

- **Ping.** The wrap needs 257 pings at the full u8 width; one message in flight keeps it at about 100k states (12 s).
- **Disconnect liveness.** `Lossy = FALSE` in the hang run: with loss unfair, lost datagrams alone would end the handshake once the three-datagram budget is spent. The silence timeout is off there too: in the model it is a free choice and would let `b` close unheard, while in the code `DetectConnectionTimeOut` runs only in ConnectionOK, so it never ends `a`'s wait.
- **Pacing.** Steps of 950 ms up to 2850 ms let a 10/s connection fall 19 and more slots behind, so both branches of `NewDatagramSent` happen, and let frames of 1 to 100 and more pass, so both branches of the frame update and the 100-frame cap happen. The garbage time of 5000 is ahead of `now` for the whole run: as `lastFrameTime` it makes the frame count wrap to the 100-frame cap, and as `lastDatagramSendTime` it is the send time the clamp must pull back. One track is enough for a loss and an ack to change the lowest rate. 12.6M states, about 95 s.

- **RTOEstimator initial state.** The constructor's timeout of 3 already breaks spec P6 (`RTOBounds`, still defined in the module) in the initial state, where the spec gives 3000 ms. A zero-step violation is not given a run. It is listed as a hazard.
- **Fragments.** The pass runs use `AppFragments = {1}` and one transfer id: with fragments of two the faults run grew past 700k states without finishing. The fragment run has one message of two fragments, `AcceptCap = 2` so both fit, and one transfer id; its shortest violation is found at about 700 states.
- **RTOEstimator.** Four events over four round trips give 491 states. A fifth event overflows TLC's 32-bit integers in the exact arithmetic. Four events already mix a first sample, a loss and later samples in every order.

### Fairness

`FairSpec` puts weak fairness on each peer's worker actions and on `DisconnectSetState`. The worker loop calls `UpdateConnection` for every connection on every pass. It serves `ReadSocket` and `SendOutPackets` for every connection that is not Closed. The application thread finishes a `Disconnect()` call once it has started one. Loss and duplication are not fair; the core and faults runs have a lossy network (`Lossy = TRUE`).

Deadlock checking is on in every run. The worker loop never stops, and in the model an `UpdateConnection` with no timer due is always possible. In `ContentID` only `Done` may stutter, and only once every message has been handled.

## 4. Not modelled yet, and the plan

The next sittings add these, in order:

1. `SetPeerClosed` and the PeerClosed paths (the socket's read-open state lives outside the connection). Then an abstract connection-state machine that the engine refines.
2. The receive side of content ids (`CheckAndSaveContentIDStamp`). The sending side is in `ContentID`.
3. Fragment runs that pass: a fixed fragment reliable number, and duplicated datagrams with two transfers, once the state space allows.
4. The VLE codec, which is not under `src/`.
5. A packet-id wrap run, for `SendPacketAckMessage` base selection and for `receivedPacketIDs`.

Out of scope: sockets, the TCP variant, the server acceptor and logging (spec section 1), and statistics.

Not modelled, and why:

- **`PolledTimer`** is a wrapper of the clock. Every timer decision is already a nondeterministic choice in the actions that test a timer; the timer's arithmetic (`TicksLeft`, tick wrap) has no effect a property could tell apart at that abstraction.
- **`BasicSerializedDataTypes`** are serialization helpers: data layout, abstracted away by the message records.
- **Pacing inside `UDPMessageConnection`.** Pacing only delays sends, and delay is already any interleaving there; it is checked on its own in `Pacing`.
- **`numAcksLastFrame`** is written by `PacketAck` and reset by `UpdateConnection` but never read.
- **The busy poll** of `SendOutPackets` while throttled (`TimeUntilCanSendPacket` is 0 before a whole slot has passed) costs CPU, not correctness; it is listed as a hazard.
