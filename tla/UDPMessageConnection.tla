------------------------ MODULE UDPMessageConnection ------------------------
(***************************************************************************)
(* The kNet UDP MessageConnection engine at both ends of one connection:  *)
(* the application thread of each peer (SendMessage, ProcessMessages,      *)
(* Disconnect) and the network worker thread of each peer                  *)
(* (UpdateConnection, SendOutPacket, ReadSocket/ExtractMessages), joined   *)
(* by a network that loses, duplicates and reorders datagrams.             *)
(*                                                                         *)
(* Data is abstracted to what the properties tell apart: an application    *)
(* message is a record with a uid, its reliable flag and its reliable      *)
(* message number; byte sizes are replaced by a bound on the number of     *)
(* messages a datagram holds; the wire encoding (flags, VLE deltas) is     *)
(* replaced by the values it carries, since base + (rnum - base) = rnum    *)
(* while the delta fits its field.  Clock-driven decisions (the 10 ms      *)
(* update timer, packet timeouts, the 33 ms ack delay, the 15 s liveness  *)
(* timeout, pacing) are nondeterministic choices.                          *)
(***************************************************************************)
EXTENDS Integers, Sequences, FiniteSets, Bags, BagsExt, SequencesExt

CONSTANTS
    Peers,           \* the two ends of the connection
    None,            \* uid of an engine-generated (control) message
    StartingState,   \* StartingState[p]: ConnectionPending or ConnectionOK
    MaxAppSends,     \* SendMessage calls per application (model bound)
    AppPriorities,   \* priorities the applications use
    AppReliability,  \* reliable flags the applications use (subset of BOOLEAN)
    MaxPriority,     \* NetworkMessage::cMaxPriority
    MaxDatagrams,    \* datagrams each peer may send (model bound)
    MaxBatch,        \* messages that fit into one datagram (byte budget)
    MaxDups,         \* datagram duplications the network may make (model bound)
    Lossy,           \* whether the network may lose datagrams
    PidMod,          \* packet ids wrap modulo this (2^22 in the code)
    AckBits,         \* packets a PacketAck covers beyond its base (32)
    AckBatch,        \* pending acks that force an ack message (33)
    AcceptPerFrame,  \* numMessagesToAcceptPerFrame (500)
    AcceptCap,       \* outboundAcceptQueue capacity (256K)
    InboundCap,      \* inboundMessageQueue capacity (512K)
    InboundReserve,  \* CapacityLeft() below which a datagram is dropped (64)
    SilenceTimeout,  \* whether 15 s without inbound data may pass in a run
    AppSenders,      \* peers whose application calls SendMessage()
    Disconnectors,   \* peers whose application calls Disconnect()
    AppFragments,    \* fragments an app message splits into (1: it fits a datagram)
    TransferIDs,     \* the 8-bit fragmented transfer id space (0..255)
    NoTransfer,      \* transfer id of a message that is not a fragment
    MaxSendFailures, \* socket->EndSend failures the socket may report (model bound)
    Pausers,         \* peers whose application calls Pause/ResumeOutboundSends()
    Closers          \* peers whose application calls Close() on its own

ASSUME Cardinality(Peers) = 2
ASSUME MaxDatagrams < PidMod  \* no packet id is reused within one run
ASSUME AppSenders \cup Disconnectors \cup Pausers \cup Closers \subseteq Peers

VARIABLES
    connectionState,                      \* per peer, MessageConnection::connectionState
    outboundAcceptQueue,                  \* per peer, app -> worker SPSC queue (Seq)
    outboundQueue,                        \* per peer, worker priority queue (Bag)
    outboundPacketAckTrack,               \* per peer, Seq of [packetID, messages] in send order
    datagramPacketIDCounter,              \* per peer
    outboundReliableMessageNumberCounter, \* per peer
    inboundPacketAckTrack,                \* per peer, set of packet ids still to ack
    receivedPacketIDs,                    \* per peer, set of packet ids already parsed
    receivedReliableMessages,             \* per peer, set of reliable message numbers seen
    inboundMessageQueue,                  \* per peer, worker -> app SPSC queue of uids
    net,                                  \* Bag of datagrams in flight
    dups,                                 \* duplications made so far
    appSends,                             \* per peer, SendMessage calls made so far
    disconnectPc,                         \* per peer, where the app thread is in Disconnect()
    submitted,                            \* history: app messages accepted by EndAndQueueMessage
    received,                             \* history: uids each peer put in its inbound queue
    sendTransfers,                        \* per peer, FragmentedSendManager: <<uid, transfer id>> pairs
    reassembly,                           \* per peer, FragmentedReceiveManager: buffers by transfer id
    sendFailures,                         \* EndSend failures so far
    paused                                \* per peer, bOutboundSendsPaused

vars == <<connectionState, outboundAcceptQueue, outboundQueue, outboundPacketAckTrack,
          datagramPacketIDCounter, outboundReliableMessageNumberCounter,
          inboundPacketAckTrack, receivedPacketIDs, receivedReliableMessages,
          inboundMessageQueue, net, dups, appSends, disconnectPc, submitted, received,
          sendTransfers, reassembly, sendFailures, paused>>

auxVars == <<sendTransfers, reassembly, sendFailures, paused>>

ConnectionStates == {"ConnectionPending", "ConnectionOK", "ConnectionDisconnecting",
                     "ConnectionPeerClosed", "ConnectionClosed"}
Kinds == {"App", "PacketAck", "Disconnect", "DisconnectAck"}
Uids == Peers \X (1..MaxAppSends)
Pids == 0..(PidMod - 1)

Other(p) == CHOOSE q \in Peers : q # p

(* A NetworkMessage. rnum is reliableMessageNumber; acks is the set of     *)
(* packet ids a PacketAck message covers (its base and bitfield).          *)
(* A fragment carries its parent's uid, numFragments (totalNumFragments;   *)
(* 0 for a message that is no fragment) and fragIndex; tid is the transfer *)
(* id written into the datagram (msg->transfer->id).                       *)
Message == [kind : Kinds, uid : Uids \cup {None}, src : Peers, dst : Peers,
            reliable : BOOLEAN, rnum : Nat, priority : Nat, acks : SUBSET Pids,
            numFragments : Nat, fragIndex : Nat, tid : TransferIDs \cup {NoTransfer}]

AppMsg == {m \in [kind : {"App"}, uid : Uids, src : Peers, dst : Peers,
                  reliable : BOOLEAN, rnum : Nat, priority : AppPriorities,
                  acks : {{}}, numFragments : Nat, fragIndex : {0}, tid : {NoTransfer}]
             : m.dst = Other(m.src) /\ m.uid[1] = m.src}

\* A reassembly buffer: the transfer it is keyed by, the message whose start
\* fragment created it, the fragment count and the fragment indices received.
Reassembly == [tid : TransferIDs, uid : Uids, total : Nat, got : SUBSET Nat]

Datagram == [src : Peers, dst : Peers, packetID : Pids, reliable : BOOLEAN,
             messages : Seq(Message)]

-----------------------------------------------------------------------------
(* Helpers translated from the code.                                       *)

AddPacketID(id, n) == (id + n) % PidMod

\* MessageConnection::IsWriteOpen, with the UDP socket write-open.
IsWriteOpen(s) == s \notin {"ConnectionDisconnecting", "ConnectionClosed"}

\* The guard at the top of EndAndQueueMessage: a message is queued only if
\* this holds, and freed otherwise.
CanQueue(s) == s # "ConnectionClosed" /\ IsWriteOpen(s)

ControlMsg(p, kind, prio, reliable, rnum, acks) ==
    [kind |-> kind, uid |-> None, src |-> p, dst |-> Other(p),
     reliable |-> reliable, rnum |-> rnum, priority |-> prio, acks |-> acks,
     numFragments |-> 0, fragIndex |-> 0, tid |-> NoTransfer]

\* SendDisconnectMessage: a reliable Disconnect of the highest priority,
\* numbered by EndAndQueueMessage.
SendDisconnectMessage(p, rnum) == ControlMsg(p, "Disconnect", MaxPriority, TRUE, rnum, {})

\* SendDisconnectAckMessage: an unreliable DisconnectAck of the highest
\* priority.
SendDisconnectAckMessage(p) == ControlMsg(p, "DisconnectAck", MaxPriority, FALSE, 0, {})

\* Messages of the outbound queue that PopFront may return next.
TopOf(q) == {m \in BagToSet(q) : \A n \in BagToSet(q) : n.priority <= m.priority}

\* SendOutPacket's fill loop: pop k messages in priority order (ties in the
\* heap's unspecified order).  The set of <<datagram messages, rest>>.
RECURSIVE PopBatches(_, _)
PopBatches(q, k) ==
    IF k = 0 \/ BagToSet(q) = {} THEN {<< <<>>, q >>}
    ELSE UNION { { << <<m>> \o b[1], b[2] >> : b \in PopBatches(BagRemove(q, m), k - 1) }
                 : m \in TopOf(q) }

\* The failure branch of SendOutPacket: outboundQueue.Insert of every
\* message serialized into the datagram that could not be sent.
Requeue(q, msgs) == q (+) ToBag(msgs)

\* A mutant of AckMessages: every bit of the bitfield is set, so packets
\* not received are acked too.
RECURSIVE AckMessagesAllBits(_, _)
AckMessagesAllBits(p, pending) ==
    IF pending = {} THEN <<>>
    ELSE LET base    == Min(pending)
             covered == {base} \cup {AddPacketID(base, i + 1) : i \in 0..(AckBits - 1)}
         IN  << ControlMsg(p, "PacketAck", MaxPriority - 1, FALSE, 0, covered) >>
             \o AckMessagesAllBits(p, pending \ covered)

\* SendPacketAckMessage: take the smallest pending packet id (std::map
\* order) as base, cover base+1..base+AckBits, repeat until none is left.
RECURSIVE AckMessages(_, _)
AckMessages(p, pending) ==
    IF pending = {} THEN <<>>
    ELSE LET base    == Min(pending)
             covered == {base} \cup ({AddPacketID(base, i + 1) : i \in 0..(AckBits - 1)} \cap pending)
         IN  << ControlMsg(p, "PacketAck", MaxPriority - 1, FALSE, 0, covered) >>
             \o AckMessages(p, pending \ covered)

\* A mutant of HaveReceivedPacketID: the lookup never finds the id.
HaveReceivedPacketIDNever(ids, id) == FALSE

\* HaveReceivedPacketID: the packet id is in receivedPacketIDs.
HaveReceivedPacketID(ids, id) == id \in ids

\* A mutant of FreeAckedTracks: an ack is taken as cumulative, freeing every
\* track up to the highest acked packet id.
FreeAckedTracksCumulative(tracks, ids) == SelectSeq(tracks, LAMBDA t : t.packetID > Max(ids))

\* FreeOutboundPacketAckTrack for every packet id a PacketAck names.
FreeAckedTracks(tracks, ids) == SelectSeq(tracks, LAMBDA t : t.packetID \notin ids)

\* The messages of the first k tracks, put back by ProcessPacketTimeouts.
TimedOutMessages(tracks, k) == ToBag(FlattenSeq([i \in 1..k |-> tracks[i].messages]))

(* The handlers below act on c, the receiving worker's view of its own    *)
(* connection while it parses one datagram.                                *)

\* HandlePacketAckMessage -> FreeOutboundPacketAckTrack for each acked id.
HandlePacketAckMessage(c, m) == [c EXCEPT !.tracks = FreeAckedTracks(@, m.acks)]

(* HandleDisconnectMessage: unless closed, enter ConnectionDisconnecting,  *)
(* then SendDisconnectAckMessage -> EndAndQueueMessage(internalQueue =     *)
(* true), whose IsWriteOpen() test sees the state just written.            *)
HandleDisconnectMessage(c) ==
    IF c.state = "ConnectionClosed" THEN c
    ELSE LET s   == "ConnectionDisconnecting"
             ack == SendDisconnectAckMessage(c.self)
         IN  [c EXCEPT !.state = s,
                       !.outQ  = IF CanQueue(s) THEN @ (+) SetToBag({ack}) ELSE @]

\* HandleDisconnectAckMessage: close, whatever the state was.
HandleDisconnectAckMessage(c) == [c EXCEPT !.state = "ConnectionClosed"]

(* UDPMessageConnection::HandleMessage for the messages it consumes: each *)
(* control message goes to its handler.  For any other message it returns  *)
(* false, since the application's handler computes no content id here      *)
(* (ComputeContentID = 0), so the content-id stamp check is never made.    *)
HandleMessage(c, m) ==
    CASE m.kind = "PacketAck"     -> HandlePacketAckMessage(c, m)
      [] m.kind = "Disconnect"    -> HandleDisconnectMessage(c)
      [] m.kind = "DisconnectAck" -> HandleDisconnectAckMessage(c)

(* MessageConnection::HandleInboundMessage: what HandleMessage consumes is *)
(* done; an application message goes to inboundMessageQueue.Insert, and is *)
(* freed when the queue is full.                                           *)
HandleInboundMessage(c, m) ==
    IF m.kind # "App" THEN HandleMessage(c, m)
    ELSE IF Len(c.inbound) < InboundCap
         THEN [c EXCEPT !.inbound = Append(@, m.uid), !.received = Append(@, m.uid)]
         ELSE c

(* FragmentedReceiveManager::NewFragmentStartReceived: a buffer keyed by   *)
(* the transfer id, holding fragment 0; it replaces one with the same id.  *)
NewFragmentStartReceived(c, m) ==
    [c EXCEPT !.reasm = {b \in @ : b.tid # m.tid}
                        \cup {[tid |-> m.tid, uid |-> m.uid, total |-> m.numFragments, got |-> {0}]}]

(* NewFragmentReceived adds a later fragment to the buffer of its transfer *)
(* (a fragment with no buffer is dropped); once every fragment is there,   *)
(* ExtractMessages assembles the message, hands it to HandleInboundMessage *)
(* and frees the buffer.                                                   *)
NewFragmentReceived(c, m) ==
    IF \A b \in c.reasm : b.tid # m.tid THEN c
    ELSE LET b   == CHOOSE b \in c.reasm : b.tid = m.tid
             got == b.got \cup {m.fragIndex}
         IN  IF got = 0..(b.total - 1)
             THEN HandleInboundMessage([c EXCEPT !.reasm = @ \ {b}], [kind |-> "App", uid |-> b.uid])
             ELSE [c EXCEPT !.reasm = (@ \ {b}) \cup {[b EXCEPT !.got = got]}]

\* A mutant of ExtractMessage: reliable numbers are recorded but never checked.
ExtractMessageNoDedup(c, m) ==
    HandleInboundMessage(IF m.reliable THEN [c EXCEPT !.recvRel = @ \cup {m.rnum}] ELSE c, m)

(* ExtractMessages' message loop body: the duplicate check by reliable     *)
(* number, then a fragment start (skipped if a duplicate), a later         *)
(* fragment (passed on whether a duplicate or not), or a whole message     *)
(* (skipped if a duplicate).                                               *)
ExtractMessage(c, m) ==
    LET dup == m.reliable /\ m.rnum \in c.recvRel
        c1  == IF m.reliable THEN [c EXCEPT !.recvRel = @ \cup {m.rnum}] ELSE c
    IN  CASE m.numFragments > 0 /\ m.fragIndex = 0 -> IF dup THEN c1 ELSE NewFragmentStartReceived(c1, m)
          [] m.numFragments > 0                    -> NewFragmentReceived(c1, m)
          [] OTHER                                 -> IF dup THEN c1 ELSE HandleInboundMessage(c1, m)

\* ReadSocket: ConnectionPending becomes ConnectionOK once bytes were read.
EstablishedOnRead(s) == IF s = "ConnectionPending" THEN "ConnectionOK" ELSE s

-----------------------------------------------------------------------------
(* Application thread actions.                                             *)

\* A mutant of AcceptQueueHasRoom: the capacity test is off by one.
AcceptQueueHasRoomOffByOne(q) == Len(q) <= AcceptCap

\* outboundAcceptQueue.Insert succeeds (the queue is not full).
AcceptQueueHasRoom(q) == Len(q) < AcceptCap

(* SplitAndQueueMessage's fragments: forced reliable, each with its own   *)
(* fragmentIndex, and the parent's reliableMessageNumber, which            *)
(* EndAndQueueMessage has not assigned yet.                                *)
Fragments(msg, k) == [i \in 1..k |-> [msg EXCEPT !.reliable = TRUE, !.fragIndex = i - 1]]

\* outboundAcceptQueue.Insert of each fragment in turn; one that finds the
\* queue full is lost (the assert(false) of a debug build aside).
InsertFragments(q, frags) == q \o SubSeq(frags, 1, Min({Len(frags), AcceptCap - Len(q)}))

(* SendMessage -> EndAndQueueMessage(msg, internalQueue = false): a message *)
(* on a closed or write-closed connection is freed.  A message too big for *)
(* one datagram goes to SplitAndQueueMessage before any reliable number is *)
(* assigned, so its fragments carry whatever the pooled NetworkMessage     *)
(* held there (stale: 0 or a number this peer used or will use).  Any      *)
(* other message takes the next reliable number, and is freed after all if *)
(* the accept queue is full.                                               *)
SendMessage(p) ==
    /\ p \in AppSenders
    /\ appSends[p] < MaxAppSends
    /\ disconnectPc[p] # "setDisconnecting"
    /\ \E reliable \in AppReliability, prio \in AppPriorities, k \in AppFragments :
       \E stale \in IF k > 1 THEN 0..outboundReliableMessageNumberCounter[p] ELSE {0} :
        LET n      == appSends[p] + 1
            open   == CanQueue(connectionState[p])
            rnum   == CASE k > 1    -> stale
                        [] reliable -> outboundReliableMessageNumberCounter[p]
                        [] OTHER    -> 0
            msg    == [kind |-> "App", uid |-> <<p, n>>, src |-> p, dst |-> Other(p),
                       reliable |-> reliable, rnum |-> rnum, priority |-> prio, acks |-> {},
                       numFragments |-> IF k > 1 THEN k ELSE 0, fragIndex |-> 0, tid |-> NoTransfer]
            queued == open /\ (k > 1 \/ AcceptQueueHasRoom(outboundAcceptQueue[p]))
        IN  /\ appSends' = [appSends EXCEPT ![p] = n]
            /\ outboundReliableMessageNumberCounter' =
                  [outboundReliableMessageNumberCounter EXCEPT ![p] =
                     IF open /\ reliable /\ k = 1 THEN @ + 1 ELSE @]
            /\ IF queued
               THEN /\ outboundAcceptQueue' =
                        [outboundAcceptQueue EXCEPT ![p] =
                           IF k > 1 THEN InsertFragments(@, Fragments(msg, k)) ELSE Append(@, msg)]
                    /\ submitted' = submitted \cup {msg}
               ELSE UNCHANGED <<outboundAcceptQueue, submitted>>
    /\ UNCHANGED <<connectionState, outboundQueue, outboundPacketAckTrack, datagramPacketIDCounter,
                   inboundPacketAckTrack, receivedPacketIDs, receivedReliableMessages,
                   inboundMessageQueue, net, dups, disconnectPc, received, auxVars>>

\* MessageConnection::FreeMessageData: the messages of the accept, inbound
\* and outbound queues are deleted, FreeAllTransfers drops the send
\* transfers, and the reassembly buffers are cleared.  The ack tracks of the
\* UDP engine are not touched.
FreeMessageData(p) ==
    /\ outboundAcceptQueue' = [outboundAcceptQueue EXCEPT ![p] = <<>>]
    /\ inboundMessageQueue' = [inboundMessageQueue EXCEPT ![p] = <<>>]
    /\ outboundQueue' = [outboundQueue EXCEPT ![p] = EmptyBag]
    /\ sendTransfers' = [sendTransfers EXCEPT ![p] = {}]
    /\ reassembly' = [reassembly EXCEPT ![p] = {}]

\* MessageConnection::Close: the socket of a UDP connection stays open, so
\* the checks at its top change nothing; Disconnect(), if called, leaves the
\* state Closed or sets it; owner->CloseConnection unregisters the
\* connection; then connectionState = ConnectionClosed and FreeMessageData.
Close(p) ==
    /\ connectionState' = [connectionState EXCEPT ![p] = "ConnectionClosed"]
    /\ FreeMessageData(p)

\* The application thread takes the k oldest messages of the inbound queue
\* (inboundMessageQueue.Front / PopFront) on a connection not Closed.
PopInbound(p, k) ==
    /\ connectionState[p] # "ConnectionClosed"
    /\ k \in 1..Len(inboundMessageQueue[p])
    /\ inboundMessageQueue' = [inboundMessageQueue EXCEPT ![p] = SubSeq(@, k + 1, Len(@))]
    /\ UNCHANGED <<connectionState, outboundAcceptQueue, outboundQueue, sendTransfers, reassembly>>

\* What no application call reading the inbound queue changes.
AppReadUnchanged ==
    UNCHANGED <<outboundPacketAckTrack,
                datagramPacketIDCounter, outboundReliableMessageNumberCounter,
                inboundPacketAckTrack, receivedPacketIDs, receivedReliableMessages,
                net, dups, appSends, disconnectPc, submitted, received, sendFailures, paused>>

\* The application's own Close(0), in whatever state the connection is:
\* no Disconnect message is sent, and the peer is left to time out.
AppClose(p) ==
    /\ p \in Closers
    /\ Close(p)
    /\ AppReadUnchanged

(* ProcessMessages: on an open connection, hand k queued inbound messages *)
(* to the handler.  On a Closed one it calls Close() and leaves it Closed. *)
ProcessMessages(p) ==
    /\ \/ \E k \in 1..Len(inboundMessageQueue[p]) : PopInbound(p, k)
       \/ /\ connectionState[p] = "ConnectionClosed"
          /\ Close(p)
    /\ AppReadUnchanged

(* ReceiveMessage, with WaitForMessage when the queue is empty: on a       *)
(* Closed connection it calls Close() and returns no message; otherwise it *)
(* waits (while the connection is OK) for a message and pops one.  A wait  *)
(* that ends with the queue still empty returns no message and changes     *)
(* nothing.                                                                *)
ReceiveMessage(p) ==
    /\ \/ /\ connectionState[p] = "ConnectionClosed"
          /\ Close(p)
       \/ PopInbound(p, 1)
    /\ AppReadUnchanged

\* PauseOutboundSends / ResumeOutboundSends set and clear the flag that
\* SendOutPacket tests; the event they reset or set only wakes the worker.
PauseOutboundSends(p) ==
    /\ p \in Pausers
    /\ ~paused[p]
    /\ paused' = [paused EXCEPT ![p] = TRUE]
    /\ UNCHANGED <<connectionState, outboundAcceptQueue, outboundQueue, outboundPacketAckTrack,
                   datagramPacketIDCounter, outboundReliableMessageNumberCounter,
                   inboundPacketAckTrack, receivedPacketIDs, receivedReliableMessages,
                   inboundMessageQueue, net, dups, appSends, disconnectPc, submitted, received,
                   sendTransfers, reassembly, sendFailures>>

ResumeOutboundSends(p) ==
    /\ paused[p]
    /\ paused' = [paused EXCEPT ![p] = FALSE]
    /\ UNCHANGED <<connectionState, outboundAcceptQueue, outboundQueue, outboundPacketAckTrack,
                   datagramPacketIDCounter, outboundReliableMessageNumberCounter,
                   inboundPacketAckTrack, receivedPacketIDs, receivedReliableMessages,
                   inboundMessageQueue, net, dups, appSends, disconnectPc, submitted, received,
                   sendTransfers, reassembly, sendFailures>>

(* Disconnect(), first part: read connectionState and, from Pending or OK, *)
(* PerformDisconnection -> SendDisconnectMessage -> EndAndQueueMessage     *)
(* (internalQueue = false), which puts a reliable Disconnect on the accept *)
(* queue.  The state write that follows is a separate step: the worker may *)
(* run in between.                                                         *)
DisconnectSend(p) ==
    /\ p \in Disconnectors
    /\ disconnectPc[p] = "idle"
    /\ LET s == connectionState[p] IN
       \/ /\ s \in {"ConnectionPending", "ConnectionOK"}
          /\ LET msg == SendDisconnectMessage(p, outboundReliableMessageNumberCounter[p])
             IN  /\ outboundReliableMessageNumberCounter' =
                        [outboundReliableMessageNumberCounter EXCEPT ![p] = @ + 1]
                 /\ outboundAcceptQueue' =
                        [outboundAcceptQueue EXCEPT ![p] =
                           IF AcceptQueueHasRoom(@) THEN Append(@, msg) ELSE @]
          /\ disconnectPc' = [disconnectPc EXCEPT ![p] = "setDisconnecting"]
       \/ /\ s \in {"ConnectionDisconnecting", "ConnectionClosed"}
          /\ disconnectPc' = [disconnectPc EXCEPT ![p] = "returned"]
          /\ UNCHANGED <<outboundAcceptQueue, outboundReliableMessageNumberCounter>>
    /\ UNCHANGED <<connectionState, outboundQueue, outboundPacketAckTrack, datagramPacketIDCounter,
                   inboundPacketAckTrack, receivedPacketIDs, receivedReliableMessages,
                   inboundMessageQueue, net, dups, appSends, submitted, received, auxVars>>

\* Disconnect(), second part: connectionState = ConnectionDisconnecting.  The
\* closing test that follows reads the state just written, so in this step it
\* never calls Close(0); if the worker closes the connection afterwards, the
\* application's next ProcessMessages or ReceiveMessage call does.
DisconnectSetState(p) ==
    /\ disconnectPc[p] = "setDisconnecting"
    /\ connectionState' = [connectionState EXCEPT ![p] = "ConnectionDisconnecting"]
    /\ disconnectPc' = [disconnectPc EXCEPT ![p] = "returned"]
    /\ UNCHANGED <<outboundAcceptQueue, outboundQueue, outboundPacketAckTrack,
                   datagramPacketIDCounter, outboundReliableMessageNumberCounter,
                   inboundPacketAckTrack, receivedPacketIDs, receivedReliableMessages,
                   inboundMessageQueue, net, dups, appSends, submitted, received, auxVars>>

-----------------------------------------------------------------------------
(* Worker thread actions.                                                  *)

\* Uids of the app messages (or their fragments) p's engine still owns: in
\* the accept queue, the send priority queue or a PacketAckTrack.
HeldUids(p, acceptQ, outQ, tracks) ==
    {m.uid : m \in Range(acceptQ) \cup BagToSet(outQ)
                   \cup UNION {Range(tracks[i].messages) : i \in DOMAIN tracks}} \ {None}

\* AcceptOutboundMessages: how many messages leave the accept queue; none
\* unless the state is ConnectionOK, and at most 499 (--n > 0 with n = 500).
AcceptOutboundMessages(s, q) ==
    IF s = "ConnectionOK" THEN Min({Len(q), AcceptPerFrame - 1}) ELSE 0

\* DetectConnectionTimeOut: close once nothing was heard for 15 s.
DetectConnectionTimeOut(s, silent) ==
    IF s # "ConnectionClosed" /\ silent THEN "ConnectionClosed" ELSE s

\* PerformPacketAckSends: all pending acks go out (SendPacketAckMessage
\* empties the table) once the oldest is 33 ms old or AckBatch are pending.
PerformPacketAckSends(pending, aged) ==
    pending # {} /\ (aged \/ Cardinality(pending) >= AckBatch)

(* UpdateConnection: AcceptOutboundMessages; in state OK, when the ping    *)
(* timer fires, DetectConnectionTimeOut; then DoUpdateConnection when the  *)
(* 10 ms udp timer fires: ProcessPacketTimeouts (the first k tracks, in    *)
(* send order, have expired) and PerformPacketAckSends.  The acks are     *)
(* queued by EndAndQueueMessage(internalQueue = true), which frees them on *)
(* a connection that is not write-open.                                    *)
UpdateConnection(p) ==
    \E pingTimer \in BOOLEAN, silent \in BOOLEAN, udpTimer \in BOOLEAN, aged \in BOOLEAN,
       k \in 0..Len(outboundPacketAckTrack[p]) :
    LET s0   == connectionState[p]
        nAcc == AcceptOutboundMessages(s0, outboundAcceptQueue[p])
        q1   == outboundQueue[p] (+) ToBag(SubSeq(outboundAcceptQueue[p], 1, nAcc))
        s1   == IF s0 = "ConnectionOK" /\ pingTimer THEN DetectConnectionTimeOut(s0, silent) ELSE s0
        pend == inboundPacketAckTrack[p]
        flush == udpTimer /\ PerformPacketAckSends(pend, aged)
        q2   == q1 (+) TimedOutMessages(outboundPacketAckTrack[p], k)
        q3   == IF flush /\ CanQueue(s1) THEN q2 (+) ToBag(AckMessages(p, pend)) ELSE q2
    IN
    /\ silent => SilenceTimeout /\ pingTimer
    /\ ~udpTimer => k = 0
    /\ connectionState' = [connectionState EXCEPT ![p] = s1]
    /\ outboundAcceptQueue' = [outboundAcceptQueue EXCEPT ![p] = SubSeq(@, nAcc + 1, Len(@))]
    /\ outboundQueue' = [outboundQueue EXCEPT ![p] = q3]
    /\ outboundPacketAckTrack' = [outboundPacketAckTrack EXCEPT ![p] = SubSeq(@, k + 1, Len(@))]
    /\ inboundPacketAckTrack' = [inboundPacketAckTrack EXCEPT ![p] = IF flush THEN {} ELSE @]
    /\ UNCHANGED <<datagramPacketIDCounter, outboundReliableMessageNumberCounter,
                   receivedPacketIDs, receivedReliableMessages, inboundMessageQueue,
                   net, dups, appSends, disconnectPc, submitted, received, auxVars>>

\* Parents of the fragmented transfers that hold a transfer id.
TransferOwners(p) == {t[1] : t \in sendTransfers[p]}

\* Transfer ids FragmentedSendManager can still hand out.
FreeTransferIDs(p) == TransferIDs \ {t[2] : t \in sendTransfers[p]}

\* Fragments SendOutPacket pops and puts back (skippedMessages): their
\* transfer has no id and AllocateFragmentedTransferID finds none free.
Skipped(p) ==
    LET q == outboundQueue[p] IN
    [m \in {x \in BagToSet(q) : x.numFragments > 0 /\ x.uid \notin TransferOwners(p)
                                /\ FreeTransferIDs(p) = {}} |-> q[m]]

(* SendOutPacket, for a connection the main loop still serves (not        *)
(* Closed) and whose sends are not paused: pop messages in priority order into one datagram, putting     *)
(* back the skipped fragments (so a queue of skipped fragments only sends  *)
(* an empty datagram); give each new fragmented transfer a free id; send  *)
(* the datagram, keep its reliable messages in a PacketAckTrack, and close *)
(* the connection if it carried a DisconnectAck.                           *)
SendOutPacket(p) ==
    /\ connectionState[p] # "ConnectionClosed"
    /\ ~paused[p]
    /\ BagToSet(outboundQueue[p]) # {}
    /\ datagramPacketIDCounter[p] < MaxDatagrams
    /\ LET q0 == outboundQueue[p] (-) Skipped(p) IN
       \E k \in IF BagToSet(q0) = {} THEN {0} ELSE 1..Min({MaxBatch, BagCardinality(q0)}) :
       \E b \in PopBatches(q0, k) :
       LET newT == {b[1][i].uid : i \in {j \in DOMAIN b[1] : b[1][j].numFragments > 0
                                                         /\ b[1][j].uid \notin TransferOwners(p)}}
       IN
       \E alloc \in [newT -> FreeTransferIDs(p)] :
       LET owned    == sendTransfers[p] \cup {<<u, alloc[u]>> : u \in newT}
           Stamp(m) == IF m.numFragments = 0 THEN m
                       ELSE [m EXCEPT !.tid = (CHOOSE t \in owned : t[1] = m.uid)[2]]
           msgs     == [i \in DOMAIN b[1] |-> Stamp(b[1][i])]
           pid      == datagramPacketIDCounter[p]
           reliable == \E i \in 1..Len(msgs) : msgs[i].reliable
           relMsgs  == SelectSeq(msgs, LAMBDA m : m.reliable)
           dg       == [src |-> p, dst |-> Other(p), packetID |-> pid,
                        reliable |-> reliable, messages |-> msgs]
       IN
       /\ IsInjective(alloc)
       /\ sendTransfers' = [sendTransfers EXCEPT ![p] = owned]
       /\ \/ \* socket->EndSend succeeds.
             /\ outboundQueue' = [outboundQueue EXCEPT ![p] = b[2] (+) Skipped(p)]
             /\ net' = BagAdd(net, dg)
             /\ datagramPacketIDCounter' = [datagramPacketIDCounter EXCEPT ![p] = AddPacketID(@, 1)]
             /\ outboundPacketAckTrack' =
                   [outboundPacketAckTrack EXCEPT ![p] =
                      IF reliable THEN Append(@, [packetID |-> pid, messages |-> relMsgs]) ELSE @]
             /\ connectionState' =
                   [connectionState EXCEPT ![p] =
                      IF \E i \in 1..Len(msgs) : msgs[i].kind = "DisconnectAck"
                      THEN "ConnectionClosed" ELSE @]
             /\ UNCHANGED sendFailures
          \/ \* EndSend fails (PacketSendSocketFull): after the skipped messages
             \* went back, the serialized ones are put back too; no packet id,
             \* no track, no state change.
             /\ sendFailures < MaxSendFailures
             /\ sendFailures' = sendFailures + 1
             /\ outboundQueue' = [outboundQueue EXCEPT ![p] = Requeue(b[2] (+) Skipped(p), msgs)]
             /\ UNCHANGED <<net, datagramPacketIDCounter, outboundPacketAckTrack, connectionState>>
    /\ UNCHANGED <<outboundAcceptQueue, outboundReliableMessageNumberCounter,
                   inboundPacketAckTrack, receivedPacketIDs, receivedReliableMessages,
                   inboundMessageQueue, dups, appSends, disconnectPc, submitted, received,
                   reassembly, paused>>

(* ReadSocket -> UDPReadSocket -> ExtractMessages for one datagram.        *)
ReadDatagram(p) ==
    /\ connectionState[p] # "ConnectionClosed"
    /\ \E d \in BagToSet(net) :
       /\ d.dst = p
       /\ net' = BagRemove(net, d)
       /\ LET room  == InboundCap - Len(inboundMessageQueue[p]) >= InboundReserve
              fresh == ~HaveReceivedPacketID(receivedPacketIDs[p], d.packetID)
              c0    == [self |-> p, state |-> connectionState[p], outQ |-> outboundQueue[p],
                        tracks |-> outboundPacketAckTrack[p],
                        recvRel |-> receivedReliableMessages[p],
                        inbound |-> inboundMessageQueue[p], received |-> received[p],
                        reasm |-> reassembly[p]]
              c     == IF room /\ fresh THEN FoldLeft(ExtractMessage, c0, d.messages) ELSE c0
          IN
          /\ connectionState' = [connectionState EXCEPT ![p] = EstablishedOnRead(c.state)]
          /\ outboundQueue' = [outboundQueue EXCEPT ![p] = c.outQ]
          /\ outboundPacketAckTrack' = [outboundPacketAckTrack EXCEPT ![p] = c.tracks]
          /\ receivedReliableMessages' = [receivedReliableMessages EXCEPT ![p] = c.recvRel]
          /\ inboundMessageQueue' = [inboundMessageQueue EXCEPT ![p] = c.inbound]
          /\ received' = [received EXCEPT ![p] = c.received]
          /\ reassembly' = [reassembly EXCEPT ![p] = c.reasm]
          \* FreeOutboundPacketAckTrack -> FragmentedSendManager::RemoveMessage:
          \* a transfer whose last fragment was acked frees its id.
          /\ sendTransfers' =
                [sendTransfers EXCEPT ![p] =
                   {t \in @ : t[1] \in HeldUids(p, outboundAcceptQueue[p], c.outQ, c.tracks)}]
          /\ inboundPacketAckTrack' =
                [inboundPacketAckTrack EXCEPT ![p] =
                   IF room /\ d.reliable THEN @ \cup {d.packetID} ELSE @]
          /\ receivedPacketIDs' =
                [receivedPacketIDs EXCEPT ![p] = IF room THEN @ \cup {d.packetID} ELSE @]
    /\ UNCHANGED <<outboundAcceptQueue, datagramPacketIDCounter,
                   outboundReliableMessageNumberCounter, dups, appSends, disconnectPc, submitted,
                   sendFailures, paused>>

-----------------------------------------------------------------------------
(* The network.                                                            *)

LoseDatagram ==
    /\ Lossy
    /\ \E d \in BagToSet(net) : net' = BagRemove(net, d)
    /\ UNCHANGED <<connectionState, outboundAcceptQueue, outboundQueue, outboundPacketAckTrack,
                   datagramPacketIDCounter, outboundReliableMessageNumberCounter,
                   inboundPacketAckTrack, receivedPacketIDs, receivedReliableMessages,
                   inboundMessageQueue, dups, appSends, disconnectPc, submitted, received, auxVars>>

DuplicateDatagram ==
    /\ dups < MaxDups
    /\ \E d \in BagToSet(net) : net' = BagAdd(net, d)
    /\ dups' = dups + 1
    /\ UNCHANGED <<connectionState, outboundAcceptQueue, outboundQueue, outboundPacketAckTrack,
                   datagramPacketIDCounter, outboundReliableMessageNumberCounter,
                   inboundPacketAckTrack, receivedPacketIDs, receivedReliableMessages,
                   inboundMessageQueue, appSends, disconnectPc, submitted, received, auxVars>>

-----------------------------------------------------------------------------

Init ==
    /\ connectionState = StartingState
    /\ outboundAcceptQueue = [p \in Peers |-> <<>>]
    /\ outboundQueue = [p \in Peers |-> EmptyBag]
    /\ outboundPacketAckTrack = [p \in Peers |-> <<>>]
    /\ datagramPacketIDCounter = [p \in Peers |-> 0]
    /\ outboundReliableMessageNumberCounter = [p \in Peers |-> 0]
    /\ inboundPacketAckTrack = [p \in Peers |-> {}]
    /\ receivedPacketIDs = [p \in Peers |-> {}]
    /\ receivedReliableMessages = [p \in Peers |-> {}]
    /\ inboundMessageQueue = [p \in Peers |-> <<>>]
    /\ net = EmptyBag
    /\ dups = 0
    /\ appSends = [p \in Peers |-> 0]
    /\ disconnectPc = [p \in Peers |-> "idle"]
    /\ submitted = {}
    /\ received = [p \in Peers |-> <<>>]
    /\ sendTransfers = [p \in Peers |-> {}]
    /\ reassembly = [p \in Peers |-> {}]
    /\ sendFailures = 0
    /\ paused = [p \in Peers |-> FALSE]

Next ==
    \/ \E p \in Peers :
          \/ SendMessage(p)
          \/ ProcessMessages(p)
          \/ ReceiveMessage(p)
          \/ AppClose(p)
          \/ PauseOutboundSends(p)
          \/ ResumeOutboundSends(p)
          \/ DisconnectSend(p)
          \/ DisconnectSetState(p)
          \/ UpdateConnection(p)
          \/ SendOutPacket(p)
          \/ ReadDatagram(p)
    \/ LoseDatagram
    \/ DuplicateDatagram

Spec == Init /\ [][Next]_vars

Fairness ==
    \A p \in Peers :
        /\ WF_vars(UpdateConnection(p))
        /\ WF_vars(SendOutPacket(p))
        /\ WF_vars(ReadDatagram(p))
        /\ WF_vars(ProcessMessages(p))
        /\ WF_vars(DisconnectSetState(p))

FairSpec == Spec /\ Fairness

-----------------------------------------------------------------------------
(* Properties.                                                             *)

TypeOK ==
    /\ connectionState \in [Peers -> ConnectionStates]
    /\ outboundAcceptQueue \in [Peers -> Seq(Message)]
    /\ \A p \in Peers : Len(outboundAcceptQueue[p]) <= AcceptCap
    /\ \A p \in Peers : Len(inboundMessageQueue[p]) <= InboundCap
    /\ \A p \in Peers : IsABag(outboundQueue[p]) /\ BagToSet(outboundQueue[p]) \subseteq Message
    /\ outboundPacketAckTrack \in [Peers -> Seq([packetID : Pids, messages : Seq(Message)])]
    /\ datagramPacketIDCounter \in [Peers -> Pids]
    /\ outboundReliableMessageNumberCounter \in [Peers -> Nat]
    /\ inboundPacketAckTrack \in [Peers -> SUBSET Pids]
    /\ receivedPacketIDs \in [Peers -> SUBSET Pids]
    /\ receivedReliableMessages \in [Peers -> SUBSET Nat]
    /\ inboundMessageQueue \in [Peers -> Seq(Uids)]
    /\ IsABag(net) /\ BagToSet(net) \subseteq Datagram
    /\ dups \in 0..MaxDups
    /\ appSends \in [Peers -> 0..MaxAppSends]
    /\ disconnectPc \in [Peers -> {"idle", "setDisconnecting", "returned"}]
    /\ submitted \subseteq AppMsg
    /\ received \in [Peers -> Seq(Uids)]
    /\ sendTransfers \in [Peers -> SUBSET (Uids \X TransferIDs)]
    /\ reassembly \in [Peers -> SUBSET Reassembly]
    /\ sendFailures \in 0..MaxSendFailures
    /\ paused \in [Peers -> BOOLEAN]

\* m, or a fragment of it, is still owned by its sender's engine: waiting in
\* the accept queue, in the send priority queue, or in the PacketAckTrack of
\* an unacked datagram.
Held(m) ==
    m.uid \in HeldUids(m.src, outboundAcceptQueue[m.src], outboundQueue[m.src],
                       outboundPacketAckTrack[m.src])

(* A reliable message, or a message sent as (always reliable) fragments,   *)
(* is released by its sender (its last part freed on a PacketAck) only     *)
(* after the receiver put it in its inbound queue (spec P1, P3).  This is  *)
(* what the ack protocol of SendOutPacket / ExtractMessages /              *)
(* SendPacketAckMessage /                                                  *)
(* HandlePacketAckMessage exists for, across loss, duplication, reordering *)
(* and retransmission by ProcessPacketTimeouts.                            *)
ReliableNoLoss ==
    \A m \in submitted : (m.reliable \/ m.numFragments > 0) /\ ~Held(m) => m.uid \in Range(received[m.dst])

(* The connection implements the message channel: every message put in an *)
(* inbound queue was submitted by the peer's application, and none is put  *)
(* there twice although datagrams are duplicated and reliable messages     *)
(* retransmitted (receivedPacketIDs and receivedReliableMessages).         *)
Channel == INSTANCE MessageChannel
              WITH submitted <- {[uid |-> m.uid, dst |-> m.dst, reliable |-> m.reliable] : m \in submitted},
                   delivered <- received

ChannelRefinement == Channel!Spec

(* Spec 4.3: pending acks are erased from inboundPacketAckTrack as they are *)
(* packed into PacketAck messages.  On a connection that stays open, a     *)
(* packet id leaves the table of pending acks only in a step that queues a *)
(* PacketAck covering it (SendPacketAckMessage and EndAndQueueMessage).    *)
AcksErasedOnlyWhenSent ==
    [][\A p \in Peers :
         connectionState'[p] # "ConnectionClosed" =>
           \A id \in inboundPacketAckTrack[p] \ inboundPacketAckTrack'[p] :
              \E m \in BagToSet(outboundQueue'[p]) : m.kind = "PacketAck" /\ id \in m.acks]_vars

(* Spec 4.6: ConnectionClosed is terminal; no thread moves a closed        *)
(* connection back to another state.                                       *)
ClosedIsFinal ==
    [][\A p \in Peers : connectionState[p] = "ConnectionClosed" =>
                         connectionState'[p] = "ConnectionClosed"]_vars

(* Spec 4.6 / S6: after the application calls Disconnect() on an open      *)
(* connection, the Disconnect / DisconnectAck handshake eventually closes  *)
(* it, with both worker threads running and no datagram lost.              *)
DisconnectCompletes ==
    \A p \in Peers : (disconnectPc[p] = "setDisconnecting") ~> (connectionState[p] = "ConnectionClosed")
=============================================================================
