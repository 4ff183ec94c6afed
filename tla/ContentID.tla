------------------------------ MODULE ContentID ------------------------------
(***************************************************************************)
(* The sending side of one kNet MessageConnection as far as content-id     *)
(* coalescing is concerned: the message pool the application allocates    *)
(* from (StartNewMessage / FreeMessage), the accept queue, the worker's    *)
(* outbound queue, the reliable messages held by unacked PacketAckTracks,  *)
(* and outboundContentIDMessages, the table from a content key            *)
(* (message id, content id) to the newest message queued under it.        *)
(*                                                                         *)
(* A message lives in a pool slot.  FreeMessage returns the slot to the    *)
(* pool and leaves its contents as they were; nothing removes a freed     *)
(* slot from outboundContentIDMessages (ClearOutboundMessageWithContentID  *)
(* is never called).  The receiver, priorities and byte sizes are left     *)
(* out: the acks that free a track are an environment step.                *)
(***************************************************************************)
EXTENDS Integers, Sequences, SequencesExt, FiniteSets

CONSTANTS
    Slots,        \* the message pool's slots
    NoSlot,       \* no table entry
    Keys,         \* content keys (message id, content id) with content id # 0
    NoKey,        \* content id 0: the message takes no part in coalescing
    MaxSends,     \* message numbers handed out (model bound)
    FragmentCounts \* fragments a too-big message is split into (empty: none is)

ASSUME NoSlot \notin Slots /\ NoKey \notin Keys

VARIABLES
    pool,                          \* slot -> the NetworkMessage stored in it
    outboundAcceptQueue,           \* app -> worker queue of slots
    outboundQueue,                 \* set of slots in the send priority queue
    outboundPacketAckTrack,        \* set of slots held by unacked reliable datagrams
    outboundContentIDMessages,     \* key -> slot of the newest message, or NoSlot
    outboundMessageNumberCounter,
    submitted,                     \* history: messages queued by the application
    serialized,                    \* history: uids written into a datagram
    discarded                      \* history: uids freed because marked obsolete

vars == <<pool, outboundAcceptQueue, outboundQueue, outboundPacketAckTrack,
          outboundContentIDMessages, outboundMessageNumberCounter,
          submitted, serialized, discarded>>

Uids == 1..MaxSends
\* app is the messageNumber of the first message an application send queued:
\* the fragments of one SplitAndQueueMessage share it.
NetworkMessage == [free : BOOLEAN, uid : Uids \cup {0}, key : Keys \cup {NoKey},
                   messageNumber : Nat, reliable : BOOLEAN, obsolete : BOOLEAN,
                   app : Nat]

-----------------------------------------------------------------------------

\* messagePool.New(): some free slot (the pool's free-list order is not
\* given in the repository, so any free slot may come back).
FreeSlots == {s \in Slots : pool[s].free}

\* FreeMessage -> messagePool.Free: the slot is free, its contents stay.
FreeMessage(p, s) == [p EXCEPT ![s].free = TRUE]

\* NetworkMessage::IsNewerThan: a larger message number.
IsNewerThan(m, n) == m.messageNumber > n.messageNumber

\* A mutant of CheckAndSaveOutboundMessageWithContentID: the table is
\* updated but the older message is not marked obsolete.
CheckAndSaveNoObsolete(st, s) ==
    LET m == st.pool[s] IN
    IF m.key = NoKey THEN st ELSE [st EXCEPT !.table[m.key] = s]

(* CheckAndSaveOutboundMessageWithContentID for the message in slot s, on  *)
(* st = [pool, table].  The entry found is dereferenced whatever the slot *)
(* now holds.                                                              *)
CheckAndSaveOutboundMessageWithContentID(st, s) ==
    LET m == st.pool[s]
        t == IF m.key = NoKey THEN NoSlot ELSE st.table[m.key]
    IN  CASE m.key = NoKey -> st
          [] t = NoSlot    -> [st EXCEPT !.table[m.key] = s]
          [] IsNewerThan(m, st.pool[t]) ->
                [st EXCEPT !.pool[t].obsolete = TRUE, !.table[m.key] = s]
          [] OTHER         -> [st EXCEPT !.pool[s].obsolete = TRUE]

-----------------------------------------------------------------------------

(* SendMessage: StartNewMessage takes a slot and resets it (contentID,     *)
(* obsolete = false); EndAndQueueMessage numbers it and puts it on the     *)
(* accept queue.  The connection is open throughout.                      *)
SendMessage(key, reliable) ==
    /\ outboundMessageNumberCounter < MaxSends
    /\ \E s \in FreeSlots :
        LET m == [free |-> FALSE, uid |-> outboundMessageNumberCounter + 1, key |-> key,
                  messageNumber |-> outboundMessageNumberCounter,
                  reliable |-> reliable, obsolete |-> FALSE,
                  app |-> outboundMessageNumberCounter]
        IN  /\ pool' = [pool EXCEPT ![s] = m]
            /\ outboundAcceptQueue' = Append(outboundAcceptQueue, s)
            /\ submitted' = submitted \cup {m}
    /\ outboundMessageNumberCounter' = outboundMessageNumberCounter + 1
    /\ UNCHANGED <<outboundQueue, outboundPacketAckTrack, outboundContentIDMessages,
                   serialized, discarded>>

(* SplitAndQueueMessage for a message too big for a datagram, queued by  *)
(* the application: n fragments, each from StartNewMessage, with the       *)
(* parent's contentID copied in, forced reliable, and the next message     *)
(* number, appended in order to the accept queue.  The parent itself is   *)
(* freed unnumbered and never seen by the worker.                          *)
SplitAndQueueMessage(key, n) ==
    /\ outboundMessageNumberCounter + n <= MaxSends
    /\ \E f \in [1..n -> FreeSlots] :
        LET c == outboundMessageNumberCounter
            Frag(i) == [free |-> FALSE, uid |-> c + i, key |-> key,
                        messageNumber |-> c + i - 1,
                        reliable |-> TRUE, obsolete |-> FALSE, app |-> c]
        IN  /\ IsInjective(f)
            /\ pool' = [s \in Slots |-> IF \E i \in 1..n : f[i] = s
                                        THEN Frag(CHOOSE i \in 1..n : f[i] = s)
                                        ELSE pool[s]]
            /\ outboundAcceptQueue' = outboundAcceptQueue \o f
            /\ submitted' = submitted \cup {Frag(i) : i \in 1..n}
    /\ outboundMessageNumberCounter' = outboundMessageNumberCounter + n
    /\ UNCHANGED <<outboundQueue, outboundPacketAckTrack, outboundContentIDMessages,
                   serialized, discarded>>

\* AcceptOutboundMessages: every queued message moves to the outbound queue,
\* each through CheckAndSaveOutboundMessageWithContentID in queue order.
AcceptOutboundMessages ==
    /\ outboundAcceptQueue # <<>>
    /\ LET st == FoldLeft(CheckAndSaveOutboundMessageWithContentID,
                          [pool |-> pool, table |-> outboundContentIDMessages],
                          outboundAcceptQueue)
       IN  /\ pool' = st.pool
           /\ outboundContentIDMessages' = st.table
    /\ outboundQueue' = outboundQueue \cup ToSet(outboundAcceptQueue)
    /\ outboundAcceptQueue' = <<>>
    /\ UNCHANGED <<outboundPacketAckTrack, outboundMessageNumberCounter,
                   submitted, serialized, discarded>>

(* SendOutPacket's fill loop for a datagram of one message: the obsolete  *)
(* messages popped before it are freed; the message sent is kept by a      *)
(* PacketAckTrack if reliable and freed otherwise.  When only obsolete     *)
(* messages are left, they are all freed and nothing is sent.              *)
SendOutPacket ==
    LET obs  == {s \in outboundQueue : pool[s].obsolete}
        live == outboundQueue \ obs
        FreeEach(p, S) == [x \in Slots |-> IF x \in S THEN FreeMessage(p, x)[x] ELSE p[x]]
    IN
    /\ \/ \E s \in live, skipped \in SUBSET obs :
            LET p1 == FreeEach(pool, skipped) IN
            /\ pool' = IF pool[s].reliable THEN p1 ELSE FreeMessage(p1, s)
            /\ outboundQueue' = outboundQueue \ (skipped \cup {s})
            /\ outboundPacketAckTrack' =
                  IF pool[s].reliable THEN outboundPacketAckTrack \cup {s} ELSE outboundPacketAckTrack
            /\ serialized' = serialized \cup {pool[s].uid}
            /\ discarded' = discarded \cup {pool[x].uid : x \in skipped}
       \/ /\ live = {} /\ obs # {}
          /\ pool' = FreeEach(pool, obs)
          /\ outboundQueue' = {}
          /\ discarded' = discarded \cup {pool[x].uid : x \in obs}
          /\ UNCHANGED <<outboundPacketAckTrack, serialized>>
    /\ UNCHANGED <<outboundAcceptQueue, outboundContentIDMessages,
                   outboundMessageNumberCounter, submitted>>

\* A mutant of FreeOutboundPacketAckTrack: the messages are freed but the
\* track is not removed.
FreeOutboundPacketAckTrackKeep(s) ==
    /\ s \in outboundPacketAckTrack
    /\ pool' = FreeMessage(pool, s)
    /\ UNCHANGED <<outboundAcceptQueue, outboundQueue, outboundPacketAckTrack,
                   outboundContentIDMessages, outboundMessageNumberCounter,
                   submitted, serialized, discarded>>

\* A PacketAck names the datagram: FreeOutboundPacketAckTrack frees its
\* messages and removes the track.
FreeOutboundPacketAckTrack(s) ==
    /\ s \in outboundPacketAckTrack
    /\ pool' = FreeMessage(pool, s)
    /\ outboundPacketAckTrack' = outboundPacketAckTrack \ {s}
    /\ UNCHANGED <<outboundAcceptQueue, outboundQueue, outboundContentIDMessages,
                   outboundMessageNumberCounter, submitted, serialized, discarded>>

\* ProcessPacketTimeouts: the messages of an expired track go back to the
\* outbound queue.
ProcessPacketTimeouts(s) ==
    /\ s \in outboundPacketAckTrack
    /\ outboundPacketAckTrack' = outboundPacketAckTrack \ {s}
    /\ outboundQueue' = outboundQueue \cup {s}
    /\ UNCHANGED <<pool, outboundAcceptQueue, outboundContentIDMessages,
                   outboundMessageNumberCounter, submitted, serialized, discarded>>

Init ==
    /\ pool = [s \in Slots |-> [free |-> TRUE, uid |-> 0, key |-> NoKey, messageNumber |-> 0,
                                reliable |-> FALSE, obsolete |-> FALSE, app |-> 0]]
    /\ outboundAcceptQueue = <<>>
    /\ outboundQueue = {}
    /\ outboundPacketAckTrack = {}
    /\ outboundContentIDMessages = [k \in Keys |-> NoSlot]
    /\ outboundMessageNumberCounter = 0
    /\ submitted = {}
    /\ serialized = {}
    /\ discarded = {}

\* The bounded application has queued its MaxSends messages and the worker
\* has nothing left to send or to wait for: the connection idles.
Done ==
    /\ outboundMessageNumberCounter = MaxSends
    /\ outboundAcceptQueue = <<>> /\ outboundQueue = {} /\ outboundPacketAckTrack = {}
    /\ UNCHANGED vars

Next ==
    \/ \E k \in Keys \cup {NoKey}, r \in BOOLEAN : SendMessage(k, r)
    \/ \E k \in Keys \cup {NoKey}, n \in FragmentCounts : SplitAndQueueMessage(k, n)
    \/ AcceptOutboundMessages
    \/ SendOutPacket
    \/ \E s \in Slots : FreeOutboundPacketAckTrack(s) \/ ProcessPacketTimeouts(s)
    \/ Done


Spec == Init /\ [][Next]_vars

-----------------------------------------------------------------------------
(* Properties.                                                             *)

TypeOK ==
    /\ pool \in [Slots -> NetworkMessage]
    /\ outboundAcceptQueue \in Seq(Slots)
    /\ outboundQueue \subseteq Slots
    /\ outboundPacketAckTrack \subseteq Slots
    /\ outboundContentIDMessages \in [Keys -> Slots \cup {NoSlot}]
    /\ outboundMessageNumberCounter \in 0..MaxSends
    /\ submitted \subseteq NetworkMessage
    /\ serialized \subseteq Uids /\ discarded \subseteq Uids

\* The message a uid names, as the application queued it.
Sub(u) == CHOOSE m \in submitted : m.uid = u

\* Messages that have left the accept queue (AcceptOutboundMessages ran on them).
Accepted == {m \in submitted : \A i \in DOMAIN outboundAcceptQueue :
                                   pool[outboundAcceptQueue[i]].uid # m.uid}

(* A pool slot is owned by one holder at a time: a slot on the accept      *)
(* queue, in the outbound queue or in a PacketAckTrack is allocated and in *)
(* no other of these places.  A send loop or an ack that freed a message  *)
(* and kept a reference to it would let the pool hand the slot out twice. *)
SlotOwnership ==
    /\ IsInjective(outboundAcceptQueue)
    /\ ToSet(outboundAcceptQueue) \cap outboundQueue = {}
    /\ ToSet(outboundAcceptQueue) \cap outboundPacketAckTrack = {}
    /\ outboundQueue \cap outboundPacketAckTrack = {}
    /\ \A s \in ToSet(outboundAcceptQueue) \cup outboundQueue \cup outboundPacketAckTrack :
          ~pool[s].free

(* Spec P4, content-id coalescing: SendOutPacket never writes a message    *)
(* into a datagram once a newer message with the same content key has     *)
(* passed AcceptOutboundMessages (CheckAndSaveOutboundMessageWithContentID *)
(* marks the older one obsolete, also when it waits in a PacketAckTrack    *)
(* and comes back through ProcessPacketTimeouts).  Every message that     *)
(* leaves the outbound queue in a step and is not freed as obsolete is     *)
(* checked, a retransmission of one already sent included.                 *)
CoalescingSupersedes ==
    [][\A s \in outboundQueue \ outboundQueue' :
          LET u == pool[s].uid IN
          u \notin discarded' \ discarded =>
             ~\E n \in Accepted : /\ n.key = Sub(u).key /\ n.key # NoKey
                                  /\ n.messageNumber > Sub(u).messageNumber]_vars

(* The lifetime the spec gives a message: it is dropped unsent only when   *)
(* a newer message with the same content key, queued by another            *)
(* application send, supersedes it.  A message or fragment freed by        *)
(* SendOutPacket as obsolete had such a successor; the fragments of one    *)
(* message are parts of it, not newer versions of it.                      *)
ObsoleteOnlyIfSuperseded ==
    \A u \in discarded :
        \E n \in submitted : /\ n.key = Sub(u).key
                             /\ n.messageNumber > Sub(u).messageNumber
                             /\ n.app # Sub(u).app

====
