------------------------------- MODULE Pacing -------------------------------
(***************************************************************************)
(* The datagram pacing of one UDPMessageConnection, all of it on the       *)
(* worker thread: the AIMD rate controller HandleFlowControl (run by       *)
(* DoUpdateConnection after ProcessPacketTimeouts), the send gate          *)
(* CanSendOutNewDatagram / NewDatagramSent of SendOutPacket, and the       *)
(* SendOutPackets loop gated by TimeUntilCanSendPacket.                    *)
(*                                                                         *)
(* Time is a tick counter in milliseconds (TicksPerSec = 1000) that wraps  *)
(* modulo TickMod; a run covers the ticks 0..MaxTime.  Rates are kept in   *)
(* thousandths of a datagram per second and the float products are        *)
(* rounded down to that grain.  The messages                               *)
(* themselves are abstracted away: a send either finds a datagram to fill  *)
(* or not, and a reliable datagram leaves a track holding the rate in      *)
(* effect when it was sent.                                                *)
(*                                                                         *)
(* MessageConnection's constructor calls the virtual Initialize() while    *)
(* the object is still a MessageConnection, so UDPMessageConnection::      *)
(* Initialize (rate 70, lastFrameTime = lastDatagramSendTime = now) never  *)
(* runs.  The rate starts at the constructor's 10, and lastFrameTime,     *)
(* lastDatagramSendTime, numLossesLastFrame and                            *)
(* lowestDatagramSendRateOnPacketLoss are read before any write: their     *)
(* initial values are a choice among the Garbage* sets.                    *)
(***************************************************************************)
EXTENDS Integers, Sequences, FiniteSets, FiniteSetsExt

CONSTANTS
    TickMod,           \* tick_t wraps modulo this
    MaxTime,           \* model bound on the ticks that pass
    TickSteps,         \* how far the clock may move in one step
    MaxTracks,         \* model bound on unacked reliable datagrams
    GarbageTimes,      \* values an uninitialized tick_t field may hold
    GarbageLosses,     \* values the uninitialized numLossesLastFrame may hold
    GarbageRates       \* values (milli) the uninitialized lowest rate may hold

TicksPerSec == 1000
frameLength == TicksPerSec \div 100           \* HandleFlowControl's frame
totalEstimatedBandwidth == 50000                \* 50 datagrams/s, in milli
MaxSendsPerCall == 50                           \* SendOutPackets' maxSends

VARIABLES
    now,                                \* Clock::Tick()
    datagramSendRate,                   \* milli-datagrams per second
    lowestDatagramSendRateOnPacketLoss, \* milli-datagrams per second
    numLossesLastFrame,
    lastFrameTime,
    lastDatagramSendTime,
    tracks,        \* outboundPacketAckTrack: the datagramSendRate of each, in send order
    maxSends,      \* SendOutPackets' loop counter; -1 when the loop is not running
    sentAtNow      \* history: a SendOutPackets call has ended at the current tick

vars == <<now, datagramSendRate, lowestDatagramSendRateOnPacketLoss, numLossesLastFrame,
          lastFrameTime, lastDatagramSendTime, tracks, maxSends, sentAtNow>>

Ticks == 0..(TickMod - 1)

-----------------------------------------------------------------------------
(* Clock helpers: unsigned tick differences and the wrap-aware order.      *)

TicksInBetween(newer, older) == (newer - older) % TickMod

\* t + d on the unsigned tick_t.
AddTicks(t, d) == (t + d) % TickMod

IsNewer(newer, older) == newer # older /\ TicksInBetween(newer, older) < TickMod \div 2

\* (tick_t)(Clock::TicksPerSec() / datagramSendRate), rate in milli.
DatagramSendTickDelay(rate) == (TicksPerSec * 1000) \div rate

-----------------------------------------------------------------------------
(* Helpers translated from the code.                                       *)

\* CanSendOutNewDatagram: a whole send slot has passed since lastDatagramSendTime.
CanSendOutNewDatagram(last, rate) ==
    TicksInBetween(now, last) >= DatagramSendTickDelay(rate)

\* A mutant of NewDatagramSent: the send time always advances one slot, so
\* a connection that fell behind catches up in one burst.
NewDatagramSentNoJump(last, rate) == AddTicks(last, DatagramSendTickDelay(rate))

\* NewDatagramSent: advance one slot, or restart from now once twenty or
\* more slots behind.
NewDatagramSent(last, rate) ==
    LET d == DatagramSendTickDelay(rate) IN
    IF TicksInBetween(now, last) \div d < 20 THEN AddTicks(last, d) ELSE now

\* TimeUntilCanSendPacket: zero once now is past lastDatagramSendTime; a
\* send time more than a second ahead is first pulled back to now + 1 s.
\* A mutant of ClampedSendTime: the send time is never pulled back.
ClampedSendTimeNone(last) == last

ClampedSendTime(last) ==
    IF IsNewer(last, AddTicks(now, TicksPerSec)) THEN AddTicks(now, TicksPerSec) ELSE last

TimeUntilCanSendPacket(last) ==
    IF IsNewer(now, last) THEN 0 ELSE TicksInBetween(ClampedSendTime(last), now)

\* HandleFlowControl's multiplicative decrease.
DecreasedRate(rate, lowest) == Min({rate, Max({1000, (lowest * 9) \div 10})})

\* HandleFlowControl's additive increase over numFrames frames.
IncreasedRate(rate, numFrames) ==
    LET increment == Min({(numFrames * 5 * (totalEstimatedBandwidth - rate)) \div 100, 1000})
    IN  Min({rate + increment, totalEstimatedBandwidth})

-----------------------------------------------------------------------------
(* Worker thread actions.                                                  *)

\* The clock moves on between worker calls: one SendOutPackets call (at
\* most 50 socket sends) is taken to run within one millisecond tick.
Advance(d) ==
    /\ maxSends = -1
    /\ now + d <= MaxTime
    /\ now' = now + d
    /\ sentAtNow' = FALSE
    /\ UNCHANGED <<datagramSendRate, lowestDatagramSendRateOnPacketLoss, numLossesLastFrame,
                   lastFrameTime, lastDatagramSendTime, tracks, maxSends>>

(* DoUpdateConnection when the 10 ms update timer fires: ProcessPacketTimeouts *)
(* times out the first k tracks (in send order), each lowering the loss rate  *)
(* suggestion to its send-time rate and counting a loss in                    *)
(* UpdateRTOCounterOnPacketLoss; then HandleFlowControl, once a frame has     *)
(* passed, decreases the rate after more than five losses or else increases  *)
(* it, and starts a new frame.                                                *)
DoUpdateConnection(k) ==
    /\ maxSends = -1
    /\ LET lowest1    == Min({lowestDatagramSendRateOnPacketLoss} \cup {tracks[i] : i \in 1..k})
           losses1    == numLossesLastFrame + k
           frames     == TicksInBetween(now, lastFrameTime) \div frameLength
           numFrames  == Min({frames, 100})
           decrease   == losses1 > 5
           rate2      == IF decrease THEN DecreasedRate(datagramSendRate, lowest1)
                         ELSE IncreasedRate(datagramSendRate, numFrames)
       IN  /\ tracks' = SubSeq(tracks, k + 1, Len(tracks))
           /\ IF frames > 0
              THEN /\ datagramSendRate' = rate2
                   /\ lowestDatagramSendRateOnPacketLoss' = IF decrease THEN lowest1 ELSE rate2
                   /\ numLossesLastFrame' = 0
                   /\ lastFrameTime' = IF numFrames < 100
                                       THEN AddTicks(lastFrameTime, numFrames * frameLength)
                                       ELSE now
              ELSE /\ lowestDatagramSendRateOnPacketLoss' = lowest1
                   /\ numLossesLastFrame' = losses1
                   /\ UNCHANGED <<datagramSendRate, lastFrameTime>>
    /\ UNCHANGED <<now, lastDatagramSendTime, maxSends, sentAtNow>>

\* A PacketAck frees the track of datagram i (FreeOutboundPacketAckTrack;
\* the numAcksLastFrame it counts is never read).
PacketAcked(i) ==
    /\ maxSends = -1
    /\ tracks' = SubSeq(tracks, 1, i - 1) \o SubSeq(tracks, i + 1, Len(tracks))
    /\ UNCHANGED <<now, datagramSendRate, lowestDatagramSendRateOnPacketLoss, numLossesLastFrame,
                   lastFrameTime, lastDatagramSendTime, maxSends, sentAtNow>>

\* The worker calls SendOutPackets (after a read, or when woken for sends).
SendOutPacketsCall ==
    /\ maxSends = -1
    /\ maxSends' = MaxSendsPerCall
    /\ UNCHANGED <<now, datagramSendRate, lowestDatagramSendRateOnPacketLoss, numLossesLastFrame,
                   lastFrameTime, lastDatagramSendTime, tracks, sentAtNow>>

(* One test of SendOutPackets' loop and, if it passes, one SendOutPacket.  *)
(* The loop ends when TimeUntilCanSendPacket is not zero, after 50 sends,  *)
(* or when SendOutPacket does not send: nothing queued (or sends paused,   *)
(* or the socket full), or CanSendOutNewDatagram refuses (Throttled).  A   *)
(* datagram sent moves lastDatagramSendTime by NewDatagramSent, and a      *)
(* reliable one leaves a track with the current rate.                      *)
SendOutPacketsStep ==
    /\ maxSends >= 0
    /\ LET last0 == IF IsNewer(now, lastDatagramSendTime) THEN lastDatagramSendTime
                    ELSE ClampedSendTime(lastDatagramSendTime)
       IN
       \/ /\ TimeUntilCanSendPacket(lastDatagramSendTime) # 0 \/ maxSends = 0
          /\ maxSends' = -1
          /\ sentAtNow' = TRUE
          /\ lastDatagramSendTime' = last0
          /\ UNCHANGED tracks
       \/ /\ TimeUntilCanSendPacket(lastDatagramSendTime) = 0 /\ maxSends > 0
          /\ \/ /\ maxSends' = -1
                /\ sentAtNow' = TRUE
                /\ UNCHANGED <<lastDatagramSendTime, tracks>>
             \/ /\ CanSendOutNewDatagram(last0, datagramSendRate)
                /\ maxSends' = maxSends - 1
                /\ UNCHANGED sentAtNow
                /\ lastDatagramSendTime' = NewDatagramSent(last0, datagramSendRate)
                /\ \E reliable \in IF Len(tracks) < MaxTracks THEN BOOLEAN ELSE {FALSE} :
                      tracks' = IF reliable THEN Append(tracks, datagramSendRate) ELSE tracks
    /\ UNCHANGED <<now, datagramSendRate, lowestDatagramSendRateOnPacketLoss, numLossesLastFrame,
                   lastFrameTime>>

-----------------------------------------------------------------------------

Init ==
    /\ now = 0
    /\ datagramSendRate = 10000
    /\ lowestDatagramSendRateOnPacketLoss \in GarbageRates
    /\ numLossesLastFrame \in GarbageLosses
    /\ lastFrameTime \in GarbageTimes
    /\ lastDatagramSendTime \in GarbageTimes
    /\ tracks = <<>>
    /\ maxSends = -1
    /\ sentAtNow = FALSE

Next ==
    \/ \E d \in TickSteps : Advance(d)
    \/ \E k \in 0..Len(tracks) : DoUpdateConnection(k)
    \/ \E i \in 1..Len(tracks) : PacketAcked(i)
    \/ SendOutPacketsCall
    \/ SendOutPacketsStep

Spec == Init /\ [][Next]_vars

-----------------------------------------------------------------------------
(* Properties.                                                             *)

(* TimeUntilCanSendPacket pulls a send time more than a second ahead back  *)
(* to now + 1 s, and NewDatagramSent moves it at most one slot (at most a   *)
(* second, given the rate floor) past now.  So once a SendOutPackets call   *)
(* has run, the next send slot is at most a second away, whatever the      *)
(* uninitialized lastDatagramSendTime held or the clock wrap makes of it:  *)
(* sending never stalls for longer than a second plus one slot.            *)
SendSlotWithinASecond ==
    sentAtNow => ~IsNewer(lastDatagramSendTime, AddTicks(now, TicksPerSec))

(* Spec 4.5: a connection that fell twenty send slots behind restarts its  *)
(* pacing from now rather than catching up, so one SendOutPackets call     *)
(* puts out at most twenty datagrams (its own cap is 50), however long the *)
(* connection was idle and whatever lastDatagramSendTime held.  (Between   *)
(* two calls a HandleFlowControl may raise the rate and shorten the slot,  *)
(* so calls close together can together exceed twenty.)                    *)
BurstBound == maxSends >= 0 => MaxSendsPerCall - maxSends <= 20
=============================================================================
