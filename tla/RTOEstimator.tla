----------------------------- MODULE RTOEstimator -----------------------------
(***************************************************************************)
(* The retransmission-timeout estimator of UDPMessageConnection            *)
(* (UpdateRTOCounterOnPacketAck, UpdateRTOCounterOnPacketLoss) and the two *)
(* places that drive it: FreeOutboundPacketAckTrack, on the ack of a       *)
(* datagram sent once, with the measured round trip, and                   *)
(* ProcessPacketTimeouts, on every timed-out datagram.  The timeout is     *)
(* used in milliseconds: SendOutPacket sets a track's timeoutTick to        *)
(* now + retransmissionTimeout * TicksPerMillisecond.                      *)
(*                                                                         *)
(* The estimator's floats are kept exactly as rationals [num, den].  The   *)
(* round trips offered are multiples of 125 ms, so every value the code    *)
(* computes is a dyadic rational that a float holds exactly.               *)
(***************************************************************************)
EXTENDS Integers

CONSTANTS
    SampleMSecs,   \* round-trip times the acks measure, in milliseconds
    MaxEvents      \* acks and timeouts processed (model bound)

VARIABLES
    retransmissionTimeout,
    smoothedRTT,
    rttVariation,
    rttCleared,
    events,        \* acks and timeouts processed so far
    lastSample     \* history: the last measured round trip in ms, 0 after a timeout

vars == <<retransmissionTimeout, smoothedRTT, rttVariation, rttCleared, events, lastSample>>

-----------------------------------------------------------------------------
(* Exact rational arithmetic, in lowest terms.                             *)

RECURSIVE GCD(_, _)
GCD(a, b) == IF b = 0 THEN a ELSE GCD(b, a % b)

Rat(n, d) == LET g == GCD(IF n < 0 THEN -n ELSE n, d) IN [num |-> n \div g, den |-> d \div g]
Whole(n) == Rat(n, 1)
RAdd(p, q) == Rat(p.num * q.den + q.num * p.den, p.den * q.den)
RSub(p, q) == RAdd(p, Rat(-q.num, q.den))
RMul(p, q) == Rat(p.num * q.num, p.den * q.den)
RLeq(p, q) == p.num * q.den <= q.num * p.den
RAbs(p) == IF p.num < 0 THEN Rat(-p.num, p.den) ELSE p
RMin(p, q) == IF RLeq(p, q) THEN p ELSE q
RMax(p, q) == IF RLeq(p, q) THEN q ELSE p

\* minRTOTimeoutValue and maxRTOTimeoutValue.
minRTOTimeoutValue == Whole(1000)
maxRTOTimeoutValue == Whole(5000)

\* min(maxRTOTimeoutValue, max(minRTOTimeoutValue, x)).
ClampRTO(x) == RMin(maxRTOTimeoutValue, RMax(minRTOTimeoutValue, x))

\* Clock::TimespanToSecondsD of a round trip of ms milliseconds.
TimespanToSeconds(ms) == Rat(ms, 1000)

-----------------------------------------------------------------------------

(* UpdateRTOCounterOnPacketAck(rtt) on st = [rto, srtt, var, cleared]:     *)
(* RFC 2988 smoothing with alpha = 1/8 and beta = 1/4, the first sample    *)
(* setting srtt = rtt and rttvar = rtt / 2, then the clamped timeout       *)
(* 1 + 2 * (srtt + rttvar).                                                *)
UpdateRTOCounterOnPacketAck(st, rtt) ==
    LET alpha == Rat(1, 8)
        beta  == Rat(1, 4)
        var == IF st.cleared THEN RMul(rtt, Rat(1, 2))
               ELSE RAdd(RMul(RSub(Whole(1), beta), st.var), RMul(beta, RAbs(RSub(st.srtt, rtt))))
        srtt == IF st.cleared THEN rtt
                ELSE RAdd(RMul(RSub(Whole(1), alpha), st.srtt), RMul(alpha, rtt))
    IN  [cleared |-> FALSE, var |-> var, srtt |-> srtt,
         rto |-> ClampRTO(RAdd(Whole(1), RMul(Whole(2), RAdd(srtt, var))))]

\* UpdateRTOCounterOnPacketLoss: srtt and the timeout become the clamped
\* double of srtt, and the variation is cleared.
UpdateRTOCounterOnPacketLoss(st) ==
    LET t == ClampRTO(RMul(st.srtt, Whole(2))) IN
    [st EXCEPT !.rto = t, !.srtt = t, !.var = Whole(0)]

State == [rto |-> retransmissionTimeout, srtt |-> smoothedRTT,
          var |-> rttVariation, cleared |-> rttCleared]

SetState(st) ==
    /\ retransmissionTimeout' = st.rto
    /\ smoothedRTT' = st.srtt
    /\ rttVariation' = st.var
    /\ rttCleared' = st.cleared

-----------------------------------------------------------------------------

(* FreeOutboundPacketAckTrack for a track sent once (sendCount <= 1): the  *)
(* round trip from its sentTick is passed in seconds.                      *)
PacketAcked(ms) ==
    /\ events < MaxEvents
    /\ SetState(UpdateRTOCounterOnPacketAck(State, TimespanToSeconds(ms)))
    /\ events' = events + 1
    /\ lastSample' = ms

\* ProcessPacketTimeouts, for one timed-out track.
PacketTimedOut ==
    /\ events < MaxEvents
    /\ SetState(UpdateRTOCounterOnPacketLoss(State))
    /\ events' = events + 1
    /\ lastSample' = 0

\* The bounded run of acks and timeouts is over.
Done ==
    /\ events = MaxEvents
    /\ UNCHANGED vars

\* The constructor: retransmissionTimeout = smoothedRTT = 3, rttVariation = 0,
\* rttCleared.  (UDPMessageConnection::Initialize would set the same values,
\* but the base constructor's virtual call never reaches it.)
Init ==
    /\ retransmissionTimeout = Whole(3)
    /\ smoothedRTT = Whole(3)
    /\ rttVariation = Whole(0)
    /\ rttCleared = TRUE
    /\ events = 0
    /\ lastSample = 0

Next ==
    \/ \E ms \in SampleMSecs : PacketAcked(ms)
    \/ PacketTimedOut
    \/ Done

Spec == Init /\ [][Next]_vars

-----------------------------------------------------------------------------
(* Properties.  Timeouts are compared in milliseconds, the unit in which   *)
(* SendOutPacket uses retransmissionTimeout.                               *)

InRTOBounds(t) == RLeq(minRTOTimeoutValue, t) /\ RLeq(t, maxRTOTimeoutValue)

(* Spec P6: the retransmission timeout always lies in [1000 ms, 5000 ms],  *)
(* including the initial value the constructor sets (the spec gives       *)
(* 3000 ms).                                                               *)
RTOBounds == InRTOBounds(retransmissionTimeout)

(* Spec 4.5 (RFC 2988): the first round-trip sample sets srtt = rtt and    *)
(* rttvar = rtt / 2, so the timeout 1 + 2 * (srtt + rttvar) is at least    *)
(* the round trip measured, up to the 5000 ms ceiling.  A datagram whose   *)
(* ack takes as long as the one measured is then not retransmitted.        *)
FirstSampleCovered ==
    [][rttCleared /\ ~rttCleared' =>
         RLeq(RMin(Whole(lastSample'), maxRTOTimeoutValue), retransmissionTimeout')]_vars

====
