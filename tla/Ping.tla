-------------------------------- MODULE Ping --------------------------------
(***************************************************************************)
(* The ping of one kNet MessageConnection and the replies of its peer.     *)
(* UpdateConnection calls SendPingRequestMessage every time the ping timer *)
(* fires (in ConnectionOK, sends not paused).  It appends a PingTrack to    *)
(* the statistics' ping history, with an 8-bit id one more than the last   *)
(* entry's.  The peer answers each PingRequest with a PingReply carrying    *)
(* the same id (HandlePingRequestMessage).  HandlePingReplyMessage marks    *)
(* the first entry with that id and no reply yet, measures the round trip  *)
(* from that entry's send tick, and folds it into rtt.                      *)
(*                                                                         *)
(* Ping messages are unreliable: a request or a reply may be lost, and the *)
(* network reorders them.  Nothing in the code removes an entry from the   *)
(* ping history (ComputeStats prunes only the traffic samples).            *)
(*                                                                         *)
(* Time is counted in ping intervals (3.5 s): `now` is the number of times *)
(* the ping timer has fired, and a ping is sent at the tick its firing    *)
(* starts; a reply read before the next firing measures a round trip of 0. *)
(***************************************************************************)
EXTENDS Integers, Sequences, SequencesExt, FiniteSets, DyadicRationals

CONSTANTS
    MaxPings,      \* ping timer firings (model bound)
    MaxInFlight,   \* requests and replies in the network at once (model bound)
    MaxLoss        \* ping messages the network loses (model bound)

VARIABLES
    ping,       \* ConnectionStatistics::ping: sequence of PingTrack records
    rtt,        \* MessageConnection::rtt, in ping intervals (a dyadic rational)
    now,        \* Clock::Tick(), in ping intervals
    net,        \* ping messages in flight; sent is the tick of the request answered
    lost        \* messages lost so far

vars == <<ping, rtt, now, net, lost>>

\* The width of a ping id: u8.
PingIDMod == 2^8

PingTrack == [pingID : 0..(PingIDMod - 1), pingSentTick : Nat,
              pingReplyTick : Nat, replyReceived : BOOLEAN]
PingMsg == [kind : {"PingRequest", "PingReply"}, pingID : 0..(PingIDMod - 1), sent : Nat]

-----------------------------------------------------------------------------

\* The id of the next ping: 1 for the first, else the last entry's id plus
\* one, truncated to u8.
NextPingID(p) == IF p = <<>> THEN 1 ELSE (Last(p).pingID + 1) % PingIDMod

\* rttPredictBias * newRtt + (1.f * rttPredictBias) * rtt, with the bias 0.5.
Halved(r) == IF r = Zero THEN Zero ELSE Half(r)
SmoothedRtt(newRtt, r) ==
    LET h == Halved([num |-> newRtt, den |-> 1]) IN
    IF h = Zero THEN Halved(r) ELSE Add(h, Halved(r))

\* The entries HandlePingReplyMessage's loop may match for a ping id.
Unreplied(p, id) == {i \in DOMAIN p : p[i].pingID = id /\ ~p[i].replyReceived}

-----------------------------------------------------------------------------

(* SendPingRequestMessage, when the ping timer fires: append the PingTrack *)
(* and queue the PingRequest (unreliable) with the same id.                 *)
SendPingRequestMessage ==
    /\ now < MaxPings
    /\ Cardinality(net) < MaxInFlight
    /\ LET id == NextPingID(ping) IN
       /\ ping' = Append(ping, [pingID |-> id, pingSentTick |-> now + 1,
                                pingReplyTick |-> 0, replyReceived |-> FALSE])
       /\ net' = net \cup {[kind |-> "PingRequest", pingID |-> id, sent |-> now + 1]}
    /\ now' = now + 1
    /\ UNCHANGED <<rtt, lost>>

\* HandlePingRequestMessage at the peer: reply with the same id.
HandlePingRequestMessage(m) ==
    /\ m \in net /\ m.kind = "PingRequest"
    /\ net' = (net \ {m}) \cup {[m EXCEPT !.kind = "PingReply"]}
    /\ UNCHANGED <<ping, rtt, now, lost>>

(* HandlePingReplyMessage: the first unreplied entry with the reply's id   *)
(* is marked replied and its round trip folded into rtt; with none, the    *)
(* reply is only logged.                                                   *)
HandlePingReplyMessage(m) ==
    /\ m \in net /\ m.kind = "PingReply"
    /\ net' = net \ {m}
    /\ LET U == Unreplied(ping, m.pingID) IN
       IF U = {} THEN UNCHANGED <<ping, rtt>>
       ELSE LET i == Min(U) IN
            /\ ping' = [ping EXCEPT ![i].pingReplyTick = now, ![i].replyReceived = TRUE]
            /\ rtt' = SmoothedRtt(now - ping[i].pingSentTick, rtt)
    /\ UNCHANGED <<now, lost>>

\* The network loses a ping message.
LoseMessage(m) ==
    /\ m \in net /\ lost < MaxLoss
    /\ net' = net \ {m}
    /\ lost' = lost + 1
    /\ UNCHANGED <<ping, rtt, now>>

\* The ping timer has fired MaxPings times and nothing is in flight.
Done ==
    /\ now = MaxPings /\ net = {}
    /\ UNCHANGED vars

Init ==
    /\ ping = <<>>
    /\ rtt = Zero
    /\ now = 0
    /\ net = {}
    /\ lost = 0

Next ==
    \/ SendPingRequestMessage
    \/ \E m \in net : HandlePingRequestMessage(m) \/ HandlePingReplyMessage(m) \/ LoseMessage(m)
    \/ Done

Spec == Init /\ [][Next]_vars

-----------------------------------------------------------------------------
(* Properties.                                                             *)

TypeOK ==
    /\ ping \in Seq(PingTrack)
    /\ now \in 0..MaxPings
    /\ net \subseteq PingMsg
    /\ lost \in 0..MaxLoss

(* Spec 4.4: on a reply the engine measures the round trip of the ping it  *)
(* answers.  HandlePingReplyMessage marks an entry replied only when the   *)
(* reply consumed in the step answers the request that entry recorded, so *)
(* newRtt is that request's round trip.                                    *)
ReplyMatchesOwnRequest ==
    [][\A i \in DOMAIN ping :
         ~ping[i].replyReceived /\ ping'[i].replyReceived =>
            \E m \in net \ net' : m.kind = "PingReply" /\ m.sent = ping[i].pingSentTick]_vars
====
