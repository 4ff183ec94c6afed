--------------------------- MODULE MessageChannel ---------------------------
(***************************************************************************)
(* What a kNet message connection promises its two applications, with no  *)
(* datagrams, acks or queues: a message an application submits may be     *)
(* handed to the peer's inbound queue, never twice, and nothing that was   *)
(* not submitted is ever handed over.  Whether a message is handed over at *)
(* all is left open here (unreliable messages may be lost); the delivery   *)
(* of reliable messages is stated by the detailed specification.           *)
(***************************************************************************)
EXTENDS Sequences, SequencesExt

CONSTANTS Peers,     \* the two ends of the connection
          Uids       \* identities of application messages

\* An application message as the channel sees it.
AppMsg == [uid : Uids, dst : Peers, reliable : BOOLEAN]

VARIABLES submitted, \* set of application messages accepted for sending
          delivered  \* delivered[p]: uids handed to p's inbound queue, in order

vars == <<submitted, delivered>>

Init == /\ submitted = {}
        /\ delivered = [p \in Peers |-> <<>>]

\* An application submits a message.
Submit(m) == /\ m \in AppMsg
             /\ m \notin submitted
             /\ submitted' = submitted \cup {m}
             /\ UNCHANGED delivered

\* Messages submitted to q's peer reach q's inbound queue, several at once
\* when they travel in one datagram, each uid at most once.
Deliver(q) ==
    /\ DOMAIN delivered' = Peers
    /\ \A r \in Peers \ {q} : delivered'[r] = delivered[r]
    /\ IsStrictPrefix(delivered[q], delivered'[q])
    /\ IsInjective(delivered'[q])
    /\ \A i \in Len(delivered[q]) + 1 .. Len(delivered'[q]) :
          \E m \in submitted : m.dst = q /\ m.uid = delivered'[q][i]
    /\ UNCHANGED submitted

Next == (\E m \in AppMsg : Submit(m)) \/ (\E q \in Peers : Deliver(q))

Spec == Init /\ [][Next]_vars
=============================================================================
