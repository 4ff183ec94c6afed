----------------------- MODULE MCUDPMessageConnection -----------------------
(* Model-checking instance of UDPMessageConnection: peers a and b.         *)
EXTENDS UDPMessageConnection

CONSTANTS a, b

MCPeers == {a, b}
\* Both ends start as accepted connections (ConnectionOK).
MCStartingState == [p \in MCPeers |-> "ConnectionOK"]
\* a is open and b still waits for its first datagram (ConnectionPending).
MCStartingStatePending == [p \in MCPeers |-> IF p = a THEN "ConnectionOK" ELSE "ConnectionPending"]
=============================================================================
