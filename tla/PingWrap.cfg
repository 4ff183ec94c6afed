\* 257 pings, one request and reply in flight at a time, and one request
\* lost: the 8-bit ping id comes round to the id of the lost ping's entry,
\* which was never pruned from the history.
CONSTANTS
    MaxPings = 257
    MaxInFlight = 1
    MaxLoss = 1
SPECIFICATION Spec
PROPERTY ReplyMatchesOwnRequest
