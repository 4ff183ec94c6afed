\* Disconnect() on a with no application data: b receives the reliable
\* Disconnect datagram while the handshake is under way.
CONSTANTS
    a = a
    b = b
    None = None
    Peers <- MCPeers
    StartingState <- MCStartingState
    MaxAppSends = 0
    AppPriorities = {0}
    AppReliability = {TRUE}
    MaxPriority = 3
    MaxDatagrams = 3
    MaxBatch = 2
    MaxDups = 0
    Lossy = TRUE
    PidMod = 8
    AckBits = 32
    AckBatch = 33
    AcceptPerFrame = 500
    AcceptCap = 1
    InboundCap = 4
    InboundReserve = 2
    SilenceTimeout = FALSE
    AppSenders = {a}
    AppFragments = {1}
    TransferIDs = {0}
    NoTransfer = NoTransfer
    MaxSendFailures = 0
    Pausers = {}
    Closers = {}
    Disconnectors = {a}
SPECIFICATION Spec
PROPERTY AcksErasedOnlyWhenSent
