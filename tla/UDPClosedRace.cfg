\* Disconnect() on a, racing the worker: a may time out and close while its
\* application thread is between the Disconnect message and the state write.
CONSTANTS
    a = a
    b = b
    None = None
    Peers <- MCPeers
    StartingState <- MCStartingStatePending
    MaxAppSends = 0
    AppPriorities = {0}
    AppReliability = {TRUE}
    MaxPriority = 3
    MaxDatagrams = 3
    MaxBatch = 2
    MaxDups = 0
    Lossy = TRUE
    PidMod = 8
    AckBits = 32
    AckBatch = 33
    AcceptPerFrame = 500
    AcceptCap = 1
    InboundCap = 4
    InboundReserve = 2
    SilenceTimeout = TRUE
    AppSenders = {a}
    AppFragments = {1}
    TransferIDs = {0}
    NoTransfer = NoTransfer
    MaxSendFailures = 0
    Pausers = {}
    Closers = {}
    Disconnectors = {a}
SPECIFICATION Spec
PROPERTY ClosedIsFinal
