\* a sends one reliable message too big for a datagram: SplitAndQueueMessage
\* queues it as two fragments over a network that loses and reorders datagrams.
CONSTANTS
    a = a
    b = b
    None = None
    Peers <- MCPeers
    StartingState <- MCStartingState
    MaxAppSends = 1
    AppPriorities = {0}
    AppReliability = {TRUE}
    MaxPriority = 3
    MaxDatagrams = 3
    MaxBatch = 2
    MaxDups = 0
    Lossy = TRUE
    PidMod = 8
    AckBits = 32
    AckBatch = 33
    AcceptPerFrame = 500
    AcceptCap = 2
    InboundCap = 4
    InboundReserve = 2
    SilenceTimeout = FALSE
    AppSenders = {a}
    AppFragments = {2}
    TransferIDs = {0}
    NoTransfer = NoTransfer
    MaxSendFailures = 0
    Pausers = {}
    Closers = {}
    Disconnectors = {}
SPECIFICATION Spec
INVARIANT ReliableNoLoss
