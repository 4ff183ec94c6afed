\* a sends two reliable messages to b over a network that loses and
\* reorders datagrams; lost datagrams are retransmitted after a timeout.
CONSTANTS
    a = a
    b = b
    None = None
    Peers <- MCPeers
    StartingState <- MCStartingState
    MaxAppSends = 2
    AppPriorities = {0}
    AppReliability = {TRUE}
    MaxPriority = 3
    MaxDatagrams = 3
    MaxBatch = 2
    MaxDups = 0
    Lossy = TRUE
    PidMod = 8
    AckBits = 32
    AckBatch = 33
    AcceptPerFrame = 500
    AcceptCap = 1
    InboundCap = 4
    InboundReserve = 2
    SilenceTimeout = FALSE
    AppSenders = {a}
    AppFragments = {1}
    TransferIDs = {0}
    NoTransfer = NoTransfer
    MaxSendFailures = 1
    Pausers = {}
    Closers = {}
    Disconnectors = {}
SPECIFICATION Spec
INVARIANT TypeOK
INVARIANT ReliableNoLoss
PROPERTY ChannelRefinement
