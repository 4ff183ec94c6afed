\* a sends one unreliable message and calls Disconnect(); b starts in
\* ConnectionPending; the network may duplicate a datagram, and a may time out
\* (15 s without hearing from b) and close; a's application may pause and
\* resume its outbound sends, and b's may close its connection at any time.
CONSTANTS
    a = a
    b = b
    None = None
    Peers <- MCPeers
    StartingState <- MCStartingStatePending
    MaxAppSends = 1
    AppPriorities = {0}
    AppReliability = {FALSE}
    MaxPriority = 3
    MaxDatagrams = 3
    MaxBatch = 2
    MaxDups = 1
    Lossy = TRUE
    PidMod = 8
    AckBits = 32
    AckBatch = 33
    AcceptPerFrame = 500
    AcceptCap = 1
    InboundCap = 4
    InboundReserve = 2
    SilenceTimeout = TRUE
    AppSenders = {a}
    AppFragments = {1}
    TransferIDs = {0}
    NoTransfer = NoTransfer
    MaxSendFailures = 0
    Pausers = {a}
    Closers = {b}
    Disconnectors = {a}
SPECIFICATION Spec
PROPERTY ChannelRefinement
