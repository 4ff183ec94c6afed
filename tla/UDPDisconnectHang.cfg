\* a calls Disconnect() on an open connection; both worker threads keep
\* running (weak fairness) and the network loses nothing.  The silence
\* timeout, a free choice in the model, is off: DetectConnectionTimeOut runs
\* only in ConnectionOK, so it would never end a's wait, while a free choice
\* would let b close unheard.
CONSTANTS
    a = a
    b = b
    None = None
    Peers <- MCPeers
    StartingState <- MCStartingState
    MaxAppSends = 0
    AppPriorities = {0}
    AppReliability = {TRUE}
    MaxPriority = 3
    MaxDatagrams = 3
    MaxBatch = 2
    MaxDups = 0
    Lossy = FALSE
    PidMod = 8
    AckBits = 32
    AckBatch = 33
    AcceptPerFrame = 500
    AcceptCap = 1
    InboundCap = 4
    InboundReserve = 2
    SilenceTimeout = FALSE
    AppSenders = {a}
    AppFragments = {1}
    TransferIDs = {0}
    NoTransfer = NoTransfer
    MaxSendFailures = 0
    Pausers = {}
    Closers = {}
    Disconnectors = {a}
SPECIFICATION FairSpec
PROPERTY DisconnectCompletes
