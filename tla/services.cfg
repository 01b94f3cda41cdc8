SPECIFICATION ServicesSpec
SYMMETRY Symmetry
CONSTANTS
    Peers = {p1}
    Messages <- MCMessages
    enable_mdns = TRUE
    MAX_TX_MESSAGE_SIZE = 2
    MAX_BLOCK_MESSAGE_SIZE = 4
    MAX_CONSENSUS_MESSAGE_SIZE = 2
    MaxTick = 4
    MaxConnections = 2
    max_peers = 1
    DEFAULT_SCORE = 1
    BAN_THRESHOLD <- MCBanThreshold
    GOOD_MESSAGE_SCORE = 1
    BAD_MESSAGE_PENALTY <- MCBadMessagePenalty
    BAN_TICKS = 2
    WINDOW_TICKS = 2
    max_messages_per_second = 2
    max_bytes_per_second = 4
    t1 = t1
    t2 = t2
    t3 = t3
    Submissions <- MCSubmissions
    Clients = {c1}
    Nothing = Nothing
    MaxChain = 2
    STATS_SAMPLE = 1
    rpc_epoch_length = 2
    search_depth = 1
    Requests = {r1, r2, r3}
    max_per_second = 2
    WINDOW = 1
    U32 = 16
    MaxTime = 2
    EVENT_CAPACITY = 2
    Subscribers = {s1}
    MaxBlockEvents = 6
    MaxTxsPerBlock = 1
    Leaves = {1, 2, 3, 4, 5}
    MaxLeaves = 5
    Committed = {1, 2}
    EntrySize <- MCEntrySize
    CHUNK_SIZE = 2
    ServedStates <- MCServedStates
    TargetStates <- MCTargetStates
    MaxCorrupted = 1
    MaxStorageErrors = 1
    MAX_LIMIT = 2
    SEARCH_DEPTH = 2
    MaxExplorerHeight = 4
    Blocks <- MCBlocks
    DripRequests = {q1, q2}
    Addresses = {a1}
    NoRecord = NoRecord
    cooldown = 1
    max_drips_per_day = 2
    DAY = 3
    MaxSeconds = 3
    MaxDrips = 3
    GenesisDocs <- MCGenesisDocs
    Missing = Missing
    MaxGenesisHeight = 3
    MaxKills = 2
    ValidatorCounts = {0, 3}
    MaxGenerated = 3
    WalletCommands <- MCWalletCommands
    Terminals = {term1, term2}
    MaxWalletTime = 1
    MaxCommands = 3
    NoAccount = NoAccount
    Players = {"p", "q", "r"}
    MaxPool = 14
    MaxPrice = 12
    Rates = {0, 1, 2, 3, 5, 9, 10}
    BPS = 10
    Radix = 2
    MaxWrites = 3
    Tombstone = Tombstone
    x0 = x0
    x1 = x1
    y1 = y1
    z0 = z0
    w0 = w0
    alice = alice
    bob = bob
    None = None
    Txs = {x0, x1, y1, z0, w0}
    Threads = {1}
    Invalid = {}
    Sender <- MCSender
    Nonce <- MCNonce
    Fee <- MCFee
    max_size = 3
    max_per_account = 2
    min_fee = 2
    max_nonce_gap = 1
INVARIANTS
    PeerRecordsAreSound
    TransactionsAreFound
    ReadsAreWhole
    ThrottleIsExact
    StreamHasNoGaps
    TreesIdentifyState
    
    PagesCover
    
    NodesStartFromGenesis
    
    
    KeysAreFaithful
    PoolIsConsistent
CHECK_DEADLOCK FALSE
