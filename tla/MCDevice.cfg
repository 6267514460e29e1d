SPECIFICATION DeviceSpec
CONSTANTS
    None = None
    Keys = {k1, k2}
    Writers = {w1, w2}
    CacheSize = 1
    MaxReceipts = 3
    MaxVersion = 2
    Duplicates = FALSE
    Client = {r1}
    Window = 2
    MaxRevision = 3
    MaxTicks = 1
    Follower = {k1, k2}
    NetWindow = 2
    MaxChanges = 1
    MaxAuthority = 2
    Conn = {k1, k2}
    MaxHttp = 1
    MaxDownloads = 1
    Slots <- OneEach
    MaxRequests = 2
    SegmentFrames = 2
    Decimation = 2
    Backlog = 2
    MaxSource = 5
    MaxTakeFaults = 2
    SegmentBlocks = 2
    QueueBlocks = 2
    MaxPendingCommits = 2
    MaxBlocks = 6
    MaxAudioFaults = 2
    Debounce = 2
    Cooldown = 7
    PriorTriggers = {"none", "timer", "heartbeat"}
    Inverted = TRUE
    MaxPolls = 13
    MaxLedFaults = 2
    Modulus = 4
    Contents = {0, 1}
    MinimumPoints = 3
    WindowPoints = 3
    GoodResidual = 1
    Timeout = 2
    MaxDelay = 2
    MaxJump = 5
    MaxFrame = 8
    MaxNow = 5
SYMMETRY Symmetry
CONSTRAINT DeviceBound
INVARIANTS
    RowsMatchPersisted
    StreamFollowsState
    EdgeSafe
    NativeTakeSafe
    AudioSafe
    PanelSafe
    ImuSafe
PROPERTY
    NetworkStreamForward
