SPECIFICATION Spec
CONSTANTS
    Parts = {"ftp", "params", "routing", "streams", "tasks", "texts", "pk", "passthru"}
    Clients = {c1, c2}
    NoClient = noClient
    Ids = {1}
    Dirs = {d1}
    Files = {f1, f2}
    NoFile = noFile
    FiveFiles = {f2}
    MaxSessions = 1
    SessionTimeout = 1
    KillTimeout = 2
    BurstPackets = 1
    Asking = {"openRO", "create", "read", "write", "burst", "remove", "rename", "mkdir", "terminate", "reset"}
    MaxRequests = 2
    Links = {l1, l2}
    NParams = 2
    Enable = 1
    Group = {2}
    ReadOnly = {}
    RequestLength = 2
    ReplyLength = 1
    Burst = 2
    MaxReads = 2
    MaxCommands = 2
    RouteLinks = {r1, r2, r3}
    PrivateLinks = {r3}
    NoRouteLinks = {}
    Nodes <- McNodes
    GcsSystems = {255}
    Enforce = TRUE
    MaxRoutes = 2
    MaxSeen = 3
    Streamed <- McStreamed
    Special <- McSpecial
    Forced = "param"
    Heartbeat = "heartbeat"
    HeartbeatInterval = 1
    StreamRate = 1
    FileLines <- McFileLines
    MaxLines = 1
    NBuckets = 3
    Intervals = {0, 1, 3}
    MaxInterval = 3
    ForcedMax = 1
    Penalty = 1
    Wrap = 5
    MaxLate = 1
    MaxChanges = 1
    Askers = {a1, a2}
    NTasks = 1
    MaxAsks = 3
    TextLinks = {t1, t2}
    QuietLinks = {}
    Capacity = 2
    MaxAge = 0
    MaxMade = 4
    MaxChunks = 2
    PkLens = {1, 3, 4, 5, 6, 9}
    Mtus = {1, 2, 3}
    MaskBits = 2
    UsbPort = 1
    Timeout = 2
    MaxSwitches = 4
INVARIANTS
    ServicesTypeOK
    OwnFile
    AnswersToAsker
    ListComplete
    RoutedByTheory
    HeartbeatsDontEcho
    BucketsConsistent
    TextsInOrder
    PkWhole
    PortsReleased
PROPERTIES
    RepeatAnswered
    NothingStarves
    FilesEndClosed
    OneFinalAck
CHECK_DEADLOCK FALSE
