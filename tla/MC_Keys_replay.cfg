SPECIFICATION Spec
CONSTANTS
    Parts = {"signing"}
    Links = {l1, l2}
    SigningDisabled = {l2}
    SetupKeys = {k1}
    SessionKeys = {s1}
    ZeroKey = zeroKey
    NoKeyYet = noKeyYet
    SavePeriod = 2
    HeartbeatPeriod = 1
    GpsStart = 4
    Leads = {3}
    MaxTicks = 4
    MaxTimestamp = 8
    MaxBoots = 2
    DefaultKey = "default"
    NewKeys = {"new"}
    Inodes = {1, 2, 3}
    MaxSaves = 2
    MaxCrashes = 2
    Bytes = 3
    Width = 3
    MaxCounter = 7
    MaxEpoch = 1
INVARIANTS
    ReplayClosed
CHECK_DEADLOCK FALSE
