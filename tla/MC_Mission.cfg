SPECIFICATION MissionFairSpec
CONSTANTS
    Gcs = {g1, g2}
    NoGcs = noGcs
    Faults = {"none", "command"}
    PartialStarts = {1}
    Downloaders = {g2}
    ItemKinds = {"mission", "fence"}
    MaxItems = 2
    UploadTimeout = 1
    RequestTimeout = 0
    QueueLength = 1
    MaxUploads = 2
    MaxLosses = 1
INVARIANTS
    MissionTypeOK
    AcceptedAsSent
PROPERTIES
    Mutex
    FenceAtomic
    UploadEnds
CHECK_DEADLOCK FALSE
