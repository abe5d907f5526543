SPECIFICATION MissionSpec
CONSTANTS
    Gcs = {g1, g2}
    NoGcs = noGcs
    Faults = {"none", "command"}
    PartialStarts = {0}
    Downloaders = {g2}
    ItemKinds = {"fence"}
    MaxItems = 2
    UploadTimeout = 1
    RequestTimeout = 0
    QueueLength = 1
    MaxUploads = 2
    MaxLosses = 1
INVARIANTS
    NoInternalError
CHECK_DEADLOCK FALSE
