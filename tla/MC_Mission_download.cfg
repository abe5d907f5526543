SPECIFICATION MissionSpec
CONSTANTS
    Gcs = {g1, g2}
    NoGcs = noGcs
    Faults = {"none", "command"}
    PartialStarts = {1}
    Downloaders = {g2}
    ItemKinds = {"mission"}
    MaxItems = 2
    UploadTimeout = 1
    RequestTimeout = 0
    QueueLength = 1
    MaxUploads = 2
    MaxLosses = 1
PROPERTIES
    DownloadBlocked
CHECK_DEADLOCK FALSE
