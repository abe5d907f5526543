SPECIFICATION LinkFairSpec
CONSTANTS
    SessionIds = {1}
    AeadOffers = {1}
    Offer = 1
    PkFrags = 2
    CtChunks = 2
    Window = 1
    MaxRetries = 1
    MaxEncaps = 2
    Duplicates = FALSE
    MaxLoss = 2
INVARIANTS
    NotRejected
PROPERTIES
    StreamsSettle
CHECK_DEADLOCK FALSE
