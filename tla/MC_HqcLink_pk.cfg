SPECIFICATION LinkSpec
CONSTANTS
    SessionIds = {1, 2}
    AeadOffers = {1}
    Offer = 1
    PkFrags = 2
    CtChunks = 2
    Window = 1
    MaxRetries = 1
    MaxEncaps = 3
    Duplicates = TRUE
    MaxLoss = 0
INVARIANTS
    OnePkSummary
CHECK_DEADLOCK FALSE
