SPECIFICATION Spec
CONSTANTS
    SessionIds = {1, 2}
    AeadOffers = {1}
    PkFrags = 2
    CtChunks = 3
    Window = 2
    MaxRetries = 1
    MaxEncaps = 3
INVARIANTS
    TypeOK
    AckedBeforeFinish
    WindowBound
    TranscriptBindsSecrets
    KeysOnlyWhenActive
PROPERTIES
    ActiveUndisturbed
    FreshKeys
    KeysEstablished
CHECK_DEADLOCK FALSE
