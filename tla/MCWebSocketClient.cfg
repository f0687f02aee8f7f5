CONSTANTS
    Subs <- MCSubs
    Limits = {1, 3}
    TextPing = TRUE
SPECIFICATION FairSpec
INVARIANTS
    SubscribedWhenReading
    RecoveryRequested
    NoReadAfterGiveUp
    EndIsReported
PROPERTIES
    FatalAfterAttempts
    StopEnds
    OutageEnds
CHECK_DEADLOCK FALSE
