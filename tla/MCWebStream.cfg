CONSTANTS
    Reader = {c1}
    NoSeq = NoSeq
    Failed = Failed
    SnapshotFails = TRUE
    LogSize = 2
    ReplayLimit = 1
    MaxEvents = 4
    MaxRestarts = 1
    MaxBreaks = 2
    MaxClicks = 1
SPECIFICATION FairSpec
INVARIANTS
    TypeOK
    DrainedMeansCurrent
PROPERTIES
    NoGapWithinALife
    CatchesUp
CHECK_DEADLOCK FALSE
