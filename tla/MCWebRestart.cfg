CONSTANTS
    Reader = {c1}
    NoSeq = NoSeq
    Failed = Failed
    SnapshotFails = FALSE
    LogSize = 2
    ReplayLimit = 1
    MaxEvents = 4
    MaxRestarts = 1
    MaxBreaks = 0
    MaxClicks = 0
SPECIFICATION Spec
PROPERTIES
    ResumesWithoutGap
CHECK_DEADLOCK FALSE
