CONSTANTS
    Run = {r1, r2}
    Tool = {"old", "new"}
    Threshold = 2
    KeepRecentTurns = 1
    MaxItems = 6
    Extraction = {x1, x2, x3, x4}
    Attempts = 2
    Source = {s1, s2, s3}
    Wanted <- NamesWanted
    MaxAssets = 4
    MaxChanges = 3
    MaxResponses = 3
    MaxCalls = 2
    MaxOthers = 1
    Tools <- EvalTools
    Job = {"j1", "j2"}
    Case <- EvalCase
    Behaviour <- EvalBehaviour
    Id = {"plan_0001", "plan_0002", "stage_01", "draft_0001"}
    Concurrency = {1, 2}
SPECIFICATION ServicesSpec
INVARIANTS
    ServicesTypeOK
    ReplayIsWellFormed
    HistoryIsWhole
    ProfileKeepsEveryExtraction
    TurnIsToldWhole
PROPERTIES
    AssetsKeepTheirIdentity
    ReportIsWhole
CHECK_DEADLOCK FALSE
