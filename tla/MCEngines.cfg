CONSTANTS
    Process = {p1, p2}
    MaxTurns = 4
    MaxPlans = 2
    MaxFaults = 1
    MaxStages = 6
    MaxRevision = 80
    Item = {i1, i2}
    MaxAttempts = 2
    MaxGraphStages = 2
    MaxStarts = 2
    MaxAnswers = 2
    MaxGraphFaults = 1
SPECIFICATION EnginesSpec
INVARIANTS
    EnginesTypeOK
    DoneMeansBuilt
    UnfinishedPlanAwaitsUser
    NothingStartsUnseen
    SentBackIsRewritten
PROPERTIES
    PlansImplementPlan
    TurnEnds
    GraphKeepsPlan
    InvocationsEnd
CHECK_DEADLOCK FALSE
