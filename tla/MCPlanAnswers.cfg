CONSTANTS
    Contract = {c1}
    NoContract = NoContract
    Ref = {r1}
    Question = {q1}
    MaxStages = 1
    MaxRevision = 4
SPECIFICATION PlanSpec
PROPERTIES
    NotStartedWhileAuthorWaits
CHECK_DEADLOCK FALSE
