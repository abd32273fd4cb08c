CONSTANTS
    Contract = {c1, c2}
    NoContract = NoContract
    Ref = {r1, r2}
    Question = {q1}
    MaxStages = 2
    MaxRevision = 10
SYMMETRY Symmetry
SPECIFICATION PlanSpec
INVARIANTS
    TypeOK
    ExecutedOnlyIfApproved
    FinishedOnlyWithResults
    ReviewFieldsMatchState
PROPERTIES
    TerminalStagesAreFrozen
    ExecutionIsUndisturbed
CHECK_DEADLOCK FALSE
