CONSTANTS
    Contract = {c1}
    NoContract = NoContract
    Ref = {r1}
    Question = {q1}
    MaxStages = 1
    MaxRevision = 4
    Process = {p1, p2}
    Agent = {a1, a2}
    Idle = Idle
SYMMETRY Symmetry
SPECIFICATION Spec
INVARIANTS
    StoreTypeOK
PROPERTIES
    ImplementsPlan
    PinnedWriteReplacesWhatWasRead
CHECK_DEADLOCK FALSE
