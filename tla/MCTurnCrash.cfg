CONSTANTS
    s1 = s1
    s2 = s2
    s3 = s3
    p1 = p1
    p2 = p2
    m1 = m1
    m2 = m2
    Send <- MCSend
    NoSend = NoSend
    Process = {p1, p2}
    HomeOf <- MCHomeOf
    MessageOf <- MCMessageOf
    TTL = 3
    RefreshEvery = 1
    Stalls = FALSE
    MaxOutages = 1
    MaxErrors = 0
SPECIFICATION FairSpec
PROPERTIES
    EveryTurnEnds
CHECK_DEADLOCK FALSE
