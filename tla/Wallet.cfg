SPECIFICATION Spec
CONSTANTS
    u1 = u1
    u2 = u2
    Users = {u1, u2}
    Calls = {1, 2, 3}
    Loads <- MCLoads
    MaxAmount = 2
    Opening <- MCOpening
    NotCached = NotCached
    CacheTTL = 12
    LosesAcks = TRUE
INVARIANTS
    Covered
    AnswersAreHonest
PROPERTY
    ShortfallEnds
CHECK_DEADLOCK FALSE
