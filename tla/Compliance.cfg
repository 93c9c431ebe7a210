SPECIFICATION AccountSpec
CONSTANTS
    k1 = k1
    s1 = s1
    Keys = {k1}
    Staff = {s1}
    Requests = {c1, c2, c3}
    Actions <- MCActions
INVARIANTS
    BlocksHold
    SubmissionsInTurn
    LogIsTrue
PROPERTIES
    FlagHeals
CHECK_DEADLOCK FALSE
