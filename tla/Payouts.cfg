SPECIFICATION Spec
CONSTANTS
    s1 = s1
    s2 = s2
    r1 = r1
    r2 = r2
    Settlements = {s1, s2}
    Runs = {r1, r2}
    Merchants = {1, 2}
    Limit = 10
    MaxGross = 9
    LastDay = 2
    Loads <- MCLoads
INVARIANTS
    RowsAreTrue
    PaidTwiceNeedsDoubt
    FloatInTurn
    UnsettledBatchConsumesNothing
CHECK_DEADLOCK FALSE
