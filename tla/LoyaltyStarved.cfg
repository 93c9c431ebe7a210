SPECIFICATION LoyaltySpec
CONSTANTS
    u1 = u1
    u2 = u2
    c1 = c1
    c2 = c2
    c3 = c3
    old1 = old1
    old2 = old2
    Absent = absent
    None = none
    Users = {u1, u2}
    Calls = {c1, c2, c3}
    Earned = {old1, old2}
    MayBe <- MCMayBe
    UserOf <- MCUserOf
    PointsOf <- MCPointsOf
    PaymentOf <- MCPaymentOf
    PayersOf <- MCPayersOf
    PoolSize = 2
    PerUser = 1
    Total = 1
PROPERTY
    CallsEnd
CHECK_DEADLOCK FALSE
