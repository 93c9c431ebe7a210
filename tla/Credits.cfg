SPECIFICATION Spec
CONSTANTS
    t1 = t1
    f1 = f1
    f2 = f2
    p1 = p1
    p2 = p2
    d1 = d1
    d2 = d2
    Calls = {1, 2, 3}
    Topups = {t1}
    Refs = {f1, f2}
    Payments = {p1, p2}
    Paid <- MCPaid
    MaxAmount = 2
    Disputes = {d1, d2}
    DisputeOf <- MCDisputeOf
    Holdbacks = {1}
    NoHoldback = NoHoldback
    NoDispute = NoDispute
    Loads <- MCLoads
INVARIANTS
    StatusesAreBacked
    ReferenceCreditsOnce
    CreditedOnceInTurn
    RefundsInTurnFit
CHECK_DEADLOCK FALSE
