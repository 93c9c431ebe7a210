SPECIFICATION SpecInTime
CONSTANTS
    e1 = e1
    e2 = e2
    p = p
    q = q
    Events = {e1, e2}
    Endpoints = {p, q}
    Subscribers <- MCSubscribers
    Dispatchers = {w1, w2}
    BatchSize = 2
    Backoff = 1
    StepTimeouts = 2
    MaxReplays = 1
INVARIANTS
    RepeatNeedsRollback
PROPERTIES
    DeliveriesKeepPromise
    DeliveriesEnd
CHECK_DEADLOCK FALSE
