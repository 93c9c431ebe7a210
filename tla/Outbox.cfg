SPECIFICATION Spec
CONSTANTS
    e1 = e1
    e2 = e2
    k1 = k1
    Events = {e1, e2}
    Keys = {k1}
    KeyOf <- MCKeyOf
    HashOf <- MCHashOf
    Relays = {r1, r2}
    BatchSize = 2
INVARIANTS
    TopicAgrees
    OneRelayPerKey
    OnlyLateCommitsOvertaken
PROPERTY
    EveryEventDelivered
CHECK_DEADLOCK FALSE
