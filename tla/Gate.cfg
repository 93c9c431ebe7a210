SPECIFICATION Spec
CONSTANTS
    r1 = r1
    r2 = r2
    r3 = r3
    r4 = r4
    Requests = {r1, r2, r3, r4}
    SubjectOf <- MCSubjectOf
    Threshold <- MCThreshold
    Modes <- MCModes
    Reporting = 10
    InFlight = 2
    Queue = 1
INVARIANTS
    SlotsComeBack
    RulesHold
PROPERTIES
    WaitingEnds
CHECK_DEADLOCK FALSE
