SPECIFICATION Spec
CONSTANTS
    s1 = s1
    s2 = s2
    s3 = s3
    d1 = d1
    d2 = d2
    ch1 = ch1
    User = user
    None = none
    Devices = {d1, d2}
    Sessions = {s1, s2, s3}
    Challenges = {ch1}
    First = s1
    Home = d1
    Calls = {c1, c2, c3}
    MaxCodes = 1
    MaxPins = 2
    Loads <- MCLoads
INVARIANTS
    RevokedDeviceStaysOut
    ReplayEndsChain
    OneSignInPerChallenge
PROPERTIES
    RevokedIsRefused
CHECK_DEADLOCK FALSE
