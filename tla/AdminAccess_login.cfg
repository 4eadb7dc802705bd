SPECIFICATION AdminFairSpec
CONSTANTS
    Requests = {q1, q2, q3}
    Address = ip
    Devices = {d1, d2}
    LimitPerIP = 2
    LimitPerFingerprint = 1
    MaxFailures = 2
INVARIANTS
    OneFirstAdmin
    CountersExpire
PROPERTIES
    NobodyBlockedForGood
CHECK_DEADLOCK FALSE
