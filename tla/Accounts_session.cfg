SPECIFICATION Spec
CONSTANTS
    Requests = {r1, r2, r3, r4}
    NoRequest = NoRequest
    MaxOpen = 2
    MaxAccounts = 2
    MaxFaults = 1
SYMMETRY Symm
INVARIANTS
    CodeAcceptedOnce
    LatestCodeWorks
    SessionIsCurrent
CHECK_DEADLOCK FALSE
