SPECIFICATION ReopenSpec
CONSTANTS
    Runs = {r1, r2}
    Requests = {q1, q2, q3}
    NoRun = NoRun
    MaxDeltas = 0
    MaxCrashes = 0
    MaxFaults = 1
INVARIANTS
    StopNoticeOnce
PROPERTIES
    ListSettles
