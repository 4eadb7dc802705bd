SPECIFICATION FairSpec
CONSTANTS
    c1 = c1
    c2 = c2
    Calls = {c1, c2}
    NumEndpoints = 2
    Upstreams <- MCUpstreams
    Routes <- MCRoutes
    MaxFaults = 1
    MaxChanges = 1
INVARIANTS
    OutputNotRepeated
    FailsOnlyWhenAllFail
    AdaptationRecovers
PROPERTIES
    CallsEnd
CHECK_DEADLOCK FALSE
