SPECIFICATION FairSpec
CONSTANTS
    Runs = {r1}
    Requests = {q1, q2}
    NoRun = NoRun
    MaxDeltas = 1
    MaxCrashes = 0
    MaxFaults = 0
PROPERTIES
    CancelSettles
    ImageRunReports
    StopSilencesRun
