SPECIFICATION Spec
CONSTANTS
    Runs = {r1}
    Requests = {q1, q2, q3}
    NoRun = NoRun
    MaxDeltas = 2
    MaxCrashes = 1
    MaxFaults = 1
SYMMETRY RequestSymmetry
INVARIANTS
    ClaimInv
    OneDeltaAfterStop
PROPERTIES
    TerminalIsFinal
