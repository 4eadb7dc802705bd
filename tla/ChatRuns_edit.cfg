SPECIFICATION Spec
CONSTANTS
    Runs = {r1, r2}
    Requests = {q1}
    NoRun = NoRun
    MaxDeltas = 1
    MaxCrashes = 0
    MaxFaults = 0
INVARIANTS
    OutcomeMatchesRow
PROPERTIES
    ImplementsLifecycle
