SPECIFICATION FairSpec
CONSTANTS
    PageSize = 2
    MaxFailures = 1
    MaxDeltas = 1
    MaxMishaps = 2
INVARIANTS
    EveryEventOnce
    ReleasedRunIsShown
PROPERTIES
    EndedRunReleases
