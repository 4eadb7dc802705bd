SPECIFICATION Spec
CONSTANTS
    Requests = {q1, q2, q3, q4}
    MaxFaults = 1
    None = None
    Owner = owner
    Users = {u1, u2}
    Codes = {c1, c2}
    MaxLimit = 2
    Empty = Empty
    Placeholder = Placeholder
SYMMETRY Symmetry
INVARIANTS
    ArtifactShowsNewest
    TextIsOfTheFile
PROPERTIES
    JoinsKeepLimit
    OldCodeAdmitsNobody
