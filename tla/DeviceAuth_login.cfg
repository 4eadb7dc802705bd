SPECIFICATION Spec
CONSTANTS
    Polls = {p1, p2}
    Refreshes = {q1, q2, q3}
    Pages = {g1, g2}
    NoState = NoState
    NoToken = NoToken
    MaxFaults = 1
SYMMETRY Symm
INVARIANTS
    TypeOK
    ExchangedOnceUnlessOverlapped
    ApprovalNotLost
    RefusalHolds
    SessionKeepsToken
