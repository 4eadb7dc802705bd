SPECIFICATION Spec
CONSTANTS
    Requests = {r1, r2}
    Payments = {p1}
    Amount = 5
    PlanCredits = {1, 2}
    ModelLimit = 1
    MaxResets = 2
    MaxFaults = 1
SYMMETRY Symm
INVARIANTS
    WindowQuota
    ModelLimitExceededOnlyByRace
    OutcomeIsCharged
    BalanceIsSum
