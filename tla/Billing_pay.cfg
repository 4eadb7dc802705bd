SPECIFICATION Spec
CONSTANTS
    Orders = {o1, o2}
    Handlers = {h1, h2}
    User = u
    Others = {v}
    MaxUses = 1
    Never = Never
    Period = 1
    MaxDeliveries = 3
    MaxFaults = 1
    MaxNow = 2
SYMMETRY Symm
INVARIANTS
    FulfilledOnce
    RedeemNotOversold
    OnlyLatestActive
PROPERTIES
    PaidTimeKept
