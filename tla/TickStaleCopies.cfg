CONSTANTS
    a = a
    b = b
    Marketplace = {a, b}
    Codes <- TwoCodes
    Ticker = {t1}
    Worker = {w1}
    MaxParallel = 1
    MaxChildren = 2
    MaxCohort = 1
    MaxCopies = 1
    MaxFaults = 1
    MaxRevives = 0
    NoOne = NoOne
    Events = {"crash", "pulse", "cancel", "reject", "error"}

SPECIFICATION Spec
INVARIANTS TypeOK NoMarketplaceForgotten LateDispatchBounded
PROPERTY KeepsContract
CHECK_DEADLOCK FALSE
