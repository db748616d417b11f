CONSTANTS
    a = a
    b = b
    Marketplace = {a, b}
    Codes <- TwoCodes
    Ticker = {t1}
    Worker = {w1}
    MaxParallel = 1
    MaxChildren = 3
    MaxCohort = 1
    MaxCopies = 1
    MaxFaults = 1
    MaxRevives = 0
    NoOne = NoOne
    Events = {"crash"}

SPECIFICATION Spec
INVARIANT NoDuplicateDiscovery
CHECK_DEADLOCK FALSE
