CONSTANTS
    a = a
    b = b
    Marketplace = {a, b}
    Codes <- TwoCodes
    Ticker = {t1, t2}
    Worker = {w1}
    MaxParallel = 1
    MaxChildren = 3
    MaxCohort = 1
    MaxCopies = 1
    MaxFaults = 2
    MaxRevives = 1
    NoOne = NoOne
    Events = {"revive", "overdue", "stale", "undrained", "beat", "broker"}
SYMMETRY Symmetry
SPECIFICATION Spec
INVARIANTS NoDuplicateDiscovery VerdictAfterDrain
CHECK_DEADLOCK FALSE
