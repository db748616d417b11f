CONSTANTS
    a = a
    b = b
    Marketplace = {a, b}
    Codes <- TwoCodes
    Ticker = {t1, t2}
    Worker = {w1, w2}
    MaxParallel = 1
    MaxChildren = 3
    MaxCohort = 1
    MaxCopies = 1
    MaxFaults = 1
    MaxRevives = 1
    NoOne = NoOne
    Events = {"crash", "pulse", "revive", "cancel"}
SYMMETRY Symmetry
SPECIFICATION Spec
INVARIANTS SlotsBounded PhaseBarrier ChainAlive
CHECK_DEADLOCK FALSE
