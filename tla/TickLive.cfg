CONSTANTS
    a = a
    b = b
    Marketplace = {a, b}
    Codes <- TwoCodes
    Ticker = {t1}
    Worker = {w1}
    MaxParallel = 1
    MaxChildren = 5
    MaxCohort = 1
    MaxCopies = 1
    MaxFaults = 1
    MaxRevives = 0
    NoOne = NoOne
    Events = {"crash", "error", "broker", "abort", "undrained"}

SPECIFICATION FairSpec
PROPERTY PipelineTerminates
CHECK_DEADLOCK FALSE
