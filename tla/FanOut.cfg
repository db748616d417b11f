CONSTANTS
    s1 = s1
    s2 = s2
    Shard <- TwoShards
    Size <- SizeOfTwo
    Run = {r1}
    Worker = {w1, w2}
    MaxAttempts = 1
    MaxRequests = 1
    MaxFaults = 1
    Coordinator = Coordinator
    NoRun = NoRun
    NoWalk = NoWalk
    Events = {"crash", "overtime", "error", "redis", "lapse", "short"}

SPECIFICATION FairSpec
PROPERTY EstimateCatchesUp
INVARIANTS TypeOK NoShardLost LastShardSeesAll
CHECK_DEADLOCK FALSE
