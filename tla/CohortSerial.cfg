CONSTANTS
    Listing = {l1, l2, l3}
    Child = {c1}
    Shard = {s1}
    BatchSize = 2
    DeactivateAfter = 1
    MaxStreak = 1
    MaxSkips = 1
    MaxListings = 3
    MaxAnchors = 2
    NoListing = NoListing
    Events = {"lost", "proxy", "prune", "absent", "deadline", "fatal", "stale", "rerun"}
SYMMETRY Symmetry
SPECIFICATION Spec
INVARIANTS TypeOK OncePerAnchor CompletedMeansChecked
PROPERTY CompletedLeavesNothing
CHECK_DEADLOCK FALSE
ACTION_CONSTRAINT ShardPrunesOnce
