CONSTANTS
    Parts = {"cohort", "matching"}
    Listing = {l1, l2}
    Child = {c1}
    BatchSize = 1
    MaxListings = 1
    MaxAnchors = 2
    DeactivateAfter = 3
    MaxStreak = 4
    MaxSkips = 2
    NoListing = NoListing
    Events = {"lost", "proxy", "prune", "unpruned", "absent", "deadline", "fatal"}
    Product = {1, 2, 3}
    Gtin <- ThreeGtins
    Code <- ThreeCodes
    Title <- ThreeTitles
    Type <- ThreeTypes
    Given <- ThreeGiven
    Alike <- TitlesAlike
    Smaller <- LighterGroup
    Ticker = {t1, t2}
    Batch = 3
    SweepRows = 2
    Chunk = 2
    Window = 3
    MaxFaults = 1
SPECIFICATION MCSpec
PROPERTIES CohortDrains LateIdentityWins GroupsSettle
CHECK_DEADLOCK FALSE
