CONSTANTS
    Parts = {"matching"}
    Listing = {l1}
    Child = {c1}
    BatchSize = 1
    MaxListings = 1
    MaxAnchors = 0
    DeactivateAfter = 3
    MaxStreak = 1
    MaxSkips = 0
    NoListing = NoListing
    Events = {}
    Product = {1, 2, 3, 4}
    Gtin <- FourNone
    Code <- FourCodes
    Title <- FourNone
    Type <- FourTypes
    Given <- FourGiven
    Alike <- TitlesAlike
    Smaller <- LighterGroup
    Ticker = {t1}
    Batch = 4
    SweepRows = 4
    Chunk = 4
    Window = 3
    MaxFaults = 0
SPECIFICATION MCSpec
PROPERTIES SplitConsistent
CHECK_DEADLOCK FALSE
