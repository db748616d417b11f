CONSTANTS
    Parts = {"fetch", "ingests cross", "evaluations overlap", "gate"}
    Rate = 1
    Capacity = 1
    MonthlyCap = 1
    DailyCap = 0
    CycleDays = 2
    JsWeight = 2
    NoJsWeight = 1
    Fetcher = {f1, f2}
    Kinds = {"listing", "sitemap"}
    Modes = {"direct", "proxy_render"}
    Replies = {"fetch_failed"}
    Attempts = 2
    MaxPages = 2
    MaxFetches = 3
    MaxClock = 2
    MaxPuts = 1
    MaxFaults = 1
    NoOne = NoOne
    CardScraper = {p1} ListHarvester = {h1} Price = {1, 6} DayLength = 3 MaxStamp = 5
    Rule = {r1} AlertTypes = {"price_drop", "availability"} Threshold = 10 Cooldown = 2
    Evaluator = {f1, f2} MaxEvents = 2 MaxEdits = 1 MaxFlips = 1
    Secret = {s1, s2} NoSecret = NoSecret MaxDefects = 1 GateFaults = 1 MaxChanges = 2
SPECIFICATION MCSpec
SYMMETRY Symmetry
INVARIANTS TypesOK ProxyBounded FetchHonest ListingShowsNewest NothingReportedTwice RefusalLeavesTrace SignedIsAccepted
CHECK_DEADLOCK FALSE
