CONSTANTS
    Parts = {"write", "discovery", "walk", "harvest", "rotation", "cohort", "forex", "coins and commodities", "roles", "preferences"}
    u1 = u1 u2 = u2 u3 = u3 u4 = u4
    Writer = {w1, w2, w3} Url = {u1, u2, u3, u4} WriteBatches <- MCBatches Refused = {u4} Chunk = 2 MaxFaults = 1
    h = h a = a b = b x = x y = y z = z
    Run = {r1, r2} Page = {h, a, b} Home = h Links <- MCLinks Products <- MCProducts Sitemap <- MCSitemap Listings = {a, b} Usual = {b} Quotas = {0}
    MaxDepth = 1 PublishBatch = 2 Window = 2 ConvergenceStreak = 2 SaveBatch = 1
    MaxRuns = 2 MaxMerges = 1 NoFrontier = NoFrontier NoList = NoList
    root = root i1 = i1 i2 = i2 da = da db = db dc = dc p = p q = q r = r s = s
    Doc = {root, i1, i2, da, db, dc} Roots <- MCRoots Children <- MCChildren DocUrls <- MCUrls Entries <- MCEntries
    Rank <- MCRank Noise = {} LocaleOf <- MCLocales Preferred <- MCPreferred WalkBatch = 2 Explicit = FALSE Prefetch = 2 Caps = {4, 6} MaxUrls = 20
    NoLocale = "none" WalkFaults = 2 MaxOthers = 1
    ca = ca ca2 = ca2 cb = cb cc = cc
    CategoryLists <- MCCategoryLists NextLinks <- MCNextLinks
    Walker = {k1, k2} NoPage = NoPage MaxPages = 3 Limit = 2 MaxWalks = 3 MaxLists = 1
    Shop = {s1, s2, s3} PerTick = 1 Ticker = {t1, t2} MaxTicks = 8
    Listing = {l1}
    Child = {r1, r2}
    Shard = {f1}
    BatchSize = 1
    MaxListings = 2
    MaxAnchors = 1
    DeactivateAfter = 3
    MaxStreak = 3
    MaxSkips = 1
    NoListing = NoListing
    Events = {"duplicate", "proxy", "lost", "absent", "reject", "prune"}
    Ingestor = {r1, r2} Instruments <- MCInstruments Metals = {"XAU"} MaxQuotes = 2 MaxDay = 2
    User = {u1, u2, u3} Root = u1 Request = {r1, r2} Namespace = {"ui", "favorites", "widgets"} MaxPrefs = 3
SPECIFICATION MCSpec
INVARIANTS TypesOK ResumeHonest NoOrphan WritesAccounted WalkAccounted HarvestCovers ReportedIsStored NoEmbrace NamespacesKept
PROPERTIES DeactivationEarned SuperuserRemains
CHECK_DEADLOCK FALSE
SYMMETRY Symmetry
