------------------------------- MODULE MCStore -------------------------------
(***************************************************************************)
(* The models of what finds and fills the listings (discovery, pool        *)
(* writes, sitemaps, list pages), of the scrapes that share one of them,   *)
(* of the market quotes and of the accounts, checked in one run: the       *)
(* initial state chooses one of them (part), the others stand still.       *)
(***************************************************************************)
EXTENDS ScrapeCohort, Sequences, TLC

CONSTANTS
    Parts,
    Writer, Url, WriteBatches, Refused, Chunk, MaxFaults, u1, u2, u3, u4,
    Run, Page, Home, h, a, b, x, y, z, Links, Products, Sitemap, Listings, Usual, Quotas, MaxDepth, PublishBatch, Window,
    ConvergenceStreak, SaveBatch, MaxRuns, MaxMerges, NoFrontier, NoList,
    Doc, root, i1, i2, da, db, dc, p, q, r, s, Roots, Children, DocUrls, Entries, Rank, Noise, LocaleOf, Preferred,
    Explicit, Prefetch, Caps, MaxUrls, WalkBatch, NoLocale, WalkFaults, MaxOthers,
    Walker, CategoryLists, NextLinks, ca, ca2, cb, cc, NoPage, MaxPages, Limit, MaxWalks, MaxLists,
    Shop, PerTick, Ticker, MaxTicks,
    Ingestor, Instruments, Metals, MaxQuotes, MaxDay,
    User, Root, Request, Namespace, MaxPrefs

VARIABLES
    part,
    dRow, dQuota, dPool, dPc, dMem, dLoc, dMerging, dRuns, dFaults, dMerges,
    dPublished, dHarvested, dMissed, dClobbered,
    wPool, wPending, wInflight, wVisited, wAnswer, wCap, wLocale, wPc, wStatus,
    wTodo, wKnown, wSeen, wBatch, wWriting, wWrite, wInserted, wRaw, wProducts,
    wFaults, wOthers, wQueued, wParsed, wMine,
    cCats, cVersion, cCursor, cMode, cPc, cMine, cList, cVisited, cPages, cWalks, cFaults, cAsked, cBehind,
    rScore, rClock, rTick, rRanked, rTicks, rFaults, rWait,
    pProduct, pListing, pBatch, pPairs, pPc, pAt, pI, pInserts, pSave, pInserted, pRejected,
    pFaults, pExcused,
    today, quoted, dim_date, facts, rotated, mpc, run, stored, met,
    users, prefs, acked, puts, upc, req, atOdds, patched, devices

dVars == <<dRow, dQuota, dPool, dPc, dMem, dLoc, dMerging, dRuns, dFaults, dMerges,
           dPublished, dHarvested, dMissed, dClobbered>>
wVars == <<wPool, wPending, wInflight, wVisited, wAnswer, wCap, wLocale, wPc, wStatus,
           wTodo, wKnown, wSeen, wBatch, wWriting, wWrite, wInserted, wRaw, wProducts,
           wFaults, wOthers, wQueued, wParsed, wMine>>
cVars == <<cCats, cVersion, cCursor, cMode, cPc, cMine, cList, cVisited, cPages, cWalks, cFaults,
           cAsked, cBehind>>
rVars == <<rScore, rClock, rTick, rRanked, rTicks, rFaults, rWait>>
pVars == <<pProduct, pListing, pBatch, pPairs, pPc, pAt, pI, pInserts, pSave, pInserted, pRejected,
           pFaults, pExcused>>
mVars == <<today, quoted, dim_date, facts, rotated, mpc, run, stored, met>>
uVars == <<users, prefs, acked, puts, upc, req, atOdds, patched, devices>>

-----------------------------------------------------------------------------
MCBatches == {<<u1, u2, u3>>, <<u3, u2, u1>>, <<u2, u4>>}

P == INSTANCE PoolWriter WITH
    Batches <- WriteBatches,
    product <- pProduct, listing <- pListing, batch <- pBatch, pairs <- pPairs, pc <- pPc,
    at <- pAt, i <- pI, inserts <- pInserts, save <- pSave, inserted <- pInserted,
    rejected <- pRejected, faults <- pFaults, excused <- pExcused

MCLinks == (h :> <<a, b>>) @@ (a :> <<b>>) @@ (b :> <<h>>)
MCProducts == (h :> {}) @@ (a :> {x}) @@ (b :> {x, y})
MCSitemap == <<x, y>>

D == INSTANCE DiscoveryRun WITH
    row <- dRow, quota <- dQuota, pool <- dPool, pc <- dPc, mem <- dMem, loc <- dLoc,
    merging <- dMerging, runs <- dRuns, faults <- dFaults, merges <- dMerges,
    published <- dPublished, harvested <- dHarvested, missed <- dMissed, clobbered <- dClobbered

MCRoots == <<root, i2>>
MCChildren == (root :> <<i1, i2, da>>) @@ (i1 :> <<da, db>>) @@ (i2 :> <<db, dc>>)
              @@ (da :> <<>>) @@ (db :> <<>>) @@ (dc :> <<>>)
MCUrls == (root :> <<>>) @@ (i1 :> <<>>) @@ (i2 :> <<p>>) @@ (da :> <<p, q>>) @@ (db :> <<q, r, s>>) @@ (dc :> <<s>>)
MCEntries == [d \in Doc |-> Len(MCUrls[d]) + 1]
MCRank == [d \in Doc |-> CASE d = db -> 0 [] d = dc -> 2 [] OTHER -> 1]
MCLocales == [d \in Doc |-> CASE d = da -> "lt" [] d = dc -> "ru" [] OTHER -> NoLocale]
MCPreferred == <<>>

W == INSTANCE SitemapWalk WITH
    Urls <- DocUrls,
    SaveBatch <- WalkBatch,
    MaxFaults <- WalkFaults,
    pool <- wPool, pending <- wPending, inflight <- wInflight, visited <- wVisited,
    answer <- wAnswer, cap <- wCap, locale <- wLocale, pc <- wPc, status <- wStatus,
    todo <- wTodo, known <- wKnown, seen <- wSeen, batch <- wBatch, writing <- wWriting,
    write <- wWrite, inserted <- wInserted, raw <- wRaw, products <- wProducts,
    faults <- wFaults, others <- wOthers, queued <- wQueued, parsed <- wParsed, mine <- wMine

MCCategoryLists == {<<ca, cb>>, <<cc>>}
MCNextLinks == (ca :> ca2) @@ (ca2 :> NoPage) @@ (cb :> cb) @@ (cc :> ca)

C == INSTANCE HarvestCursor WITH
    Lists <- CategoryLists, NextOf <- NextLinks,
    cats <- cCats, version <- cVersion, cursor <- cCursor, mode <- cMode, pc <- cPc, mine <- cMine,
    list <- cList, visited <- cVisited, pages <- cPages, walks <- cWalks, faults <- cFaults,
    asked <- cAsked, behind <- cBehind

R == INSTANCE HarvestRotation WITH
    score <- rScore, clock <- rClock, tick <- rTick, ranked <- rRanked, ticks <- rTicks,
    faults <- rFaults, wait <- rWait

MCInstruments == [forex |-> <<"GBP", "USD">>, crypto |-> <<"BTC">>, commodities |-> <<"XAU">>]

M == INSTANCE MarketData WITH MaxFetches <- MaxQuotes, fetches <- quoted

U == INSTANCE UserAccounts WITH MaxPuts <- MaxPrefs

\* What the models ask of their constants.
ASSUME PartsAssumption ==
    /\ P!ChunkAssumption /\ P!BatchesAssumption /\ M!InstrumentsAssumption
    /\ R!RotationAssumption /\ C!LinksAssumption /\ W!TreeAssumption /\ D!ShopAssumption

\* The bounds are numbers, and there is a first day.
ASSUME BoundsAssumption ==
    {MaxFaults, Limit, MaxTicks, MaxQuotes, MaxPrefs} \subseteq Nat /\ MaxDay \in Nat \ {0}

MarketParts == {"forex", "coins and commodities"}
UserParts == {"roles", "preferences"}

\* Runs, children, ingests and requests are interchangeable, and have the same names.
Symmetry == Permutations(Run)

-----------------------------------------------------------------------------
\* The variables of a part that stands still hold nothing; those of ScrapeCohort keep one
\* initial state.
NoWrite ==
    /\ pProduct = 0 /\ pListing = 0 /\ pBatch = 0 /\ pPairs = 0 /\ pPc = 0 /\ pAt = 0 /\ pI = 0
    /\ pInserts = 0 /\ pSave = 0 /\ pInserted = 0 /\ pRejected = 0 /\ pFaults = 0 /\ pExcused = 0

NoRun ==
    /\ dRow = 0 /\ dQuota = 0 /\ dPool = 0 /\ dPc = 0 /\ dMem = 0 /\ dLoc = 0 /\ dMerging = 0
    /\ dRuns = 0 /\ dFaults = 0 /\ dMerges = 0 /\ dPublished = 0 /\ dHarvested = 0 /\ dMissed = 0
    /\ dClobbered = 0

NoWalk ==
    /\ wPool = 0 /\ wPending = 0 /\ wInflight = 0 /\ wVisited = 0 /\ wAnswer = 0 /\ wCap = 0
    /\ wLocale = 0 /\ wPc = 0 /\ wStatus = 0 /\ wTodo = 0 /\ wKnown = 0 /\ wSeen = 0 /\ wBatch = 0
    /\ wWriting = 0 /\ wWrite = 0 /\ wInserted = 0 /\ wRaw = 0 /\ wProducts = 0 /\ wFaults = 0
    /\ wOthers = 0 /\ wQueued = 0 /\ wParsed = 0 /\ wMine = 0

NoHarvest ==
    /\ cCats = 0 /\ cVersion = 0 /\ cCursor = 0 /\ cMode = 0 /\ cPc = 0 /\ cMine = 0 /\ cList = 0
    /\ cVisited = 0 /\ cPages = 0 /\ cWalks = 0 /\ cFaults = 0 /\ cAsked = 0 /\ cBehind = 0

NoRotation ==
    /\ rScore = 0 /\ rClock = 0 /\ rTick = 0 /\ rRanked = 0 /\ rTicks = 0 /\ rFaults = 0 /\ rWait = 0

NoMarket ==
    /\ today = 0 /\ quoted = 0 /\ dim_date = 0 /\ facts = 0 /\ rotated = 0
    /\ mpc = 0 /\ run = 0 /\ stored = 0 /\ met = 0

NoAccount ==
    /\ users = 0 /\ prefs = 0 /\ acked = 0 /\ puts = 0 /\ upc = 0
    /\ req = 0 /\ atOdds = 0 /\ patched = 0 /\ devices = 0

MCInit ==
    /\ part \in Parts
    /\ Init /\ (part # "cohort" => \A l \in Listing : row[l].active /\ row[l].due)
    /\ IF part = "write" THEN P!Init ELSE NoWrite
    /\ IF part = "discovery" THEN D!Init ELSE NoRun
    /\ IF part = "walk" THEN W!Init ELSE NoWalk
    /\ IF part = "harvest" THEN C!Init ELSE NoHarvest
    /\ IF part = "rotation" THEN R!Init ELSE NoRotation
    /\ IF part \in MarketParts THEN M!Init ELSE NoMarket
    /\ IF part \in UserParts THEN U!Init ELSE NoAccount

\* Rates of two days, or coins and commodities of one.
Quoted ==
    \/ /\ part = "forex" /\ quoted["crypto"] + quoted["commodities"] = 0
       /\ \A g \in Ingestor : run[g].rail \in {"", "forex"} \/ mpc[g] = "fetching"
    \/ /\ part = "coins and commodities" /\ today = 1
       /\ \A g \in Ingestor : run[g].quotes # <<>> => run[g].rail # "forex"

\* Administrators that stay apart and use no PATCH of the profile; or preferences only.
Apart ==
    \/ part = "roles" /\ puts = 0 /\ ~atOdds /\ ~patched
    \/ part = "preferences" /\ \A request \in Request : upc[request] \in {"idle", "merging"}

MCNext ==
    \/ part = "write" /\ P!Next /\ UNCHANGED <<part, vars, dVars, wVars, cVars, rVars, mVars, uVars>>
    \/ part = "discovery" /\ D!Next /\ UNCHANGED <<part, vars, wVars, cVars, rVars, pVars, mVars, uVars>>
    \/ part = "walk" /\ W!Next /\ UNCHANGED <<part, vars, dVars, cVars, rVars, pVars, mVars, uVars>>
    \/ part = "harvest" /\ C!Next /\ UNCHANGED <<part, vars, dVars, wVars, rVars, pVars, mVars, uVars>>
    \/ part = "rotation" /\ R!Next /\ UNCHANGED <<part, vars, dVars, wVars, cVars, pVars, mVars, uVars>>
    \/ part = "cohort" /\ Next /\ UNCHANGED <<part, pVars, dVars, wVars, cVars, rVars, mVars, uVars>>
    \/ part \in MarketParts /\ M!Next /\ UNCHANGED <<part, vars, dVars, wVars, cVars, rVars, pVars, uVars>> /\ Quoted'
    \/ part \in UserParts /\ U!Next /\ UNCHANGED <<part, vars, dVars, wVars, cVars, rVars, pVars, mVars>> /\ Apart'

MCSpec == MCInit /\ [][MCNext]_<<part, vars, dVars, wVars, cVars, rVars, pVars, mVars, uVars>>

-----------------------------------------------------------------------------
\* The type invariants of all but ScrapeCohort.
TypesOK ==
    /\ part = "write" => P!TypeOK
    /\ part = "discovery" => D!TypeOK
    /\ part = "walk" => W!TypeOK
    /\ part = "harvest" => C!TypeOK
    /\ part = "rotation" => R!TypeOK
    /\ part \in MarketParts => M!TypeOK
    /\ part \in UserParts => U!TypeOK

\* DiscoveryRun: the resume index never passes a category that was not worked off, the walk loses
\* no category, and a completed sitemap left none of its products out.
ResumeHonest == part = "discovery" => D!CursorHonest /\ D!NoCategoryLost /\ D!SitemapSaved

\* PoolWriter: the counts of a write are those of its rows, and writers that overlap lose
\* no address between them.
WritesAccounted == part = "write" => P!CountsTrue /\ P!NothingLost

\* SitemapWalk: what was parsed is written when the walk ends, and a completed walk went
\* through all it had queued and counted what it wrote.
WalkAccounted == part = "walk" => W!NothingLeftBehind /\ W!CompletedWalk

\* HarvestCursor, HarvestRotation: a pass leaves no page of a category out, and no shop
\* waits longer than its rounds.
HarvestCovers ==
    /\ part = "harvest" => C!PassComplete
    /\ part = "rotation" => R!NoShopStarves

\* PoolWriter: no product without its listing.
NoOrphan == part = "write" => P!NoOrphan

\* MarketData: what an ingest reports is there.
ReportedIsStored == part \in MarketParts => M!ReportedIsStored

\* MarketData: two ingests of a rail do not block each other.
NoEmbrace == part \in MarketParts => M!NoEmbrace

\* MarketData: a price in USD comes of a rate to USD.
NoFallbackRate == part \in MarketParts => M!NoFallbackRate

\* UserAccounts: somebody administers the system.
SuperuserRemains == [][(part \in UserParts) => U!KeepsSuperuser]_uVars

\* UserAccounts: a confirmed preference stays.
NamespacesKept == part \in UserParts => U!NamespacesKept
=============================================================================
