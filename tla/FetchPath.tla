------------------------------- MODULE FetchPath -------------------------------
(***************************************************************************)
(* How one page is fetched (modules/scraper/scraper_pool.py over           *)
(* fetch_backends.py, proxy_provider_limiter.py and page_cache.py).        *)
(*                                                                         *)
(* A fetch tries the backends of its shop's access mode in order, each a   *)
(* few times.  The paid proxy is asked once, after a look at the budget    *)
(* and a token of the fleet's bucket; both live in Redis, which may fail   *)
(* at any command.  Discovery leaves pages in a cache for the first scrape *)
(* of a listing, and all renders of a process share one browser.           *)
(*                                                                         *)
(* Fetchers are coroutines of any worker process; the shop, its access     *)
(* mode and the configuration of the proxy are fixed for a behavior.  A    *)
(* step is one Redis command, one request, or one wait.                    *)
(***************************************************************************)
EXTENDS ProxyLimiter, Sequences, FiniteSets

CONSTANTS
    Fetcher,
    Kinds,         \* which entry points this instance calls
    Modes,         \* access modes of the shop to consider
    Replies,       \* error codes a shop or the provider may answer with
    Attempts,      \* FETCH_ATTEMPTS_PER_LAYER
    MaxPages,      \* RENDER_PAGES_PER_BROWSER
    MaxFetches, MaxClock, MaxPuts, MaxFaults,   \* bounds
    NoOne

AllKinds ==
    {"listing",    \* fetch_listing_html
     "raw",        \* _fetch_raw, fetch_html, scrape_listing
     "static",     \* _fetch_static
     "sitemap"}    \* _fetch_sitemap_document
AllModes == {"direct", "render", "proxy", "proxy_render"}
ProxyModes == {"proxy", "proxy_render"}
NonRetriable == {"not_found", "blocked", "captcha", "rate_limit", "timeout"}
SkipErrors == {"budget", "deadline"}      \* PROXY_PROVIDER_SKIP_ERRORS
Codes == NonRetriable \cup {"fetch_failed"}
BrowserErrors == {"timeout", "fetch_failed"}

ASSUME FetchAssumption ==
    /\ IsFiniteSet(Fetcher) /\ NoOne \notin Fetcher
    /\ Kinds \subseteq AllKinds /\ Modes \subseteq AllModes
    /\ Replies \subseteq Codes
    /\ {Attempts, MaxPages} \subseteq Nat \ {0}
    /\ {MaxFetches, MaxClock, MaxPuts, MaxFaults} \subseteq Nat

VARIABLES
    mode, configured,   \* the shop's access mode; whether the proxy has credentials
    pc, loc,            \* where each fetch is, and its locals
    day, clock,         \* calendar day of the cycle; time in units of the bucket
    counts, costs,      \* proxy_provider:usage:<day>, proxy_provider:cost:<day>
    bucket,             \* the token bucket
    cache,              \* the cached page of the URL: its number, 0 if none
    browser,            \* the shared browser and who holds the render semaphore
    puts, fetches, faults,   \* counters of bounds
    granted,            \* history: tokens the bucket has given
    billed,             \* history: cost of the paid requests of the cycle
    excused,            \* history: cost of requests Redis could not check or was not told
    consumed            \* history: cached pages taken out of the cache

environment == <<mode, configured>>
ledger == <<counts, costs>>
vars == <<environment, pc, loc, day, clock, ledger, bucket, cache, browser,
          puts, fetches, faults, granted, billed, excused, consumed>>

Layer == [backend : {"direct", "proxy", "render"}, js : BOOLEAN]
PCs == {"idle", "cache_get", "cache_del", "direct", "budget", "costs", "token", "again",
        "fallback", "count", "cost", "post", "queue", "render", "done"}
Outcomes == {"none", "html", "failed", "skipped", "missing"}

Locals ==
    [kind : AllKinds, layers : Seq(Layer), attempt : 1..Attempts,
     fallback : BOOLEAN,            \* a sitemap document: the render after the static fetch
     deadline : BOOLEAN,            \* the caller gave a deadline
     page : 0..MaxPuts,             \* the page read from the cache
     read : [Day -> Nat \cup {NoKey}], today : Day,   \* budget_status_sync: counts, today
     out : Outcomes,
     asked : BOOLEAN,               \* history: a request
     before : SUBSET (1..MaxPuts)]            \* history: consumed when the fetch began

NoCounters == [d \in Day |-> NoKey]
NoLocals ==
    [kind |-> "raw", layers |-> <<>>, attempt |-> 1, fallback |-> FALSE, deadline |-> FALSE,
     page |-> 0, read |-> NoCounters, today |-> 0, out |-> "none",
     asked |-> FALSE, before |-> {}]

Init ==
    /\ mode \in Modes /\ configured \in BOOLEAN
    /\ pc = [f \in Fetcher |-> "idle"]
    /\ loc = [f \in Fetcher |-> NoLocals]
    /\ day = 0 /\ clock = 0
    /\ counts = NoCounters /\ costs = NoCounters
    /\ bucket = [tokens |-> Capacity, last |-> 0]
    /\ cache = 0
    /\ browser = [user |-> NoOne, open |-> FALSE, pages |-> 0]
    /\ puts = 0 /\ fetches = 0 /\ faults = 0
    /\ granted = 0 /\ billed = 0 /\ excused = 0 /\ consumed = {}

-----------------------------------------------------------------------------
(***************************************************************************)
(* The cascade.                                                            *)
(***************************************************************************)

\* _layer_order; js is wants_proxy_render unless the caller asks for no JS.
LayerOrder(requiresJs, noJs) ==
    LET direct == [backend |-> "direct", js |-> FALSE]
        render == [backend |-> "render", js |-> TRUE]
        proxy  == [backend |-> "proxy", js |-> mode = "proxy_render" /\ ~noJs]
    IN  IF mode \in ProxyModes THEN IF configured THEN <<proxy>> ELSE <<>>
        ELSE IF mode = "render" \/ requiresJs THEN <<render, direct>>
        ELSE <<direct, render>>

\* The two backends of a static document, whatever the access mode.
StaticLayers == <<[backend |-> "direct", js |-> FALSE], [backend |-> "proxy", js |-> FALSE]>>

TriesOf(layer) == IF layer.backend = "proxy" THEN 1 ELSE Attempts

\* Where a fetch stands that is to try the first of its layers.
PcOf(layers) ==
    IF layers = <<>> THEN "done"
    ELSE CASE Head(layers).backend = "direct" -> "direct"
           [] Head(layers).backend = "proxy" -> "budget"
           [] Head(layers).backend = "render" -> "queue"

Ended(l) == [l EXCEPT !.layers = <<>>, !.attempt = 1, !.deadline = FALSE]

Goto(f, l) ==
    /\ loc' = [loc EXCEPT ![f] = IF l.out # "none" THEN Ended(l) ELSE l]
    /\ pc' = [pc EXCEPT ![f] = IF l.out # "none" THEN "done" ELSE PcOf(l.layers)]

\* What a fetch without a document ends with.
Nothing(l) == IF l.kind = "sitemap" THEN "missing" ELSE "failed"

\* The render of a sitemap document that the static fetch did not bring.
RenderedFallback(l) ==
    LET layers == LayerOrder(TRUE, FALSE)
    IN  [l EXCEPT !.fallback = TRUE, !.attempt = 1, !.layers = layers,
                  !.out = IF layers = <<>> THEN "missing" ELSE "none"]

\* Mutant: a listing whose paid layer was skipped has failed.
AfterLayerStrikes(l, code) ==
    LET rest == Tail(l.layers)
        next == [l EXCEPT !.layers = rest, !.attempt = 1]
    IN  IF rest # <<>> THEN next ELSE [next EXCEPT !.out = Nothing(l)]

\* fetch_listing_html, _fetch_raw, _fetch_static_with_error and
\* _fetch_sitemap_document after a layer that gave up with code.
AfterLayer(l, code) ==
    LET rest == Tail(l.layers)
        next == [l EXCEPT !.layers = rest, !.attempt = 1]
    IN  IF l.kind = "listing" /\ code \in SkipErrors THEN [next EXCEPT !.out = "skipped"]
        ELSE IF rest # <<>> THEN next
        ELSE IF l.kind = "sitemap" /\ ~l.fallback
             THEN IF code \in SkipErrors THEN [next EXCEPT !.out = "skipped"]
                                         ELSE RenderedFallback(next)
        ELSE [next EXCEPT !.out = Nothing(l)]

\* _fetch_layer_with_retries: a backend answered with an error code.
Refused(l, code) ==
    IF /\ code \notin NonRetriable \cup SkipErrors
       /\ l.attempt < TriesOf(Head(l.layers))
    THEN [l EXCEPT !.attempt = @ + 1]
    ELSE AfterLayer(l, code)

\* A backend answered with a body; xml: it looks like a sitemap.
Answered(l, xml) ==
    IF l.kind # "sitemap" \/ xml THEN [l EXCEPT !.out = "html"]
    ELSE IF l.fallback THEN [l EXCEPT !.out = "missing"]
    ELSE RenderedFallback(l)

Asked(l) == [l EXCEPT !.asked = TRUE]

Answers(l) == {Answered(Asked(l), xml) : xml \in BOOLEAN} \cup {Refused(Asked(l), c) : c \in Replies}

Fault == faults < MaxFaults /\ faults' = faults + 1

-----------------------------------------------------------------------------
(***************************************************************************)
(* A fetch begins.  A listing looks into the page cache first.             *)
(***************************************************************************)
Call(f, kind) ==
    /\ pc[f] \in {"idle", "done"} /\ kind \in Kinds
    /\ fetches < MaxFetches /\ fetches' = fetches + 1
    /\ \E noJs, requiresJs, deadline \in BOOLEAN :
          LET layers == IF kind \in {"static", "sitemap"} THEN StaticLayers
                        ELSE LayerOrder(requiresJs, noJs)
              l == [NoLocals EXCEPT !.kind = kind, !.layers = layers, !.before = consumed,
                                    !.deadline = deadline,
                                    !.out = IF layers = <<>> THEN "failed" ELSE "none"]
          IN  /\ kind # "listing" => ~deadline /\ ~noJs
              /\ deadline => ~noJs       \* a scrape child, or the list-page harvest
              /\ kind \in {"static", "sitemap"} => ~requiresJs
              /\ IF kind = "listing"
                 THEN loc' = [loc EXCEPT ![f] = [l EXCEPT !.out = "none"]]
                      /\ pc' = [pc EXCEPT ![f] = "cache_get"]
                 ELSE Goto(f, l)
    /\ UNCHANGED <<environment, day, clock, ledger, bucket, cache, browser, puts, faults,
                   granted, billed, excused, consumed>>

\* A miss, or Redis does not answer.
Miss(f) ==
    LET l == loc[f] IN Goto(f, [l EXCEPT !.out = IF l.layers = <<>> THEN "failed" ELSE "none"])

CacheGet(f) ==
    /\ pc[f] = "cache_get"
    /\ \/ cache # 0 /\ loc' = [loc EXCEPT ![f].page = cache]
          /\ pc' = [pc EXCEPT ![f] = "cache_del"] /\ UNCHANGED faults
       \/ cache = 0 /\ Miss(f) /\ UNCHANGED faults
       \/ cache # 0 /\ Miss(f) /\ Fault
    /\ UNCHANGED <<environment, day, clock, ledger, bucket, cache, browser, puts, fetches,
                   granted, billed, excused, consumed>>

\* Mutant: a hit leaves the page in the cache.
CacheKept(f) ==
    /\ pc[f] = "cache_del"
    /\ consumed' = consumed \cup {loc[f].page}
    /\ Goto(f, [loc[f] EXCEPT !.out = "html"])
    /\ UNCHANGED <<environment, day, clock, ledger, bucket, cache, browser, puts, fetches,
                   faults, granted, billed, excused>>

CacheDelete(f) ==
    /\ pc[f] = "cache_del"
    /\ \/ /\ cache' = 0 /\ consumed' = consumed \cup {loc[f].page}
          /\ Goto(f, [loc[f] EXCEPT !.out = "html"]) /\ UNCHANGED faults
       \/ Miss(f) /\ Fault /\ UNCHANGED <<cache, consumed>>
    /\ UNCHANGED <<environment, day, clock, ledger, bucket, browser, puts, fetches,
                   granted, billed, excused>>

-----------------------------------------------------------------------------
(***************************************************************************)
(* Direct HTTP and the browser.                                            *)
(***************************************************************************)
Direct(f) ==
    /\ pc[f] = "direct"
    /\ \E l \in Answers(loc[f]) : Goto(f, l)
    /\ UNCHANGED <<environment, day, clock, ledger, bucket, cache, browser, puts, fetches,
                   faults, granted, billed, excused, consumed>>

\* Mutant: the browser is never recycled.
RenderAlways(f) ==
    /\ pc[f] = "queue" /\ browser.user = NoOne
    /\ browser' = [user |-> f, open |-> TRUE, pages |-> browser.pages + 1]
    /\ pc' = [pc EXCEPT ![f] = "render"]
    /\ UNCHANGED <<environment, loc, day, clock, ledger, bucket, cache, puts, fetches, faults,
                   granted, billed, excused, consumed>>

\* The semaphore, then _shared_browser: a browser that served its pages is
\* closed, a new one is launched; a launch may fail and is then no answer.
RenderBegin(f) ==
    /\ pc[f] = "queue" /\ browser.user = NoOne
    /\ LET recycled == IF browser.open /\ browser.pages >= MaxPages THEN 0 ELSE browser.pages
       IN  \/ /\ browser' = [user |-> f, open |-> TRUE, pages |-> recycled + 1]
              /\ pc' = [pc EXCEPT ![f] = "render"]
              /\ UNCHANGED <<loc, faults>>
           \/ /\ browser' = [user |-> NoOne, open |-> FALSE, pages |-> 0]
              /\ \E code \in BrowserErrors : Goto(f, Refused(loc[f], code))
              /\ Fault
    /\ UNCHANGED <<environment, day, clock, ledger, bucket, cache, puts, fetches,
                   granted, billed, excused, consumed>>

\* An error of the page leaves the browser open, one of the browser closes it.
RenderEnd(f) ==
    /\ pc[f] = "render"
    /\ \/ /\ \E l \in Answers(loc[f]) : Goto(f, l)
          /\ browser' = [browser EXCEPT !.user = NoOne] /\ UNCHANGED faults
       \/ /\ \E code \in BrowserErrors : Goto(f, Refused(Asked(loc[f]), code))
          /\ browser' = [user |-> NoOne, open |-> FALSE, pages |-> 0] /\ Fault
    /\ UNCHANGED <<environment, day, clock, ledger, bucket, cache, puts, fetches,
                   granted, billed, excused, consumed>>

-----------------------------------------------------------------------------
(***************************************************************************)
(* The paid proxy: budget, token, usage counters, request.                 *)
(***************************************************************************)
Jump(f, to) == pc' = [pc EXCEPT ![f] = to] /\ UNCHANGED loc

\* The proxy is not configured: no request, no bill.
ProxyOff(f) ==
    /\ pc[f] = "budget" /\ ~configured
    /\ Goto(f, Refused(loc[f], "fetch_failed"))
    /\ UNCHANGED <<environment, day, clock, ledger, bucket, cache, browser, puts, fetches,
                   faults, granted, billed, excused, consumed>>

Excuse(f) == excused' = excused + Weight(Head(loc[f].layers).js)

\* Redis does not answer: the guard lets the request pass.
Unguarded(f) == Fault /\ Excuse(f)

\* MGET of the counts.
BudgetCounts(f) ==
    /\ pc[f] = "budget" /\ configured
    /\ \/ /\ pc' = [pc EXCEPT ![f] = "costs"] /\ UNCHANGED faults
          /\ loc' = [loc EXCEPT ![f].read = counts, ![f].today = day]
          /\ UNCHANGED excused
       \/ Jump(f, "token") /\ Unguarded(f)
    /\ UNCHANGED <<environment, day, clock, ledger, bucket, cache, browser, puts, fetches,
                   granted, billed, consumed>>

\* MGET of the costs, and the decision.
BudgetCosts(f) ==
    /\ pc[f] = "costs"
    /\ \/ /\ IF Exhausted(loc[f].today, loc[f].read, costs)
             THEN Goto(f, [Refused(loc[f], "budget") EXCEPT !.read = NoCounters, !.today = 0])
             ELSE /\ pc' = [pc EXCEPT ![f] = "token"]
                  /\ loc' = [loc EXCEPT ![f].read = NoCounters, ![f].today = 0]
          /\ UNCHANGED <<faults, excused>>
       \/ /\ pc' = [pc EXCEPT ![f] = "token"] /\ Unguarded(f)
          /\ loc' = [loc EXCEPT ![f].read = NoCounters, ![f].today = 0]
    /\ UNCHANGED <<environment, day, clock, ledger, bucket, cache, browser, puts, fetches,
                   granted, billed, consumed>>

\* acquire_proxy_provider_token: out of time, a token, no token, no Redis.
Late(f) ==
    /\ pc[f] \in {"token", "again", "fallback"} /\ loc[f].deadline
    /\ Goto(f, Refused(loc[f], "deadline"))
    /\ UNCHANGED <<environment, day, clock, ledger, bucket, cache, browser, puts, fetches,
                   faults, granted, billed, excused, consumed>>

Token(f) ==
    /\ pc[f] \in {"token", "again"}
    /\ \/ /\ bucket' = Acquire(bucket, clock)
          /\ IF Granted(bucket, clock)
             THEN Jump(f, "count") /\ granted' = granted + 1
             ELSE /\ UNCHANGED granted
                  /\ IF pc[f] = "token" THEN Jump(f, "again")
                                        ELSE Goto(f, Refused(loc[f], "deadline"))
          /\ UNCHANGED faults
       \/ Jump(f, "fallback") /\ Fault /\ UNCHANGED <<bucket, granted>>
    /\ UNCHANGED <<environment, day, clock, ledger, cache, browser, puts, fetches,
                   billed, excused, consumed>>

\* _acquire_local_fallback: a slot of this process, which nobody accounts for.
LocalSlot(f) ==
    /\ pc[f] = "fallback"
    /\ Jump(f, "post")
    /\ Excuse(f)
    /\ UNCHANGED <<environment, day, clock, ledger, bucket, cache, browser, puts, fetches,
                   faults, granted, billed, consumed>>

Bumped(counters, d, by) == [counters EXCEPT ![d] = (IF @ = NoKey THEN 0 ELSE @) + by]

\* _record_usage_sync: INCR, then INCRBY, under the key of one day; best effort.
RecordCount(f) ==
    /\ pc[f] = "count"
    /\ \/ /\ counts' = Bumped(counts, day, 1)
          /\ loc' = [loc EXCEPT ![f].today = day]
          /\ pc' = [pc EXCEPT ![f] = "cost"]
          /\ UNCHANGED <<faults, excused>>
       \/ Jump(f, "post") /\ Fault /\ Excuse(f) /\ UNCHANGED counts
    /\ UNCHANGED <<environment, day, clock, costs, bucket, cache, browser, puts, fetches,
                   granted, billed, consumed>>

\* Mutant: only the number of requests is counted where the cost is due.
RecordCostNever(f) ==
    /\ pc[f] = "cost"
    /\ pc' = [pc EXCEPT ![f] = "post"] /\ loc' = [loc EXCEPT ![f].today = 0]
    /\ costs' = Bumped(costs, loc[f].today, 0)
    /\ UNCHANGED <<environment, day, clock, counts, bucket, cache, browser, puts, fetches,
                   faults, granted, billed, excused, consumed>>

RecordCost(f) ==
    /\ pc[f] = "cost"
    /\ pc' = [pc EXCEPT ![f] = "post"] /\ loc' = [loc EXCEPT ![f].today = 0]
    /\ LET weight == Weight(Head(loc[f].layers).js)
       IN  \/ costs' = Bumped(costs, loc[f].today, weight) /\ UNCHANGED <<faults, excused>>
           \/ Fault /\ Excuse(f) /\ UNCHANGED costs
    /\ UNCHANGED <<environment, day, clock, counts, bucket, cache, browser, puts, fetches,
                   granted, billed, consumed>>

\* The POST, billed whatever comes of it.
Post(f) ==
    /\ pc[f] = "post"
    /\ billed' = billed + Weight(Head(loc[f].layers).js)
    /\ \E l \in Answers(loc[f]) : Goto(f, l)
    /\ UNCHANGED <<environment, day, clock, ledger, bucket, cache, browser, puts, fetches,
                   faults, granted, excused, consumed>>

-----------------------------------------------------------------------------
(***************************************************************************)
(* The rest of the world: discovery fills the cache (a page that expires   *)
(* is as good as one that was never put), time and days pass.              *)
(***************************************************************************)
PutPage ==
    /\ puts < MaxPuts /\ puts' = puts + 1
    /\ cache' = puts + 1
    /\ UNCHANGED <<environment, pc, loc, day, clock, ledger, bucket, browser, fetches, faults,
                   granted, billed, excused, consumed>>

TimePasses ==
    /\ clock < MaxClock /\ clock' = clock + 1
    /\ UNCHANGED <<environment, pc, loc, day, ledger, bucket, cache, browser, puts, fetches,
                   faults, granted, billed, excused, consumed>>

NextDay ==
    /\ day < CycleDays - 1 /\ day' = day + 1
    /\ UNCHANGED <<environment, pc, loc, clock, ledger, bucket, cache, browser, puts, fetches,
                   faults, granted, billed, excused, consumed>>

Step(f) ==
    \/ CacheGet(f) \/ CacheDelete(f) \/ Direct(f) \/ RenderBegin(f) \/ RenderEnd(f)
    \/ ProxyOff(f) \/ BudgetCounts(f) \/ BudgetCosts(f) \/ Late(f) \/ Token(f) \/ LocalSlot(f)
    \/ RecordCount(f) \/ RecordCost(f) \/ Post(f)

Next ==
    \/ \E f \in Fetcher : Step(f) \/ \E kind \in AllKinds : Call(f, kind)
    \/ PutPage \/ TimePasses \/ NextDay

Spec == Init /\ [][Next]_vars

-----------------------------------------------------------------------------
TypeOK ==
    /\ mode \in AllModes /\ configured \in BOOLEAN
    /\ pc \in [Fetcher -> PCs]
    /\ loc \in [Fetcher -> Locals]
    /\ day \in Day /\ clock \in 0..MaxClock
    /\ counts \in [Day -> Nat \cup {NoKey}] /\ costs \in [Day -> Nat \cup {NoKey}]
    /\ bucket \in [tokens : 0..Capacity, last : 0..MaxClock]
    /\ cache \in 0..MaxPuts
    /\ browser \in [user : Fetcher \cup {NoOne}, open : BOOLEAN, pages : 0..MaxPages]
    /\ puts \in 0..MaxPuts /\ fetches \in 0..MaxFetches /\ faults \in 0..MaxFaults
    /\ granted \in Nat /\ billed \in Nat /\ excused \in Nat
    /\ consumed \subseteq 1..MaxPuts

\* The guard reads the counters, the token and the counters' update come
\* later: many fetches may pass it at the same moment.  Whatever they do,
\* the cycle's bill exceeds the budget by less than one request per fetch in
\* flight and what Redis could not check or was not told (budget_status_sync,
\* ProxyProviderBackend.fetch).
BudgetOvershootBounded ==
    MonthlyCap > 0 =>
        billed < (MonthlyCap + Cardinality(Fetcher)) * JsWeight + excused

\* The bucket keeps the fleet's rate: in any time, no more tokens than it
\* held and refilled, whoever asks in whatever order (_ACQUIRE_LUA).
RateBounded == granted <= Capacity + clock * Rate

\* What ends as a failure of the shop was put to the shop, and a fetch that
\* was skipped was not: a failure strikes the listing, a skip does not
\* (fetch_listing_html: deadline_skipped).
FailureWasAsked ==
    \A f \in Fetcher :
        /\ pc[f] = "done" /\ loc[f].kind = "listing"
        => /\ loc[f].out = "failed" /\ configured => loc[f].asked
           /\ loc[f].out = "skipped" => ~loc[f].asked

\* A page bridges discovery and one scrape: what a fetch took out of the
\* cache is never served to a fetch that begins later (page_cache.get_html).
PageServedOnce ==
    \A f \in Fetcher :
        loc[f].page # 0 /\ loc[f].out = "html" => loc[f].page \notin loc[f].before
=============================================================================
