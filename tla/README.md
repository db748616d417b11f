# Verification of the imperecta pipeline

TLA+ models of the price-monitoring backend under `src/backend`, checked with
TLC and proved with TLAPS. The subject is the distributed "full pipeline" run:
an admin triggers it, ticks of an orchestrator dispatch child tasks per
marketplace, child tasks scrape listings, and Postgres rows, Redis keys and
Celery messages are the only things the processes share. Around it stand the
programs that feed it and live on it: the enumeration of a shop's sitemap, the
discovery runs, the writes to the product pool, the harvest of list pages, the
path of a fetch through caches, browsers and a paid proxy with a budget, the
ingestion of prices and market quotes, the alerts on them, the matching of products,
the accounts, and the gate through which all of them write.

Paths below are relative to `src/backend/app` unless they start with `src/`.

## 1. Inventory

| Component | State it keeps | Operations | Talks to |
|---|---|---|---|
| Tick orchestrator (`modules/scraper/pipeline/tick_orchestrator.py`) | parent job row, its `config.metadata` (phase, `mp_queue`, cohort anchor, last dispatch per marketplace), child job rows, advisory lock | `run_tick`: load, reap, reconcile, count, dispatch, touch, re-enqueue, complete, safety net | broker (its own successor, child tasks), child rows, run completion |
| Metadata store (`modules/scraper/pipeline/metadata_store.py`) | the parent's metadata as one JSON value | `load`, `touch` | orchestrator, gated writes |
| Child tasks (`modules/scraper/tasks.py`) | child job row; locals of the batch loop | `discover_one_marketplace`, `scrape_one_marketplace`, fan-out and its shards | listings, parent metadata (pulses), broker |
| Activity pulses (`modules/scraper/pipeline/activity_pulse.py`) | none (read, modify, write of the parent's metadata) | pulse, parent heartbeat | parent row |
| Run completion (`job_completion.py`, `child_aggregation.py`) | none | aggregate seeds, decide the verdict, write it | child rows, scrape logs |
| Admin API (`api/parsing_admin.py` and helpers) | none | trigger, cancel, fail stale runs | parent row, broker |
| Watchdog and reaper (`workers/reaper_tasks.py`) | none | revive stalled chains, fail stale jobs | job rows, broker |
| Scrape service (`modules/scraper/service.py`) | `fact_listing` row: `failure_streak`, `last_checked_at`, `is_active` | success, failure, proxy skip, prune, deactivate | persist layer, fetch backends |
| Ingestion (`modules/ingestion`) | `fact_price` rows, the denormalized price of a listing, adaptive check interval | insert, or touch on no change | card scrapes, list harvest |
| Discovery orchestrator and cursors (`modules/discovery`) | row of the shop: sitemap offset, category list and index, frontier of the walk | sitemap, category walk, harvest, abort, final snapshot | proxy budget, pool writes |
| Sitemap enumeration (`workers/onboarding_tasks.py`, `modules/discovery/sitemap_enumerator.py`) | Redis: pending counter, shard counts, categories, parked runs; of a walk: queue, prefetch, batches | coordinator, shard, last-shard finish, budget retry; walk of a tree | broker, Redis, marketplaces, pool writes |
| List-page harvest (`workers/harvest_tasks.py`) | Redis: cursor and list mode per shop, rotation of the shops | tick, harvest, advance | ingestion |
| Pool writes (`modules/discovery/gate_persist.py`, `modules/persist`) | products, listings | savepoint per chunk, per-pair retry | data firewall |
| Data firewall (`modules/data_firewall`, the gate functions of the migrations) | the signing secret: in the vault, in the settings, in each process | doors that check and sign, persist that checks again, the gate that verifies and executes; traces of what is refused | every gated write |
| Market data (`modules/market_data`, `modules/currency`) | rows per day, instrument and provider; log rows | ingest of three rails, readers of a rate | providers, prices of listings |
| Accounts (`modules/users`, `modules/core`) | rows of `users`: flags and the JSON of the preferences | administration, start of the backend, writes of one key | admin UI, pages of the frontend |
| Proxy limiter, host throttle (`modules/scraper/proxy_provider_limiter.py`) | Redis token bucket, usage counters; local fallback | budget check, acquire, record | every paid fetch |
| Fetch backends, page cache (`modules/scraper/scraper_pool.py`, `fetch_backends.py`, `page_cache.py`) | shared browser, cached pages | fetch through the layers of an access mode | limiter, shops |
| Log relay (`pipeline/worker_log_relay.py`) | Redis list, index counter | emit, poll | admin UI |
| Alert engine (`modules/alerts`, `workers/alert_tasks.py`) | rules with watermark, events | evaluate, deliver, record, mark | price rows, telegram |
| Matching (`modules/matching`, `workers/matching_tasks.py`) | group and method of each product, sweep cursor in Redis | drain, sweeps, title merge, type split | ingestion, enrichment |
| Enrichment, news, analyst, product pool, visualisation | one row or one table each | request handlers, periodic upserts | - |
| Frontend, Rust helpers, migrations | - | - | - |

`PROJECT.json` gives each component its status and `hazards` lists the places
where the code can go wrong, by line.

### What is hard in this code

* **One metadata value, many writers.** Ticks, pulses of children, and cancel
  all read the parent's whole metadata, change one key and write all of it
  back. Lost updates are normal; the run has to survive them.
* **Writes by id.** Job rows are updated with `WHERE id = ...` and no condition
  on the status, by the worker that owns the row, by the tick's reap, by the
  global reaper and by the cancel.
* **At-least-once delivery.** All tasks use `acks_late` with
  `reject_on_worker_lost`, and the reconcile sends pending children again, so
  a task may run twice, also at the same time.
* **A chain that feeds itself.** Each tick must enqueue its successor on every
  path; a beat watchdog is the backstop.
* **Two predicates for one cohort.** The tick counts listings with one
  predicate and the child selects them with another, on rows that children,
  shards of the scheduled fan-out and pruning change meanwhile.
* **Read, wait for the network, write.** Discovery runs, harvests and scrapes read
  a row, fetch pages for minutes, and write what they computed from it. The budget
  guard of the paid proxy is a read too, and the spending comes later.
* **Cursors into lists that others replace.** A run stops anywhere and leaves an
  index; the list it points into may be another one when the next run reads it.
* **Passes over the whole table, twice at once.** Matching and alerts read, compute
  and write in separate transactions, and nothing keeps two passes apart. Nor are two
  ingests of market quotes, or two requests of administrators, kept apart.
* **A refusal rolls back its own trace.** Every write passes three checks, with a
  secret that lives in three places; what is refused is to be found in a table
  afterwards, though the transaction that refused it is gone.

### What makes each component correct

* Orchestrator: no marketplace is forgotten; the cap on children holds; phases
  do not overlap; the chain of ticks stays alive; a run ends; a cancelled run
  stops dispatching.
* Children and scrape service: a listing is scraped once per run and switched
  off only by failures the shop caused, in a row; a child's verdict
  tells what it did; the cohort drains.
* Watchdog and reaper: revive only what stalled, fail only what is not alive.
* Sitemap enumeration: no shard is lost; the last shard finds the counts and the
  categories of all; the estimate reaches the total, never exceeds the
  catalog and never shrinks.
* Discovery cursors: no exit skips a category; a walk loses none; "completed" says
  that nothing was left out.
* Sitemap walk: what was fetched and parsed is written, however the walk ends.
* List harvest: a pass leaves no page out; no shop waits for ever.
* Pool writes: no product without its listing; the counts returned are the rows
  written; overlapping writers lose nothing between them.
* Proxy limiter: the rate is held; the bill exceeds the budget by the requests
  under way at most, whatever Redis does.
* Fetch: a failure that counts against a listing is the shop's; a cached page is
  served once.
* Ingestion and alerts: the listing shows the newest row of its history; no alert
  says what the one before said.
* Matching: the strongest identity wins in the end, and the groups come to rest.
* Data firewall: what a door has signed, persist and the gate accept; what is not written
  leaves a committed trace.
* Market data: what an ingest reports is stored; two ingests do not block each other; one
  rate per currency and day.
* Accounts: somebody administers the system; a confirmed preference stays.

## 2. Modules

| Module | What it is |
|---|---|
| `PipelineContract` | abstract: a run over a set of marketplaces, seen by the admin |
| `TickOrchestrator` | the distributed run: ticks, child workers, admin, watchdog, reaper, broker |
| `MCTickOrchestrator` | its instances for TLC (two marketplaces, symmetry of workers) |
| `TickOrchestratorProofs` | type correctness, `NothingForgotten`, refinement of the contract |
| `TickSlotsProofs` | the lock, late dispatches, the chain of ticks, slots, the barrier between phases |
| `TickVerdictProofs` | verdict after the drain, one discovery child per marketplace |
| `ScrapeCohort` | one marketplace's listings under scrape children and fan-out shards |
| `MCScrapeCohort` | its instance for TLC |
| `ScrapeCohortProofs` | type correctness, `DeactivationIsEarned`, `CompletedIsChecked`, `CompletedIsDrained`, `ScrapedOncePerAnchor` |
| `SitemapFanOut` | the enumeration of one shop: coordinator, shards, Redis counter, retry tick |
| `MCSitemapFanOut` | its instance for TLC |
| `SitemapFanOutProofs` | type correctness, `NothingLost`, `LastShardIsLast` |
| `DiscoveryRun` | discovery runs of one shop, beside and after each other, and their cursors |
| `SitemapWalk` | one walk over a tree of sitemaps: prefetch, election of a locale, batches written in a thread |
| `PoolWriter` | writers with overlapping batches: firewall, savepoints, row locks, deadlocks |
| `HarvestCursor` | harvest runs over the list pages of one shop |
| `HarvestRotation` | which shops a harvest tick picks |
| `MarketData` | ingests of market quotes on three rails, and the reader of rates to the dollar |
| `UserAccounts` | administration of accounts, and the preferences several pages share |
| `MCStore` | instances of these seven, and of `ScrapeCohort` with one listing |
| `StoreProofs` | theorems about accounts, market quotes, the rotation of the harvest and its cursor |
| `Subsequences` | a filter of sequences as a definition that a proof can use (no recursion) |
| `PoolProofs` | theorems about pool writes, the sitemap walk and discovery runs, and the types of all seven |
| `ProxyLimiter` | arithmetic of the token bucket and of the budget of a billing cycle |
| `FetchPath` | fetches through page cache, direct, rendered and paid layers |
| `PriceIngest` | ingests of one listing: copy, page, history row, denormalized copy |
| `AlertEngine` | evaluations of alert rules on top of `PriceIngest` |
| `GateWrite` | one write through door, persist and gate, and the traces of a refusal |
| `MCServices` | instances of `FetchPath`, `AlertEngine` and `GateWrite` |
| `ServicesProofs` | theorems about the gate, the ingests, the alerts, the fetches and their budget, and the types of all three |
| `Matching` | overlapping matching ticks while identities arrive |
| `MCLive` | instances of `Matching` and `ScrapeCohort` with their fairness |

`MCStore`, `MCServices` and `MCLive` check several models in one run. The variable
`part` is chosen from the constant `Parts` in the initial state and never changes; the
variables of the other parts stand still (at 0, or at one initial state), so the
state space is the sum of those of the parts, not their product. The parts do not
interact: composition in the strict sense is `AlertEngine` on `PriceIngest`, `FetchPath`
on `ProxyLimiter`, and `TickOrchestrator` under `PipelineContract`.

### TickOrchestrator and the code

A step is one database statement that commits, or one read whose result is
used later. State:

| Variable | Code |
|---|---|
| `status`, `meta` | parent row of `scrape_jobs`: `status`, `config.metadata` |
| `child`, `inserted` | child rows (kind, marketplace, status), in order of insertion |
| `tickMsgs`, `childMsgs` | undelivered `orchestrator_tick` and child messages |
| `lockOwner` | `pg_try_advisory_lock` of `orchestrator_tick:<parent>` |
| `tpc`, `tmeta`, `tloc` | where each tick is, its metadata dict, its local variables |
| `wpc`, `wchild`, `wseen` | where each worker is, its child, the metadata its pulse read |
| `api`, `apiSeen`, `targets` | the admin request in progress; the reaper's selected rows |
| `cohort` | listings per marketplace not checked since the anchor |
| `skipped`, `late` | history: refused inserts; children inserted after the end |

`run_tick` is `TickAcquire` or `TickLockBusy`; then `TickLoad`, `TickReap`,
`TickMark` (one UPDATE per stale child), `TickReconcile`, `TickCount`,
`TickDispatch`/`TickSend` (insert and `apply_async`, once per turn of the
loop), `TickTouch`, `TickReenqueue`, `TickUnlock`; in phase "complete",
`TickComplete` instead of the dispatch. `TickError` and `TickNet` are the
exception path with the safety net of the `finally` block, `TickCrash` the
death of the process. A worker is `WorkerTake`, `WorkerMark`, pulses
(`WorkerPulseRead`, `WorkerPulseWrite`), `WorkerCheck` and `WorkerFinish`.

Abstractions: ages ("older than 120 s") are nondeterministic. By default only
children whose message and worker are gone grow that old; the events "stale"
and "overdue" lift that. The gate is a write that may be refused ("reject"), of the parent and of children
(`SetChild`): no caller acts on the refusal.
Messages of a kind are a count, delivered in any order. The constant `Events`
chooses which environment events an instance has.

### ScrapeCohort and the code

`row` holds the listing rows of one marketplace: `checked` is `last_checked_at`, as the
number of anchors set by then, `due` "its own interval has elapsed", `streak` the
`failure_streak`. The cohort anchor is a time in the parent's metadata and has steps of
its own: a tick that finds none sets one in its copy (`SetAnchor`), sends children (`Dispatch`),
and saves it last (`SaveAnchor`; with "stale", whoever writes a copy back saves an older one, or
none). The next tick that finds none sets another. A child reads the saved anchor when it
starts (`StartChild`), and selects without one when there is none (`Selectable`).
Then come `Select` (the batch SELECT, which has a LIMIT and no ORDER BY), per listing
`Read` and an outcome (`Success`, `Failure`, `ProxySkip`, `WriteLost`, `Prune`, `Missing`),
`BatchDone`, and an end (`Select` without new listings, `Full` at the number of listings a run
may take on, `Deadline`, `Fatal`). A shard of the fan-out works on ids handed to it. The
outcomes write counters computed from what `Read` saw, which is how updates get lost.
`NewRun` starts a later run without an anchor: everything is unchecked again, streaks stay.

`TickOrchestrator` sees a cohort as a number per marketplace (`WorkerCheck`
decrements it, "undrained" lets a child leave a rest, at the price of a fault);
`ScrapeCohort` is the detail of one such number.

### SitemapFanOut and the code

A step is one Redis command or one database statement of
`workers/onboarding_tasks.py`, for one shop. State:

| Variable | Code |
|---|---|
| `shop` | the `dim_marketplace` row: `catalog_size_estimate`, `discovered_category_urls` |
| `pending`, `counts`, `stash` | the Redis keys `enumrun:<shop>:<run>:pending`, `:counts`, `:cats` |
| `queue` | undelivered messages of the two tasks, with their `budget_attempts` |
| `parked`, `retry` | the hash `enum:budget_retry`; what the retry tick read and where it is |
| `pc`, `job` | where each worker is, and its local variables |
| `peak`, `begun`, `sent`, `ticked`, `given`, `blurred`, `dropped` | history, read by properties only |

The coordinator is `StartRun` (SET of the counter), `SendShard` per chunk,
`SentAll`, or `StartInline` and `InlineDone`/`InlineBudget` when the index has
fewer than two files. A shard is `WalkDone` (walk and stash), `RecordCount`
(HSET), `Decrement` (DECR); the one that finds no positive number goes on with
`AddUp` (HVALS), `LoadShop`, `WriteEstimate`, `ReadCategories` (SMEMBERS),
`DeleteCategories` (DEL), `Publish`. `OutOfBudget` and `Park` are the budget skip,
`RetryRead`, `RetrySend`, `RetryDelete` the nightly tick.

Abstractions: a walk is one step, that sees the whole shard (`Size`) or, as a
fault, less; each shard lists one category, named by the shard; run ids are
drawn from the set `Run` and never reused, as the random ids of the code; the
gate accepts the two writes of the row. A message that a tick sends keeps its
attempts, so parking counts nights. `Crash` and `Overtime` put the message
back: `acks_late`, and the visibility timeout of the broker (lines 31-36 of
the source describe it). `Lapse` loses one of a run's keys.

### Discovery, walks and the harvest, and the code

`DiscoveryRun`: `Start` loads the row (`mem`) and chooses the path; a sitemap run
is `SitemapUseful` or `SitemapUseless`, `Dedup`, `SaveStep` (a batch and the offset
in memory); a category run is `Category`, `BfsStep` per page of the walk, `BfsLate` or
`BfsEnd`, `Plan`, `HarvestStep` per category, or one of the stops `HarvestLate`, `HarvestCut`, `HarvestEnd`. `Finish`
writes all cursors of `mem` back in one UPDATE, `Fail`, `Crash` and `Deadline` are
the other ends. `MergeLoad` and `MergeWrite` are an enumeration's last shard, which
replaces the category list. A page is its links and its products; ages ("stale",
"fresh") change nondeterministically.

`SitemapWalk`: `Dispatch` and `Answer` are the prefetch window, `Await` takes answers
in the order of dispatch and extends the queue with the children that
`select_sitemap_subfiles` keeps, `Entry` compares one URL with the pool, `Flush`
waits for the write under way and starts the next, `Write` is its thread. The Rust
version of the selection is assumed to do what the Python version does.

`PoolWriter`: `Evaluate`, then per chunk `FastProducts` and `FastListing` (one row of
the INSERT), or `FastRefused` and pair by pair `SlowProduct`, `SlowListing`,
`SlowRefused`, and one `Commit` for the batch. An insert of a URL that another open transaction
inserted waits; a cycle of waits fails one statement.

`HarvestCursor`: `Begin` reads the list, `LoadCursor` the cursor, `Probe` finds the list
mode; `PageHarvested`, `PageEmpty`, `BudgetStop`, `QuotaReached`, and `SaveCursor`
once at the end. Each run has the page quota `Limit`. `HarvestRotation`: `TickRead`, `TickPick`.

### FetchPath and the code

A step is one Redis command, one request or one wait. `Call` chooses the entry
point; `CacheGet`, `CacheKept`, `CacheDelete` are `page_cache.get_html`; `Direct`
one attempt; `RenderBegin`, `RenderEnd` the shared browser behind its semaphore;
the paid layer is `BudgetCounts`, `BudgetCosts` (the guard's two reads), `Token` or
`LocalSlot`, `RecordCount`, `RecordCost`, `Post`. `Late` is the deadline of the
caller. What a page contains is a nondeterministic outcome; the layers of a mode
and the retries are those of the code. Clocks of the workers are assumed equal.

### Prices and alerts, and the code

`PriceIngest`: `Load` copies the row, `See` the page's price and its `scraped_at`,
`Insert` deletes the rows of the day that are committed by then and inserts,
`CommitPrice` makes row and copy visible, `CommitNoChange` writes only the listing,
`Rollback` and `Reject` write nothing. A refused update of the copy beside an
accepted row is not modelled: the firewall signs or refuses both.
`AlertEngine`: `Begin` takes `now` and reads the rules, `ReadFacts` the newest row
and the last events, then per rule `Skip`, or `Deliver`, `RecordEvent`, `MarkRule`, each of
which may be refused; `Abort` ends an evaluation at any step. One listing, one
currency, prices as small numbers, three stamps to a day.

### Matching and the code

A step is one query, one committed chunk, or one Redis command. A tick is `Start`
(drain of the pending), `ReadGtinSweep`, `ReadTitleSweep`, `ReadTitleGroups`, the wrapping
re-sweep `ReadCursor`, `ReadPage`, `SaveCursor`, and the type split `ReadTypes`, `ReadMembers`; `WriteChunk`
writes a chunk or, when that fails, its rows one by one. `Arrive` is a scrape or the enrichment.
A group id is the text it is a hash of, as a tuple; `Smaller` is the order of the
hashes, which decides the winner of a merge.

### MarketData, UserAccounts and the code

`MarketData`: `Begin` is an ingest of all rails or of the commodities alone, `Fetch` the
queue of providers with the gaps the second one fills, `EnsureDimDate` the row of
the day, `WriteItem` one upsert in the order of symbols, which waits for
the transaction that holds the key; `CommitWithLog`, `LogRollsBack`, and for coins
`CommitCrypto` before `LogCrypto`, are the end of a rail, `FetchRaises`, `StatementRaises`,
`RefuseItem`, `LogError`, `Abort` what may go wrong. `LoadFromDb` reads the
newest day's rates to the dollar. A quote is its provider and the time of its fetch;
amounts are left out.

`UserAccounts`: a request is `Authorize` (role of the author), `Load`,
`CountSuperusers` (the guard of the last superuser), `WriteAccount`; a start
of the backend is `LookForSuperuser`, `CreateSuperuser`; a write of a preference is
`ReadPreferences` and `WritePreferences`, which writes the whole value. `Fail` ends a request
anywhere. Registration, tokens and passwords are left out.

### GateWrite and the code

`Submit` opens a bridge (`persist/*_write.py`) for one of the tables and operations
its callers ask for; `Authorize` is the door, whose first failing check is the
reason; `RejectPersist` the second look of `persist/writer.py`; `AssertSignature` and
`Execute` the SECURITY DEFINER functions of the migrations 039 to 050, with the lists of
tables as they stand after 050; `HandleInvalidSignature`, `HandleSigningUnavailable`,
`HandleRpcError` what the caller does with their errors; `Commit` the end of the bridge.
`RotateVault`, `RotateSetting` and `Restart` make vault, settings and process
disagree. A row is the set of checks it fails. A trace is written in a session of its own, which may
fail (`Isolated`). The row of `reject_data` that the handler of an invalid
signature adds to the caller's session is never committed, because the caller rolls back: it is
no trace here, though `docs/GATE_ALERT_REGISTRY.md` calls it a backup.

The writers that pipeline many rows call the gate without a bridge: pool writes, matching
(`matching/engine.py:221`) and the walk (`sitemap_enumerator.py:165`) are modelled in
their own modules, and the last two swallow a gate error without a trace.

## 3. Runs

Passing runs:

| Run | Question | Result |
|---|---|---|
| `stale_copies` | Can whole-metadata writes by pulses, cancels and crashed ticks make a run forget a marketplace, or break the contract? | no; and a cancelled run inserts at most `MaxParallel` more children |
| `slots` | Do two ticks and two workers with a crash, pulses, a surplus chain and a cancel respect the cap and the phase barrier, and does the chain of ticks stay alive? | yes |
| `serial` | Without crashes, with reapers, copies, lost re-enqueues and children that leave a rest: one discovery child per marketplace, verdict only after the cohort is drained? | yes |
| `live` | Does a triggered run end, with one crash, exception, lost message, abort, or child that leaves a rest of its cohort? | yes |
| `cohort_serial` | One child at a time, run after run, with anchors that are saved late, lost and set anew: scraped once per anchor, honest verdict, nothing selectable left by a completed child? | yes |
| `fanout` | Is a shard ever lost, does the last shard find the counts of all, does the estimate reach the total, with one fault anywhere? | none is lost; it does, while no shard decremented twice and no key expired; it does |
| `store` | Ten parts. Cursors of overlapping discovery runs (`ResumeHonest`); products and listings of overlapping writers (`NoOrphan`, `WritesAccounted`); a sitemap walk with prefetch (`WalkAccounted`); a list harvest that resumes, the rotation of shops (`HarvestCovers`); two children and a shard on one listing (`DeactivationEarned`); two ingests of forex, or of coins and commodities (`ReportedIsStored`, `NoEmbrace`); two administrators (`SuperuserRemains`); two pages and one user's preferences (`NamespacesKept`) | cursors never pass a category that was not worked off; no orphans, true counts, nothing lost; nothing parsed is left behind; no page is left out, no shop starves; switched off by real failures only; what is reported is stored, nobody blocks anybody; a superuser remains, confirmed keys stay, unless two requests cross |
| `services` | Three parts. Two fetches through caches, browser and paid proxy (`ProxyBounded`, `FetchHonest`); ingests of one listing that may cross, with one evaluation of alerts, or overlapping evaluations with one ingest at a time (`ListingShowsNewest`, `NothingReportedTwice`); a write of every door, table and operation (`SignedIsAccepted`, `RefusalLeavesTrace`) | the budget is overrun by the requests under way at most, the rate held, a failure is the shop's, a page served once; the newest row, while no ingests cross; nothing twice, but for what is listed below; what is signed is written, what is not leaves a trace |
| `settles` | Does a cohort become empty? Does a gtin that arrives late win, and do the groups come to rest, while two ticks overlap? | yes; yes |

Runs that show a disagreement between the code and what it says of itself:

| Run | What happens |
|---|---|
| `duplicate_discovery` | A tick dies after the insert of a child and before `store.touch`; the next tick pops the same code and inserts a second child. `tick_orchestrator.py:69` says "we never insert a duplicate". |
| `usd_fallback` | The provider of exchange rates answers without the dollar. The rows keep their rate to EUR where the rate to USD should be, and the display converter shows an amount in EUR as USD. `currency/display_converter.py:7` says that "no fallback/mock rates are produced". |
| `split_lands_apart` | A type in the minority is moved to a sub-group; when more of its products arrive, they are dominant in what is left and stay, and nothing brings the first one back. The docstring of `run_type_split_pass` (`matching/engine.py:404`) says that "a future member of either type lands consistently". |

### Bounds and why they are enough

* Two marketplaces: the queue is then non-empty, popped and empty, and one may
  be lost while the other is dispatched. One slot (`MaxParallel = 1`) makes
  every slot contended; two ticks and two workers are the least that race
  (`slots`; `serial` has two ticks and one worker, whose children may be reaped
  under it, because the reaper is in it too).
* `MaxChildren` (2 to 5): enough for both marketplaces in discovery plus, where
  the phase matters, a scrape child and a repeated one. The bound is a guard of
  the dispatch loop: a tick at the bound behaves as one whose slots are full.
  In `stale_copies` (2) the runs reach discovery of both marketplaces and
  the change of phase with none left to insert; `slots`, `serial` (3) reach
  the scrape phase with a child; `live` (5) leaves room for a child that is
  reaped and dispatched again.
* `MaxCohort = 1`: a marketplace is drained or not; the number does not matter
  to the tick but for the order of dispatch.
* `MaxCopies = 1`, `MaxFaults = 1`, `MaxRevives = 1`: one duplicate, one fault,
  one surplus chain per run. In `serial` two faults: a scrape child that ends with a rest counts
  as one, and so does a re-enqueue that the broker loses. `MaxFaults` also says what `live`
  assumes: crashes, exceptions, lost messages, aborts and children that leave a rest stop
  eventually.
* `cohort_serial`: three listings in batches of two, three listings per child at most, so that a
  full batch, a short one and an empty one occur, and a child that has taken on all it may
  (`Full`); two anchors, so that one is saved, lost and set
  anew within a run (a child with the older one, a child with none); any number of runs. One
  outcome that writes nothing, and the first failure switches a listing off: failing listings
  that stay in the batches are the subject of `settles`, streaks of several failures
  that of `store`. A shard takes part only to prune one listing while nothing has
  failed (`ShardPrunesOnce`): that a row vanishes under a child.
* `settles`, cohort: two listings in batches of one, one listing per child, limit of three
  failures, two anchors, two outcomes that write nothing. The batch is smaller than the
  cohort, and each child stops at its limit (`Full`) with a rest.
* `fanout`: two shards of different size on two workers, one request, one run id,
  one fault of any kind, one night of parking. The least in which a first and a last
  shard, a copy beside its original, and a parked shard beside a finished one
  exist; a third shard adds no new role. One fault also bounds what liveness
  assumes: faults stop.
* `store`, discovery: two runs and one merge beside them; a shop of a home page and two categories that link in a
  circle, three products. One run can be stopped at every place and another resume there.
  Three writers with batches (`WriteBatches`) in opposite orders are the least with a deadlock of three; chunks of two make
  a chunk that fails in its second row; one address is refused by the firewall. The walk has an index in an index, two locales, a document reached
  twice, and prefetch of two; two failures. The harvest has a category of two pages, one that links
  to itself, and a list that is replaced once. The rotation has three shops, one per tick, two
  tickers, eight ticks: `Rounds * 2` is six.
* `store`, one listing: two children and a shard, so that a failure and a success may both be written from an older
  row; limit of three; one anchor.
* `store`, market: two ingests over two days; two currencies (`Instruments`: the order of writes and of locks needs
  two), a coin, a metal (`Metals`: metals and energy have different providers); two fetches per rail. An ingest
  that is overtaken, one that is refused, and one with a gap filled by another provider all occur.
* `store`, accounts: two requests at a time over three accounts, so two may count each other; three writes of
  preferences under three keys. Nothing bounds the number of administrations.
* `services`, fetch: two fetches at a time, three in all, capacity and rate of one token, a budget of one
  request for two days: the second request is over it. One failing Redis command.
* `services`, ingests and alerts: prices 1 and 6 (each is suspicious to a list page that knows the other: a change from 6 to 1 is a drop
  of more than the threshold), five stamps over a day's end, two events, one edit, one flip. Crossing ingests are
  checked with one evaluation at a time and no edits, overlapping evaluations with one ingestor: the property speaks
  of evaluations that ran alone.
* `services`, gate: every door with every table and operation its callers ask for; one or two rows with at most one
  defect each, two values of the secret or none, two changes of it, and one statement, process or trace that
  fails: the least in which vault, settings and process all differ, and a refusal loses its trace.
* `settles`: three products, one of which may join either of the others; one failure; two tickers.
  `split_lands_apart` needs four products of one signature.

### Fairness

`live` assumes that a queued message is delivered and a task goes on until
it ends (Celery consumers run for ever; each child task has a deadline, a soft
and a hard time limit: strong fairness of `WorkerFinish` because pulses
interleave), that the API request that inserted the parent enqueues its tick
or is lost as a counted fault, that the age thresholds of reap and reconcile are
met in the end by orphans (`TickReapsOrphans`, `TickReconcilesLost`: time
passes; strong, because they are steps of one recurring tick) and that beat
runs the watchdog (every minute) when no tick is left. Nothing is assumed of
the scheduling of dispatches. Of faults it assumes that they stop, by the bound `MaxFaults`, and
a scrape child that ends with a rest of its cohort counts as one. That is an assumption
about the shops and not about the scheduler, and the code has no bound for it: a child ends
with a rest by its deadline, at listings that fail or are not due, at the number it may take
on, or without proxy budget (`tasks.py:483-490`, 513-524, 799-813), and the tick then sends
another one. A shop of which each child leaves a rest keeps the run in its scrape phase until
it is cancelled or the reaper takes it. `settles` shows for one cohort where such rests come to an end.

`settles` (cohort) assumes that ticks set the anchor, save it and dispatch children, and that
children go on. Stale copies of the metadata are left out: a writer that puts an older copy
back for ever keeps the anchor unsaved. It does not assume that a scrape ever succeeds: a listing that keeps failing is
switched off. It does rest on `MaxSkips`: outcomes that write nothing (no
proxy budget, rolled back commits, deadlines) are finitely many. While the
proxy has no budget a cohort does not drain, and the code has no bound for it. The cohort is
the listings there are at the start: those that join it meanwhile are not modelled.
`settles` (matching) assumes that beat goes on sending ticks and a worker goes on
with the one it has (weak fairness of `TickStep`); facts need not arrive.

`fanout` (for `EstimateCatchesUp`) assumes that workers go on while there is a
message or a task (weak fairness of `Work`) and that beat runs the retry tick.
It does not assume that a walk ever finds budget: the property speaks of runs
whose shards all reported.

### Limits of what holds

Instances outside the passing runs in which the same properties fail; each is
a statement about the code, found with these modules:

* `SlotsBounded` fails with "beat" and two workers: the reaper (or the tick's own
  reap) fails a child that a worker is about to mark running; `WorkerMark`
  writes "running" by id and the slot given away meanwhile is taken twice. The
  reaper's own UPDATE has no condition on the status either (310-324), though its
  docstring says so (`workers/reaper_tasks.py:245-247`): a child that finishes
  after the SELECT is failed.
* `ChainAlive` fails with "error": an exception while loading the parent, or
  in phase "complete", is outside the safety net (`tick_orchestrator.py:777-782`).
  The watchdog repairs it: `live` includes the event and passes.
* A child that counted a failure may end before it tried everything: failing
  listings stay selectable, the SELECT has no ORDER BY, and when they fill a
  batch again the loop stops (`tasks.py:513-524`, whose comment takes this for
  "mocked/inconsistent sessions"). `CompletedLeavesNothing` is therefore stated
  of completed children; `settles` shows that the cohort drains
  nevertheless, over several children.
* A listing may be scraped twice in one run, which the comment at `tasks.py:465-466` rules out ("excludes
  listings already scraped in this run"). The tick sends the child before `store.touch` saves the
  anchor (`tick_orchestrator.py:694`, 716): a child that starts in between finds none, or one it cannot
  parse, and selects without it (`tasks.py:742-771`, 497). A tick whose predecessor's touch was lost or
  overwritten sets the anchor anew (`tick_orchestrator.py:647-657`), and what was scraped before counts
  as unchecked. `OncePerAnchor` is what is left: children that have an anchor scrape nothing twice since
  it was set, and nothing a child without one scraped since.
* A child without an anchor may end as completed with listings left: it may meet again what it has
  scraped, once that is due. `CompletedLeavesNothing` speaks of children that have one, and that
  did not reach the number of listings they may take on.
* Without an anchor in the metadata `_cohort_remainder` counts from six hours ago, while the child has no
  such condition (`tick_orchestrator.py:394-422`, `tasks.py:497`); the model counts with the anchor the tick
  has just set.
* A tick that finds the lock taken puts its message back without a safety net
  (`tick_orchestrator.py:545-554`): with "broker" the chain ends there, and the watchdog starts another
  one. The watchdog acts on heartbeats 120 to 600 s old (`reaper_tasks.py:164-166`); a parent that
  is silent for longer is failed by the reaper ("beat").
* A listing checked shortly before the anchor counts as remainder, but the child cannot
  select it and reports "completed" (`tick_orchestrator.py:401` says both use the same
  predicate; the child's is at `tasks.py:467-496`).
* Failures need not be consecutive where shards run: `failure_streak` is written as an
  absolute value read earlier (`service.py:317-321`), so a success in between may
  be overwritten. `DeactivationEarned` is what is left, and is proved.
* A child whose deadline passes before any outcome reports "completed"
  (`tasks.py:803-813`); `CompletedMeansChecked` excludes deadlines.
* More tasks than slots may run: the reconcile sends a child again that waited long in
  the queue, while its first copy is being taken, and two workers run it
  (`tick_orchestrator.py:212-242`; 45-46 call the cap hard).
* A run whose child inserts were all refused takes its verdict from the logs of
  standalone scrapes and may be "completed" (`job_completion.py:91-96`; the
  docstring at 47-48 wants "failed" for a run that touched no marketplace).
* `NoShardLost` fails with "overtake": a walk sent again by the retry tick parks itself
  once more before the tick's HDEL of the same field, which deletes the new entry
  (`onboarding_tasks.py:526-535`). The window is short.
* `LastShardSeesAll` exempts runs in which a redelivered
  shard decremented a second time, or a key expired: DECR is not idempotent
  (`onboarding_tasks.py:245`; the docstring at 234 promises the total to the last
  shard only), so a shard may take itself for the last one too early. The counter then
  goes below zero, every later shard does the last one's duties again, and
  `EstimateCatchesUp` holds nevertheless.
* The estimate may shrink: two deliveries of a coordinator walk from the same row, and the one
  that saw less writes last (`onboarding_tasks.py:262-263`; 311-313 say "raised, never shrunk").
* Categories may be lost: the last shard deletes the stash before it publishes
  (`onboarding_tasks.py:225`, 480), and two last shards, or a discovery run beside one,
  merge into the list each of them loaded before.
* A failed delete of a category page that carries a price counts as a success
  ("unpruned"), and a refused housekeeping update as well ("reject"):
  `CompletedIsChecked` assumes `NoRefusals`.
* Discovery: with a quota, the list of a sitemap is cut to the slots left before the offset
  is applied, so the tail is never saved though the run is "completed" (`ResumeHonest`
  speaks of no quota). Beyond 100 URLs the list is classified in random samples and its
  order is another in the next run, the offset points into another list. Categories
  published at the deadline may be replaced unharvested by the next walk, and a merge of an
  enumeration that loaded the list earlier makes the index point into another one
  (`clobbered`). The final snapshot also overwrites the category list and the estimate
  that others wrote. With or without a quota the list of a sitemap is cut to 200000 URLs
  (`discovery/orchestrator.py:766-768`), beyond which nothing is saved; rows the gate rejects count
  as saved. Neither is modelled.
* Sitemap walk: an "error" reports nothing inserted though earlier batches were committed; a walk
  out of budget drops its categories; documents that fail or lie over the cap are skipped
  and the walk is "completed"; a prefetch that is abandoned still costs its request; in an
  index per language that is nested the locale is not elected again.
* List harvest: a page that fails abandons the rest of its category until the next pass
  (`behind`); a list that is replaced under a pass makes the cursor point into another one
  (`HarvestCovers` excepts it).
* Budget: the guard reads before the token and the counter come, so each request under way may
  overrun it, and a Redis command that fails is counted as "within budget" (`excused`).
  `_fetch_static_with_error` also uses the paid proxy for hosts of the direct mode, though
  the docstring of `access_policy.py` says otherwise. A sitemap document that is answered
  with HTML goes to the rendered fallback, in the mode proxy_render the paid layer; when the guard
  skips that, the document is reported missing, not skipped (`scraper_pool.py:609-612`).
* Ingests that cross (a card scrape beside the harvest of a list page, whose copies are read once for the
  whole page): the one that commits last writes the price and the change it computed from its own copy,
  so the listing shows an old price (`crossed`; `models/facts.py:87-88` calls it a "denormalized copy of the
  latest fact_price"). The next scrape then measures the same drop again: a second alert. Two
  concurrent inserts may also leave two rows of one day, and a replacement within the day may hide a drop.
* Alerts: a row stamped before an evaluation began and committed after it fired is
  never reported; one stamped after it began but read by it is reported again after the
  cooldown (`first.row > first.at`); a refused or lost mark reports again; a refused event is
  delivered again every ten minutes without a cooldown; an exception in one rule's persistence
  leaves out all rules after it, in the same order at each beat. A rule made a price
  rule and back repeats "gone": `_previous_availability_map` takes the rule's last event of any
  type, though the docstring (`engine.py:15-17`) says "most recent availability event". The model has prices of
  at least 1, and leaves out the watermark of a rule that has not fired (`alerts/engine.py:86-89`, its `created_at`).
* Accounts: `SuperuserRemains` excepts two administrators who demote or delete each other at once, each
  counting the other (`users/service.py:168-172` counts without a lock), and the PATCH of a profile, which changes
  the flags without a count. Two writes of the preferences that cross lose a key: each writes the whole
  value it read (`devices`).
* Market data: a log row that the gate refuses, after the secret was replaced, rolls the caller's rows back, and the
  ingest reports them as stored (`logs_write.py:147`; `ReportedIsStored` excepts it; the crypto rail commits its rows before).
  An ingest overtaken by a slower one of the rail leaves the older quote (`met`). Without the dollar, rates to EUR stand for
  rates to USD (`usd_fallback`). Which of the rows of a day the banner, the scrape and the converter
  choose is not modelled.
* Data firewall: a trace that cannot be written is lost (`lost`), and so is that of a door that raises (locators of
  `meta` and `alert`: its caller gets the exception instead). The write to a row that is gone
  leaves no trace either (`no_target`).
* Matching: identities arrive at most once in the model. The code may rewrite a product's name with each offer
  of a list page (`ingestion/service.py:540-542`), which changes its signature and lets a title sweep move it
  again; and a sweep leaves out the rows the door refuses (`matching/engine.py:218-229`).
* Matching: the split pass also splits groups of one gtin, which the gtin sweep does not repair;
  a stale write of overlapping ticks may leave a product of a gtin in a split group.

## 4. Proofs

Each theorem holds for every value of the constants that satisfies the named
assumptions of its module: any set of marketplaces, any number of
ticks, workers, listings, children, shards, writers, requests, ingests, rules, any bounds and, but for the
premises named below, any set of events. Premises on `Events` name faults under which the
property fails: an instance with the event has a counterexample. The inductive
invariants were checked with TLC before they were proved.

Theorems about parts of `MCStore` and `MCServices` are proved of the specification of
the component (`P!Spec`, `W!Spec`, `D!Spec`, `C!Spec`, `R!Spec`, `M!Spec`, `U!Spec`, `A!Spec`, `G!Spec`, and
`Spec` of `FetchPath`) and carried over to `MCSpec`, because a step of the
composition is a step of its part or leaves it alone.

**`TickOrchestratorProofs`.** `TypeCorrect` goes action by action.
`NothingForgotten` needs more than the committed metadata: a marketplace may be
attempted, waiting in the queue, or in neither when a stale copy is written
back. The inductive invariant therefore speaks of *every* copy of the
metadata in the system: the committed one, those of the ticks, of the pulses
and of a cancel each *cover* the marketplaces (`Covers`: those not in its queue were
attempted, and a phase past discovery has an empty queue). `Attempted` only
grows (`AttemptsGrow`), so a copy that covers once covers for ever, however
late it is written back (`CopiesGrow`); popping a code covers because the row
was committed or refused before the pop is saved (`PopCovers`). Further parts:
rows above `inserted` are fresh, the step a tick is at fits its phase
(`TickPhases`), and nothing moves before the trigger (`NothingYet`).
`ImplementsContract` maps `attempted` to `Attempted`; the only step that may
conclude is `TickComplete`, and its copy covers.

**`ScrapeCohortProofs`.** `DeactivationIsEarned` rests on `StreaksEarned`:
no streak, neither in a row nor in a runner's locals, exceeds the failures
that reached the shop. It is stable because a write puts at most a value read
plus one, together with one more failure. `CompletedIsChecked` rests on
`RunsAccounted`: of the listings a child took on, those no longer to do were
checked since it started, are gone, or the child has counted a failure; and on `AnchorsInOrder`: no
child and no row knows an anchor that has not been set. `CompletedIsDrained` follows from
both: without a failure, what a child with an anchor has processed it cannot select again, so a batch of
listings already processed is empty, and an empty batch means that nothing is selectable.
`ScrapedOncePerAnchor` is about two times that may each be old, the anchor a child read and the
check of a row. `OnceInv`: one child is active at a time (`Solo`), what a child with an anchor
still has to do had no success since the latest anchor (`Untried`), and what had one is checked
as late as that anchor, or gone (`SuccessIsChecked`). A tick that sets the anchor anew under a child
starts the count again, and a child that found no anchor may repeat what was scraped, but leaves it
checked, so that no child with an anchor does.
These three assume `NoRefusals`, the last one also `OneAtATime` (no redelivered
child beside its successor).

**`SitemapFanOutProofs`.** `TypeCorrect` carries `JobsFit`: the locals of a
worker fit the step it is at (a shard's step has a shard's walk and its run).
`NothingLost` strengthens `NoShardLost` by two facts. `ResentOnItsWay`: between
sending a walk and deleting its entry, the entry is not what keeps the walk, so
deleting it loses nothing. `FinishersTicked`: whoever does the last shard's
duties has decremented, so returning from them loses nothing. `HeldStays` follows a walk out of
a worker's hands, `QueuedStaysQueued` out of the queue. It assumes `NoOvertake`,
the event under which the property fails (see "Limits").
`LastShardIsLast` counts: in a run that is not blurred the counter is the number of
shards that have not decremented (`CounterCounts`, by the cardinality of finite
sets), so a shard that finds no positive number knows that all have
(`FinisherIsLast`), and whoever decremented had stored its count
(`CountedFirst`). It needs that no message, parked entry or worker speaks of a
run before its counter was set (`RunsBegun`): else the counter would be set
after a shard decremented it.

**`TickSlotsProofs`.** What ticks share is the advisory lock: `LockHeld`, one tick at most
is between loading the parent and releasing it. On it rest four theorems.
`LateDispatchIsBounded`, without premise: `LateInv` says that no child is late
before the end, and that what a tick in its loop has inserted late it has also
counted as a slot of its own. `ChainStaysAlive`: `ChainInv`, while the parent runs there
is a message, an unfinished trigger, or a tick that has not sent its successor yet. Its premise
excludes "broker", "error" and "reject"; each of them does end the chain, and the watchdog is
there for it. `SlotsStayBounded` and `BarrierHolds` assume `NoEarlyReap`: no child is written
off or sent again while it is worked on. `TaskInv` then says that a child has one
message or one worker, never both, and that what a tick is about to reap or send again is
lost; `SlotsInv`, that a tick in its loop has counted at least the children there are.
`BarrierInv` speaks of all copies, like `Covers` above: once any copy of the metadata, or any child, is
past discovery, no discovery child is unfinished, the committed copy is past it too while the run
lasts, and no deciding tick and no pulse of a scrape child believes otherwise.

**`TickVerdictProofs`.** `VerdictIsDrained` needs `DrainInv`, of the same form for the phase
"complete", and the remainders a tick holds are never below the cohort. A pulse that
writes an older phase back is excluded by the event, or cannot happen because
nobody works any more (`EndsIdle`, from the barrier): hence the premise, either no
pulses or `NoEarlyReap`. `NoDuplicates` assumes `CommitsKept`: without "crash", "error", "reject"
and "pulse" the queue a tick popped is the queue it commits. Each of the four does
produce a second discovery child: `duplicate_discovery` shows the crash. `DupInv`: the queue of the
committed copy, while no tick dispatches, and of each deciding tick, lists nobody
twice and nobody that has a child.

**`StoreProofs`.** `SuperuserStays`: the guard counts superusers, but other requests make
the count old. What keeps one is `AuthorsRemain`: as long as no two removals crossed
and no PATCH changed flags, whoever removes somebody has the role, is somebody else, and is not being
removed; so the author of the last removal is left. `NamespacesStay`: `CopyInv`, while no writes
cross one copy at most is held, and it is the row. `NoIngestEmbrace`: `OrderInv`, what an ingest has
written precedes, in the order of its rail, what it has still to write; two that wait
for each other would each precede the other (`ListedPlaces` gives places to instruments;
`InstrumentsAssumption` says that they are a list). `ReportsHold`: `Newest`, while two ingests of a rail have not crossed,
who holds quotes holds the newest and is alone; `Reported` follows a reported key from the
commit on, also through the step of a coin between its commit and its log row.

`NoShopWaits`: a shop that waits is passed over by ticks that read its present score, and by one pick per ticker
of an older one. A tick that read the present score picks shops it has not picked since the shop's last turn
(they are stamped later than it, and a stamp never goes back), so a ticker comes to `Rounds` picks without the shop and
not to one more: `Charged` charges each wait to a ticker (`count`), with the shops it took (`taken`) and who has spent
the older pick (`old`); one ticker at least has not. `PassLeavesNothing`: `CursorInv` says of the
stored cursor, and of the place of every run, that it is `GoodPlace` in the list as it is now: the categories before it are
covered, and in its category it is the end of a chain of "next" links whose other pages were
asked for. A walk stops following links when it has closed a circle, come to the last page, or has as many
pages as allowed; in each case the chain holds all tails of the category (`HarvestedCovers`, `GivenUpCovers`). A place in a
replaced list promises nothing, and no place is of the list that comes (`ReplaceStep`).

**`PoolProofs`.** `NoOrphanProduct`: `PairInv` says for each place of a writer which rows of its
transaction the savepoint takes back; outside a chunk products and listings are equal, inside the
products run ahead by the rest of the chunk. `WritesAddUp`: `CountInv` counts the listings of a
transaction by cardinality against the two counters and the position in the batch, so both roads,
fast and pair by pair, report what they commit; `KeptInv` says that an address the firewall signed is
committed, in a transaction, or still ahead of some writer (`InSight`), so a writer that gives up
on it does so because another one has it. It excepts what one of them raised or the gate failed on.

`WalkIsComplete`: `WalkInv` has four parts. `WalkTypes`; `Fetching`: the documents queued are visited, pending or in flight,
and what is visited and in flight together stays within the cap; `Batching`: every URL of a parsed document is in the pool, in the
batch being filled, in the batch handed to the thread, or still to be read, and what is known to exist is in the pool; `Counting`:
the two batches repeat no URL, and what the walk wrote (`wMine`) is counted, or is about to be when the thread is done.
A walk that ends has waited for its thread, so both batches are empty.

`ResumeIsHonest` is about copies, like `NothingForgotten`: a run loads the cursors of the shop, works with them for long, and saves
them over whatever another run has saved. So `RunInv` says of *every* copy, the row's (`GoodRow`)
and that of each run at each place (`GoodRuns`), that it promises what holds now: `GoodCursors`: the categories before
the index were worked off, those seen are published, missed, in the list or in the frontier, and without a quota the sitemap
before the offset is in the pool. What it promises only grows (pool, categories harvested, published and missed), so an old copy stays
honest (`CursorsGrow`). `GoodWalk`, `GoodHarvest` and `GoodPass` tie the locals of a run under way to its copy:
the queue of a walk to the pages visited, the categories or URLs still to do to the head of the list they were taken from.
The part of it about the resume index stops with the event that breaks it, a list replaced under a
run (`clobbered`).

`StoreIsTyped` gives the type invariants of all seven models; three of them say more than a type: a tick of the rotation is counted before
it picks (`Ranking`), so the clock stays below the ticks; a harvest asks for no more pages than its quota; and in `MarketData` rows
of one key are never doubled, and are of days that have their row, because a transaction holds each key once, replaces the
committed rows of its keys, and inserts the day it did not find (`CommitTyped`, `Dated`).

**`ServicesProofs`.** `SignedIsWritten` enumerates the tables: what each door signs is in the
list of operations and has the locators that persist and the gate ask for, whatever the secrets (`SignInv`).
`NoSilentRefusal` adds `TraceInv`: from the door to the answer, the rows a door refused have their
committed rejects, and a write refused as a whole has its alert before the bridge answers.
`ListingFollowsHistory`: `ShownInv`, while no ingests crossed the one under way holds the listing as it is,
is stamped later than the history, and the history has one newest row. `AlertsSayNews` is the
longest: `AlertInv` adds that evaluations have times of their own (`Apart`), that one which ran
alone so far knows every event and holds watermarks at least as late as the marked ones
(`Holding`), and that events recorded alone are ordered per rule and below the watermark once marked (`Settled`). Then a price
event that repeats an earlier one would have to be of a row older than its watermark, and an availability
event is compared with the very event before it.
`FailuresWereAsked`: `FetchInv` ties the place of a listing's fetch to the layers it has left: where
only the browser is left, the direct layer was asked before; the paid proxy is the only layer of its shops,
and until its request goes out nobody was asked, so whatever gives up on the way there is a skip. Of the
cache it says that pages are numbered as they are put, that one that was taken does not come back, and
that a fetch that began later holds a newer one. `BucketKeepsRate`: `BucketInv`, what was granted and
what the bucket holds are at most its capacity and the refill up to the time of its last request.
The workers share one clock here. The script takes the time of the worker that asks, and writes it: one whose
clock is behind would set the bucket's time back, and what it went back is refilled twice; that is not modelled.
`BillStaysBounded`: the guard compares the usage with the cap, and the request is counted after the answer, so between the two others
may pass. The proof weighs the fetches that passed the guard and have not been asked (`Held`) and those whose request went out but is not
counted (`Owed`), by the cardinality of the fetches with and without JS; `BillInv`: what was billed and is owed is at most what the keys in
Redis show (`Spent`) and what was excused, and with what is held it stays below the cap and one request per fetcher. `DaysInv`: no cost is
noted for a day to come, so the usage before today changes with midnight only. What a sum over days amounts to would need
induction; `SumBefore` is the running sum, which exists by a bound on its least missing day (`SumExists`), and
two such sums are compared by the first day they differ the wrong way (`SumGrows`, `SumBumps`). `ServicesAreTyped`: `FetchTyped` adds to
the types how much of a fetch each place leaves to do (`Reached`); `EvalBounds`, that what an evaluation
holds is not later than the last stamp (`Dated`); `GateTyped` is inductive as it stands. It assumes `ServicesAssumption`: the bounds are numbers.

**Only model-checked.** Liveness (`PipelineTerminates`, `CohortDrains`, `LateIdentityWins`,
`GroupsSettle`, `EstimateCatchesUp`) is beyond the prover. Every other
invariant and action property of a passing run is stated by a theorem. In the runs that expect a violation
the property is false, and the counterexample is the result.

**What the proofs changed in the models.** Some invariants turned out not to be inductive because the model was wrong, or could
not be reasoned about:

* `DiscoveryRun`: the history `seen` kept the pages of a frontier that had been dropped as unreadable, so that a second fault
  broke `NoCategoryLost` without any fault of the code; TLC shows it with two faults where the runs allow one. Dropping the
  frontier now drops `seen` with it. The bound of `at` in the type invariant holds only without a quota, and says so now.
* `SitemapWalk`, `DiscoveryRun`: filters of sequences are defined by `Subsequences` (the library's is recursive).
* `HarvestCursor`: the pages of a category are defined by chains of links (`Chains`, `Tails`).
* `HarvestRotation`: a tick picks `Picks` shops, also when there are fewer than it may pick.
* `ProxyLimiter`: the sum over the days of a cycle is a running sum (`SumBefore`), not a fold over a set.
* `MCStore`, `MCServices`: constants where they had fixed values, with named assumptions (`PartsAssumption`, `BoundsAssumption`,
  `ServicesAssumption`) that TLC evaluates.

## 5. Plan

Done: the modules of section 2, and the theorems of section 4.

Next, in this order:

1. A fork-join as the abstract specification of `SitemapFanOut`.
2. The partitions of `fact_price` and their weekly rollup (migrations 015, 042, 059;
   `docs/RETENTION_PLAN.md`): a week that spans two months is rolled up with the first of them,
   and `ON CONFLICT DO NOTHING` keeps the days of the second one out, while 059 says that history is never lost.
3. Clocks and thresholds of heartbeats and reapers: a live job is not reaped, a dead one
   is, within a bound.

## 6. Not modelled

Network I/O, HTML extraction, language-model calls and currency downloads
appear, if at all, as nondeterministic outcomes. Request handlers over a single
row, read-only aggregates, migrations and the frontend have no behaviour that a
model would reach and a test would not. Within the modelled parts: the host
throttle's wait, `scrape_listing`, the paid frontier of new shops, the caps of 2000 title
groups and 300 split groups, inactive products, the adaptive interval, the conversion of a price on
ingest, the creation and deletion of alert rules, channels of delivery, the audit log and the metadata that gates write beside
a row; what a check of a door looks for; registration, tokens and the limits of plans; retention windows, partitions and
materialized views. The log relay appends with separate INCR, RPUSH and LTRIM, so a reader may
miss lines: it feeds a display only. Celery priorities, queue routing and
prefetch are left out: a message may be delivered to any worker at any time,
which includes what they allow.
