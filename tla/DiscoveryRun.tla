------------------------------ MODULE DiscoveryRun ------------------------------
(***************************************************************************)
(* One discovery run of a shop after the other, or beside each other       *)
(* (modules/discovery/orchestrator.py with bfs_walker, category_processor, *)
(* sitemap_harvester and cursor_store).                                    *)
(*                                                                         *)
(* A run loads the row of the shop, works on its copy, and writes all      *)
(* cursors back in one update at the end.  It harvests the sitemap, or     *)
(* walks the categories: phase 1 looks for categories and publishes them   *)
(* in batches, phase 2 takes products from the published ones.  A run that *)
(* is out of time leaves cursors behind: an offset into the sitemap, an    *)
(* index into the categories, the frontier of the walk.                    *)
(***************************************************************************)
EXTENDS Naturals, Sequences, SequencesExt, FiniteSets, Subsequences

CONSTANTS
    Run,                 \* runs that may overlap (a redelivered child, a standalone run)
    Page, Home,          \* category pages of the shop, its base URL
    Links,               \* [Page -> sequence of pages it links to]
    Listings,            \* pages that list products
    Usual,               \* pages at the addresses tried when a walk finds nothing
    Products,            \* [Page -> products a page lists]
    Sitemap,             \* the product URLs of its sitemap, a sequence
    Quotas,              \* product quotas to consider; 0: none
    MaxDepth,            \* RECON_BFS_MAX_DEPTH
    PublishBatch,        \* CATEGORY_PUBLISH_BATCH
    Window,              \* MAX_CATEGORY_URLS_PER_RUN
    ConvergenceStreak,   \* CATEGORY_CONVERGENCE_STREAK
    SaveBatch,           \* SAVE_PRODUCT_URLS_BATCH_SIZE
    MaxRuns, MaxFaults, MaxMerges,   \* bounds
    NoFrontier, NoList

ShopAssumption ==
    /\ IsFiniteSet(Page) /\ Home \in Page /\ Listings \subseteq Page /\ Usual \subseteq Page
    /\ Links \in [Page -> Seq(Page)] /\ \A p \in Page : IsFiniteSet(Products[p])
    /\ Sitemap \in Seq(ToSet(Sitemap))
    /\ Quotas \subseteq Nat /\ MaxDepth \in Nat /\ MaxRuns \in Nat
    /\ {PublishBatch, Window, ConvergenceStreak, SaveBatch} \subseteq Nat \ {0}
    /\ NoFrontier \notin [queue : Seq(Page \X (0..MaxDepth + 1)), visited : SUBSET Page]

VARIABLES
    row,         \* dim_marketplace: the cursors of the shop
    quota,       \* its product quota
    pool,        \* product URLs with a listing
    pc, mem, loc,        \* runs: where each is, its copy of the row, its locals
    merging,     \* the category list a sitemap enumeration loaded
    runs, faults, merges,    \* counters of bounds
    published,   \* history: pages that were on the row's list
    harvested,   \* history: <<publication, page>> that phase 2 worked off
    missed,      \* history: pages the walk could not fetch, or skipped for their depth
    clobbered    \* history: a merge overwrote a list published after it was loaded

vars == <<row, quota, pool, pc, mem, loc, merging, runs, faults, merges,
          published, harvested, missed, clobbered>>

\* What every step of a run but its last one leaves alone.
shared == <<row, quota, merging, runs, merges, published, clobbered>>

NoLocals ==
    [number |-> 0, via |-> "none", remaining |-> 0, late |-> "no", backlog |-> FALSE,
     queue |-> <<>>, visited |-> {}, found |-> <<>>,        \* phase 1
     todo |-> <<>>, at |-> 0, end |-> 0, streak |-> 0,      \* save loop, phase 2
     known |-> {}, saved |-> 0, candidates |-> 0,
     partial |-> FALSE, errors |-> FALSE, status |-> "none"]

Row ==
    [sitemapAge |-> "stale", offset |-> 0,
     reconAge |-> "stale", cats |-> <<>>, index |-> 0, frontier |-> NoFrontier,
     pub |-> 0, seen |-> {}]   \* history: the run that published cats; the pages the walk has seen

Init ==
    /\ \E age \in {"stale", "fresh"} : row = [Row EXCEPT !.sitemapAge = age]
    /\ quota \in Quotas
    /\ pool = {}
    /\ pc = [r \in Run |-> "idle"]
    /\ mem = [r \in Run |-> Row]
    /\ loc = [r \in Run |-> NoLocals]
    /\ merging = NoList
    /\ runs = 0 /\ faults = 0 /\ merges = 0
    /\ published = {} /\ harvested = {} /\ missed = {} /\ clobbered = FALSE

Goto(r, to) == pc' = [pc EXCEPT ![r] = to]
Fault == faults < MaxFaults /\ faults' = faults + 1

-----------------------------------------------------------------------------
(***************************************************************************)
(* Which path a run takes.                                                 *)
(***************************************************************************)

\* _should_run_sitemap_harvest
ShouldRunSitemap(m) == m.offset > 0 \/ m.sitemapAge # "fresh"

\* _resolve_category_backlog: where the resume index and the length of the
\* list disagree, the length decides, so it always does.
Backlog(m) ==
    LET primary == m.index < Len(m.cats)
        binary == m.cats # <<>>
    IN  IF primary # binary THEN binary ELSE primary

\* _should_run_category_recon
ShouldRunRecon(m) ==
    /\ m.index = 0
    /\ m.frontier # NoFrontier \/ m.cats = <<>> \/ m.reconAge # "fresh"

\* discover: the row is loaded, the product quota is turned into slots.
Start(r) ==
    /\ pc[r] = "idle" /\ runs < MaxRuns /\ runs' = runs + 1
    /\ mem' = [mem EXCEPT ![r] = row]
    /\ LET left == IF quota > 0 THEN IF quota > Cardinality(pool) THEN quota - Cardinality(pool) ELSE 0
                   ELSE Len(Sitemap) + Cardinality(Page) + 1
       IN  loc' = [loc EXCEPT ![r] = [NoLocals EXCEPT !.number = runs', !.remaining = left]]
    /\ Goto(r, IF ShouldRunSitemap(row) THEN "sitemap" ELSE "category")
    /\ UNCHANGED <<row, quota, pool, merging, faults, merges, published, harvested, missed, clobbered>>

-----------------------------------------------------------------------------
(***************************************************************************)
(* The sitemap path.                                                       *)
(***************************************************************************)

\* harvest_sitemap and its timeout: a useful sitemap is saved, without one
\* the run takes the categories; either way it cools down.
SitemapUseful(r) ==
    /\ pc[r] = "sitemap" /\ Sitemap # <<>>
    /\ mem' = [mem EXCEPT ![r].sitemapAge = "fresh"]
    /\ loc' = [loc EXCEPT ![r].todo = SubSeq(Sitemap, 1, IF loc[r].remaining < Len(Sitemap)
                                                          THEN loc[r].remaining ELSE Len(Sitemap)),
                          ![r].via = "sitemap",
                          ![r].at = mem[r].offset, ![r].candidates = Len(Sitemap)]
    /\ Goto(r, "dedup")
    /\ UNCHANGED <<shared, pool, faults, harvested, missed>>

SitemapUseless(r) ==
    /\ pc[r] = "sitemap"
    /\ mem' = [mem EXCEPT ![r].sitemapAge = "fresh"]
    /\ \E timeout \in BOOLEAN : loc' = [loc EXCEPT ![r].errors = timeout]
    /\ Goto(r, "category")
    /\ Fault
    /\ UNCHANGED <<shared, pool, harvested, missed>>

\* load_existing_url_hashes; a failed lookup knows of no URL.
Dedup(r) ==
    /\ pc[r] = "dedup"
    /\ \/ loc' = [loc EXCEPT ![r].known = pool] /\ UNCHANGED faults
       \/ loc' = [loc EXCEPT ![r].known = {}] /\ Fault
    /\ Goto(r, "save")
    /\ UNCHANGED <<shared, pool, mem, harvested, missed>>

\* Positions of the list, from offset at, whose URL is to be written.
Unsaved(l) == {i \in l.at + 1 .. Len(l.todo) : l.todo[i] \notin l.known}

\* The first SaveBatch of them, or all that are left.
NextBatch(l) ==
    {i \in Unsaved(l) : Cardinality({j \in Unsaved(l) : j < i}) < SaveBatch}

\* Mutant: the offset points behind the next URL.
Behind(S) == Max(S) + 1

Reached(S) == Max(S)

\* _save_product_urls: one batch; the deadline is looked at after a full one.
SaveStep(r) ==
    /\ pc[r] = "save"
    /\ LET l == loc[r]
           batch == NextBatch(l)
           urls == {l.todo[i] : i \in batch}
           full == Cardinality(batch) = SaveBatch
           exhausted == full /\ l.late = "both"
           next == IF full THEN Reached(batch) ELSE Len(l.todo)
           over == ~full \/ exhausted
           partial == exhausted /\ next < Len(l.todo)
       IN  /\ pool' = pool \cup urls
           /\ loc' = [loc EXCEPT ![r].known = @ \cup urls, ![r].at = next,
                                 ![r].saved = @ + Cardinality(urls \ pool),
                                 ![r].partial = over /\ partial]
           /\ mem' = [mem EXCEPT ![r].offset = IF over THEN IF partial THEN next ELSE 0 ELSE @]
           /\ Goto(r, IF over THEN "finish" ELSE "save")
    /\ UNCHANGED <<shared, faults, harvested, missed>>

-----------------------------------------------------------------------------
(***************************************************************************)
(* Phase 1 of the category path.                                           *)
(***************************************************************************)

Resumed(l, f) == [l EXCEPT !.queue = f.queue, !.visited = f.visited]

\* run_category_bfs resumes the frontier, or starts at the home page; a
\* frontier that cannot be read is dropped with the resume index.
Category(r) ==
    /\ pc[r] = "category"
    /\ LET m == mem[r]
           cold == [queue |-> <<<<Home, 0>>>>, visited |-> {Home}]
           l == [loc[r] EXCEPT !.backlog = Backlog(m)]
       IN  \/ /\ ~ShouldRunRecon(m) /\ loc' = [loc EXCEPT ![r] = l]
              /\ Goto(r, "plan") /\ UNCHANGED <<mem, faults>>
           \/ /\ ShouldRunRecon(m)
              /\ loc' = [loc EXCEPT ![r] = Resumed(l, IF m.frontier = NoFrontier THEN cold ELSE m.frontier)]
              /\ Goto(r, "bfs") /\ UNCHANGED <<mem, faults>>
           \/ /\ ShouldRunRecon(m) /\ m.frontier # NoFrontier
              /\ loc' = [loc EXCEPT ![r] = Resumed(l, cold)]
              /\ mem' = [mem EXCEPT ![r].frontier = NoFrontier, ![r].index = 0, ![r].seen = {}]
              /\ Goto(r, "bfs") /\ Fault
    /\ UNCHANGED <<shared, pool, harvested, missed>>

\* Mutant: an empty frontier is kept instead of cleared.
FrontierKept(l, queue) == [queue |-> queue, visited |-> l.visited]

Frontier(l, queue) == IF queue = <<>> THEN NoFrontier ELSE [queue |-> queue, visited |-> l.visited]

\* Mutant: the frontier is saved, the list is not.
PublishedQueueOnly(m, l, queue) ==
    [m EXCEPT !.index = 0, !.reconAge = "fresh",
              !.frontier = Frontier(l, queue), !.pub = l.number, !.seen = l.visited]

\* _publish_category_batch replaces the list (its order is left out).
Published(m, l, queue) ==
    [m EXCEPT !.cats = l.found, !.index = 0, !.reconAge = "fresh",
              !.frontier = Frontier(l, queue), !.pub = l.number, !.seen = l.visited]

\* The deadline of phase 1, at the head of the loop.
BfsLate(r) ==
    /\ pc[r] = "bfs" /\ loc[r].queue # <<>> /\ loc[r].late # "no"
    /\ LET l == loc[r]
       IN  IF l.found # <<>>
           THEN /\ mem' = [mem EXCEPT ![r] = Published(@, l, l.queue)]
                /\ loc' = [loc EXCEPT ![r].queue = <<>>, ![r].visited = {}]
                /\ Goto(r, "plan")
           ELSE /\ mem' = [mem EXCEPT ![r].frontier = Frontier(l, l.queue), ![r].seen = l.visited]
                /\ loc' = [loc EXCEPT ![r].queue = <<>>, ![r].visited = {},
                                      ![r].partial = ~l.backlog]
                /\ Goto(r, IF l.backlog THEN "plan" ELSE "finish")
    /\ UNCHANGED <<shared, pool, faults, harvested, missed>>

\* One page: skipped below the depth, not fetched, a listing, or a hub.
Enqueue(l, page, depth) ==
    LET fresh == Filter(Links[page], Page \ l.visited)
    IN  [l EXCEPT !.visited = @ \cup ToSet(fresh),
                  !.queue = Tail(@) \o [i \in DOMAIN fresh |-> <<fresh[i], depth + 1>>]]

Consumed(l) == [l EXCEPT !.queue = Tail(@)]

Visited(l) ==
    LET page == Head(l.queue)[1]
        depth == Head(l.queue)[2]
        next == IF page \notin Listings \/ depth < MaxDepth THEN Enqueue(l, page, depth)
                                                            ELSE Consumed(l)
    IN  IF page \in Listings \ {Home} THEN [next EXCEPT !.found = Append(@, page)] ELSE next

BfsStep(r) ==
    /\ pc[r] = "bfs" /\ loc[r].queue # <<>> /\ loc[r].late = "no"
    /\ \E fetched \in BOOLEAN :
          LET l == IF fetched THEN Visited(loc[r]) ELSE Consumed(loc[r])
              full == Len(l.found) >= PublishBatch
              deep == Head(loc[r].queue)[2] > MaxDepth
          IN  /\ fetched => ~deep
              /\ IF fetched \/ deep THEN UNCHANGED faults ELSE Fault
              /\ missed' = IF fetched THEN missed ELSE missed \cup {Head(loc[r].queue)[1]}
              /\ IF full
                 THEN /\ mem' = [mem EXCEPT ![r] = Published(@, l, l.queue)]
                      /\ loc' = [loc EXCEPT ![r] = [l EXCEPT !.queue = <<>>, !.visited = {}]]
                      /\ Goto(r, "plan")
                 ELSE /\ loc' = [loc EXCEPT ![r] = l] /\ UNCHANGED <<mem, pc>>
    /\ UNCHANGED <<shared, pool, harvested>>

\* The walk is over; a few usual addresses are tried when it found nothing,
\* and are categories also when they are hubs.
BfsEnd(r) ==
    /\ pc[r] = "bfs" /\ loc[r].queue = <<>>
    /\ \E tried \in SUBSET (Usual \ loc[r].visited) :
          /\ loc[r].found # <<>> => tried = {}
          /\ mem' = [mem EXCEPT ![r] = Published(@, [loc[r] EXCEPT !.found = @ \o SetToSeq(tried)], <<>>)]
    /\ loc' = [loc EXCEPT ![r].visited = {}]
    /\ Goto(r, "plan")
    /\ UNCHANGED <<shared, pool, faults, harvested, missed>>

-----------------------------------------------------------------------------
(***************************************************************************)
(* Phase 2.                                                                *)
(***************************************************************************)
HarvestUrls(m) == <<Home>> \o m.cats

\* The work list, cut to the slots left, and the window of this run.
Plan(r) ==
    /\ pc[r] = "plan"
    /\ LET urls == HarvestUrls(mem[r])
           total == IF loc[r].remaining < Len(urls) THEN loc[r].remaining ELSE Len(urls)
           from == mem[r].index
       IN  loc' = [loc EXCEPT ![r].todo = SubSeq(urls, 1, total), ![r].at = from,
                              ![r].end = IF from + Window < total THEN from + Window
                                         ELSE IF total < from THEN from ELSE total,
                              ![r].candidates = Len(urls), ![r].found = <<>>]
    /\ Goto(r, "harvest")
    /\ UNCHANGED <<shared, pool, mem, faults, harvested, missed>>

\* Mutant: the next run goes on one category too far.
StopPast(r, next, more) ==
    /\ mem' = [mem EXCEPT ![r].index = next + 1]
    /\ loc' = [loc EXCEPT ![r].partial = more, ![r].at = 0, ![r].end = 0]
    /\ Goto(r, "finish")

\* run_product_harvest stops: where the next run goes on.
Stop(r, next, more) ==
    /\ mem' = [mem EXCEPT ![r].index = next]
    /\ loc' = [loc EXCEPT ![r].partial = more, ![r].at = 0, ![r].end = 0]
    /\ Goto(r, "finish")

HarvestLate(r) ==
    /\ pc[r] = "harvest" /\ loc[r].at < loc[r].end /\ loc[r].late = "both"
    /\ Stop(r, loc[r].at, TRUE)
    /\ UNCHANGED <<shared, pool, faults, harvested, missed>>

\* One category, all of its pages.  It yields new products, none that is
\* new, or only pages that are no products; the last says nothing about
\* convergence.
HarvestStep(r) ==
    /\ pc[r] = "harvest" /\ loc[r].at < loc[r].end /\ loc[r].late # "both"
    /\ \E fetched \in BOOLEAN :
          LET l == loc[r]
              page == l.todo[l.at + 1]
              listed == IF fetched /\ page \in Listings THEN Products[page] ELSE {}
              new == listed \ pool
              streak == IF new # {} THEN 0
                        ELSE IF listed # {} \/ ~fetched THEN l.streak + 1
                        ELSE l.streak
          IN  /\ IF fetched THEN UNCHANGED faults ELSE Fault
              /\ pool' = pool \cup listed
              /\ harvested' = harvested \cup {<<mem[r].pub, page>>}
              /\ IF streak >= ConvergenceStreak
                 THEN /\ mem' = [mem EXCEPT ![r].index = 0]
                      /\ loc' = [loc EXCEPT ![r].at = 0, ![r].end = 0, ![r].streak = 0,
                                            ![r].saved = @ + Cardinality(new)]
                      /\ Goto(r, "finish")
                 ELSE /\ loc' = [loc EXCEPT ![r].at = @ + 1, ![r].streak = streak,
                                            ![r].saved = @ + Cardinality(new)]
                      /\ UNCHANGED <<mem, pc>>
    /\ UNCHANGED <<shared, missed>>

\* The deadline falls into the pages of a category: it is taken up again.
HarvestCut(r) ==
    /\ pc[r] = "harvest" /\ loc[r].at < loc[r].end /\ loc[r].late = "both"
    /\ \E some \in SUBSET Products[loc[r].todo[loc[r].at + 1]] :
          some # {} /\ pool' = pool \cup some
    /\ Stop(r, loc[r].at, TRUE)
    /\ UNCHANGED <<shared, faults, harvested, missed>>

HarvestEnd(r) ==
    /\ pc[r] = "harvest" /\ loc[r].at >= loc[r].end
    /\ LET more == loc[r].end < Len(loc[r].todo)
       IN  Stop(r, IF more THEN loc[r].end ELSE 0, more)
    /\ UNCHANGED <<shared, pool, faults, harvested, missed>>

-----------------------------------------------------------------------------
(***************************************************************************)
(* The end of a run.                                                       *)
(***************************************************************************)
Status(l) ==
    IF l.partial THEN "partial_budget"
    ELSE IF l.errors THEN IF l.saved > 0 THEN "partial" ELSE "error"
    ELSE IF l.candidates = 0 THEN "no_categories"
    ELSE "completed"

\* The snapshot of all cursors in one update.
Snapshot(m) ==
    /\ row' = m
    /\ published' = published \cup ToSet(m.cats)

\* discover: job row, then the snapshot, which may be refused twice.
Finish(r) ==
    /\ pc[r] = "finish"
    /\ loc' = [loc EXCEPT ![r] = [NoLocals EXCEPT !.via = loc[r].via, !.status = Status(loc[r])]]
    /\ mem' = [mem EXCEPT ![r] = Row]
    /\ Goto(r, "idle")
    /\ \/ Snapshot(mem[r]) /\ UNCHANGED faults
       \/ UNCHANGED <<row, published>> /\ Fault
    /\ UNCHANGED <<quota, pool, merging, runs, merges, harvested, missed, clobbered>>

\* An exception: the cursors are written as they are at this moment.
Fail(r) ==
    /\ pc[r] \notin {"idle", "finish"}
    /\ loc' = [loc EXCEPT ![r] = [NoLocals EXCEPT !.status = "error"]]
    /\ mem' = [mem EXCEPT ![r] = Row]
    /\ Goto(r, "idle") /\ Fault
    /\ Snapshot(mem[r])
    /\ UNCHANGED <<quota, pool, merging, runs, merges, harvested, missed, clobbered>>

\* The worker dies.
Crash(r) ==
    /\ pc[r] # "idle" /\ Fault
    /\ loc' = [loc EXCEPT ![r] = NoLocals]
    /\ mem' = [mem EXCEPT ![r] = Row]
    /\ Goto(r, "idle")
    /\ UNCHANGED <<shared, pool, harvested, missed>>

\* Time: phase 2 keeps the whole budget when there was a backlog, and shares
\* its deadline with phase 1 when there was none (budget_governor.allocate).
Deadline(r) ==
    /\ pc[r] \in {"bfs", "plan", "harvest", "dedup", "save"} /\ loc[r].late # "both"
    /\ loc' = [loc EXCEPT ![r].late = IF @ = "no" /\ loc[r].backlog THEN "phase1" ELSE "both"]
    /\ UNCHANGED <<shared, pool, pc, mem, faults, harvested, missed>>

\* The harvests of the row get old.
SitemapStale ==
    /\ row.sitemapAge = "fresh"
    /\ row' = [row EXCEPT !.sitemapAge = "stale"]
    /\ UNCHANGED <<quota, pool, pc, mem, loc, merging, runs, faults, merges,
                   published, harvested, missed, clobbered>>

ReconStale ==
    /\ row.reconAge = "fresh"
    /\ row' = [row EXCEPT !.reconAge = "stale"]
    /\ UNCHANGED <<quota, pool, pc, mem, loc, merging, runs, faults, merges,
                   published, harvested, missed, clobbered>>

-----------------------------------------------------------------------------
(***************************************************************************)
(* A sitemap enumeration adds categories to the list it loaded             *)
(* (sitemap_categories.publish_category_urls).                             *)
(***************************************************************************)
MergeLoad ==
    /\ merging = NoList /\ merges < MaxMerges /\ merges' = merges + 1
    /\ merging' = row.cats
    /\ UNCHANGED <<row, quota, pool, pc, mem, loc, runs, faults, published, harvested, missed, clobbered>>

MergeWrite ==
    /\ merging # NoList
    /\ \E page \in Page \ ToSet(merging) :
          LET merged == Append(merging, page)
          IN  /\ row' = [row EXCEPT !.cats = merged]
              /\ published' = published \cup ToSet(merged)
              /\ clobbered' = (clobbered \/ ~IsPrefix(row.cats, merged))
    /\ merging' = NoList
    /\ UNCHANGED <<quota, pool, pc, mem, loc, runs, faults, merges, harvested, missed>>

-----------------------------------------------------------------------------
Step(r) ==
    \/ Start(r) \/ SitemapUseful(r) \/ SitemapUseless(r) \/ Dedup(r) \/ SaveStep(r)
    \/ Category(r) \/ BfsLate(r) \/ BfsStep(r) \/ BfsEnd(r)
    \/ Plan(r) \/ HarvestLate(r) \/ HarvestStep(r) \/ HarvestCut(r) \/ HarvestEnd(r)
    \/ Finish(r) \/ Fail(r) \/ Crash(r) \/ Deadline(r)

Next ==
    \/ \E r \in Run : Step(r)
    \/ SitemapStale \/ ReconStale \/ MergeLoad \/ MergeWrite

Spec == Init /\ [][Next]_vars

-----------------------------------------------------------------------------
Cursors ==
    [sitemapAge : {"fresh", "stale"}, offset : 0..Len(Sitemap),
     reconAge : {"fresh", "stale"}, cats : Seq(Page), index : Nat,
     frontier : {NoFrontier} \cup [queue : Seq(Page \X (0..MaxDepth + 1)), visited : SUBSET Page],
     pub : 0..MaxRuns, seen : SUBSET Page]

\* A frontier is never empty, and what it queues it has visited.
FrontierOK(m) ==
    m.frontier # NoFrontier =>
        /\ m.frontier.queue # <<>>
        /\ {m.frontier.queue[i][1] : i \in DOMAIN m.frontier.queue} \subseteq m.frontier.visited

TypeOK ==
    /\ row \in Cursors /\ FrontierOK(row)
    /\ \A r \in Run : mem[r] \in Cursors /\ FrontierOK(mem[r])
    /\ pool \subseteq ToSet(Sitemap) \cup UNION {Products[p] : p \in Page}
    /\ \A r \in Run : pc[r] = "save" /\ quota = 0 => loc[r].at <= Len(loc[r].todo)

\* The resume index means what it says: every category before it has been
\* worked off since its list was published, whatever runs overlap, die or
\* are refused, as long as no enumeration put an older list back
\* (category_processor.run_product_harvest, cursor_store).
CursorHonest ==
    ~clobbered =>
        /\ row.index <= Len(row.cats)
        /\ \A i \in 1..row.index : <<row.pub, HarvestUrls(row)[i]>> \in harvested

\* The walk loses no category: one that the saved walk has seen was fetched
\* in vain, is still in its frontier, or was published (bfs_walker).
NoCategoryLost ==
    \A page \in (row.seen \cap Listings) \ {Home} :
        \/ page \in published \cup missed
        \/ row.frontier # NoFrontier /\ \E i \in DOMAIN row.frontier.queue :
              row.frontier.queue[i][1] = page

\* A run that reports the sitemap as completed has left none of its products
\* out, however many runs it took (_save_product_urls).  With a quota this
\* fails: the list is cut to the slots left before the offset is applied.
SitemapSaved ==
    \A r \in Run :
        loc[r].status = "completed" /\ loc[r].via = "sitemap" /\ quota = 0
            => ToSet(Sitemap) \subseteq pool
=============================================================================
