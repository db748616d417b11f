------------------------------ MODULE SitemapWalk ------------------------------
(***************************************************************************)
(* One enumeration of a sitemap tree                                       *)
(* (modules/discovery/sitemap_enumerator.enumerate_sitemap_full over       *)
(* modules/scraper/scraper_pool.walk_sitemaps).                            *)
(*                                                                         *)
(* Three activities overlap: documents are fetched ahead, a few at a time; *)
(* the entries of one document are compared with the pool; the batch       *)
(* before is being written by a thread.  Other shards write to the same    *)
(* pool.  Documents are awaited in the order of their dispatch.            *)
(***************************************************************************)
EXTENDS Naturals, Sequences, SequencesExt, FiniteSets, Subsequences

CONSTANTS
    Doc, Roots,        \* sitemap documents; the sequence the walk starts from
    Children, Urls,    \* [Doc -> sequence of Doc], [Doc -> sequence of product URLs]
    Entries,           \* [Doc -> number of entries, products or not]
    Rank,              \* [Doc -> 0..2], _sitemap_shard_priority
    Noise,             \* media, discontinued and review files
    LocaleOf,          \* [Doc -> locale of its address, or NoLocale]
    Preferred,         \* the pool's locale and the country's, in this order
    Explicit,          \* TRUE: Roots are the files of a shard, FALSE: the shop's tree
    Prefetch, Caps, MaxUrls, SaveBatch,  \* prefetch, max_subfiles of the call, max_urls, SAVE_PRODUCT_URLS_BATCH_SIZE
    NoLocale,
    MaxFaults, MaxOthers                 \* bounds: failures, URLs other shards write

AllUrls == UNION {ToSet(Urls[d]) : d \in Doc}

TreeAssumption ==
    /\ IsFiniteSet(Doc) /\ Roots \in Seq(Doc) /\ Children \in [Doc -> Seq(Doc)]
    /\ Urls \in [Doc -> Seq(AllUrls)] /\ Entries \in [Doc -> Nat] /\ Rank \in [Doc -> 0..2]
    /\ Prefetch \in Nat \ {0} /\ Caps \subseteq Nat /\ MaxUrls \in Nat /\ SaveBatch \in Nat \ {0}

VARIABLES
    pool,                    \* URLs with a listing
    pending, inflight,       \* queue of documents; fetches, in dispatch order
    visited, answer,         \* documents awaited; of each, what came back
    cap, locale,             \* max_subfiles; the locale elected so far
    pc, status,
    todo, known, seen,       \* entries left, pool hashes, hashes of this run
    batch, writing, write,   \* batch being filled, batch being written, its thread
    inserted, raw, products, \* counters
    faults, others,
    queued, parsed, mine     \* history: documents queued, parsed; URLs this walk wrote

vars == <<pool, pending, inflight, visited, answer, cap, locale, pc, status,
          todo, known, seen, batch, writing, write, inserted, raw, products,
          faults, others, queued, parsed, mine>>

fetching == <<pending, inflight, visited, answer, cap, locale, queued>>
entries  == <<todo, known, seen, raw, products, parsed>>
writer   == <<batch, writing, write, inserted>>

-----------------------------------------------------------------------------
(***************************************************************************)
(* sitemap_locale: which files of a list are walked.                       *)
(***************************************************************************)
Quiet(docs) == Filter(docs, Doc \ Noise)
Locales(docs) == {LocaleOf[d] : d \in ToSet(Quiet(docs))} \ {NoLocale}

FirstIn(seq, S) == seq[CHOOSE k \in DOMAIN seq : seq[k] \in S /\ \A j \in 1..k - 1 : seq[j] \notin S]

\* The locale a list is cut to.  On a whole tree with several locales the
\* known one, the preferred ones, or the first of the list; in a shard the
\* known one and no other.
Chosen(docs, loc) ==
    LET wishes == (IF loc # NoLocale THEN <<loc>> ELSE <<>>) \o Preferred
                  \o [k \in DOMAIN Quiet(docs) |-> LocaleOf[Quiet(docs)[k]]]
    IN  IF ~Explicit /\ Cardinality(Locales(docs)) >= 2 THEN FirstIn(wishes, Locales(docs))
        ELSE IF Explicit /\ loc # NoLocale THEN loc
        ELSE NoLocale

\* select_sitemap_subfiles
Kept(docs, loc) ==
    Filter(Quiet(docs), {d \in Doc : Chosen(docs, loc) = NoLocale \/ LocaleOf[d] \in {NoLocale, Chosen(docs, loc)}})

\* _select_subfiles keeps the first choice.
Elected(docs, loc) == IF loc = NoLocale THEN Chosen(docs, loc) ELSE loc

\* Mutant: documents named as site chrome are lost.
SortedChromeless(docs) ==
    LET Of(r) == Filter(docs, {d \in Doc : Rank[d] = r}) IN Of(0) \o Of(1)

\* pending.sort: stable.
Sorted(docs) ==
    LET Of(r) == Filter(docs, {d \in Doc : Rank[d] = r}) IN Of(0) \o Of(1) \o Of(2)

-----------------------------------------------------------------------------
Init ==
    /\ pool = {}
    /\ pending = IF Explicit THEN Kept(Roots, NoLocale) ELSE Roots
    /\ cap \in Caps /\ locale = NoLocale
    /\ inflight = <<>> /\ visited = {}
    /\ answer = [d \in Doc |-> "none"]
    /\ pc = "walk" /\ status = "running"
    /\ todo = <<>> /\ known = {} /\ seen = {}
    /\ batch = <<>> /\ writing = <<>> /\ write = "idle"
    /\ inserted = 0 /\ raw = 0 /\ products = 0
    /\ faults = 0 /\ others = 0
    /\ queued = ToSet(pending) /\ parsed = {} /\ mine = {}

Fault == faults < MaxFaults /\ faults' = faults + 1

-----------------------------------------------------------------------------
(***************************************************************************)
(* walk_sitemaps.                                                          *)
(***************************************************************************)
CanDispatch ==
    /\ pending # <<>> /\ Len(inflight) < Prefetch
    /\ Cardinality(visited) + Len(inflight) < cap

Known(d) == d \in visited \/ d \in ToSet(inflight)

\* The head of the queue is fetched, or dropped when the walk knows it.
Dispatch ==
    /\ pc = "walk" /\ CanDispatch
    /\ LET d == Head(pending)
       IN  IF Known(d) THEN UNCHANGED <<inflight, answer>>
           ELSE /\ inflight' = Append(inflight, d)
                /\ answer' = [answer EXCEPT ![d] = "awaited"]
    /\ pending' = Tail(pending)
    /\ UNCHANGED <<pool, visited, cap, locale, pc, status, entries, writer, faults, others, queued, mine>>

\* A fetch ends while the walk does something else: the document, nothing,
\* or no proxy budget for it.
Answer(d) ==
    /\ d \in ToSet(inflight) /\ answer[d] = "awaited"
    /\ \/ answer' = [answer EXCEPT ![d] = "document"] /\ UNCHANGED faults
       \/ \E nothing \in {"nothing", "no budget"} :
             answer' = [answer EXCEPT ![d] = nothing] /\ Fault
    /\ UNCHANGED <<pool, pending, inflight, visited, cap, locale, pc, status, entries, writer,
                   others, queued, mine>>

Awaited == Head(inflight)

\* The oldest fetch is awaited: its sub-sitemaps are queued, its entries are
\* next.  known is the pool at the moment of the lookup.
Await ==
    /\ pc = "walk" /\ ~CanDispatch
    /\ inflight # <<>> /\ answer[Awaited] = "document"
    /\ LET d == Awaited
           more == Filter(Kept(Children[d], locale), Doc \ (visited \cup {d} \cup ToSet(Tail(inflight))))
       IN  /\ inflight' = Tail(inflight)
           /\ visited' = visited \cup {d}
           /\ pending' = Sorted(pending \o more)
           /\ queued' = queued \cup ToSet(more)
           /\ locale' = Elected(Children[d], locale)
           /\ raw' = raw + Entries[d]
           /\ products' = products + Len(Urls[d])
           /\ todo' = Urls[d]
           /\ known' = pool
           /\ parsed' = parsed \cup {d}
           /\ pc' = IF Urls[d] = <<>> THEN "walk" ELSE "entries"
    /\ UNCHANGED <<pool, answer, cap, status, seen, writer, faults, others, mine>>

\* A document that cannot be had is skipped.
AwaitNothing ==
    /\ pc = "walk" /\ ~CanDispatch
    /\ inflight # <<>> /\ answer[Awaited] = "nothing"
    /\ inflight' = Tail(inflight)
    /\ visited' = visited \cup {Awaited}
    /\ UNCHANGED <<pool, pending, answer, cap, locale, pc, status, entries, writer, faults, others,
                   queued, mine>>

\* ProxyBudgetExhausted leaves the walk; what is in flight is forgotten.
AwaitNoBudget ==
    /\ pc = "walk" /\ ~CanDispatch
    /\ inflight # <<>> /\ answer[Awaited] = "no budget"
    /\ pc' = "budget"
    /\ UNCHANGED <<pool, fetching, status, entries, writer, faults, others, mine>>

\* Nothing is left, or the cap is reached.
WalkEnd ==
    /\ pc = "walk" /\ ~CanDispatch /\ inflight = <<>>
    /\ pc' = "drain"
    /\ UNCHANGED <<pool, fetching, status, entries, writer, faults, others, mine>>

-----------------------------------------------------------------------------
(***************************************************************************)
(* enumerate_sitemap_full: the entries of a document.                      *)
(***************************************************************************)

\* One entry is a duplicate or goes into the batch; a full batch is flushed.
Entry ==
    /\ pc = "entries" /\ todo # <<>>
    /\ LET u == Head(todo)
           new == u \notin known /\ u \notin seen
       IN  /\ todo' = Tail(todo)
           /\ seen' = IF new THEN seen \cup {u} ELSE seen
           /\ batch' = IF new THEN Append(batch, u) ELSE batch
           /\ pc' = IF new /\ Len(batch') >= SaveBatch THEN "flush" ELSE "entries"
    /\ UNCHANGED <<pool, fetching, status, known, raw, products, parsed, writing, write, inserted,
                   faults, others, mine>>

\* max_urls stops the walk behind the document that passed it.
Enough == raw > MaxUrls /\ products >= MaxUrls

EntriesEnd ==
    /\ pc = "entries" /\ todo = <<>>
    /\ known' = {}
    /\ pc' = IF Enough THEN "drain" ELSE "walk"
    /\ UNCHANGED <<pool, fetching, status, todo, seen, raw, products, parsed, writer, faults, others, mine>>

\* Mutant: the last write is not waited for.
AfterFlushOnce == [flush |-> "entries", drain |-> "end", budget |-> "end"]

\* What follows a flush: drain and budget take two.
AfterFlush ==
    [flush |-> "entries", drain |-> "drained", drained |-> "end",
     budget |-> "budgeted", budgeted |-> "end"]

\* _flush: the write before is awaited, then the batch is handed over.
Flush ==
    /\ pc \in DOMAIN AfterFlush /\ write \in {"idle", "done"}
    /\ inserted' = inserted + Len(writing)
    /\ writing' = batch
    /\ batch' = <<>>
    /\ write' = IF batch = <<>> THEN "idle" ELSE "writing"
    /\ pc' = AfterFlush[pc]
    /\ status' = IF AfterFlush[pc] # "end" THEN status
                 ELSE IF pc \in {"budget", "budgeted"} THEN "budget_exhausted"
                 ELSE IF raw = 0 THEN "empty_sitemap" ELSE "completed"
    /\ UNCHANGED <<pool, fetching, entries, faults, others, mine>>

\* The write before has failed: the walk ends; on the budget's path the
\* failure is passed over.
FlushFails ==
    /\ pc \in DOMAIN AfterFlush /\ write = "failed"
    /\ status' = IF pc \in {"budget", "budgeted"} THEN "budget_exhausted" ELSE "error"
    /\ pc' = "end"
    /\ UNCHANGED <<pool, fetching, entries, writer, faults, others, mine>>

\* The thread: one transaction; URLs another shard was faster with are
\* rejected.  writing keeps the inserted ones for the counter.
Write ==
    /\ write = "writing"
    /\ write' = "done"
    /\ writing' = Filter(writing, ToSet(writing) \ pool)
    /\ pool' = pool \cup ToSet(writing)
    /\ mine' = mine \cup (ToSet(writing) \ pool)
    /\ UNCHANGED <<fetching, pc, status, entries, batch, inserted, faults, others>>

WriteFails ==
    /\ write = "writing" /\ Fault
    /\ write' = "failed"
    /\ UNCHANGED <<pool, fetching, pc, status, entries, batch, writing, inserted, others, mine>>

OtherShard ==
    /\ others < MaxOthers /\ others' = others + 1
    /\ \E d \in Doc : \E u \in ToSet(Urls[d]) : u \notin pool /\ pool' = pool \cup {u}
    /\ UNCHANGED <<fetching, pc, status, entries, writer, faults, mine>>

Next ==
    \/ Dispatch \/ \E d \in Doc : Answer(d)
    \/ Await \/ AwaitNothing \/ AwaitNoBudget \/ WalkEnd
    \/ Entry \/ EntriesEnd \/ Flush \/ FlushFails
    \/ Write \/ WriteFails \/ OtherShard

Spec == Init /\ [][Next]_vars

-----------------------------------------------------------------------------
TypeOK ==
    /\ pool \subseteq AllUrls /\ seen \subseteq AllUrls /\ known \subseteq AllUrls
    /\ ToSet(pending) \subseteq Doc /\ ToSet(inflight) \subseteq Doc
    /\ visited \subseteq Doc /\ Len(inflight) <= Prefetch /\ Cardinality(visited) <= cap
    /\ answer \in [Doc -> {"none", "awaited", "document", "nothing", "no budget"}]
    /\ write \in {"idle", "writing", "done", "failed"} /\ (write = "idle" => writing = <<>>)
    /\ pc \in {"walk", "entries", "end"} \cup DOMAIN AfterFlush
    /\ status \in {"running", "completed", "empty_sitemap", "budget_exhausted", "error"}

\* A walk that ends, also one that ran out of budget, has written what it
\* parsed: nothing stays behind in the batch or in the write under way
\* (_flush, called twice; "What was already walked is written").
NothingLeftBehind ==
    status \in {"completed", "empty_sitemap", "budget_exhausted"} /\ write # "failed" =>
        \A d \in parsed : ToSet(Urls[d]) \subseteq pool

\* A completed walk went through everything it had queued, unless it reached
\* one of its caps, and reports as inserted what it wrote.
CompletedWalk ==
    status = "completed" =>
        /\ inserted = Cardinality(mine)
        /\ Cardinality(visited) < cap /\ ~Enough => queued \subseteq visited
=============================================================================
