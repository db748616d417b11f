------------------------------ MODULE SitemapFanOut ------------------------------
(***************************************************************************)
(* Enumeration of one shop's sitemap (workers/onboarding_tasks.py).  A     *)
(* coordinator task resolves the sitemap index and either walks it itself  *)
(* or starts a run: it sets a Redis counter and sends one task per shard.  *)
(* A shard stashes its categories, stores its count and decrements the     *)
(* counter; the shard that brings it to zero adds up the counts, raises    *)
(* the shop's estimate and publishes the categories.  A walk for which the *)
(* proxy has no budget is parked, and a nightly tick sends it again.       *)
(*                                                                         *)
(* Tasks are acknowledged late: a worker that dies, or a walk longer than  *)
(* the visibility timeout, makes the broker deliver the message again.     *)
(* A step is one Redis command or one database statement.                  *)
(***************************************************************************)
EXTENDS Integers, FiniteSets, FiniteSetsExt

CONSTANTS
    Run,           \* run ids; bound: fan-outs of the shop
    Shard,         \* the chunks of the index, and the categories each one lists
    Size,          \* product-like URLs of each shard
    Worker,
    MaxAttempts,   \* BUDGET_RETRY_MAX_ATTEMPTS
    MaxRequests,   \* bound: enumerations asked for by an admin or the weekly rescan
    MaxFaults,     \* bound: crashes, redeliveries, outages and the like
    Coordinator,   \* the walk of the coordinator task
    NoRun, NoWalk,
    Events         \* which environment events this instance lets happen

EventKinds ==
    {"crash",      \* a worker, or the process of the retry tick, dies
     "overtime",   \* a task outlives the visibility timeout: its message is delivered again
     "error",      \* an exception reaches the task's handler, which logs it and ends
     "redis",      \* Redis does not answer
     "lapse",      \* a run's keys reach their time to live
     "short",      \* a walk sees less than the shop lists
     "overtake"}   \* a re-sent walk is parked again before its old entry is deleted

Walk == {Coordinator} \cup (Run \X Shard)

ASSUME ConstantsAssumption ==
    /\ IsFiniteSet(Shard) /\ Size \in [Shard -> Nat]
    /\ MaxAttempts \in Nat /\ MaxRequests \in Nat /\ MaxFaults \in Nat
    /\ Coordinator \notin Run \X Shard
    /\ NoRun \notin Run /\ NoWalk \notin Walk
    /\ Events \subseteq EventKinds

VARIABLES
    shop,      \* the dim_marketplace row
    peak,      \* history: the highest estimate there was
    pending,   \* enumrun:<run>:pending; a key that is missing counts as 0
    counts,    \* enumrun:<run>:counts
    stash,     \* enumrun:<run>:cats
    queue,     \* undelivered messages
    parked,    \* enum:budget_retry: attempts per walk, 0 if there is no field
    retry,     \* the retry tick: what it has read and not yet dealt with
    pc, job,   \* where each worker is, and its locals
    requests, faults,   \* counters of bounds
    begun,     \* history: runs that took an id
    sent,      \* history: shards whose message was sent
    ticked,    \* history: shards that decremented their run's counter
    blurred,   \* history: runs with a shard that decremented twice, or a key that lapsed
    dropped    \* history: walks the code ended without a result, by its own decision

redisVars == <<pending, counts, stash>>
historyVars == <<begun, sent, ticked, blurred, dropped>>
vars == <<shop, peak, redisVars, queue, parked, retry, pc, job, requests, faults, historyVars>>

NoCount == -1
Counted(s) == {NoCount} \cup 0..Size[s]
Tally == {c \in [Shard -> UNION {Counted(s) : s \in Shard}] : \A s \in Shard : c[s] \in Counted(s)}
NoTally == [s \in Shard |-> NoCount]

\* sum(int(v) for v in hvals(counts))
Total(c) ==
    LET value(s) == c[s] IN MapThenSumSet(value, {s \in Shard : c[s] # NoCount})

Estimates == {Total(c) : c \in Tally}
Shop == [estimate: Estimates, categories: SUBSET Shard]
Message == [walk: Walk, attempts: 0..MaxAttempts]

\* shards: those still to send (coordinator), or whose categories were popped
\* (last shard).  count: product-like URLs of the walk.  seen: the row loaded.
Locals == [walk: Walk \cup {NoWalk}, attempts: 0..MaxAttempts, run: Run \cup {NoRun},
           shards: SUBSET Shard, count: {NoCount} \cup Nat, total: Estimates, seen: Shop]

EmptyShop == [estimate |-> Total(NoTally), categories |-> {}]
NoJob == [walk |-> NoWalk, attempts |-> 0, run |-> NoRun, shards |-> {}, count |-> NoCount,
          total |-> Total(NoTally), seen |-> EmptyShop]
NoEntries == [k \in Walk |-> 0]

Init ==
    /\ shop = EmptyShop
    /\ peak = shop.estimate
    /\ pending = [r \in Run |-> 0]
    /\ counts = [r \in Run |-> NoTally]
    /\ stash = [r \in Run |-> {}]
    /\ queue = [m \in Message |-> 0]
    /\ parked = NoEntries
    /\ retry = [entries |-> NoEntries, at |-> NoWalk]
    /\ pc = [w \in Worker |-> "idle"]
    /\ job = [w \in Worker |-> NoJob]
    /\ requests = 0 /\ faults = 0
    /\ begun = {} /\ sent = {} /\ dropped = {} /\ blurred = {}
    /\ ticked = [r \in Run |-> {}]

-----------------------------------------------------------------------------
Goto(w, label) == pc' = [pc EXCEPT ![w] = label]

\* The task returns, and its message is acknowledged.
Return(w) == Goto(w, "idle") /\ job' = [job EXCEPT ![w] = NoJob]

Envelope(k, n) == [walk |-> k, attempts |-> n]
Send(k, n) == queue' = [queue EXCEPT ![Envelope(k, n)] = @ + 1]
Drop(w) == dropped' = dropped \cup {job[w].walk}

Fault(kind) == kind \in Events /\ faults < MaxFaults /\ faults' = faults + 1

\* apply_async of the admin API, or of the weekly rescan.
Request ==
    /\ requests < MaxRequests
    /\ requests' = requests + 1
    /\ Send(Coordinator, 0)
    /\ UNCHANGED <<shop, peak, redisVars, parked, retry, pc, job, faults, historyVars>>

Take(w) ==
    /\ pc[w] = "idle"
    /\ \E m \in Message :
          /\ queue[m] > 0
          /\ queue' = [queue EXCEPT ![m] = @ - 1]
          /\ job' = [job EXCEPT ![w] =
                        [NoJob EXCEPT !.walk = m.walk, !.attempts = m.attempts,
                                      !.run = IF m.walk = Coordinator THEN NoRun ELSE m.walk[1]]]
          /\ Goto(w, IF m.walk = Coordinator THEN "resolve" ELSE "walk")
    /\ UNCHANGED <<shop, peak, redisVars, parked, retry, requests, faults, historyVars>>

\* The proxy has no budget for the index, or for a file of the shard.
OutOfBudget(w) ==
    /\ pc[w] \in {"resolve", "walk"}
    /\ Goto(w, "park")
    /\ UNCHANGED <<shop, peak, redisVars, queue, parked, retry, job, requests, faults, historyVars>>

\* Mutant: no limit on the attempts.
ParkForever(w) ==
    /\ pc[w] = "park"
    /\ retry.at = job[w].walk => "overtake" \in Events
    /\ parked' = [parked EXCEPT ![job[w].walk] = job[w].attempts + 1]
    /\ Return(w)
    /\ UNCHANGED <<shop, peak, redisVars, queue, retry, requests, faults, historyVars>>

\* Mutant: a walk that is parked counts as done.
ParkCounts(w) ==
    /\ pc[w] = "park"
    /\ retry.at = job[w].walk => "overtake" \in Events
    /\ job[w].attempts < MaxAttempts
    /\ parked' = [parked EXCEPT ![job[w].walk] = job[w].attempts + 1]
    /\ pending' = [r \in Run |-> IF r = job[w].run THEN pending[r] - 1 ELSE pending[r]]
    /\ Return(w)
    /\ UNCHANGED <<shop, peak, counts, stash, queue, retry, requests, faults, historyVars>>

\* _park_for_budget: after MaxAttempts the walk is given up.  The counter of its
\* run does not move.
Park(w) ==
    LET k == job[w].walk
        n == job[w].attempts + 1
    IN
    /\ pc[w] = "park"
    /\ retry.at = k => "overtake" \in Events
    /\ \/ n <= MaxAttempts /\ parked' = [parked EXCEPT ![k] = n] /\ UNCHANGED <<faults, dropped>>
       \/ n <= MaxAttempts /\ Fault("redis") /\ Drop(w) /\ UNCHANGED parked
       \/ n > MaxAttempts /\ Drop(w) /\ UNCHANGED <<parked, faults>>
    /\ Return(w)
    /\ UNCHANGED <<shop, peak, redisVars, queue, retry, requests, begun, sent, ticked, blurred>>

-----------------------------------------------------------------------------
(***************************************************************************)
(* The coordinator.                                                        *)
(***************************************************************************)

\* The counter is set before any shard is sent.  If Redis is away, the shards
\* are sent all the same.
StartRun(w) ==
    /\ pc[w] = "resolve"
    /\ \E r \in Run \ begun :
          /\ begun' = begun \cup {r}
          /\ job' = [job EXCEPT ![w].run = r, ![w].shards = Shard]
          /\ \/ /\ pending' = [pending EXCEPT ![r] = Cardinality(Shard)]
                /\ UNCHANGED <<faults, blurred>>
             \/ /\ Fault("redis")
                /\ blurred' = blurred \cup {r}
                /\ UNCHANGED pending
    /\ Goto(w, "send")
    /\ UNCHANGED <<shop, peak, counts, stash, queue, parked, retry, requests, sent, ticked, dropped>>

SendShard(w) ==
    /\ pc[w] = "send"
    /\ \E s \in job[w].shards :
          /\ Send(<<job[w].run, s>>, 0)
          /\ sent' = sent \cup {<<job[w].run, s>>}
          /\ job' = [job EXCEPT ![w].shards = @ \ {s}]
    /\ UNCHANGED <<shop, peak, redisVars, parked, retry, pc, requests, faults,
                   begun, ticked, blurred, dropped>>

SentAll(w) ==
    /\ pc[w] = "send" /\ job[w].shards = {}
    /\ Return(w)
    /\ UNCHANGED <<shop, peak, redisVars, queue, parked, retry, requests, faults, historyVars>>

\* _write_estimate: compares with the row as it was loaded, not as it is.
Raise(seen, total) ==
    /\ shop' = IF total > seen.estimate THEN [shop EXCEPT !.estimate = total] ELSE shop
    /\ peak' = IF shop'.estimate > peak THEN shop'.estimate ELSE peak

\* publish_category_urls: the merged list replaces the stored one.
Merge(seen, found) ==
    /\ shop' = IF found \subseteq seen.categories THEN shop
               ELSE [shop EXCEPT !.categories = seen.categories \cup found]
    /\ UNCHANGED peak

\* The index has fewer than two files (or did not answer): the coordinator
\* loads the shop and walks the whole tree itself.
StartInline(w) ==
    /\ pc[w] = "resolve"
    /\ job' = [job EXCEPT ![w].seen = shop]
    /\ Goto(w, "inline")
    /\ UNCHANGED <<shop, peak, redisVars, queue, parked, retry, requests, faults, historyVars>>

InlineDone(w) ==
    /\ pc[w] = "inline"
    /\ \E c \in Tally, found \in SUBSET Shard :
          /\ \/ c = Size /\ found = Shard /\ UNCHANGED faults
             \/ Fault("short")
          /\ Merge(job[w].seen, found)
          /\ job' = [job EXCEPT ![w].total = Total(c)]
    /\ Goto(w, "estimate")
    /\ UNCHANGED <<redisVars, queue, parked, retry, requests, historyVars>>

\* The budget ends during the walk: what was seen counts, then it is parked.
InlineBudget(w) ==
    /\ pc[w] = "inline"
    /\ \E c \in Tally : Raise(job[w].seen, Total(c))
    /\ Goto(w, "park")
    /\ UNCHANGED <<redisVars, queue, parked, retry, job, requests, faults, historyVars>>

-----------------------------------------------------------------------------
(***************************************************************************)
(* A shard: walk, stash, record, and the duties of the last one.           *)
(***************************************************************************)

\* The walk ends, having seen the whole shard or less (a file did not load, an
\* exception ended it), and _stash_shard_categories adds what it found; without
\* Redis the categories are forgotten.
WalkDone(w) ==
    LET r == job[w].run
        s == job[w].walk[2]
    IN
    /\ pc[w] = "walk"
    /\ \/ /\ job' = [job EXCEPT ![w].count = Size[s]]
          /\ stash' = [stash EXCEPT ![r] = @ \cup {s}]
          /\ UNCHANGED faults
       \/ /\ Fault("redis")
          /\ job' = [job EXCEPT ![w].count = Size[s]]
          /\ UNCHANGED stash
       \/ /\ Fault("short")
          /\ \E n \in 0..Size[s], found \in BOOLEAN :
                /\ job' = [job EXCEPT ![w].count = n]
                /\ stash' = IF found THEN [stash EXCEPT ![r] = @ \cup {s}] ELSE stash
    /\ Goto(w, "hset")
    /\ UNCHANGED <<shop, peak, pending, counts, queue, parked, retry, requests, historyVars>>

\* HSET counts shard_no product_like.
RecordCount(w) ==
    /\ pc[w] = "hset"
    /\ counts' = [counts EXCEPT ![job[w].run][job[w].walk[2]] = job[w].count]
    /\ Goto(w, "decr")
    /\ UNCHANGED <<shop, peak, pending, stash, queue, parked, retry, job, requests, faults, historyVars>>

\* Mutant: only the shard that finds exactly zero goes on.
DecrementToZero(w) ==
    LET r == job[w].run
        s == job[w].walk[2]
    IN
    /\ pc[w] = "decr"
    /\ pending' = [pending EXCEPT ![r] = @ - 1]
    /\ IF pending[r] - 1 # 0 THEN Return(w) ELSE Goto(w, "hvals") /\ UNCHANGED job
    /\ ticked' = [ticked EXCEPT ![r] = @ \cup {s}]
    /\ blurred' = IF s \in ticked[r] THEN blurred \cup {r} ELSE blurred
    /\ UNCHANGED <<shop, peak, counts, stash, queue, parked, retry, requests, faults,
                   begun, sent, dropped>>

\* DECR pending; the shard that does not leave a positive number goes on.
Decrement(w) ==
    LET r == job[w].run
        s == job[w].walk[2]
    IN
    /\ pc[w] = "decr"
    /\ pending' = [pending EXCEPT ![r] = @ - 1]
    /\ IF pending[r] - 1 > 0 THEN Return(w) ELSE Goto(w, "hvals") /\ UNCHANGED job
    /\ ticked' = [ticked EXCEPT ![r] = @ \cup {s}]
    /\ blurred' = IF s \in ticked[r] THEN blurred \cup {r} ELSE blurred
    /\ UNCHANGED <<shop, peak, counts, stash, queue, parked, retry, requests, faults, begun, sent, dropped>>

\* HVALS counts.
AddUp(w) ==
    /\ pc[w] = "hvals"
    /\ job' = [job EXCEPT ![w].total = Total(counts[job[w].run])]
    /\ Goto(w, "load")
    /\ UNCHANGED <<shop, peak, redisVars, queue, parked, retry, requests, faults, historyVars>>

\* _load_marketplace.
LoadShop(w) ==
    /\ pc[w] = "load"
    /\ job' = [job EXCEPT ![w].seen = shop]
    /\ Goto(w, "estimate")
    /\ UNCHANGED <<shop, peak, redisVars, queue, parked, retry, requests, faults, historyVars>>

WriteEstimate(w) ==
    /\ pc[w] = "estimate"
    /\ Raise(job[w].seen, job[w].total)
    /\ IF job[w].walk = Coordinator THEN Return(w) ELSE Goto(w, "members") /\ UNCHANGED job
    /\ UNCHANGED <<redisVars, queue, parked, retry, requests, faults, historyVars>>

\* _pop_run_categories: SMEMBERS, then DEL.
ReadCategories(w) ==
    /\ pc[w] = "members"
    /\ job' = [job EXCEPT ![w].shards = stash[job[w].run]]
    /\ Goto(w, "delete")
    /\ UNCHANGED <<shop, peak, redisVars, queue, parked, retry, requests, faults, historyVars>>

DeleteCategories(w) ==
    /\ pc[w] = "delete"
    /\ stash' = [stash EXCEPT ![job[w].run] = {}]
    /\ Goto(w, "publish")
    /\ UNCHANGED <<shop, peak, pending, counts, queue, parked, retry, job, requests, faults, historyVars>>

Publish(w) ==
    /\ pc[w] = "publish"
    /\ Merge(job[w].seen, job[w].shards)
    /\ Return(w)
    /\ UNCHANGED <<redisVars, queue, parked, retry, requests, faults, historyVars>>

-----------------------------------------------------------------------------
(***************************************************************************)
(* sitemap_budget_retry_tick, at 00:05 UTC.                                *)
(***************************************************************************)

RetryRead ==
    /\ retry.entries = NoEntries /\ parked # NoEntries
    /\ retry' = [retry EXCEPT !.entries = parked]
    /\ UNCHANGED <<shop, peak, redisVars, queue, parked, pc, job, requests, faults, historyVars>>

RetrySend ==
    /\ retry.at = NoWalk
    /\ \E k \in Walk :
          /\ retry.entries[k] > 0
          /\ Send(k, retry.entries[k])
          /\ retry' = [retry EXCEPT !.at = k]
    /\ UNCHANGED <<shop, peak, redisVars, parked, pc, job, requests, faults, historyVars>>

\* Mutant: the hash is deleted as a whole.
RetryDeletesAll ==
    /\ retry.at # NoWalk
    /\ parked' = NoEntries
    /\ retry' = [at |-> NoWalk, entries |-> [retry.entries EXCEPT ![retry.at] = 0]]
    /\ UNCHANGED <<shop, peak, redisVars, queue, pc, job, requests, faults, historyVars>>

\* HDEL of the entry just sent.
RetryDelete ==
    /\ retry.at # NoWalk
    /\ parked' = [parked EXCEPT ![retry.at] = 0]
    /\ retry' = [at |-> NoWalk, entries |-> [retry.entries EXCEPT ![retry.at] = 0]]
    /\ UNCHANGED <<shop, peak, redisVars, queue, pc, job, requests, faults, historyVars>>

-----------------------------------------------------------------------------
(***************************************************************************)
(* Faults.                                                                 *)
(***************************************************************************)

\* A worker dies: its message is delivered again.
Crash(w) ==
    /\ Fault("crash")
    /\ pc[w] # "idle"
    /\ Send(job[w].walk, job[w].attempts)
    /\ Return(w)
    /\ UNCHANGED <<shop, peak, redisVars, parked, retry, requests, historyVars>>

\* A walk outlives the visibility timeout: a copy is delivered beside it.
Overtime(w) ==
    /\ Fault("overtime")
    /\ pc[w] # "idle"
    /\ Send(job[w].walk, job[w].attempts)
    /\ UNCHANGED <<shop, peak, redisVars, parked, retry, pc, job, requests, historyVars>>

\* An exception is logged and swallowed: the message counts as done.
Fails(w) ==
    /\ Fault("error")
    /\ pc[w] # "idle"
    /\ Drop(w)
    /\ Return(w)
    /\ UNCHANGED <<shop, peak, redisVars, queue, parked, retry, requests, begun, sent, ticked, blurred>>

\* Redis is away while a shard records itself or pops the categories.
LosesRedis(w) ==
    /\ Fault("redis")
    /\ pc[w] \in {"hset", "decr", "hvals", "members", "delete"}
    /\ Drop(w)
    /\ Return(w)
    /\ UNCHANGED <<shop, peak, redisVars, queue, parked, retry, requests, begun, sent, ticked, blurred>>

\* The retry tick dies or cannot send; its entries stay parked.
RetryDies ==
    /\ Fault("crash") \/ Fault("error")
    /\ retry.entries # NoEntries
    /\ retry' = [entries |-> NoEntries, at |-> NoWalk]
    /\ UNCHANGED <<shop, peak, redisVars, queue, parked, pc, job, requests, historyVars>>

\* A key of a run expires.
Lapse(r) ==
    /\ Fault("lapse")
    /\ \/ pending' = [pending EXCEPT ![r] = 0] /\ UNCHANGED <<counts, stash>>
       \/ counts' = [counts EXCEPT ![r] = NoTally] /\ UNCHANGED <<pending, stash>>
       \/ stash' = [stash EXCEPT ![r] = {}] /\ UNCHANGED <<pending, counts>>
    /\ blurred' = blurred \cup {r}
    /\ UNCHANGED <<shop, peak, queue, parked, retry, pc, job, requests, begun, sent, ticked, dropped>>

Coordinate(w) == StartRun(w) \/ SendShard(w) \/ SentAll(w)
                 \/ StartInline(w) \/ InlineDone(w) \/ InlineBudget(w)
WalkShard(w) == WalkDone(w) \/ RecordCount(w) \/ Decrement(w)
Finish(w) == AddUp(w) \/ LoadShop(w) \/ WriteEstimate(w)
             \/ ReadCategories(w) \/ DeleteCategories(w) \/ Publish(w)
Work(w) == Take(w) \/ OutOfBudget(w) \/ Park(w) \/ Coordinate(w) \/ WalkShard(w) \/ Finish(w)
RetryTick == RetryRead \/ RetrySend \/ RetryDelete

Next ==
    \/ Request
    \/ \E w \in Worker : Work(w)
    \/ \E w \in Worker : Crash(w) \/ Overtime(w) \/ Fails(w) \/ LosesRedis(w)
    \/ RetryTick
    \/ RetryDies
    \/ \E r \in Run : Lapse(r)

Spec == Init /\ [][Next]_vars

\* Workers go on while there is a message or a task, and beat runs the retry
\* tick every night.
Fairness == (\A w \in Worker : WF_vars(Work(w))) /\ WF_vars(RetryTick)

FairSpec == Spec /\ Fairness

-----------------------------------------------------------------------------
(***************************************************************************)
(* Properties.                                                             *)
(***************************************************************************)

\* Type invariant.
TypeOK ==
    /\ shop \in Shop /\ peak \in Estimates
    /\ pending \in [Run -> Int] /\ counts \in [Run -> Tally] /\ stash \in [Run -> SUBSET Shard]
    /\ queue \in [Message -> Nat]
    /\ parked \in [Walk -> 0..MaxAttempts]
    /\ retry \in [entries: [Walk -> 0..MaxAttempts], at: Walk \cup {NoWalk}]
    /\ pc \in [Worker -> {"idle", "resolve", "send", "inline", "walk", "hset", "decr", "hvals",
                          "load", "estimate", "members", "delete", "publish", "park"}]
    /\ job \in [Worker -> Locals]
    /\ requests \in Nat /\ faults \in Nat
    /\ begun \subseteq Run /\ sent \subseteq Run \X Shard /\ dropped \subseteq Walk
    /\ ticked \in [Run -> SUBSET Shard] /\ blurred \subseteq Run

\* A shard is recorded, queued or in a worker's hands, or the code itself ended
\* it: gave up after MaxAttempts, logged an exception, or found Redis away.
OnItsWay(k) ==
    \/ k[2] \in ticked[k[1]]
    \/ \E n \in 0..MaxAttempts : queue[Envelope(k, n)] > 0
    \/ \E w \in Worker : pc[w] # "idle" /\ job[w].walk = k
    \/ k \in dropped

\* A shard that was sent is on its way or parked for the night, whatever is
\* redelivered, parked again, sent again or dies in between.
NoShardLost == \A k \in sent : OnItsWay(k) \/ parked[k] > 0

\* The worker's shard has taken itself for the last one of its run.
Finishing(w) ==
    /\ pc[w] \in {"hvals", "load", "estimate", "members", "delete", "publish"}
    /\ job[w].walk # Coordinator

\* While no shard of a run has decremented twice and no key has lapsed, the
\* shard that takes itself for the last one finds the counts of all of them.
LastShardSeesAll ==
    \A w \in Worker :
        Finishing(w) /\ job[w].run \notin blurred
            => \A s \in Shard : counts[job[w].run][s] # NoCount

\* When every shard of a run has decremented, the estimate reaches their total,
\* although the last shard may die: its successor finds the counter at or below
\* zero and does its duties again.
EstimateCatchesUp ==
    \A r \in Run :
        ticked[r] = Shard
            ~> (peak >= Total(counts[r]) \/ \E s \in Shard : <<r, s>> \in dropped)

=============================================================================
