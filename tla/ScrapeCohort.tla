------------------------------ MODULE ScrapeCohort ------------------------------
(***************************************************************************)
(* One marketplace's listings during the scrape phase of a run, and the    *)
(* processes that check them:                                              *)
(*                                                                         *)
(*   - the scrape children the tick dispatches, one after the other, while *)
(*     the cohort has a remainder (_run_scrape_all_pool_impl with the      *)
(*     cohort anchor, if there is one, and a deadline);                    *)
(*   - the shards of the scheduled fan-out (scrape_stale_fanout,           *)
(*     scrape_listing_batch), which scrape the ids they were given without *)
(*     looking at the rows again.                                          *)
(*                                                                         *)
(* A runner reads a listing's row, works on the page, and writes counters  *)
(* computed from what it read, in a transaction per listing.  The parallel *)
(* fetch of a chunk is abstracted to its results.                          *)
(*                                                                         *)
(* The anchor is a time in the parent's metadata.  A tick that finds none   *)
(* sets one, sends children, and saves it last; a child reads what is saved *)
(* when it starts.  Anchors are numbered in the order they are set in.     *)
(***************************************************************************)
EXTENDS Naturals, FiniteSets

CONSTANTS
    Listing,
    Child,             \* processes that may run a scrape child of the marketplace
    Shard,             \* processes that run fan-out shards
    BatchSize,         \* scrape_pool_batch_size
    MaxListings,       \* scrape_pool_max_listings_per_run
    DeactivateAfter,   \* LISTING_DEACTIVATE_AFTER_ERRORS
    MaxStreak,         \* bound: failure_streak of one listing
    MaxSkips,          \* bound: outcomes that write nothing, and deadlines
    MaxAnchors,        \* bound: anchors of one run
    NoListing,
    Events             \* which environment events this instance lets happen

EventKinds ==
    {"duplicate",   \* a redelivered child runs beside its successor
     "stale",       \* a stale copy of the metadata puts an older anchor, or none, back
     "lost",        \* an exception or a rolled back commit
     "proxy",       \* the proxy provider had no budget or no time
     "prune",       \* the page turns out not to be a product
     "unpruned",    \* ... and deleting its listing does not go through
     "absent",      \* the page says there is no price, or no product any more
     "deadline",    \* a child's budget runs out
     "fatal",       \* an exception outside the per-listing handler
     "rerun",       \* later runs scrape the marketplace again
     "reject"}      \* the gate rejects one of the housekeeping updates

ASSUME ConstantsAssumption ==
    /\ BatchSize \in Nat \ {0} /\ MaxListings \in Nat \ {0} /\ DeactivateAfter \in Nat \ {0}
    /\ MaxStreak \in Nat /\ MaxSkips \in Nat /\ MaxAnchors \in Nat
    /\ NoListing \notin Listing /\ Child \cap Shard = {}
    /\ Events \subseteq EventKinds

Runner == Child \cup Shard

VARIABLES
    row,     \* the fact_listing rows of the marketplace
    anchor,  \* made: the anchors ticks have set in this run; saved: the one in
             \* the parent's metadata (scrape_phase_started_at), 0 when there is none
    pc,      \* where each runner is
    job,     \* the locals of each runner
    fails,   \* history: failures that reached the shop, per listing,
             \* up to DeactivateAfter
    oks,     \* history: successes of the run's scrape children since its latest anchor,
             \* per listing, up to two; those of children without an anchor count as one
    skips    \* counter of a bound

vars == <<row, anchor, pc, job, fails, oks, skips>>

\* checked: last_checked_at, as the number of anchors the run had by then.  due:
\* the listing's own interval has elapsed since it was checked.
ListingRow == [exists: BOOLEAN, active: BOOLEAN, checked: Nat, due: BOOLEAN, streak: Nat]

\* anchor is the one a child read when it started, 0 when there was none, and
\* since the number of anchors by then; seen is the failure_streak read with
\* the row; ok, failed: the counters are positive; hard: the run ended in an
\* exception.
Locals == [anchor: Nat, since: Nat,
           todo: SUBSET Listing, processed: SUBSET Listing, at: Listing \cup {NoListing},
           seen: Nat, ok: BOOLEAN, failed: BOOLEAN, exhausted: BOOLEAN, hard: BOOLEAN]

NoJob == [anchor |-> 0, since |-> 0,
          todo |-> {}, processed |-> {}, at |-> NoListing, seen |-> 0,
          ok |-> FALSE, failed |-> FALSE, exhausted |-> FALSE, hard |-> FALSE]

\* The listings that are active and due by their intervals.
Due == {l \in Listing : row[l].exists /\ row[l].active /\ row[l].due}

\* Mutant: the cohort anchor is dropped from the selection.
SelectableAnyTime(c) == Due

\* What a child's SELECT may return: due, and not checked since the anchor of
\* the child, if it has one.
Selectable(c) == {l \in Due : job[c].anchor = 0 \/ row[l].checked < job[c].anchor}

\* What the tick counts (_cohort_remainder): active, not checked since the anchor
\* of the metadata, or the one the tick has just set.
Remainder ==
    LET current == IF anchor.saved = 0 THEN anchor.made ELSE anchor.saved
    IN  {l \in Listing : row[l].exists /\ row[l].active /\ row[l].checked < current}

\* Any n members of a set, or all of them.
Some(S, n) == {b \in SUBSET S : Cardinality(b) = IF Cardinality(S) < n THEN Cardinality(S) ELSE n}

\* LIMIT without ORDER BY: any batch of the size that is left.
BatchesOf(c) == Some(Selectable(c), BatchSize)

\* What the child may still take on (queued_total is the number it has).
Room(c) == MaxListings - Cardinality(job[c].processed)

\* The terminal status of a scrape child.
Verdict(c) ==
    IF job[c].hard THEN "failed"
    ELSE IF job[c].ok /\ (job[c].exhausted \/ job[c].failed) THEN "partial"
    ELSE IF job[c].failed THEN "failed"
    ELSE "completed"

\* A listing may have been checked so recently that it is not due, and may be
\* inactive already.
Init ==
    /\ row \in [Listing -> [exists: {TRUE}, active: BOOLEAN, checked: {0}, due: BOOLEAN,
                            streak: {0}]]
    /\ anchor = [made |-> 0, saved |-> 0]
    /\ pc = [r \in Runner |-> "idle"]
    /\ job = [r \in Runner |-> NoJob]
    /\ fails = [l \in Listing |-> 0]
    /\ oks = [l \in Listing |-> 0]
    /\ skips = 0

-----------------------------------------------------------------------------
GoTo(r, label) == pc' = [pc EXCEPT ![r] = label]
history == <<fails, oks>>

CanSkip == skips < MaxSkips /\ skips' = skips + 1

\* A tick of the scrape phase that finds no scrape_queue in the metadata anchors
\* the cohort at the current time, in its own copy: the first of the phase, and
\* any whose predecessor's touch was lost or overwritten.
SetAnchor ==
    /\ anchor.saved = 0 /\ anchor.made < MaxAnchors
    /\ anchor' = [anchor EXCEPT !.made = @ + 1]
    /\ oks' = [l \in Listing |-> 0]
    /\ UNCHANGED <<row, pc, job, fails, skips>>

\* store.touch at the end of that tick saves the anchor; whoever writes back
\* the whole metadata it read before undoes that.
SaveAnchor ==
    /\ \E saved \in 0..anchor.made :
          /\ saved = anchor.made \/ "stale" \in Events
          /\ anchor' = [anchor EXCEPT !.saved = saved]
    /\ UNCHANGED <<row, pc, job, history, skips>>

\* The tick sends a child while a remainder is left and no child of the
\* marketplace is active.
Dispatch(c) ==
    /\ pc[c] \in {"idle", "done"}
    /\ Remainder # {}
    /\ "duplicate" \in Events \/ \A d \in Child : pc[d] \in {"idle", "done"}
    /\ job' = [job EXCEPT ![c] = NoJob]
    /\ GoTo(c, "sent")
    /\ UNCHANGED <<row, anchor, history, skips>>

\* scrape_one_marketplace begins: it reads the anchor of the parent.
StartChild(c) ==
    /\ pc[c] = "sent"
    /\ job' = [job EXCEPT ![c].anchor = anchor.saved, ![c].since = anchor.made]
    /\ GoTo(c, "select")
    /\ UNCHANGED <<row, anchor, history, skips>>

\* The fan-out hands a shard some of the active listings that are due.
StartShard(s) ==
    /\ pc[s] \in {"idle", "done"}
    /\ \E ids \in SUBSET Due :
          /\ ids # {}
          /\ job' = [job EXCEPT ![s] = [NoJob EXCEPT !.todo = ids, !.processed = ids]]
    /\ GoTo(s, "work")
    /\ UNCHANGED <<row, anchor, history, skips>>

\* Mutant: a batch that is not full ends the run before it is worked on.
SelectStopsAtShort(c) ==
    /\ pc[c] = "select" /\ Room(c) > 0
    /\ \E batch \in BatchesOf(c) :
          IF batch \subseteq job[c].processed \/ Cardinality(batch) < BatchSize
          THEN GoTo(c, "done") /\ UNCHANGED job
          ELSE /\ job' = [job EXCEPT ![c].todo = batch, ![c].processed = @ \cup batch]
               /\ GoTo(c, "work")
    /\ UNCHANGED <<row, anchor, history, skips>>

\* The head of the while loop: a batch without anything new ends the run; of one
\* with more than the run may still take on, the rest is left.
Select(c) ==
    /\ pc[c] = "select" /\ Room(c) > 0
    /\ \E batch \in BatchesOf(c) :
          IF batch \subseteq job[c].processed
          THEN GoTo(c, "done") /\ UNCHANGED job
          ELSE /\ \E taken \in Some(batch \ job[c].processed, Room(c)) :
                     job' = [job EXCEPT ![c].todo = taken, ![c].processed = @ \cup taken]
               /\ GoTo(c, "work")
    /\ UNCHANGED <<row, anchor, history, skips>>

\* queued_total has reached max_listings_per_run.
Full(c) ==
    /\ pc[c] = "select" /\ Room(c) <= 0
    /\ GoTo(c, "done")
    /\ UNCHANGED <<row, anchor, job, history, skips>>

\* time.monotonic() is past the child's deadline: what is left is not done.
Deadline(c) ==
    /\ "deadline" \in Events /\ CanSkip
    /\ pc[c] \in {"select", "work"}
    /\ job' = [job EXCEPT ![c].exhausted = TRUE, ![c].todo = {}]
    /\ GoTo(c, "done")
    /\ UNCHANGED <<row, anchor, history>>

\* An exception outside the handler of the listing loop ends the run.
Fatal(c) ==
    /\ "fatal" \in Events /\ CanSkip
    /\ pc[c] \in {"select", "work"}
    /\ job' = [job EXCEPT ![c].hard = TRUE, ![c].todo = {}]
    /\ GoTo(c, "done")
    /\ UNCHANGED <<row, anchor, history>>

BatchDone(r) ==
    /\ pc[r] = "work" /\ job[r].todo = {}
    /\ GoTo(r, IF r \in Child THEN "select" ELSE "done")
    /\ UNCHANGED <<row, anchor, job, history, skips>>

\* db.get of the next listing of the batch, fetched by then.
Read(r) ==
    /\ pc[r] = "work"
    /\ \E l \in job[r].todo :
          /\ row[l].exists
          /\ job' = [job EXCEPT ![r].at = l, ![r].seen = row[l].streak]
    /\ GoTo(r, "persist")
    /\ UNCHANGED <<row, anchor, history, skips>>

\* The row is gone: counted as failed only when it went after the fetch.
Missing(r) ==
    /\ pc[r] = "work"
    /\ \E l \in job[r].todo, late \in BOOLEAN :
          /\ ~row[l].exists
          /\ job' = [job EXCEPT ![r].todo = @ \ {l}, ![r].failed = @ \/ late]
    /\ UNCHANGED <<row, anchor, pc, history, skips>>

-----------------------------------------------------------------------------
(***************************************************************************)
(* The outcomes of one listing (_persist_scrape_pool_result).              *)
(***************************************************************************)

\* Mutant: a listing that failed is persisted once more.
ListingDoneRepeats(r, good) ==
    /\ pc[r] = "persist"
    /\ job' = [job EXCEPT ![r].todo = @ \ {job[r].at}, ![r].at = NoListing, ![r].seen = 0,
                          ![r].ok = @ \/ good, ![r].failed = @ \/ ~good]
    /\ GoTo(r, IF good THEN "work" ELSE "persist")

ListingDone(r, good) ==
    /\ pc[r] = "persist"
    /\ job' = [job EXCEPT ![r].todo = @ \ {job[r].at}, ![r].at = NoListing, ![r].seen = 0,
                          ![r].ok = @ \/ good, ![r].failed = @ \/ ~good]
    /\ GoTo(r, "work")

\* An UPDATE of a row that was pruned meanwhile changes nothing.
Put(l, new) == row' = IF row[l].exists THEN [row EXCEPT ![l] = new] ELSE row

\* One of the housekeeping updates goes through, unless the gate rejects it.
Kept == IF "reject" \in Events THEN BOOLEAN ELSE {TRUE}

Checked(old) == [old EXCEPT !.checked = anchor.made, !.due = FALSE]

\* The price was read: streak reset, last_checked_at, prices, one commit.
Success(r) ==
    /\ ListingDone(r, TRUE)
    /\ LET l == job[r].at IN
          /\ \E kept \in Kept :
                LET reset == [row[l] EXCEPT !.streak = IF kept THEN 0 ELSE @] IN
                \/ Put(l, Checked(reset))
                \/ "reject" \in Events /\ Put(l, reset)
          /\ oks' = IF r \notin Child THEN oks
                    ELSE [oks EXCEPT ![l] = IF job[r].anchor = 0 /\ @ = 0 THEN 1
                                            ELSE IF job[r].anchor # 0 /\ @ < 2 THEN @ + 1 ELSE @]
    /\ UNCHANGED <<anchor, fails, skips>>

\* Mutant: the streak restarts with the scrape, as consecutive_errors does.
StruckAfresh(old, streak, counted, off) ==
    [old EXCEPT !.streak = IF counted THEN 1 ELSE @,
                !.active = @ /\ ~(off /\ 1 >= DeactivateAfter)]

\* failure_streak := what was read, plus one; the listing is deactivated when
\* that reaches the limit.
Struck(old, streak, counted, off) ==
    [old EXCEPT !.streak = IF counted THEN streak ELSE @,
                !.active = @ /\ ~(off /\ streak >= DeactivateAfter)]

OneMore(count, l) == [count EXCEPT ![l] = IF @ < DeactivateAfter THEN @ + 1 ELSE @]

\* The page did not yield a price.  An honest "no price" or "gone" also counts
\* as a check; anything else (blocked, timeout, parse error) does not.
Failure(r) ==
    /\ ListingDone(r, FALSE)
    /\ LET l == job[r].at IN
          /\ job[r].seen < MaxStreak
          /\ \E counted \in Kept, off \in Kept :
                LET struck == Struck(row[l], job[r].seen + 1, counted, off) IN
                \/ Put(l, struck)
                \/ "absent" \in Events /\ Put(l, Checked(struck))
          /\ fails' = OneMore(fails, l)
    /\ UNCHANGED <<anchor, oks, skips>>

\* Mutant: running out of proxy budget feeds the streak.
ProxySkipCounted(r) ==
    /\ "proxy" \in Events /\ CanSkip
    /\ ListingDone(r, FALSE)
    /\ Put(job[r].at, Struck(row[job[r].at], job[r].seen + 1, TRUE, TRUE))
    /\ UNCHANGED <<anchor, history>>

\* The proxy provider was out of budget or time: the shop was never reached.
ProxySkip(r) ==
    /\ "proxy" \in Events /\ CanSkip
    /\ ListingDone(r, FALSE)
    /\ UNCHANGED <<row, anchor, history>>

\* Mutant: an exception goes uncounted.
WriteLostUncounted(r) ==
    /\ "lost" \in Events /\ CanSkip
    /\ ListingDone(r, TRUE)
    /\ UNCHANGED <<row, anchor, history>>

\* An exception, or a commit that failed: rolled back, counted as failed.
WriteLost(r) ==
    /\ "lost" \in Events /\ CanSkip
    /\ ListingDone(r, FALSE)
    /\ UNCHANGED <<row, anchor, history>>

\* A confirmed non-product (a category page, possibly with a price on it): the
\* row is deleted in a commit of its own.  When that does not go through, the
\* outcome counts all the same and nothing is written.
Prune(r) ==
    /\ "prune" \in Events
    /\ \E good \in BOOLEAN : ListingDone(r, good)
    /\ \/ row' = [row EXCEPT ![job[r].at].exists = FALSE] /\ UNCHANGED skips
       \/ "unpruned" \in Events /\ CanSkip /\ UNCHANGED row
    /\ UNCHANGED <<anchor, history>>

\* A listing's interval elapses.
BecomesDue(l) ==
    /\ ~row[l].due
    /\ row' = [row EXCEPT ![l].due = TRUE]
    /\ UNCHANGED <<anchor, pc, job, history, skips>>

\* A later run comes: its ticks anchor the cohort anew.
NewRun ==
    /\ "rerun" \in Events
    /\ \A c \in Child : pc[c] \in {"idle", "done"}
    /\ anchor' = [made |-> 0, saved |-> 0]
    /\ row' = [l \in Listing |-> [row[l] EXCEPT !.checked = 0]]
    /\ pc' = [r \in Runner |-> IF r \in Child THEN "idle" ELSE pc[r]]
    /\ job' = [r \in Runner |-> IF r \in Child THEN NoJob ELSE job[r]]
    /\ oks' = [l \in Listing |-> 0]
    /\ UNCHANGED <<fails, skips>>

ListingStep(r) == Read(r) \/ Missing(r) \/ Success(r) \/ Failure(r) \/ ProxySkip(r)
                  \/ WriteLost(r) \/ Prune(r) \/ BatchDone(r)

ChildStep(c) == StartChild(c) \/ Select(c) \/ Full(c)

Next ==
    \/ SetAnchor \/ SaveAnchor
    \/ \E c \in Child : Dispatch(c) \/ ChildStep(c) \/ Deadline(c) \/ Fatal(c)
    \/ \E s \in Shard : StartShard(s)
    \/ \E r \in Runner : ListingStep(r)
    \/ \E l \in Listing : BecomesDue(l)
    \/ NewRun

Spec == Init /\ [][Next]_vars

\* The ticks go on dispatching and save what they have set, a child goes on
\* until it ends, and intervals elapse.  Nothing is assumed of the outcomes.
Fairness ==
    /\ WF_vars(SetAnchor) /\ WF_vars(SaveAnchor)
    /\ \A c \in Child : WF_vars(Dispatch(c)) /\ WF_vars(ChildStep(c) \/ ListingStep(c))
    /\ \A l \in Listing : WF_vars(BecomesDue(l))

FairSpec == Spec /\ Fairness

-----------------------------------------------------------------------------
(***************************************************************************)
(* Properties.                                                             *)
(***************************************************************************)

\* Type invariant.
TypeOK ==
    /\ row \in [Listing -> ListingRow]
    /\ anchor \in [made: Nat, saved: Nat] /\ anchor.saved <= anchor.made
    /\ pc \in [Runner -> {"idle", "sent", "select", "work", "persist", "done"}]
    /\ job \in [Runner -> Locals]
    /\ \A r \in Runner : pc[r] = "persist" => job[r].at \in Listing
    /\ fails \in [Listing -> Nat] /\ oks \in [Listing -> Nat]
    /\ skips \in Nat

\* However many runners read and write a listing's streak at the same time, it
\* is switched off only after that many failures that reached the shop: lost
\* updates, proxy outages and rolled back writes can delay it, never cause it.
DeactivationEarned ==
    [][\A l \in Listing : row[l].active /\ ~row'[l].active => fails'[l] >= DeactivateAfter]_vars

\* A child that has an anchor scrapes no listing that a child of the run has
\* scraped since that anchor was set, however often its interval elapses
\* meanwhile.  A listing is scraped twice in a run only when a tick sets the
\* anchor again, its touch having been lost or overwritten, or by a child that
\* found no anchor, having started before the touch.
OncePerAnchor == \A l \in Listing : oks[l] <= 1

\* A child that has an anchor, and ends as completed, cut short neither by its
\* deadline nor by the number of listings it may take on, leaves nothing
\* that its SELECT could still return, however small its batches are: without a
\* failure it never meets a listing twice, so it ends on an empty batch.
CompletedLeavesNothing ==
    [][\A c \in Child :
          pc[c] # "done" /\ pc'[c] = "done" /\ ~job'[c].exhausted /\ Verdict(c)' = "completed"
             /\ job[c].anchor # 0 /\ Room(c) > 0
              => Selectable(c) = {}]_vars

\* A child reported as completed, not cut short by its deadline, left every
\* listing it took on checked since it started, or deleted, whether it had an
\* anchor or not.
CompletedMeansChecked ==
    \A c \in Child :
        pc[c] = "done" /\ ~job[c].exhausted /\ Verdict(c) = "completed"
            => \A l \in job[c].processed : row[l].exists => row[l].checked >= job[c].since

\* The cohort drains: in the end every active listing has been checked, because
\* a listing that keeps failing is switched off.
CohortDrains == <>[](Remainder = {})

=============================================================================
