---------------------------- MODULE TickOrchestrator ----------------------------
(***************************************************************************)
(* The distributed "full pipeline" run: one parent job row, one child job  *)
(* row per dispatched marketplace, and the processes that share them:      *)
(*                                                                         *)
(*   - orchestrator ticks (run_tick), serialised by a session-level        *)
(*     Postgres advisory lock and driven by broker messages that each tick *)
(*     re-enqueues for its successor;                                      *)
(*   - child workers (discover_one_marketplace, scrape_one_marketplace),   *)
(*     which own a child row and pulse the PARENT's metadata;              *)
(*   - the admin API (trigger, cancel), the tick watchdog and the reaper.  *)
(*                                                                         *)
(* Every database statement that commits, and every read whose result is   *)
(* used later, is a step of its own.  Job rows are written through         *)
(* write_meta_sync: one commit per call, UPDATE ... WHERE id = ..., with   *)
(* no condition on the status the row has by then.  Ages ("older than      *)
(* 120 s") are abstracted to nondeterminism.  A marketplace's listings are *)
(* counted here; ScrapeCohort says what happens to each of them.           *)
(***************************************************************************)
EXTENDS Naturals, Sequences, FiniteSets

CONSTANTS
    Marketplace,   \* active marketplaces (codes)
    Codes,         \* the same, as the ascending sequence the code snapshots
    Ticker,        \* worker processes that execute orchestrator_tick
    Worker,        \* worker processes that execute child tasks
    MaxParallel,   \* MAX_PARALLEL_DISCOVERY = MAX_PARALLEL_SCRAPE
    MaxChildren,   \* bound: child rows inserted in one run
    MaxCohort,     \* bound: listings of one marketplace in the scrape cohort
    MaxCopies,     \* bound: undelivered messages for one child
    MaxFaults,     \* bound: crashes, aborts, exceptions, lost messages, and
                   \* scrape tasks that end before their cohort is empty
    MaxRevives,    \* bound: watchdog revivals of a chain that is not dead
    NoOne,         \* "the advisory lock is free"
    Events         \* which environment events this instance lets happen

EventKinds ==
    {"crash",      \* a worker process dies; acks_late redelivers its message
     "abort",      \* a child task ends without its terminal write
     "error",      \* an exception inside a tick
     "broker",     \* an apply_async whose message never reaches the broker
     "reject",     \* the gate rejects a write, or a marketplace is gone
     "pulse",      \* activity pulses of the children
     "cancel",     \* the admin cancels the run
     "revive",     \* the watchdog revives a chain that was only slow
     "beat",       \* the global reaper
     "stale",      \* running children overrun the tick's reap threshold
     "overdue",    \* pending children wait longer than the reconcile threshold
     "undrained"}  \* scrape tasks end with part of their cohort unchecked

ASSUME ConstantsAssumption ==
    /\ Codes \in Seq(Marketplace)
    /\ \A m \in Marketplace : \E i \in 1..Len(Codes) : Codes[i] = m
    /\ \A i, j \in 1..Len(Codes) : Codes[i] = Codes[j] => i = j
    /\ MaxParallel \in Nat /\ MaxChildren \in Nat /\ MaxCohort \in Nat
    /\ MaxCopies \in Nat /\ MaxFaults \in Nat /\ MaxRevives \in Nat
    /\ NoOne \notin Ticker
    /\ Events \subseteq EventKinds

ChildId == 1..MaxChildren
Parent == 0                      \* the parent's row, among the reaper's targets
ActiveStatus == {"pending", "running"}
Terminal == {"completed", "partial", "failed"}

VARIABLES
    status,      \* status of the parent row ("absent" before the insert)
    meta,        \* the parent's config.metadata, as committed
    child,       \* the child rows
    inserted,    \* number of child rows inserted so far
    tickMsgs,    \* undelivered orchestrator_tick messages
    childMsgs,   \* undelivered messages per child task
    lockOwner,   \* holder of the advisory lock orchestrator_tick:<parent>
    tpc, tmeta, tloc,   \* ticks: where each is, its metadata dict, its locals
    wpc, wchild, wseen, \* child workers: where, which child, metadata read by a pulse
    api, apiSeen,       \* the admin process and the metadata its cancel read
    targets,            \* rows the reaper selected and has not yet written
    cohort,             \* per marketplace, listings not checked since the anchor
    skipped,            \* history: marketplaces whose child insert came back None
    late,               \* history: children inserted after the parent was terminal
    faults, revives    \* counters of the bounds

jobVars == <<status, meta, child, inserted>>
brokerVars == <<tickMsgs, childMsgs>>
tickVars == <<lockOwner, tpc, tmeta, tloc>>
workerVars == <<wpc, wchild, wseen>>
adminVars == <<api, apiSeen, targets>>
envVars == <<cohort, skipped, late, faults, revives>>
vars == <<jobVars, brokerVars, tickVars, workerVars, adminVars, envVars>>

(***************************************************************************)
(* Data.                                                                   *)
(***************************************************************************)

\* What run_tick keeps in config.metadata.  anchored: scrape_queue is a list,
\* hence scrape_phase_started_at is set.  last: scrape_last_dispatched_at, a
\* timestamp written as the number of the child dispatched then.
Metadata == [phase: {"none", "discovery", "scrape", "complete"},
             queue: Seq(Marketplace),
             anchored: BOOLEAN,
             last: [Marketplace -> Nat]]

InitialMetadata == [phase |-> "none", queue |-> <<>>, anchored |-> FALSE,
                    last |-> [m \in Marketplace |-> 0]]

NoRow == [kind |-> "none", mp |-> "none", st |-> "none"]
Row == [kind: {"none", "discovery", "scrape"}, mp: Marketplace \cup {"none"},
        st: {"none"} \cup ActiveStatus \cup Terminal]

NoLocals == [kind |-> "discovery", todo |-> {}, active |-> 0, eligible |-> {},
             rem |-> [m \in Marketplace |-> 0]]
Locals == [kind: {"discovery", "scrape"}, todo: SUBSET ChildId, active: Nat,
           eligible: SUBSET Marketplace, rem: [Marketplace -> Nat]]

\* Mutant: a pending child does not occupy a slot.
RunningChildrenOnly(kind) == {c \in ChildId : child[c].kind = kind /\ child[c].st = "running"}

\* _count_active_children, _count_active_scrape_children.
ActiveChildren(kind) == {c \in ChildId : child[c].kind = kind /\ child[c].st \in ActiveStatus}

\* A discovery child was inserted for m, or its insert came back None (the
\* marketplace was deactivated, or the gate rejected the row).
Attempted == skipped \cup {m \in Marketplace :
                             \E c \in ChildId : child[c].kind = "discovery" /\ child[c].mp = m}

\* No worker has taken the child, and nobody ever will: its message is gone.
Unclaimed(c) == \A w \in Worker : wchild[w] # c
Lost(c) == childMsgs[c] = 0 /\ Unclaimed(c)

Pending(kind) == {c \in ActiveChildren(kind) : child[c].st = "pending"}
Running(kind) == {c \in ActiveChildren(kind) : child[c].st = "running"}

Position(m) == CHOOSE i \in 1..Len(Codes) : Codes[i] = m

\* _pick_next_scrape_marketplace: oldest last_dispatched_at, then the larger
\* remainder, then the code.
ScrapesBefore(m, n, last, rem) ==
    \/ last[m] < last[n]
    \/ last[m] = last[n] /\ rem[m] > rem[n]
    \/ last[m] = last[n] /\ rem[m] = rem[n] /\ Position(m) < Position(n)

PickNext(eligible, last, rem) ==
    {m \in eligible : \A n \in eligible \ {m} : ScrapesBefore(m, n, last, rem)}

\* decide_parent_status, of the set of verdicts its list holds.
DecideStatus(verdicts) ==
    IF verdicts = {"completed"} THEN "completed"
    ELSE IF "completed" \notin verdicts THEN "failed"
    ELSE "partial"

Rows(kind, m) == {c \in ChildId : child[c].kind = kind /\ child[c].mp = m}

\* aggregate_*_children build a dict by marketplace_id from an unordered
\* SELECT (the last row wins); merge_phase_seeds lets the scrape row win.
SeedRows(m) == IF Rows("scrape", m) # {} THEN Rows("scrape", m) ELSE Rows("discovery", m)
Seeds == {m \in Marketplace : SeedRows(m) # {}}

\* Without a scrape child, complete_pipeline_job merges the outcomes of every
\* scrape log that carries no job id: those of standalone scrapes, of any time
\* and any marketplace.
StandaloneVerdicts == IF \E c \in ChildId : child[c].kind = "scrape" THEN {{}}
                      ELSE SUBSET {"completed", "failed"}

Verdicts == {DecideStatus({child[row[m]].st : m \in Seeds} \cup extra) :
                row \in {f \in [Seeds -> ChildId] : \A m \in Seeds : f[m] \in SeedRows(m)},
                extra \in StandaloneVerdicts}

-----------------------------------------------------------------------------
(***************************************************************************)
(* Initial state: nothing triggered.                                       *)
(***************************************************************************)
Init ==
    /\ status = "absent"
    /\ meta = InitialMetadata
    /\ child = [c \in ChildId |-> NoRow]
    /\ inserted = 0
    /\ tickMsgs = 0
    /\ childMsgs = [c \in ChildId |-> 0]
    /\ lockOwner = NoOne
    /\ tpc = [t \in Ticker |-> "idle"]
    /\ tmeta = [t \in Ticker |-> InitialMetadata]
    /\ tloc = [t \in Ticker |-> NoLocals]
    /\ wpc = [w \in Worker |-> "idle"]
    /\ wchild = [w \in Worker |-> 0]
    /\ wseen = [w \in Worker |-> InitialMetadata]
    /\ api = "idle"
    /\ apiSeen = InitialMetadata
    /\ targets = {}
    /\ cohort = [m \in Marketplace |-> 0]
    /\ skipped = {}
    /\ late = 0
    /\ faults = 0
    /\ revives = 0

-----------------------------------------------------------------------------
(***************************************************************************)
(* The tick (run_tick).  The body of the tick between acquiring and        *)
(* releasing the lock is a sequence of steps named by tpc[t]:              *)
(*   load, reap (select), mark (one UPDATE per stale child), reconcile,    *)
(*   count, dispatch, send, reenqueue, unlock                              *)
(* and, for a parent in phase "complete", load, ..., reconcile, complete.  *)
(***************************************************************************)
TickBody == {"load", "reap", "mark", "reconcile", "count", "dispatch", "send",
             "reenqueue", "complete", "unlock", "net"}
TickPc == TickBody \cup {"idle", "requeue"}

GoTo(t, label) == tpc' = [tpc EXCEPT ![t] = label]

\* write_meta of a child's status, by id.  No caller acts on the result: a write the
\* gate refuses leaves the row as it is, and the task goes on.
SetChild(c, st) ==
    \/ child' = [child EXCEPT ![c].st = st]
    \/ "reject" \in Events /\ UNCHANGED child

\* The process is done with its message and forgets everything it read.
TickIdle(t) ==
    /\ GoTo(t, "idle")
    /\ tmeta' = [tmeta EXCEPT ![t] = InitialMetadata]
    /\ tloc' = [tloc EXCEPT ![t] = NoLocals]

Unlock(t) == lockOwner' = IF lockOwner = t THEN NoOne ELSE lockOwner

\* Mutant: the tick goes on whether or not it got the lock.
TickAcquireUnlocked(t) ==
    /\ tpc[t] = "idle" /\ tickMsgs > 0
    /\ tickMsgs' = tickMsgs - 1
    /\ lockOwner' = t
    /\ GoTo(t, "load")
    /\ UNCHANGED <<jobVars, childMsgs, tmeta, tloc, workerVars, adminVars, envVars>>

\* pg_try_advisory_lock succeeds.
TickAcquire(t) ==
    /\ tpc[t] = "idle" /\ tickMsgs > 0
    /\ lockOwner = NoOne
    /\ tickMsgs' = tickMsgs - 1
    /\ lockOwner' = t
    /\ GoTo(t, "load")
    /\ UNCHANGED <<jobVars, childMsgs, tmeta, tloc, workerVars, adminVars, envVars>>

\* The lock is held, or acquiring it raised: the message is consumed and the
\* tick is about to re-enqueue itself (TICK_MAX, TICK_MIN) and return.
TickLockBusy(t) ==
    /\ tpc[t] = "idle" /\ tickMsgs > 0
    /\ \/ lockOwner # NoOne /\ UNCHANGED faults
       \/ "error" \in Events /\ faults < MaxFaults /\ faults' = faults + 1
    /\ tickMsgs' = tickMsgs - 1
    /\ GoTo(t, "requeue")
    /\ UNCHANGED <<jobVars, childMsgs, lockOwner, tmeta, tloc, workerVars, adminVars, cohort,
                   skipped, late, revives>>

\* No safety net holds here: when the broker refuses, the message is gone.
TickRequeue(t) ==
    /\ tpc[t] = "requeue"
    /\ \/ tickMsgs' = tickMsgs + 1 /\ UNCHANGED faults
       \/ "broker" \in Events /\ faults < MaxFaults /\ faults' = faults + 1 /\ UNCHANGED tickMsgs
    /\ TickIdle(t)
    /\ UNCHANGED <<jobVars, childMsgs, lockOwner, workerVars, adminVars, cohort, skipped, late,
                   revives>>

\* Mutant: the tick does not look at the status of the parent.
TickLoadAnyStatus(t) ==
    /\ tpc[t] = "load"
    /\ tmeta' = [tmeta EXCEPT ![t] =
          IF meta.phase = "none" THEN [meta EXCEPT !.phase = "discovery", !.queue = Codes]
          ELSE meta]
    /\ GoTo(t, "reap")
    /\ UNCHANGED <<jobVars, brokerVars, lockOwner, tloc, workerVars, adminVars, envVars>>

\* store.load() finds a running parent; the first tick snapshots the active
\* marketplaces into the queue of its own copy of the metadata.
TickLoad(t) ==
    /\ tpc[t] = "load"
    /\ status = "running"
    /\ tmeta' = [tmeta EXCEPT ![t] =
          IF meta.phase = "none" THEN [meta EXCEPT !.phase = "discovery", !.queue = Codes]
          ELSE meta]
    /\ GoTo(t, "reap")
    /\ UNCHANGED <<jobVars, brokerVars, lockOwner, tloc, workerVars, adminVars, envVars>>

\* The parent is terminal: stop the loop, no re-enqueue.
TickStopped(t) ==
    /\ tpc[t] = "load"
    /\ status # "running"
    /\ GoTo(t, "unlock")
    /\ UNCHANGED <<jobVars, brokerVars, lockOwner, tmeta, tloc, workerVars, adminVars, envVars>>

\* _reap_stale_children / _reap_stale_scrape_children: SELECT the running
\* children older than the threshold; then one UPDATE by id per row, whatever
\* its status is by then.  Orphans (nobody works on them) get that old; children
\* with a worker or a message only do in the instances with "stale".
TickReap(t) ==
    /\ tpc[t] = "reap"
    /\ \E stale \in SUBSET Running(tloc[t].kind) :
          /\ "stale" \in Events \/ \A c \in stale : Lost(c)
          /\ tloc' = [tloc EXCEPT ![t].todo = stale]
          /\ GoTo(t, IF stale = {} THEN "reconcile" ELSE "mark")
    /\ UNCHANGED <<jobVars, brokerVars, lockOwner, tmeta, workerVars, adminVars, envVars>>

TickMark(t) ==
    /\ tpc[t] = "mark"
    /\ \E c \in tloc[t].todo :
          /\ SetChild(c, "failed")
          /\ tloc' = [tloc EXCEPT ![t].todo = @ \ {c}]
          /\ GoTo(t, IF tloc[t].todo = {c} THEN "reconcile" ELSE "mark")
    /\ UNCHANGED <<status, meta, inserted, brokerVars, lockOwner, tmeta, workerVars, adminVars,
                   envVars>>

\* After the reconcile of one kind of children: what run_tick does next.
\* Entering the scrape branch, a tick that finds no scrape_queue anchors the
\* cohort at the current time: every active listing is in it again.
AfterReconcile(t) ==
    LET phase == tmeta[t].phase IN
    \/ /\ tloc[t].kind = "discovery" /\ phase = "scrape"
       /\ tloc' = [tloc EXCEPT ![t].kind = "scrape"]
       /\ tmeta' = [tmeta EXCEPT ![t].anchored = TRUE]
       /\ IF tmeta[t].anchored THEN UNCHANGED cohort
          ELSE \E c \in [Marketplace -> 0..MaxCohort] :
                  /\ \A m \in Marketplace : c[m] >= cohort[m]
                  /\ cohort' = c
       /\ GoTo(t, "reap")
    \/ /\ tloc[t].kind = "scrape" \/ phase = "discovery"
       /\ GoTo(t, "count")
       /\ UNCHANGED <<tmeta, tloc, cohort>>
    \/ /\ phase = "complete"
       /\ GoTo(t, "complete")
       /\ UNCHANGED <<tmeta, tloc, cohort>>

\* _reconcile_pending_children / _reconcile_pending_scrape_children: send the
\* task of every pending child older than the threshold again.  A child whose
\* message is gone gets that old; one whose message still waits in the queue,
\* or whose worker has not marked it yet, does in the instances with "overdue".
TickReconcile(t) ==
    /\ tpc[t] = "reconcile"
    /\ \E overdue \in SUBSET Pending(tloc[t].kind) :
          /\ "overdue" \in Events \/ \A c \in overdue : Lost(c)
          /\ \A c \in overdue : childMsgs[c] < MaxCopies
          /\ childMsgs' = [c \in ChildId |->
                             IF c \in overdue THEN childMsgs[c] + 1 ELSE childMsgs[c]]
    /\ AfterReconcile(t)
    /\ UNCHANGED <<jobVars, tickMsgs, lockOwner, workerVars, adminVars, skipped, late, faults,
                   revives>>

\* _build_scrape_dispatch_queue: codes with a remainder and no active child.
Eligible(kind) ==
    IF kind = "scrape"
    THEN {m \in Marketplace : cohort[m] > 0 /\ \A c \in ActiveChildren(kind) : child[c].mp # m}
    ELSE {}

\* Count the active children; in the scrape phase also build the dispatch queue.
TickCount(t) ==
    /\ tpc[t] = "count"
    /\ LET kind == tloc[t].kind
       IN tloc' = [tloc EXCEPT ![t].active = Cardinality(ActiveChildren(kind)),
                               ![t].eligible = Eligible(kind),
                               ![t].rem = IF kind = "scrape" THEN cohort ELSE @]
    /\ GoTo(t, "dispatch")
    /\ UNCHANGED <<jobVars, brokerVars, lockOwner, tmeta, workerVars, adminVars, envVars>>

\* The dispatch loop has work left.
MayDispatch(t) ==
    /\ tloc[t].active < MaxParallel
    /\ inserted < MaxChildren
    /\ IF tloc[t].kind = "discovery" THEN tmeta[t].queue # <<>> ELSE tloc[t].eligible # {}

\* The code the loop takes next, as a set of one element.
NextCode(t) ==
    IF tloc[t].kind = "discovery" THEN {Head(tmeta[t].queue)}
    ELSE PickNext(tloc[t].eligible, tmeta[t].last, tloc[t].rem)

\* _create_pending_child returns the id of a row committed as pending ...
ChildInserted(t, m) ==
    /\ child' = [child EXCEPT ![inserted + 1] =
                    [kind |-> tloc[t].kind, mp |-> m, st |-> "pending"]]
    /\ inserted' = inserted + 1
    /\ late' = IF status \in Terminal THEN late + 1 ELSE late
    /\ tloc' = [tloc EXCEPT ![t].eligible = @ \ {m}, ![t].todo = {inserted + 1}]
    /\ GoTo(t, "send")
    /\ UNCHANGED skipped

\* ... or None: the marketplace was deactivated, or the gate rejected the row.
ChildRefused(t, m) ==
    /\ "reject" \in Events
    /\ skipped' = IF tloc[t].kind = "discovery" THEN skipped \cup {m} ELSE skipped
    /\ tloc' = [tloc EXCEPT ![t].eligible = @ \ {m}]
    /\ UNCHANGED <<child, inserted, late, tpc>>

\* One turn of the loop: take the next code off the (local) queue and insert a
\* pending child row for it, in a transaction of its own.
TickDispatch(t) ==
    /\ tpc[t] = "dispatch"
    /\ MayDispatch(t)
    /\ tmeta' = [tmeta EXCEPT ![t].queue =
                    IF tloc[t].kind = "discovery" THEN Tail(@) ELSE @]
    /\ \E m \in NextCode(t) : ChildInserted(t, m) \/ ChildRefused(t, m)
    /\ UNCHANGED <<status, meta, brokerVars, lockOwner, workerVars, adminVars, cohort, faults,
                   revives>>

\* The second half of the turn: apply_async of the committed child.
TickSend(t) ==
    /\ tpc[t] = "send"
    /\ \E c \in tloc[t].todo :
          /\ childMsgs' = [childMsgs EXCEPT ![c] = @ + 1]
          /\ tmeta' = IF tloc[t].kind = "scrape"
                      THEN [tmeta EXCEPT ![t].last[child[c].mp] = c] ELSE tmeta
    /\ tloc' = [tloc EXCEPT ![t].todo = {}, ![t].active = @ + 1]
    /\ GoTo(t, "dispatch")
    /\ UNCHANGED <<jobVars, tickMsgs, lockOwner, workerVars, adminVars, envVars>>

\* Mutants: the phase advances although children are still active; the name of
\* the stage is stored as the phase; the scrape phase ends when no child is
\* active, whatever is left of the cohort.
PhaseWithActive(t) ==
    IF tloc[t].kind = "discovery" /\ tmeta[t].queue = <<>> THEN "scrape"
    ELSE IF tloc[t].kind = "scrape" /\ \A m \in Marketplace : tloc[t].rem[m] = 0 THEN "complete"
    ELSE tmeta[t].phase

StageAfter(t) ==
    IF tloc[t].active # 0 THEN tmeta[t].phase
    ELSE IF tloc[t].kind = "discovery" /\ tmeta[t].queue = <<>> THEN "scrape"
    ELSE IF tloc[t].kind = "scrape" /\ \A m \in Marketplace : tloc[t].rem[m] = 0 THEN "persist"
    ELSE tmeta[t].phase

PhaseUndrained(t) ==
    IF tloc[t].active # 0 THEN tmeta[t].phase
    ELSE IF tloc[t].kind = "discovery" /\ tmeta[t].queue = <<>> THEN "scrape"
    ELSE IF tloc[t].kind = "scrape" THEN "complete"
    ELSE tmeta[t].phase

\* The phase the metadata gets when the loop is over.
PhaseAfter(t) ==
    IF tloc[t].active # 0 THEN tmeta[t].phase
    ELSE IF tloc[t].kind = "discovery" /\ tmeta[t].queue = <<>> THEN "scrape"
    ELSE IF tloc[t].kind = "scrape" /\ \A m \in Marketplace : tloc[t].rem[m] = 0 THEN "complete"
    ELSE tmeta[t].phase

\* store.touch: the whole local metadata replaces the committed one.  Its
\* result is not looked at, so a write the gate rejects goes unnoticed.
TickTouch(t) ==
    /\ tpc[t] = "dispatch"
    /\ ~MayDispatch(t)
    /\ \/ meta' = [tmeta[t] EXCEPT !.phase = PhaseAfter(t)]
       \/ "reject" \in Events /\ UNCHANGED meta
    /\ GoTo(t, "reenqueue")
    /\ UNCHANGED <<status, child, inserted, brokerVars, lockOwner, tmeta, tloc, workerVars,
                   adminVars, envVars>>

TickReenqueue(t) ==
    /\ tpc[t] = "reenqueue"
    /\ tickMsgs' = tickMsgs + 1
    /\ GoTo(t, "unlock")
    /\ UNCHANGED <<jobVars, childMsgs, lockOwner, tmeta, tloc, workerVars, adminVars, envVars>>

\* complete_pipeline_job: the parent's verdict and its metadata, written by id.
\* The status the tick relied on is the one it loaded.
TickComplete(t) ==
    /\ tpc[t] = "complete"
    /\ \/ status' \in Verdicts /\ meta' = tmeta[t]
       \/ "reject" \in Events /\ UNCHANGED <<status, meta>>
    /\ GoTo(t, "unlock")
    /\ UNCHANGED <<child, inserted, brokerVars, lockOwner, tmeta, tloc, workerVars, adminVars,
                   envVars>>

\* The finally block of a tick that returned normally.
TickUnlock(t) ==
    /\ tpc[t] = "unlock"
    /\ Unlock(t)
    /\ TickIdle(t)
    /\ UNCHANGED <<jobVars, brokerVars, workerVars, adminVars, envVars>>

\* An exception leaves the body.  The safety net of the finally block applies
\* when the parent was loaded, the tick did not re-enqueue, and the phase it
\* loaded is not "complete".
TickError(t) ==
    /\ "error" \in Events /\ faults < MaxFaults
    /\ tpc[t] \in TickBody \ {"unlock", "net"}
    /\ faults' = faults + 1
    /\ GoTo(t, IF tpc[t] = "load" \/ tmeta[t].phase = "complete" THEN "unlock" ELSE "net")
    /\ UNCHANGED <<jobVars, brokerVars, lockOwner, tmeta, tloc, workerVars, adminVars,
                   cohort, skipped, late, revives>>

\* The safety net: unlock and re-enqueue (the broker may refuse that as well).
TickNet(t) ==
    /\ tpc[t] = "net"
    /\ Unlock(t)
    /\ \/ tickMsgs' = tickMsgs + 1 /\ UNCHANGED faults
       \/ "broker" \in Events /\ faults < MaxFaults /\ faults' = faults + 1 /\ UNCHANGED tickMsgs
    /\ TickIdle(t)
    /\ UNCHANGED <<jobVars, childMsgs, workerVars, adminVars, cohort, skipped, late, revives>>

\* Mutant: the message was acknowledged when the tick began.
TickCrashAcked(t) ==
    /\ "crash" \in Events /\ faults < MaxFaults
    /\ tpc[t] # "idle"
    /\ faults' = faults + 1
    /\ Unlock(t)
    /\ TickIdle(t)
    /\ UNCHANGED <<jobVars, brokerVars, workerVars, adminVars, cohort, skipped, late, revives>>

\* The worker process dies: the session closes, which frees the lock, and
\* acks_late + reject_on_worker_lost put the message back.
TickCrash(t) ==
    /\ "crash" \in Events /\ faults < MaxFaults
    /\ tpc[t] # "idle"
    /\ faults' = faults + 1
    /\ Unlock(t)
    /\ tickMsgs' = tickMsgs + 1
    /\ TickIdle(t)
    /\ UNCHANGED <<jobVars, childMsgs, workerVars, adminVars, cohort, skipped, late, revives>>

TickStep(t) ==
    \/ TickAcquire(t) \/ TickLockBusy(t) \/ TickRequeue(t) \/ TickLoad(t) \/ TickStopped(t)
    \/ TickReap(t) \/ TickMark(t) \/ TickReconcile(t) \/ TickCount(t) \/ TickDispatch(t)
    \/ TickSend(t) \/ TickTouch(t) \/ TickReenqueue(t) \/ TickComplete(t) \/ TickUnlock(t)
    \/ TickNet(t)

-----------------------------------------------------------------------------
(***************************************************************************)
(* Child workers.                                                          *)
(***************************************************************************)
WorkerIdle(w) ==
    /\ wpc' = [wpc EXCEPT ![w] = "idle"]
    /\ wchild' = [wchild EXCEPT ![w] = 0]
    /\ wseen' = [wseen EXCEPT ![w] = InitialMetadata]

\* A delivered task whose row is not terminal; terminal rows are skipped.
WorkerTake(w, c) ==
    /\ wpc[w] = "idle" /\ childMsgs[c] > 0
    /\ childMsgs' = [childMsgs EXCEPT ![c] = @ - 1]
    /\ IF child[c].st \in Terminal THEN UNCHANGED <<wpc, wchild>>
       ELSE /\ wpc' = [wpc EXCEPT ![w] = "mark"]
            /\ wchild' = [wchild EXCEPT ![w] = c]
    /\ UNCHANGED <<jobVars, tickMsgs, tickVars, wseen, adminVars, envVars>>

\* status = 'running', written whatever the row has become since.
WorkerMark(w) ==
    /\ wpc[w] = "mark"
    /\ SetChild(wchild[w], "running")
    /\ wpc' = [wpc EXCEPT ![w] = "run"]
    /\ UNCHANGED <<status, meta, inserted, brokerVars, tickVars, wchild, wseen, adminVars, envVars>>

\* The marketplace row is gone: the child fails without having run.
WorkerNoMarketplace(w) ==
    /\ "reject" \in Events
    /\ wpc[w] = "mark"
    /\ SetChild(wchild[w], "failed")
    /\ WorkerIdle(w)
    /\ UNCHANGED <<status, meta, inserted, brokerVars, tickVars, adminVars, envVars>>

\* Activity pulses (discovery callback, parent heartbeat of a scrape child)
\* read the parent's whole metadata ...
WorkerPulseRead(w) ==
    /\ "pulse" \in Events
    /\ wpc[w] = "run"
    /\ wseen' = [wseen EXCEPT ![w] = meta]
    /\ wpc' = [wpc EXCEPT ![w] = "pulse"]
    /\ UNCHANGED <<jobVars, brokerVars, tickVars, wchild, adminVars, envVars>>

\* Mutant: the pulse writes back the keys it knows of, without mp_queue.
WorkerPulseDropsQueue(w) ==
    /\ wpc[w] = "pulse"
    /\ meta' = [wseen[w] EXCEPT !.queue = <<>>]
    /\ wseen' = [wseen EXCEPT ![w] = InitialMetadata]
    /\ wpc' = [wpc EXCEPT ![w] = "run"]
    /\ UNCHANGED <<status, child, inserted, brokerVars, tickVars, wchild, adminVars, envVars>>

\* ... and later write all of it back, with a fresher last_activity_at.
WorkerPulseWrite(w) ==
    /\ wpc[w] = "pulse"
    /\ meta' = wseen[w] \/ ("reject" \in Events /\ UNCHANGED meta)
    /\ wseen' = [wseen EXCEPT ![w] = InitialMetadata]
    /\ wpc' = [wpc EXCEPT ![w] = "run"]
    /\ UNCHANGED <<status, child, inserted, brokerVars, tickVars, wchild, adminVars, envVars>>

\* A scrape child checks one listing of its marketplace's cohort.
WorkerCheck(w) ==
    /\ wpc[w] = "run"
    /\ LET row == child[wchild[w]] IN
          /\ row.kind = "scrape" /\ cohort[row.mp] > 0
          /\ cohort' = [cohort EXCEPT ![row.mp] = @ - 1]
    /\ UNCHANGED <<jobVars, brokerVars, tickVars, workerVars, adminVars, skipped, late, faults, revives>>

\* The terminal write of the child task.  A scrape task may end with listings
\* of its cohort unchecked (deadline, failing or not due yet, no proxy budget) in
\* the instances with "undrained".
WorkerFinish(w) ==
    /\ wpc[w] = "run"
    /\ LET row == child[wchild[w]] IN
          IF row.kind = "scrape" /\ cohort[row.mp] > 0
          THEN "undrained" \in Events /\ faults < MaxFaults /\ faults' = faults + 1
          ELSE UNCHANGED faults
    /\ \E verdict \in Terminal : SetChild(wchild[w], verdict)
    /\ WorkerIdle(w)
    /\ UNCHANGED <<status, meta, inserted, brokerVars, tickVars, adminVars, cohort, skipped, late,
                   revives>>

\* The task ends without its terminal write (hard time limit, an exception
\* while writing); the message is acknowledged all the same.
WorkerAbort(w) ==
    /\ "abort" \in Events /\ faults < MaxFaults
    /\ wpc[w] # "idle"
    /\ faults' = faults + 1
    /\ WorkerIdle(w)
    /\ UNCHANGED <<jobVars, brokerVars, tickVars, adminVars, cohort, skipped, late, revives>>

\* The process is lost: the message goes back to the broker.
WorkerCrash(w) ==
    /\ "crash" \in Events /\ faults < MaxFaults
    /\ wpc[w] # "idle"
    /\ faults' = faults + 1
    /\ childMsgs' = [childMsgs EXCEPT ![wchild[w]] = @ + 1]
    /\ WorkerIdle(w)
    /\ UNCHANGED <<jobVars, tickMsgs, tickVars, adminVars, cohort, skipped, late, revives>>

WorkerStep(w) ==
    \/ \E c \in ChildId : WorkerTake(w, c)
    \/ WorkerMark(w) \/ WorkerNoMarketplace(w) \/ WorkerPulseRead(w) \/ WorkerPulseWrite(w)
    \/ WorkerCheck(w) \/ WorkerFinish(w)

-----------------------------------------------------------------------------
(***************************************************************************)
(* Admin API, watchdog and reaper.                                         *)
(***************************************************************************)

\* trigger_full_pipeline_test: no active job, insert the parent ...
TriggerInsert ==
    /\ api = "idle" /\ status = "absent"
    /\ status' = "running"
    /\ api' = "enqueue"
    /\ UNCHANGED <<meta, child, inserted, brokerVars, tickVars, workerVars, apiSeen, targets, envVars>>

\* ... and enqueue its first tick.
TriggerEnqueue ==
    /\ api = "enqueue"
    /\ tickMsgs' = tickMsgs + 1
    /\ api' = "idle"
    /\ UNCHANGED <<jobVars, childMsgs, tickVars, workerVars, apiSeen, targets, envVars>>

\* The API process dies in between, or apply_async raises.
TriggerLost ==
    /\ "broker" \in Events /\ faults < MaxFaults
    /\ api = "enqueue"
    /\ api' = "idle"
    /\ faults' = faults + 1
    /\ UNCHANGED <<jobVars, brokerVars, tickVars, workerVars, apiSeen, targets, cohort, skipped,
                   late, revives>>

\* cancel_active_pipeline_job (and _fail_stale_running_pipeline_jobs, which
\* does the same to a parent idle for too long): SELECT the running parent ...
CancelRead ==
    /\ "cancel" \in Events
    /\ api = "idle" /\ status = "running"
    /\ api' = "cancel"
    /\ apiSeen' = meta
    /\ UNCHANGED <<jobVars, brokerVars, tickVars, workerVars, targets, envVars>>

\* ... and write status 'failed' with the metadata read, plus the error.
CancelWrite ==
    /\ api = "cancel"
    /\ \/ status' = "failed" /\ meta' = apiSeen
       \/ "reject" \in Events /\ UNCHANGED <<status, meta>>
    /\ api' = "idle"
    /\ apiSeen' = InitialMetadata
    /\ UNCHANGED <<child, inserted, brokerVars, tickVars, workerVars, targets, envVars>>

\* No tick is in the broker, running, or about to be sent.
ChainDead == tickMsgs = 0 /\ api # "enqueue" /\ \A t \in Ticker : tpc[t] = "idle"

\* Mutant: a parent whose first tick never ran is not looked at.
ReviveAfterFirstTick ==
    /\ status = "running" /\ meta.phase # "none"
    /\ \/ ChainDead /\ UNCHANGED revives
       \/ "revive" \in Events /\ revives < MaxRevives /\ revives' = revives + 1
    /\ tickMsgs' = tickMsgs + 1
    /\ UNCHANGED <<jobVars, childMsgs, tickVars, workerVars, adminVars, cohort, skipped, late, faults>>

\* revive_stalled_pipeline_ticks: the heartbeat of a running parent is stale, by
\* more than 120 s and by less than 600 (past which the reaper takes the parent,
\* and its status is terminal); the watchdog looks every minute.  With a live chain
\* that takes a tick message stuck in the queue.
Revive ==
    /\ status = "running"
    /\ \/ ChainDead /\ UNCHANGED revives
       \/ "revive" \in Events /\ revives < MaxRevives /\ revives' = revives + 1
    /\ tickMsgs' = tickMsgs + 1
    /\ UNCHANGED <<jobVars, childMsgs, tickVars, workerVars, adminVars, cohort, skipped, late, faults>>

RunningRows == {r \in {Parent} \cup ChildId :
                  IF r = Parent THEN status = "running" ELSE child[r].st = "running"}

\* _reap_orphan_jobs_async: SELECT the running rows, keep the stale ones ...
ReaperSelect ==
    /\ "beat" \in Events
    /\ targets = {}
    /\ targets' \in (SUBSET RunningRows) \ {{}}
    /\ UNCHANGED <<jobVars, brokerVars, tickVars, workerVars, api, apiSeen, envVars>>

\* ... then write 'failed' to each of them, by id.
ReaperWrite ==
    /\ \E r \in targets :
          /\ targets' = targets \ {r}
          /\ IF r = Parent
             THEN UNCHANGED child
                  /\ (status' = "failed" \/ ("reject" \in Events /\ UNCHANGED status))
             ELSE SetChild(r, "failed") /\ UNCHANGED status
    /\ UNCHANGED <<meta, inserted, brokerVars, tickVars, workerVars, api, apiSeen, envVars>>

AdminStep == TriggerInsert \/ TriggerEnqueue \/ TriggerLost \/ CancelRead \/ CancelWrite
BeatStep == Revive \/ ReaperSelect \/ ReaperWrite

Next ==
    \/ \E t \in Ticker : TickStep(t) \/ TickError(t) \/ TickCrash(t)
    \/ \E w \in Worker : WorkerStep(w) \/ WorkerAbort(w) \/ WorkerCrash(w)
    \/ AdminStep
    \/ BeatStep

Spec == Init /\ [][Next]_vars

\* Time passes: the SELECTs of the ticks come to see every orphan and every
\* pending child whose message is lost.
TickReapsOrphans(t, kind) ==
    /\ tloc[t].kind = kind /\ TickReap(t)
    /\ \A c \in Running(kind) : Lost(c) => c \in tloc'[t].todo

TickReconcilesLost(t, kind) ==
    /\ tloc[t].kind = kind /\ TickReconcile(t)
    /\ \A c \in Pending(kind) : Lost(c) => childMsgs'[c] > 0

\* Fairness.  A broker message is eventually delivered to a live worker and a
\* task makes progress until it ends: Celery keeps consuming, and every child
\* task ends within its deadline (strong fairness, since pulses interrupt it).
\* The API request that inserted the parent goes on to enqueue.  Beat runs the
\* watchdog every minute.
Fairness ==
    /\ \A t \in Ticker : WF_vars(TickStep(t))
    /\ \A t \in Ticker, kind \in {"discovery", "scrape"} :
          SF_vars(TickReapsOrphans(t, kind)) /\ SF_vars(TickReconcilesLost(t, kind))
    /\ \A w \in Worker : WF_vars(WorkerStep(w)) /\ SF_vars(WorkerFinish(w))
    /\ WF_vars(TriggerEnqueue)
    /\ WF_vars(CancelWrite)
    /\ WF_vars(ReaperWrite)
    /\ WF_vars(ChainDead /\ Revive)

FairSpec == Spec /\ Fairness

-----------------------------------------------------------------------------
(***************************************************************************)
(* Properties.                                                             *)
(***************************************************************************)

\* Type invariant.
TypeOK ==
    /\ status \in {"absent", "running"} \cup Terminal
    /\ meta \in Metadata
    /\ child \in [ChildId -> Row]
    /\ inserted \in 0..MaxChildren
    /\ tickMsgs \in Nat
    /\ childMsgs \in [ChildId -> Nat]
    /\ lockOwner \in Ticker \cup {NoOne}
    /\ tpc \in [Ticker -> TickPc]
    /\ tmeta \in [Ticker -> Metadata]
    /\ tloc \in [Ticker -> Locals]
    /\ wpc \in [Worker -> {"idle", "mark", "run", "pulse"}]
    /\ wchild \in [Worker -> {0} \cup ChildId]
    /\ wseen \in [Worker -> Metadata]
    /\ api \in {"idle", "enqueue", "cancel"}
    /\ apiSeen \in Metadata
    /\ targets \subseteq {Parent} \cup ChildId
    /\ cohort \in [Marketplace -> 0..MaxCohort]
    /\ skipped \subseteq Marketplace
    /\ late \in Nat
    /\ faults \in Nat /\ revives \in Nat

\* However stale the metadata a pulse, a cancel or a crashed tick's successor
\* writes back, it can make the run repeat work but never forget a
\* marketplace: once the committed phase is past discovery, or the run ended
\* with a verdict of its own, discovery of every marketplace was attempted.
NoMarketplaceForgotten ==
    meta.phase \in {"scrape", "complete"} \/ status \in {"completed", "partial"}
        => Marketplace \subseteq Attempted

\* The self-re-enqueuing chain of ticks does not die while the parent runs:
\* some tick message is queued, some tick is under way, or the trigger is
\* about to send one (run_tick's contract "re-enqueues itself unless
\* terminal", with the busy-lock and the crash paths).
ChainAlive == status = "running" => ~ChainDead

\* The child rows that occupy a slot of one phase.
Unfinished(kind) == {c \in ChildId : child[c].kind = kind /\ child[c].st \in ActiveStatus}

\* Hard cap on the child rows of one phase that occupy a slot
\* (MAX_PARALLEL_DISCOVERY, MAX_PARALLEL_SCRAPE), however many ticks,
\* redeliveries and re-used slots there are.
SlotsBounded == \A kind \in {"discovery", "scrape"} :
                    Cardinality(Unfinished(kind)) <= MaxParallel

\* The advisory lock makes concurrent ticks dispatch each marketplace once:
\* one discovery child per marketplace and run.
NoDuplicateDiscovery ==
    \A c, d \in ChildId :
        child[c].kind = "discovery" /\ child[d].kind = "discovery" /\ c # d
            => child[c].mp # child[d].mp

\* No scrape child exists before the last discovery child ended.
PhaseBarrier ==
    (\E c \in ChildId : child[c].kind = "scrape") => Unfinished("discovery") = {}

\* A run that reaches a verdict of its own left no listing of the cohort
\* unchecked.
VerdictAfterDrain ==
    status \in {"completed", "partial"} => \A m \in Marketplace : cohort[m] = 0

\* Cancelling (or reaping) a run stops its dispatching up to one slot count: the
\* only tick that can still insert children is the one that loaded the parent
\* before and holds the lock.
LateDispatchBounded == late <= MaxParallel

\* The run implements PipelineContract, attempts being discovery children
\* inserted or refused.
Contract == INSTANCE PipelineContract WITH attempted <- Attempted

KeepsContract == Contract!Spec

\* Every triggered run reaches a terminal status, though ticks and children die,
\* messages are lost and children end with a rest of their cohort, as long as that
\* happens only finitely often: children of a shop that leave a rest each time keep
\* the run going until it is cancelled.
PipelineTerminates == status = "running" ~> status \in Terminal

=============================================================================
