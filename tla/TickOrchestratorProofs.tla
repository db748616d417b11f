-------------------------- MODULE TickOrchestratorProofs --------------------------
(***************************************************************************)
(* Theorems about TickOrchestrator, for every number of tickers, workers   *)
(* and marketplaces, every bound and every set of events.                  *)
(***************************************************************************)
EXTENDS TickOrchestrator, FiniteSetTheorems, TLAPS

USE DEF Parent, ActiveStatus, Terminal, SetChild

-----------------------------------------------------------------------------
(***************************************************************************)
(* Types.                                                                  *)
(***************************************************************************)

\* The initial metadata, locals and rows are well typed.
LEMMA InitialValues == InitialMetadata \in Metadata /\ NoLocals \in Locals /\ NoRow \in Row
BY ConstantsAssumption DEF InitialMetadata, Metadata, NoLocals, Locals, NoRow, Row

\* COUNT(*) of the active children is a number: there are finitely many rows.
LEMMA CountIsNat == \A kind : Cardinality(ActiveChildren(kind)) \in Nat
<1> TAKE kind
<1>1. IsFiniteSet(ChildId)  BY FS_Interval, ConstantsAssumption DEF ChildId
<1>2. IsFiniteSet(ActiveChildren(kind))  BY <1>1, FS_Subset DEF ActiveChildren
<1> QED  BY <1>2, FS_CardinalityType

\* Updates of the records a tick and the job table keep.
LEMMA LocalsUpdates ==
    ASSUME NEW l \in Locals
    PROVE  /\ \A s \in SUBSET ChildId : [l EXCEPT !.todo = s] \in Locals
           /\ \A k \in {"discovery", "scrape"} : [l EXCEPT !.kind = k] \in Locals
           /\ \A e \in SUBSET Marketplace : [l EXCEPT !.eligible = e] \in Locals
           /\ \A n \in Nat : [l EXCEPT !.active = n] \in Locals
           /\ \A r \in [Marketplace -> Nat] : [l EXCEPT !.rem = r] \in Locals
BY DEF Locals

LEMMA MetadataUpdates ==
    ASSUME NEW d \in Metadata
    PROVE  /\ \A p \in {"none", "discovery", "scrape", "complete"} :
                 [d EXCEPT !.phase = p] \in Metadata
           /\ \A q \in Seq(Marketplace) : [d EXCEPT !.queue = q] \in Metadata
           /\ [d EXCEPT !.anchored = TRUE] \in Metadata
           /\ \A f \in [Marketplace -> Nat] : [d EXCEPT !.last = f] \in Metadata
BY DEF Metadata

LEMMA RowUpdates ==
    ASSUME NEW r \in Row, NEW s \in {"pending", "running", "completed", "partial", "failed"}
    PROVE  [r EXCEPT !.st = s] \in Row
BY DEF Row

\* A status written to a row by id, whatever the id.
LEMMA StatusWrite ==
    ASSUME TypeOK, NEW x, NEW s \in {"pending", "running", "completed", "partial", "failed"}
    PROVE  [child EXCEPT ![x].st = s] \in [ChildId -> Row]
BY RowUpdates DEF TypeOK

\* The same of write_meta, which may be refused.
LEMMA ChildWrite ==
    ASSUME TypeOK, NEW x, NEW s \in {"pending", "running", "completed", "partial", "failed"},
           SetChild(x, s)
    PROVE  child' \in [ChildId -> Row]
<1>1. CASE child' = [child EXCEPT ![x].st = s]  BY <1>1, StatusWrite
<1>2. CASE UNCHANGED child  BY <1>2 DEF TypeOK
<1> QED  BY <1>1, <1>2

LEMMA TypeReap == ASSUME TypeOK, NEW t \in Ticker, TickReap(t) PROVE TypeOK'
<1>1. PICK stale \in SUBSET Running(tloc[t].kind) : tloc' = [tloc EXCEPT ![t].todo = stale]
  BY DEF TickReap
<1>2. stale \in SUBSET ChildId  BY DEF Running, ActiveChildren
<1>3. tloc' \in [Ticker -> Locals]  BY <1>1, <1>2, LocalsUpdates DEF TypeOK
<1> QED
  BY <1>3 DEF TypeOK, TickReap, GoTo, TickPc, TickBody, jobVars, brokerVars, workerVars,
              adminVars, envVars

LEMMA TypeMark == ASSUME TypeOK, NEW t \in Ticker, TickMark(t) PROVE TypeOK'
<1>1. PICK c \in tloc[t].todo : /\ SetChild(c, "failed")
                                /\ tloc' = [tloc EXCEPT ![t].todo = @ \ {c}]
  BY DEF TickMark
<1>2. tloc[t] \in Locals /\ tloc[t].todo \in SUBSET ChildId  BY DEF TypeOK, Locals
<1>3. tloc' \in [Ticker -> Locals]
  <2>1. tloc[t].todo \ {c} \in SUBSET ChildId  BY <1>2
  <2> QED  BY <1>1, <1>2, <2>1, LocalsUpdates DEF TypeOK
<1>4. child' \in [ChildId -> Row]  BY <1>1, ChildWrite
<1> QED
  BY <1>3, <1>4 DEF TypeOK, TickMark, GoTo, TickPc, TickBody, brokerVars, workerVars, adminVars,
                    envVars

LEMMA TypeReconcile == ASSUME TypeOK, NEW t \in Ticker, TickReconcile(t) PROVE TypeOK'
<1>1. childMsgs' \in [ChildId -> Nat]  BY DEF TickReconcile, TypeOK
<1>2. AfterReconcile(t)  BY DEF TickReconcile
<1>3. /\ cohort' \in [Marketplace -> 0..MaxCohort]
      /\ tpc' \in [Ticker -> TickPc]
  BY <1>2 DEF AfterReconcile, GoTo, TickPc, TickBody, TypeOK
<1>4. tmeta' \in [Ticker -> Metadata] /\ tloc' \in [Ticker -> Locals]
  <2>1. CASE /\ tloc' = [tloc EXCEPT ![t].kind = "scrape"]
             /\ tmeta' = [tmeta EXCEPT ![t].anchored = TRUE]
    BY <2>1, LocalsUpdates, MetadataUpdates DEF TypeOK
  <2>2. CASE UNCHANGED <<tmeta, tloc>>  BY <2>2 DEF TypeOK
  <2> QED  BY <1>2, <2>1, <2>2 DEF AfterReconcile
<1> QED
  BY <1>1, <1>3, <1>4 DEF TypeOK, TickReconcile, jobVars, workerVars, adminVars

LEMMA TypeCount == ASSUME TypeOK, NEW t \in Ticker, TickCount(t) PROVE TypeOK'
<1> DEFINE k == tloc[t].kind
           n == Cardinality(ActiveChildren(k))
           r == IF k = "scrape" THEN cohort ELSE tloc[t].rem
<1>1. tloc[t] \in Locals  BY DEF TypeOK
<1>2. n \in Nat  BY CountIsNat
<1>3. Eligible(k) \in SUBSET Marketplace  BY DEF Eligible
<1>4. r \in [Marketplace -> Nat]  BY <1>1, ConstantsAssumption DEF TypeOK, Locals
<1>5. tloc' = [tloc EXCEPT ![t] =
                  [[[tloc[t] EXCEPT !.active = n] EXCEPT !.eligible = Eligible(k)]
                      EXCEPT !.rem = r]]
  BY <1>1 DEF TickCount, TypeOK, Locals
<1> HIDE DEF n, r
<1>6. tloc' \in [Ticker -> Locals]
  BY <1>1, <1>2, <1>3, <1>4, <1>5, LocalsUpdates DEF TypeOK
<1> QED
  BY <1>6 DEF TypeOK, TickCount, GoTo, TickPc, TickBody, jobVars, brokerVars, workerVars,
              adminVars, envVars

LEMMA TypeDispatch == ASSUME TypeOK, NEW t \in Ticker, TickDispatch(t) PROVE TypeOK'
<1>1. /\ tmeta[t] \in Metadata
      /\ tmeta[t].queue \in Seq(Marketplace)
      /\ tloc[t] \in Locals
      /\ tloc[t].kind \in {"discovery", "scrape"}
  BY DEF TypeOK, Metadata, Locals
<1>2. tloc[t].kind = "discovery" => tmeta[t].queue # <<>>  BY DEF TickDispatch, MayDispatch
<1>3. tmeta' \in [Ticker -> Metadata]
  <2>1. (IF tloc[t].kind = "discovery" THEN Tail(tmeta[t].queue) ELSE tmeta[t].queue)
            \in Seq(Marketplace)
    BY <1>1, <1>2
  <2> QED  BY <1>1, <2>1, MetadataUpdates DEF TickDispatch, TypeOK
<1>4. PICK m \in NextCode(t) : ChildInserted(t, m) \/ ChildRefused(t, m)
  BY DEF TickDispatch
<1>5. m \in Marketplace
  <2>1. CASE tloc[t].kind = "discovery"
    BY <1>1, <1>2, <2>1 DEF NextCode
  <2>2. CASE tloc[t].kind # "discovery"
    BY <1>1, <2>2 DEF NextCode, PickNext, Locals
  <2> QED  BY <2>1, <2>2
<1>6. inserted \in Nat /\ inserted + 1 \in ChildId
  BY ConstantsAssumption DEF TickDispatch, MayDispatch, ChildId, TypeOK
<1>7. tloc' \in [Ticker -> Locals]
  <2>1. tloc[t].eligible \ {m} \in SUBSET Marketplace  BY <1>1 DEF Locals
  <2>2. CASE ChildRefused(t, m)
    BY <1>1, <2>1, <2>2, LocalsUpdates DEF ChildRefused, TypeOK
  <2>3. CASE ChildInserted(t, m)
    <3>1. tloc' = [tloc EXCEPT ![t] = [[tloc[t] EXCEPT !.eligible = @ \ {m}]
                                          EXCEPT !.todo = {inserted + 1}]]
      BY <1>1, <2>3 DEF ChildInserted, TypeOK, Locals
    <3>2. {inserted + 1} \in SUBSET ChildId  BY <1>6
    <3> QED  BY <1>1, <2>1, <3>1, <3>2, LocalsUpdates DEF TypeOK
  <2> QED  BY <1>4, <2>2, <2>3
<1>8. child' \in [ChildId -> Row]
  <2>1. CASE ChildRefused(t, m)  BY <2>1 DEF ChildRefused, TypeOK
  <2>2. CASE ChildInserted(t, m)
    <3>1. [kind |-> tloc[t].kind, mp |-> m, st |-> "pending"] \in Row
      BY <1>1, <1>5 DEF Row
    <3> QED  BY <2>2, <1>6, <3>1 DEF ChildInserted, TypeOK
  <2> QED  BY <1>4, <2>1, <2>2
<1>9. inserted' \in 0..MaxChildren
  BY <1>4, <1>6, ConstantsAssumption DEF ChildInserted, ChildRefused, TypeOK, ChildId
<1>11. skipped' \subseteq Marketplace
  BY <1>4, <1>5 DEF ChildInserted, ChildRefused, TypeOK
<1>12. tpc' \in [Ticker -> TickPc]
  BY <1>4 DEF ChildInserted, ChildRefused, GoTo, TickPc, TickBody, TypeOK
<1>10. late' \in Nat  BY <1>4 DEF ChildInserted, ChildRefused, TypeOK
<1> QED
  BY <1>3, <1>7, <1>8, <1>9, <1>10, <1>11, <1>12
  DEF TypeOK, TickDispatch, brokerVars, workerVars, adminVars

LEMMA TypeSend == ASSUME TypeOK, NEW t \in Ticker, TickSend(t) PROVE TypeOK'
<1>1. PICK c \in tloc[t].todo :
         /\ childMsgs' = [childMsgs EXCEPT ![c] = @ + 1]
         /\ tmeta' = IF tloc[t].kind = "scrape"
                     THEN [tmeta EXCEPT ![t].last[child[c].mp] = c] ELSE tmeta
  BY DEF TickSend
<1>2. tmeta[t] \in Metadata /\ tloc[t] \in Locals  BY DEF TypeOK
<1>3. c \in ChildId /\ c \in Nat  BY <1>1, <1>2 DEF Locals, ChildId
<1>4. tmeta' \in [Ticker -> Metadata]
  <2> DEFINE f == [tmeta[t].last EXCEPT ![child[c].mp] = c]
  <2>1. f \in [Marketplace -> Nat]  BY <1>2, <1>3 DEF Metadata
  <2>2. [tmeta[t] EXCEPT !.last = f] \in Metadata  BY <1>2, <2>1, MetadataUpdates
  <2>3. tmeta' = IF tloc[t].kind = "scrape"
                 THEN [tmeta EXCEPT ![t] = [tmeta[t] EXCEPT !.last = f]] ELSE tmeta
    BY <1>1
  <2> HIDE DEF f
  <2> QED  BY <2>2, <2>3 DEF TypeOK
<1>5. tloc' \in [Ticker -> Locals]
  <2>1. tloc[t].active + 1 \in Nat  BY <1>2 DEF Locals
  <2>2. tloc' = [tloc EXCEPT ![t] = [[tloc[t] EXCEPT !.todo = {}]
                                        EXCEPT !.active = tloc[t].active + 1]]
    BY <1>2 DEF TickSend, Locals, TypeOK
  <2> QED  BY <1>2, <2>1, <2>2, LocalsUpdates DEF TypeOK
<1>6. childMsgs' \in [ChildId -> Nat]  BY <1>1, <1>3 DEF TypeOK
<1> QED
  BY <1>4, <1>5, <1>6 DEF TypeOK, TickSend, GoTo, TickPc, TickBody, jobVars, workerVars,
                          adminVars, envVars

LEMMA TypeTouch == ASSUME TypeOK, NEW t \in Ticker, TickTouch(t) PROVE TypeOK'
<1>1. tmeta[t] \in Metadata  BY DEF TypeOK
<1>2. PhaseAfter(t) \in {"none", "discovery", "scrape", "complete"}
  BY <1>1 DEF PhaseAfter, Metadata
<1>3. meta' \in Metadata  BY <1>1, <1>2, MetadataUpdates DEF TickTouch, TypeOK
<1> QED
  BY <1>3 DEF TypeOK, TickTouch, GoTo, TickPc, TickBody, brokerVars, workerVars, adminVars,
              envVars

\* complete_pipeline_job writes a terminal status, whatever rows and logs it
\* aggregates.
LEMMA VerdictsTerminal == Verdicts \subseteq Terminal
  BY DEF Verdicts, DecideStatus, Terminal

LEMMA TypeTick ==
    ASSUME TypeOK, NEW t \in Ticker, TickStep(t) \/ TickError(t) \/ TickCrash(t)
    PROVE  TypeOK'
<1> USE InitialValues DEF TypeOK, jobVars, brokerVars, tickVars, workerVars, adminVars, envVars,
                          GoTo, TickIdle, Unlock, TickPc, TickBody
<1>1. CASE TickAcquire(t)  BY <1>1 DEF TickAcquire
<1>2. CASE TickLockBusy(t)  BY <1>2 DEF TickLockBusy
<1>3. CASE TickRequeue(t)  BY <1>3 DEF TickRequeue
<1>4. CASE TickLoad(t)  BY <1>4, ConstantsAssumption, ZenonT(40) DEF TickLoad, Metadata
<1>5. CASE TickStopped(t)  BY <1>5 DEF TickStopped
<1>6. CASE TickReenqueue(t)  BY <1>6 DEF TickReenqueue
<1>7. CASE TickComplete(t)
  <2>1. status' \in Terminal \/ status' = status  BY <1>7, VerdictsTerminal DEF TickComplete
  <2> QED  BY <1>7, <2>1 DEF TickComplete, Terminal
<1>8. CASE TickUnlock(t)  BY <1>8 DEF TickUnlock
<1>9. CASE TickNet(t)  BY <1>9 DEF TickNet
<1>10. CASE TickError(t)  BY <1>10 DEF TickError
<1>11. CASE TickCrash(t)  BY <1>11 DEF TickCrash
<1> HIDE DEF TypeOK
<1> QED
  BY <1>1, <1>2, <1>3, <1>4, <1>5, <1>6, <1>7, <1>8, <1>9, <1>10, <1>11, TypeReap, TypeMark,
     TypeReconcile, TypeCount, TypeDispatch, TypeSend, TypeTouch DEF TickStep

LEMMA OneListingLess ==
    ASSUME NEW f \in [Marketplace -> 0..MaxCohort], NEW m, m \in Marketplace => f[m] > 0
    PROVE  [f EXCEPT ![m] = @ - 1] \in [Marketplace -> 0..MaxCohort]
<1>1. MaxCohort \in Nat  BY ConstantsAssumption
<1>2. CASE m \in Marketplace
  <2>1. f[m] \in 0..MaxCohort /\ f[m] > 0  BY <1>2
  <2>2. f[m] - 1 \in 0..MaxCohort  BY <1>1, <2>1
  <2> QED  BY <2>2
<1>3. CASE m \notin Marketplace  BY <1>3
<1> QED  BY <1>2, <1>3

LEMMA TypeWorker ==
    ASSUME TypeOK, NEW w \in Worker, WorkerStep(w) \/ WorkerAbort(w) \/ WorkerCrash(w)
    PROVE  TypeOK'
<1> USE InitialValues DEF TypeOK, jobVars, brokerVars, tickVars, workerVars,
                          adminVars, envVars, WorkerIdle
<1>1. ASSUME NEW c \in ChildId, WorkerTake(w, c) PROVE TypeOK'
  BY <1>1 DEF WorkerTake
<1>2. CASE WorkerMark(w)
  <2>1. child' \in [ChildId -> Row]  BY <1>2, ChildWrite DEF WorkerMark
  <2> QED  BY <1>2, <2>1 DEF WorkerMark
<1>3. CASE WorkerNoMarketplace(w)
  <2>1. child' \in [ChildId -> Row]  BY <1>3, ChildWrite DEF WorkerNoMarketplace
  <2> QED  BY <1>3, <2>1 DEF WorkerNoMarketplace
<1>4. CASE WorkerPulseRead(w)  BY <1>4 DEF WorkerPulseRead
<1>5. CASE WorkerPulseWrite(w)  BY <1>5 DEF WorkerPulseWrite
<1>6. CASE WorkerCheck(w)
  <2> DEFINE m == child[wchild[w]].mp
  <2>1. cohort[m] > 0 /\ cohort' = [cohort EXCEPT ![m] = @ - 1]  BY <1>6 DEF WorkerCheck
  <2> HIDE DEF m
  <2>2. cohort' \in [Marketplace -> 0..MaxCohort]  BY <2>1, OneListingLess
  <2> QED  BY <1>6, <2>2 DEF WorkerCheck
<1>7. CASE WorkerFinish(w)
  <2>1. PICK v \in Terminal : SetChild(wchild[w], v)
    BY <1>7 DEF WorkerFinish
  <2>2. child' \in [ChildId -> Row]  BY <2>1, ChildWrite
  <2> QED  BY <1>7, <2>2 DEF WorkerFinish
<1>8. CASE WorkerAbort(w)  BY <1>8 DEF WorkerAbort
<1>9. CASE WorkerCrash(w)
  <2> DEFINE x == wchild[w]
  <2>1. childMsgs' = [c \in ChildId |-> IF c = x THEN childMsgs[x] + 1 ELSE childMsgs[c]]
    BY <1>9 DEF WorkerCrash
  <2> HIDE DEF x
  <2>2. childMsgs' \in [ChildId -> Nat]  BY <2>1
  <2> QED  BY <1>9, <2>2 DEF WorkerCrash
<1> HIDE DEF TypeOK
<1> QED
  BY <1>1, <1>2, <1>3, <1>4, <1>5, <1>6, <1>7, <1>8, <1>9 DEF WorkerStep

LEMMA TypeAdmin == ASSUME TypeOK, AdminStep \/ BeatStep PROVE TypeOK'
<1> USE InitialValues DEF TypeOK, jobVars, brokerVars, tickVars, workerVars,
                          adminVars, envVars
<1>1. CASE TriggerInsert  BY <1>1 DEF TriggerInsert
<1>2. CASE TriggerEnqueue  BY <1>2 DEF TriggerEnqueue
<1>3. CASE TriggerLost  BY <1>3 DEF TriggerLost
<1>4. CASE CancelRead  BY <1>4 DEF CancelRead
<1>5. CASE CancelWrite  BY <1>5 DEF CancelWrite
<1>6. CASE Revive  BY <1>6 DEF Revive
<1>7. CASE ReaperSelect  BY <1>7 DEF ReaperSelect, RunningRows
<1>8. CASE ReaperWrite
  <2>1. PICK r \in targets : child' = [child EXCEPT ![r].st = "failed"] \/ child' = child
    BY <1>8 DEF ReaperWrite
  <2>2. [child EXCEPT ![r].st = "failed"] \in [ChildId -> Row]  BY StatusWrite
  <2>3. child' \in [ChildId -> Row]  BY <2>1, <2>2
  <2> QED  BY <1>8, <2>3 DEF ReaperWrite
<1> HIDE DEF TypeOK
<1> QED
  BY <1>1, <1>2, <1>3, <1>4, <1>5, <1>6, <1>7, <1>8 DEF AdminStep, BeatStep

LEMMA TypeStep == ASSUME TypeOK, [Next]_vars PROVE TypeOK'
<1>1. CASE Next  BY <1>1, TypeTick, TypeWorker, TypeAdmin DEF Next
<1>2. CASE UNCHANGED vars
  BY <1>2 DEF TypeOK, vars, jobVars, brokerVars, tickVars, workerVars, adminVars, envVars
<1> QED  BY <1>1, <1>2

\* The type invariant holds in every reachable state.
THEOREM TypeCorrect == Spec => []TypeOK
<1>1. Init => TypeOK
  BY InitialValues, ConstantsAssumption DEF Init, TypeOK, ChildId, TickPc, TickBody
<1>2. TypeOK /\ [Next]_vars => TypeOK'  BY TypeStep
<1> QED  BY <1>1, <1>2, PTL DEF Spec

-----------------------------------------------------------------------------
(***************************************************************************)
(* No marketplace is forgotten.  NoMarketplaceForgotten speaks of the      *)
(* committed metadata only and is not inductive: what is committed next    *)
(* may be any of the copies that ticks, pulses and cancels hold, some of   *)
(* them old.  The invariant says of every copy, old or new, that the       *)
(* marketplaces not yet attempted are still in its queue.  Old copies stay *)
(* good because the set of attempted marketplaces only grows.              *)
(***************************************************************************)
Queued(d) == {m \in Marketplace : \E i \in 1..Len(d.queue) : d.queue[i] = m}

Covers(d, attempted) ==
    /\ d.phase # "none" => Marketplace \subseteq attempted \cup Queued(d)
    /\ d.phase \in {"scrape", "complete"} => d.queue = <<>>

CopiesCover ==
    /\ Covers(meta, Attempted)
    /\ \A t \in Ticker : Covers(tmeta[t], Attempted)
    /\ \A w \in Worker : Covers(wseen[w], Attempted)
    /\ Covers(apiSeen, Attempted)

\* Rows are inserted in order, so an insert never overwrites one.
RowsFresh == \A c \in ChildId : c > inserted => child[c].kind = "none"

\* What a tick knows before and after it has loaded the metadata.
PhaseKnown(t) ==
    /\ tpc[t] \in {"idle", "requeue", "load"} => tloc[t].kind = "discovery"
    /\ tpc[t] \in {"reap", "mark", "reconcile", "count", "dispatch", "send", "complete"}
           => tmeta[t].phase # "none"
    /\ tpc[t] = "complete" => tmeta[t].phase = "complete"
    /\ tloc[t].kind = "scrape" => tmeta[t].phase = "scrape"

TickPhases == \A t \in Ticker : PhaseKnown(t)

VerdictCovers == status \in {"completed", "partial"} => Marketplace \subseteq Attempted

\* Before the trigger nothing happens.
NothingYet ==
    status = "absent" =>
        /\ tickMsgs = 0
        /\ \A t \in Ticker : tpc[t] = "idle"
        /\ api = "idle"
        /\ Parent \notin targets

IInv == TypeOK /\ RowsFresh /\ CopiesCover /\ TickPhases /\ VerdictCovers /\ NothingYet

\* What is attempted stays attempted.
LEMMA StatusKeepsRows ==
    ASSUME TypeOK, NEW x, NEW s, SetChild(x, s), NEW c \in ChildId
    PROVE  child'[c].kind = child[c].kind /\ child'[c].mp = child[c].mp
BY DEF TypeOK, Row

SameRows == \A c \in ChildId : child'[c].kind = child[c].kind /\ child'[c].mp = child[c].mp

LEMMA DispatchGrows ==
    ASSUME TypeOK, RowsFresh, NEW t \in Ticker, TickDispatch(t)
    PROVE  Attempted \subseteq Attempted' /\ RowsFresh'
<1>1. PICK m \in NextCode(t) : ChildInserted(t, m) \/ ChildRefused(t, m)
  BY DEF TickDispatch
<1>2. CASE ChildRefused(t, m)
  BY <1>2 DEF ChildRefused, Attempted, RowsFresh, TypeOK
<1>3. CASE ChildInserted(t, m)
  <2>1. inserted \in Nat /\ inserted + 1 \in ChildId
    BY ConstantsAssumption DEF TickDispatch, MayDispatch, ChildId, TypeOK
  <2>2. child[inserted + 1].kind = "none"  BY <2>1 DEF RowsFresh, ChildId
  <2>3. \A c \in ChildId : c # inserted + 1 => child'[c] = child[c]
    BY <1>3 DEF ChildInserted, TypeOK
  <2>4. Attempted \subseteq Attempted'  BY <1>3, <2>2, <2>3 DEF ChildInserted, Attempted
  <2>5. RowsFresh'  BY <1>3, <2>1, <2>3 DEF ChildInserted, RowsFresh, ChildId
  <2> QED  BY <2>4, <2>5
<1> QED  BY <1>1, <1>2, <1>3

LEMMA OthersKeepRows ==
    ASSUME TypeOK, [Next]_vars, ~ \E t \in Ticker : TickDispatch(t)
    PROVE  SameRows /\ UNCHANGED <<skipped, inserted>>
<1> USE DEF jobVars, envVars
<1>1. ASSUME NEW t \in Ticker, TickStep(t) \/ TickError(t) \/ TickCrash(t)
      PROVE  SameRows /\ UNCHANGED <<skipped, inserted>>
  <2>1. CASE TickMark(t)
    <3>1. PICK c \in tloc[t].todo : SetChild(c, "failed")
      BY <2>1 DEF TickMark
    <3> QED  BY <2>1, <3>1, StatusKeepsRows DEF TickMark, SameRows
  <2>2. CASE ~TickMark(t)
    BY <1>1, <2>2 DEF TickStep, TickAcquire, TickLockBusy, TickRequeue, TickLoad, TickStopped,
         TickReap, TickReconcile, TickCount, TickSend, TickTouch, TickReenqueue, TickComplete,
         TickUnlock, TickNet, TickError, TickCrash, SameRows
  <2> QED  BY <2>1, <2>2
<1>2. ASSUME NEW w \in Worker, WorkerStep(w) \/ WorkerAbort(w) \/ WorkerCrash(w)
      PROVE  SameRows /\ UNCHANGED <<skipped, inserted>>
  <2>1. CASE WorkerMark(w)
    BY <2>1, StatusKeepsRows DEF WorkerMark, SameRows
  <2>2. CASE WorkerNoMarketplace(w)
    BY <2>2, StatusKeepsRows DEF WorkerNoMarketplace, SameRows
  <2>3. CASE WorkerFinish(w)
    <3>1. PICK v \in Terminal : SetChild(wchild[w], v)
      BY <2>3 DEF WorkerFinish
    <3> QED  BY <2>3, <3>1, StatusKeepsRows DEF WorkerFinish, SameRows
  <2>4. CASE ~WorkerMark(w) /\ ~WorkerNoMarketplace(w) /\ ~WorkerFinish(w)
    BY <1>2, <2>4 DEF WorkerStep, WorkerTake, WorkerPulseRead, WorkerPulseWrite, WorkerCheck,
         WorkerAbort, WorkerCrash, SameRows
  <2> QED  BY <2>1, <2>2, <2>3, <2>4
<1>3. ASSUME AdminStep \/ BeatStep PROVE SameRows /\ UNCHANGED <<skipped, inserted>>
  <2>1. CASE ReaperWrite
    <3>1. PICK r \in targets : UNCHANGED child \/ SetChild(r, "failed")
      BY <2>1 DEF ReaperWrite
    <3> QED  BY <2>1, <3>1, StatusKeepsRows DEF ReaperWrite, SameRows
  <2>2. CASE ~ReaperWrite
    BY <1>3, <2>2 DEF AdminStep, BeatStep, TriggerInsert, TriggerEnqueue, TriggerLost, CancelRead,
         CancelWrite, Revive, ReaperSelect, SameRows
  <2> QED  BY <2>1, <2>2
<1>4. CASE UNCHANGED vars  BY <1>4 DEF vars, SameRows
<1> QED  BY <1>1, <1>2, <1>3, <1>4 DEF Next

LEMMA AttemptsGrow ==
    ASSUME TypeOK, RowsFresh, [Next]_vars
    PROVE  Attempted \subseteq Attempted' /\ RowsFresh'
<1>1. CASE \E t \in Ticker : TickDispatch(t)  BY <1>1, DispatchGrows
<1>2. CASE ~ \E t \in Ticker : TickDispatch(t)
  BY <1>2, OthersKeepRows DEF SameRows, Attempted, RowsFresh
<1> QED  BY <1>1, <1>2

\* Which changes of a copy keep it covering.
LEMMA CoversGrows ==
    ASSUME NEW d, NEW A, NEW B, A \subseteq B, Covers(d, A)
    PROVE  Covers(d, B)
BY DEF Covers

LEMMA CopiesGrow ==
    ASSUME CopiesCover, Attempted \subseteq Attempted'
    PROVE  /\ Covers(meta, Attempted')
           /\ \A t \in Ticker : Covers(tmeta[t], Attempted')
           /\ \A w \in Worker : Covers(wseen[w], Attempted')
           /\ Covers(apiSeen, Attempted')
BY CoversGrows DEF CopiesCover

LEMMA InitialCovers == \A A : Covers(InitialMetadata, A)
BY DEF Covers, InitialMetadata

LEMMA SnapshotCovers ==
    ASSUME NEW d \in Metadata, NEW A
    PROVE  Covers([d EXCEPT !.phase = "discovery", !.queue = Codes], A)
<1> DEFINE e == [d EXCEPT !.phase = "discovery", !.queue = Codes]
<1>1. e.phase = "discovery" /\ e.queue = Codes  BY DEF Metadata
<1> HIDE DEF e
<1>2. Marketplace \subseteq Queued(e)
  <2> SUFFICES ASSUME NEW m \in Marketplace PROVE m \in Queued(e)  OBVIOUS
  <2>1. PICK i \in 1..Len(Codes) : Codes[i] = m  BY ConstantsAssumption
  <2> QED  BY <1>1, <2>1 DEF Queued
<1>3. Covers(e, A)  BY <1>1, <1>2 DEF Covers
<1> QED  BY <1>3 DEF e

LEMMA SameQueueCovers ==
    ASSUME NEW d, NEW e, NEW A, Covers(d, A), e.phase = d.phase, e.queue = d.queue
    PROVE  Covers(e, A)
BY DEF Covers, Queued

\* Popping the head of the queue, once it was attempted.
LEMMA PopCovers ==
    ASSUME NEW d \in Metadata, NEW A, Covers(d, A), d.queue # <<>>, Head(d.queue) \in A
    PROVE  Covers([d EXCEPT !.queue = Tail(d.queue)], A)
<1> DEFINE q == d.queue
           e == [d EXCEPT !.queue = Tail(d.queue)]
<1>1. q \in Seq(Marketplace) /\ e.phase = d.phase /\ e.queue = Tail(q)  BY DEF Metadata
<1>2. Queued(d) \subseteq {Head(q)} \cup Queued(e)
  <2> SUFFICES ASSUME NEW i \in 1..Len(q), q[i] # Head(q) PROVE q[i] \in Queued(e)
    BY DEF Queued
  <2> HIDE DEF q
  <2>1. i # 1  BY <1>1
  <2>2. Len(Tail(q)) = Len(q) - 1 /\ \A k \in 1..Len(Tail(q)) : Tail(q)[k] = q[k + 1]
    BY <1>1
  <2>3. Len(q) \in Nat /\ q[i] \in Marketplace  BY <1>1
  <2>4. i - 1 \in 1..Len(Tail(q)) /\ (i - 1) + 1 = i  BY <2>1, <2>2, <2>3
  <2>5. Tail(q)[i - 1] = q[i]  BY <2>2, <2>4
  <2> QED  BY <1>1, <2>3, <2>4, <2>5 DEF Queued
<1>3. d.phase \notin {"scrape", "complete"}  BY DEF Covers
<1> HIDE DEF e
<1>4. Covers(e, A)  BY <1>1, <1>2, <1>3 DEF Covers
<1> QED  BY <1>4 DEF e

\* A step of one tick leaves the copies and the places of the others alone.
LEMMA OtherTicks ==
    ASSUME TypeOK, NEW t \in Ticker, TickStep(t) \/ TickError(t) \/ TickCrash(t),
           NEW u \in Ticker, u # t
    PROVE  tpc'[u] = tpc[u] /\ tmeta'[u] = tmeta[u] /\ tloc'[u] = tloc[u]
<1> USE DEF TypeOK, GoTo, TickIdle
<1>1. CASE TickDispatch(t)
  <2>1. PICK m \in NextCode(t) : ChildInserted(t, m) \/ ChildRefused(t, m)
    BY <1>1 DEF TickDispatch
  <2> QED  BY <1>1, <2>1 DEF TickDispatch, ChildInserted, ChildRefused
<1>2. CASE TickReconcile(t)  BY <1>2 DEF TickReconcile, AfterReconcile
<1>3. CASE TickStep(t) /\ ~TickDispatch(t) /\ ~TickReconcile(t)
  BY <1>3 DEF TickStep, TickAcquire, TickLockBusy, TickRequeue, TickLoad, TickStopped, TickReap,
       TickMark, TickCount, TickSend, TickTouch, TickReenqueue, TickComplete, TickUnlock, TickNet
<1>4. CASE TickError(t)  BY <1>4 DEF TickError
<1>5. CASE TickCrash(t)  BY <1>5 DEF TickCrash
<1> QED  BY <1>1, <1>2, <1>3, <1>4, <1>5

\* The ticks' variables in the steps of everybody else.
LEMMA TicksUntouched ==
    ASSUME [Next]_vars, ~ \E t \in Ticker : TickStep(t) \/ TickError(t) \/ TickCrash(t)
    PROVE  UNCHANGED <<lockOwner, tpc, tmeta, tloc>>
BY DEF Next, vars, tickVars, WorkerStep, WorkerTake, WorkerMark, WorkerNoMarketplace,
       WorkerPulseRead, WorkerPulseWrite, WorkerCheck, WorkerFinish, WorkerAbort, WorkerCrash,
       AdminStep, BeatStep, TriggerInsert, TriggerEnqueue, TriggerLost, CancelRead, CancelWrite,
       Revive, ReaperSelect, ReaperWrite

LEMMA PhaseKnownStep ==
    ASSUME TypeOK, NEW t \in Ticker, PhaseKnown(t), TickStep(t) \/ TickError(t) \/ TickCrash(t)
    PROVE  PhaseKnown(t)'
<1> USE DEF TypeOK, GoTo, PhaseKnown
<1>0. tmeta[t] \in Metadata /\ tloc[t] \in Locals  OBVIOUS
<1>1. ASSUME TickIdle(t) PROVE PhaseKnown(t)'
  BY <1>1 DEF TickIdle, InitialMetadata, NoLocals
<1>2. CASE TickAcquire(t) \/ TickLockBusy(t)  BY <1>2 DEF TickAcquire, TickLockBusy
<1>3. CASE TickStopped(t) \/ TickReenqueue(t) \/ TickComplete(t) \/ TickError(t)
  BY <1>3 DEF TickStopped, TickReenqueue, TickComplete, TickError
<1>4. CASE TickRequeue(t) \/ TickUnlock(t) \/ TickNet(t) \/ TickCrash(t)
  BY <1>1, <1>4 DEF TickRequeue, TickUnlock, TickNet, TickCrash
<1>5. CASE TickLoad(t)
  BY <1>5 DEF TickLoad, Metadata
<1>6. CASE TickReap(t) \/ TickMark(t)
  BY <1>0, <1>6 DEF TickReap, TickMark, Locals
<1>7. CASE TickReconcile(t)
  <2>1. AfterReconcile(t)  BY <1>7 DEF TickReconcile
  <2>2. CASE tloc[t].kind = "discovery" /\ tmeta[t].phase = "scrape"
    <3>1. tloc'[t].kind = "scrape" /\ tmeta'[t].phase = "scrape"
      BY <1>0, <2>1, <2>2 DEF AfterReconcile, Locals, Metadata
    <3> QED  BY <1>7, <2>2, <3>1 DEF TickReconcile, AfterReconcile
  <2>3. CASE ~(tloc[t].kind = "discovery" /\ tmeta[t].phase = "scrape")
    BY <1>0, <1>7, <2>1, <2>3 DEF TickReconcile, AfterReconcile, Locals, Metadata
  <2> QED  BY <2>2, <2>3
<1>8. CASE TickCount(t)  BY <1>0, <1>8 DEF TickCount, Locals
<1>9. CASE TickDispatch(t)
  <2>1. PICK m \in NextCode(t) : ChildInserted(t, m) \/ ChildRefused(t, m)
    BY <1>9 DEF TickDispatch
  <2>2. tmeta'[t].phase = tmeta[t].phase  BY <1>0, <1>9 DEF TickDispatch, Metadata
  <2>3. tloc'[t].kind = tloc[t].kind
    BY <1>0, <2>1 DEF ChildInserted, ChildRefused, Locals
  <2>4. tpc'[t] \in {"dispatch", "send"}
    BY <1>9, <2>1 DEF TickDispatch, ChildInserted, ChildRefused
  <2> QED  BY <1>9, <2>2, <2>3, <2>4 DEF TickDispatch
<1>10. CASE TickSend(t)
  <2>1. tmeta'[t].phase = tmeta[t].phase  BY <1>0, <1>10 DEF TickSend, Metadata
  <2>2. tloc'[t].kind = tloc[t].kind  BY <1>0, <1>10 DEF TickSend, Locals
  <2> QED  BY <1>10, <2>1, <2>2 DEF TickSend
<1>11. CASE TickTouch(t)  BY <1>11 DEF TickTouch
<1> QED
  BY <1>2, <1>3, <1>4, <1>5, <1>6, <1>7, <1>8, <1>9, <1>10, <1>11 DEF TickStep

LEMMA PhasesStep ==
    ASSUME TypeOK, TickPhases, [Next]_vars
    PROVE  TickPhases'
<1> SUFFICES ASSUME NEW u \in Ticker PROVE PhaseKnown(u)'  BY DEF TickPhases
<1>1. ASSUME NEW t \in Ticker, TickStep(t) \/ TickError(t) \/ TickCrash(t)
      PROVE  PhaseKnown(u)'
  <2>1. CASE u = t  BY <1>1, <2>1, PhaseKnownStep DEF TickPhases
  <2>2. CASE u # t  BY <1>1, <2>2, OtherTicks DEF TickPhases, PhaseKnown
  <2> QED  BY <2>1, <2>2
<1>2. CASE ~ \E t \in Ticker : TickStep(t) \/ TickError(t) \/ TickCrash(t)
  BY <1>2, TicksUntouched DEF TickPhases, PhaseKnown
<1> QED  BY <1>1, <1>2

\* The copy of the tick that takes the step.
LEMMA TickCopyStep ==
    ASSUME NEW t \in Ticker, TypeOK, CopiesCover, PhaseKnown(t), Attempted \subseteq Attempted',
           TickStep(t) \/ TickError(t) \/ TickCrash(t)
    PROVE  Covers(tmeta'[t], Attempted')
<1>0. /\ tmeta[t] \in Metadata
      /\ tmeta \in [Ticker -> Metadata]
      /\ meta \in Metadata
      /\ Covers(tmeta[t], Attempted')
      /\ Covers(meta, Attempted')
  BY CopiesGrow DEF TypeOK
<1>1. CASE TickIdle(t)  BY <1>0, <1>1, InitialCovers DEF TickIdle
<1>2. CASE TickRequeue(t) \/ TickUnlock(t) \/ TickNet(t) \/ TickCrash(t)
  BY <1>1, <1>2 DEF TickRequeue, TickUnlock, TickNet, TickCrash
<1>3. CASE UNCHANGED tmeta  BY <1>0, <1>3
<1>4. CASE TickLoad(t)
  <2>1. CASE meta.phase = "none"
    <3>1. tmeta'[t] = [meta EXCEPT !.phase = "discovery", !.queue = Codes]
      BY <1>0, <1>4, <2>1 DEF TickLoad
    <3> QED  BY <1>0, <3>1, SnapshotCovers
  <2>2. CASE meta.phase # "none"  BY <1>0, <1>4, <2>2 DEF TickLoad
  <2> QED  BY <2>1, <2>2
<1>5. CASE TickReconcile(t)
  <2>1. tmeta'[t].phase = tmeta[t].phase /\ tmeta'[t].queue = tmeta[t].queue
    BY <1>0, <1>5 DEF TickReconcile, AfterReconcile, Metadata
  <2> QED  BY <1>0, <2>1, SameQueueCovers
<1>6. CASE TickSend(t)
  <2>1. tmeta'[t].phase = tmeta[t].phase /\ tmeta'[t].queue = tmeta[t].queue
    BY <1>0, <1>6 DEF TickSend, Metadata
  <2> QED  BY <1>0, <2>1, SameQueueCovers
<1>7. CASE TickDispatch(t)
  <2>1. CASE tloc[t].kind = "discovery"
    <3>1. tmeta[t].queue # <<>> /\ NextCode(t) = {Head(tmeta[t].queue)}
      BY <1>7, <2>1 DEF TickDispatch, MayDispatch, NextCode
    <3>2. Head(tmeta[t].queue) \in Attempted'
      <4> DEFINE m == Head(tmeta[t].queue)
      <4>1. ChildInserted(t, m) \/ ChildRefused(t, m)  BY <1>7, <3>1 DEF TickDispatch
      <4>2. m \in Marketplace  BY <1>0, <3>1 DEF Metadata
      <4>3. CASE ChildRefused(t, m)  BY <2>1, <4>3 DEF ChildRefused, Attempted
      <4>4. CASE ChildInserted(t, m)
        <5>1. inserted + 1 \in ChildId /\ child \in [ChildId -> Row]
          BY <1>7, ConstantsAssumption DEF TickDispatch, MayDispatch, ChildId, TypeOK
        <5>2. child'[inserted + 1].kind = "discovery" /\ child'[inserted + 1].mp = m
          BY <2>1, <4>4, <5>1 DEF ChildInserted
        <5> QED  BY <4>2, <5>1, <5>2 DEF Attempted
      <4> QED  BY <4>1, <4>3, <4>4
    <3>3. tmeta'[t] = [tmeta[t] EXCEPT !.queue = Tail(tmeta[t].queue)]
      BY <1>0, <1>7, <2>1 DEF TickDispatch
    <3> QED  BY <1>0, <3>1, <3>2, <3>3, PopCovers
  <2>2. CASE tloc[t].kind # "discovery"
    <3>1. tmeta'[t].phase = tmeta[t].phase /\ tmeta'[t].queue = tmeta[t].queue
      BY <1>0, <1>7, <2>2 DEF TickDispatch, Metadata
    <3> QED  BY <1>0, <3>1, SameQueueCovers
  <2> QED  BY <2>1, <2>2
<1>8. CASE TickAcquire(t) \/ TickLockBusy(t) \/ TickStopped(t) \/ TickReap(t) \/ TickMark(t)
           \/ TickCount(t) \/ TickTouch(t) \/ TickReenqueue(t) \/ TickComplete(t) \/ TickError(t)
  BY <1>3, <1>8 DEF TickAcquire, TickLockBusy, TickStopped, TickReap, TickMark, TickCount,
       TickTouch, TickReenqueue, TickComplete, TickError
<1> QED  BY <1>2, <1>4, <1>5, <1>6, <1>7, <1>8 DEF TickStep

\* What a tick commits, in store.touch and in complete_pipeline_job.
LEMMA TickCommitStep ==
    ASSUME NEW t \in Ticker, TypeOK, CopiesCover, PhaseKnown(t), Attempted \subseteq Attempted',
           TickStep(t) \/ TickError(t) \/ TickCrash(t)
    PROVE  Covers(meta', Attempted')
<1>0. tmeta[t] \in Metadata /\ Covers(tmeta[t], Attempted') /\ Covers(meta, Attempted')
  BY CopiesGrow DEF TypeOK
<1>1. CASE TickTouch(t)
  <2>1. CASE UNCHANGED meta  BY <1>0, <2>1
  <2>2. CASE meta' = [tmeta[t] EXCEPT !.phase = PhaseAfter(t)]
    <3>1. tmeta[t].phase # "none"  BY <1>1 DEF TickTouch, PhaseKnown
    <3>2. meta'.phase = PhaseAfter(t) /\ meta'.queue = tmeta[t].queue
      BY <1>0, <2>2 DEF Metadata
    <3>3. PhaseAfter(t) \in {"scrape", "complete"} => tmeta[t].queue = <<>>
      BY <1>0 DEF PhaseAfter, PhaseKnown, Covers
    <3> QED  BY <1>0, <3>1, <3>2, <3>3 DEF Covers, Queued
  <2> QED  BY <1>1, <2>1, <2>2 DEF TickTouch
<1>2. CASE TickComplete(t)  BY <1>0, <1>2 DEF TickComplete
<1>3. CASE ~TickTouch(t) /\ ~TickComplete(t)
  BY <1>0, <1>3 DEF TickStep, jobVars, TickAcquire, TickLockBusy, TickRequeue, TickLoad,
       TickStopped, TickReap, TickMark, TickReconcile, TickCount, TickDispatch, TickSend,
       TickReenqueue, TickUnlock, TickNet, TickError, TickCrash
<1> QED  BY <1>1, <1>2, <1>3

LEMMA CopiesStep ==
    ASSUME TypeOK, RowsFresh, CopiesCover, TickPhases, [Next]_vars
    PROVE  CopiesCover'
<1>0. /\ Attempted \subseteq Attempted'
      /\ Covers(meta, Attempted')
      /\ \A t \in Ticker : Covers(tmeta[t], Attempted')
      /\ \A w \in Worker : Covers(wseen[w], Attempted')
      /\ Covers(apiSeen, Attempted')
      /\ Covers(InitialMetadata, Attempted')
  BY AttemptsGrow, CopiesGrow, InitialCovers
<1>1. ASSUME NEW t \in Ticker, TickStep(t) \/ TickError(t) \/ TickCrash(t)
      PROVE  CopiesCover'
  <2>1. UNCHANGED <<wseen, apiSeen>>
    BY <1>1 DEF TickStep, workerVars, adminVars, TickAcquire, TickLockBusy, TickRequeue, TickLoad,
         TickStopped, TickReap, TickMark, TickReconcile, TickCount, TickDispatch, TickSend,
         TickTouch, TickReenqueue, TickComplete, TickUnlock, TickNet, TickError, TickCrash
  <2>2. Covers(meta', Attempted')  BY <1>0, <1>1, TickCommitStep DEF TickPhases
  <2>3. \A u \in Ticker : Covers(tmeta'[u], Attempted')
    <3> TAKE u \in Ticker
    <3>1. CASE u = t  BY <1>0, <1>1, <3>1, TickCopyStep DEF TickPhases
    <3>2. CASE u # t  BY <1>0, <1>1, <3>2, OtherTicks
    <3> QED  BY <3>1, <3>2
  <2> QED  BY <1>0, <2>1, <2>2, <2>3 DEF CopiesCover
<1>2. CASE ~ \E t \in Ticker : TickStep(t) \/ TickError(t) \/ TickCrash(t)
  <2>1. UNCHANGED tmeta  BY <1>2, TicksUntouched
  <2>2. ASSUME NEW w \in Worker, WorkerStep(w) \/ WorkerAbort(w) \/ WorkerCrash(w)
        PROVE  /\ Covers(meta', Attempted')
               /\ \A v \in Worker : Covers(wseen'[v], Attempted')
               /\ UNCHANGED apiSeen
    <3> USE DEF TypeOK, jobVars, workerVars, adminVars, WorkerIdle
    <3>1. CASE WorkerPulseRead(w)  BY <1>0, <3>1 DEF WorkerPulseRead
    <3>2. CASE WorkerPulseWrite(w)  BY <1>0, <3>2 DEF WorkerPulseWrite
    <3>3. CASE WorkerNoMarketplace(w) \/ WorkerFinish(w) \/ WorkerAbort(w) \/ WorkerCrash(w)
      BY <1>0, <3>3 DEF WorkerNoMarketplace, WorkerFinish, WorkerAbort, WorkerCrash
    <3>4. CASE (\E c \in ChildId : WorkerTake(w, c)) \/ WorkerMark(w) \/ WorkerCheck(w)
      BY <1>0, <3>4 DEF WorkerTake, WorkerMark, WorkerCheck
    <3> QED  BY <2>2, <3>1, <3>2, <3>3, <3>4 DEF WorkerStep
  <2>3. ASSUME AdminStep \/ BeatStep
        PROVE  /\ Covers(meta', Attempted')
               /\ Covers(apiSeen', Attempted')
               /\ UNCHANGED wseen
    BY <1>0, <2>3 DEF AdminStep, BeatStep, jobVars, workerVars, adminVars, TriggerInsert, TriggerEnqueue,
         TriggerLost, CancelRead, CancelWrite, Revive, ReaperSelect, ReaperWrite
  <2>4. CASE UNCHANGED vars
    BY <1>0, <2>4 DEF vars, jobVars, tickVars, workerVars, adminVars, CopiesCover
  <2>5. \A t \in Ticker : Covers(tmeta'[t], Attempted')  BY <1>0, <2>1
  <2>6. CASE \E w \in Worker : WorkerStep(w) \/ WorkerAbort(w) \/ WorkerCrash(w)
    BY <1>0, <2>2, <2>5, <2>6 DEF CopiesCover
  <2>7. CASE AdminStep \/ BeatStep  BY <1>0, <2>3, <2>5, <2>7 DEF CopiesCover
  <2> QED  BY <1>2, <2>4, <2>6, <2>7 DEF Next
<1> QED  BY <1>1, <1>2

\* Who writes the status of the parent, TickComplete aside.
LEMMA StatusSteps ==
    ASSUME [Next]_vars, ~ \E t \in Ticker : TickComplete(t)
    PROVE  \/ TriggerInsert
           \/ CancelWrite
           \/ Parent \in targets /\ status' = "failed"
           \/ UNCHANGED status
<1> USE DEF jobVars
<1>1. CASE \E t \in Ticker : TickStep(t) \/ TickError(t) \/ TickCrash(t)
  BY <1>1 DEF TickStep, TickAcquire, TickLockBusy, TickRequeue, TickLoad, TickStopped,
       TickReap, TickMark, TickReconcile, TickCount, TickDispatch, TickSend, TickTouch,
       TickReenqueue, TickUnlock, TickNet, TickError, TickCrash
<1>2. CASE \E w \in Worker : WorkerStep(w) \/ WorkerAbort(w) \/ WorkerCrash(w)
  BY <1>2 DEF WorkerStep, WorkerTake, WorkerMark, WorkerNoMarketplace, WorkerPulseRead,
       WorkerPulseWrite, WorkerCheck, WorkerFinish, WorkerAbort, WorkerCrash
<1>3. CASE AdminStep \/ BeatStep
  BY <1>3 DEF AdminStep, BeatStep, TriggerInsert, TriggerEnqueue, TriggerLost, CancelRead,
       CancelWrite, Revive, ReaperSelect, ReaperWrite
<1>4. CASE UNCHANGED vars  BY <1>4 DEF vars
<1> QED  BY <1>1, <1>2, <1>3, <1>4 DEF Next

\* A verdict of its own is written by TickComplete only.
LEMMA VerdictStep ==
    ASSUME TypeOK, CopiesCover, TickPhases, VerdictCovers, Attempted \subseteq Attempted',
           [Next]_vars
    PROVE  VerdictCovers'
<1>1. ASSUME NEW t \in Ticker, TickComplete(t) PROVE Marketplace \subseteq Attempted'
  <2>1. tmeta[t].phase = "complete" /\ tmeta[t] \in Metadata
    BY <1>1 DEF TickComplete, TickPhases, PhaseKnown, TypeOK
  <2>2. Marketplace \subseteq Attempted \cup Queued(tmeta[t]) /\ tmeta[t].queue = <<>>
    BY <2>1 DEF CopiesCover, Covers
  <2>3. Queued(tmeta[t]) = {}  BY <2>2 DEF Queued
  <2> QED  BY <2>2, <2>3
<1>2. CASE \E t \in Ticker : TickComplete(t)  BY <1>1, <1>2 DEF VerdictCovers
<1>3. CASE ~ \E t \in Ticker : TickComplete(t)
  <2>1. status' \in {"completed", "partial"} => status' = status
    BY <1>3, StatusSteps DEF TriggerInsert, CancelWrite
  <2> QED  BY <2>1 DEF VerdictCovers
<1> QED  BY <1>2, <1>3

\* No tick steps while nothing is triggered.
LEMMA TicksWait ==
    ASSUME NothingYet, status = "absent"
    PROVE  ~ \E t \in Ticker : TickStep(t) \/ TickError(t) \/ TickCrash(t)
<1> SUFFICES ASSUME NEW t \in Ticker, TickStep(t) \/ TickError(t) \/ TickCrash(t) PROVE FALSE
  OBVIOUS
<1>1. tpc[t] = "idle" /\ tickMsgs = 0  BY DEF NothingYet
<1>2. CASE TickAcquire(t) \/ TickLockBusy(t)  BY <1>1, <1>2 DEF TickAcquire, TickLockBusy
<1> QED
  BY <1>1, <1>2 DEF TickStep, TickRequeue, TickLoad, TickStopped, TickReap, TickMark,
     TickReconcile, TickCount, TickDispatch, TickSend, TickTouch, TickReenqueue, TickComplete,
     TickUnlock, TickNet, TickError, TickCrash, TickBody

LEMMA NothingStep ==
    ASSUME TypeOK, NothingYet, [Next]_vars
    PROVE  NothingYet'
<1>1. CASE \E t \in Ticker : TickComplete(t)
  <2>1. PICK t \in Ticker : TickComplete(t)  BY <1>1
  <2>2. status # "absent"  BY <2>1 DEF TickComplete, NothingYet
  <2>3. status' \in Terminal \/ status' = status
    BY <2>1, VerdictsTerminal DEF TickComplete
  <2> QED  BY <2>2, <2>3 DEF NothingYet, Terminal
<1>2. CASE ~ \E t \in Ticker : TickComplete(t)
  <2> SUFFICES ASSUME status' = "absent" PROVE NothingYet'  BY DEF NothingYet
  <2>1. status = "absent"
    BY <1>2, StatusSteps DEF TriggerInsert, CancelWrite
  <2>2. ~ \E t \in Ticker : TickStep(t) \/ TickError(t) \/ TickCrash(t)  BY <2>1, TicksWait
  <2>3. UNCHANGED tpc  BY <2>2, TicksUntouched
  <2>4. /\ tickMsgs = 0 /\ api = "idle" /\ Parent \notin targets
        /\ \A t \in Ticker : tpc[t] = "idle"
    BY <2>1 DEF NothingYet
  <2>5. tickMsgs' = 0 /\ api' = "idle" /\ Parent \notin targets'
    <3>1. CASE \E w \in Worker : WorkerStep(w) \/ WorkerAbort(w) \/ WorkerCrash(w)
      BY <2>4, <3>1 DEF brokerVars, adminVars, WorkerStep, WorkerTake, WorkerMark,
         WorkerNoMarketplace, WorkerPulseRead, WorkerPulseWrite, WorkerCheck, WorkerFinish,
         WorkerAbort, WorkerCrash
    <3>2. CASE AdminStep
      BY <2>1, <2>4, <3>2 DEF AdminStep, TriggerInsert, TriggerEnqueue, TriggerLost, CancelRead,
         CancelWrite
    <3>3. CASE BeatStep
      BY <2>1, <2>4, <3>3 DEF BeatStep, brokerVars, Revive, ReaperSelect, ReaperWrite, RunningRows
    <3>4. CASE UNCHANGED vars  BY <2>4, <3>4 DEF vars, brokerVars, adminVars
    <3> QED  BY <2>2, <3>1, <3>2, <3>3, <3>4 DEF Next
  <2> QED  BY <2>3, <2>4, <2>5 DEF NothingYet
<1> QED  BY <1>1, <1>2

\* The invariant, and what follows from it.
LEMMA Invariant == Spec => []IInv
<1>1. Init => IInv
  <2> SUFFICES ASSUME Init PROVE IInv  OBVIOUS
  <2>1. TypeOK
    BY InitialValues, ConstantsAssumption DEF Init, TypeOK, ChildId, TickPc, TickBody
  <2>2. CopiesCover  BY InitialCovers DEF Init, CopiesCover
  <2>3. RowsFresh  BY DEF Init, RowsFresh, NoRow
  <2>4. TickPhases  BY DEF Init, TickPhases, PhaseKnown, NoLocals
  <2> QED  BY <2>1, <2>2, <2>3, <2>4 DEF IInv, Init, VerdictCovers, NothingYet
<1>2. IInv /\ [Next]_vars => IInv'
  <2> SUFFICES ASSUME IInv, [Next]_vars PROVE IInv'  OBVIOUS
  <2>1. TypeOK'  BY TypeStep DEF IInv
  <2> QED
    BY <2>1, AttemptsGrow, CopiesStep, PhasesStep, VerdictStep, NothingStep DEF IInv
<1> QED  BY <1>1, <1>2, PTL DEF Spec

\* Whatever stale metadata is written back, once the committed phase is past
\* discovery, or the run has a verdict, no marketplace was left out.
THEOREM NothingForgotten == Spec => []NoMarketplaceForgotten
<1>1. IInv => NoMarketplaceForgotten
  <2> SUFFICES ASSUME IInv, meta.phase \in {"scrape", "complete"} \/ status \in {"completed", "partial"}
               PROVE  Marketplace \subseteq Attempted
    BY DEF NoMarketplaceForgotten
  <2>1. CASE status \in {"completed", "partial"}  BY <2>1 DEF IInv, VerdictCovers
  <2>2. CASE meta.phase \in {"scrape", "complete"}
    <3>1. Marketplace \subseteq Attempted \cup Queued(meta) /\ meta.queue = <<>>
      BY <2>2 DEF IInv, CopiesCover, Covers
    <3> QED  BY <3>1 DEF Queued
  <2> QED  BY <2>1, <2>2
<1> QED  BY <1>1, Invariant, PTL

-----------------------------------------------------------------------------
(***************************************************************************)
(* The run implements PipelineContract.                                    *)
(***************************************************************************)

\* A turn of the dispatch loop attempts one marketplace, or none.
LEMMA DispatchAttempts ==
    ASSUME TypeOK, RowsFresh, NEW t \in Ticker, TickDispatch(t)
    PROVE  \/ Attempted' = Attempted
           \/ \E m \in Marketplace : Attempted' = Attempted \cup {m}
<1>1. PICK m \in NextCode(t) : ChildInserted(t, m) \/ ChildRefused(t, m)
  BY DEF TickDispatch
<1> DEFINE k == tloc[t].kind
<1>2. k = "discovery" => m \in Marketplace
  <2> SUFFICES ASSUME k = "discovery" PROVE m \in Marketplace  OBVIOUS
  <2>1. m = Head(tmeta[t].queue) /\ tmeta[t].queue # <<>>
    BY <1>1 DEF NextCode, TickDispatch, MayDispatch
  <2> QED  BY <2>1 DEF TypeOK, Metadata
<1>3. CASE ChildRefused(t, m)
  <2>1. skipped' = IF k = "discovery" THEN skipped \cup {m} ELSE skipped
    BY <1>3 DEF ChildRefused
  <2>2. child' = child  BY <1>3 DEF ChildRefused
  <2> QED  BY <1>2, <2>1, <2>2 DEF Attempted
<1>4. CASE ChildInserted(t, m)
  <2>1. inserted + 1 \in ChildId /\ inserted + 1 > inserted
    BY ConstantsAssumption DEF TickDispatch, MayDispatch, ChildId, TypeOK
  <2>2. child[inserted + 1].kind = "none"  BY <2>1 DEF RowsFresh
  <2>3. /\ \A c \in ChildId : c # inserted + 1 => child'[c] = child[c]
        /\ child'[inserted + 1].kind = k /\ child'[inserted + 1].mp = m
    BY <1>4, <2>1 DEF ChildInserted, TypeOK
  <2>4. skipped' = skipped  BY <1>4 DEF ChildInserted
  <2> HIDE DEF k
  <2>5. CASE k = "discovery"
    <3>1. Attempted' = Attempted \cup {m}
      BY <1>2, <2>1, <2>2, <2>3, <2>4, <2>5 DEF Attempted
    <3> QED  BY <1>2, <2>5, <3>1
  <2>6. CASE k # "discovery"
    BY <2>1, <2>2, <2>3, <2>4, <2>6 DEF Attempted
  <2> QED  BY <2>5, <2>6
<1> QED  BY <1>1, <1>3, <1>4

LEMMA ContractStep ==
    ASSUME IInv, [Next]_vars
    PROVE  [Contract!Next]_(Contract!contractVars)
<1> USE DEF Contract!Next, Contract!contractVars
<1>0. TypeOK /\ RowsFresh /\ NothingYet  BY DEF IInv
<1>1. CASE \E t \in Ticker : TickDispatch(t)
  <2>1. PICK t \in Ticker : TickDispatch(t)  BY <1>1
  <2>2. status # "absent" /\ status' = status
    BY <1>0, <2>1 DEF TickDispatch, NothingYet
  <2> QED  BY <1>0, <2>1, <2>2, DispatchAttempts DEF Contract!Attempt
<1>2. CASE ~ \E t \in Ticker : TickDispatch(t)
  <2>1. Attempted' = Attempted
    BY <1>0, <1>2, OthersKeepRows DEF SameRows, Attempted
  <2>2. CASE \E t \in Ticker : TickComplete(t)
    <3>1. PICK t \in Ticker : TickComplete(t)  BY <2>2
    <3>2. status # "absent"  BY <1>0, <3>1 DEF TickComplete, NothingYet
    <3>3. Attempted = Marketplace
      <4>1. tmeta[t].phase = "complete"
        BY <3>1 DEF TickComplete, IInv, TickPhases, PhaseKnown
      <4>2. Marketplace \subseteq Attempted \cup Queued(tmeta[t]) /\ tmeta[t].queue = <<>>
        BY <4>1 DEF IInv, CopiesCover, Covers
      <4>3. Attempted \subseteq Marketplace  BY <1>0 DEF Attempted, TypeOK
      <4>4. Queued(tmeta[t]) = {}  BY <4>2 DEF Queued
      <4> QED  BY <4>2, <4>3, <4>4
    <3>4. status' \in Terminal \/ status' = status
      BY <3>1, VerdictsTerminal DEF TickComplete, Terminal
    <3> QED
      BY <2>1, <3>2, <3>3, <3>4 DEF Contract!Conclude, Contract!Fail, Contract!Verdict
  <2>3. CASE ~ \E t \in Ticker : TickComplete(t)
    <3>1. CASE TriggerInsert  BY <2>1, <3>1 DEF TriggerInsert, Contract!Start
    <3>2. CASE CancelWrite
      BY <1>0, <2>1, <3>2 DEF CancelWrite, NothingYet, Contract!Fail
    <3>3. CASE Parent \in targets /\ status' = "failed"
      BY <1>0, <2>1, <3>3 DEF NothingYet, Contract!Fail
    <3>4. CASE UNCHANGED status  BY <2>1, <3>4
    <3> QED  BY <2>3, <3>1, <3>2, <3>3, <3>4, StatusSteps
  <2> QED  BY <2>2, <2>3
<1> QED  BY <1>1, <1>2

\* Every behaviour of the run, with all its ticks, workers, crashes and stale
\* writes, is one the contract allows: no verdict before every marketplace was
\* attempted, and a terminal run never runs again.
THEOREM ImplementsContract == Spec => KeepsContract
<1>1. Init => Contract!Init
  BY ConstantsAssumption DEF Init, Contract!Init, Attempted, NoRow
<1>2. IInv /\ [Next]_vars => [Contract!Next]_(Contract!contractVars)  BY ContractStep
<1> QED  BY <1>1, <1>2, Invariant, PTL DEF Spec, KeepsContract, Contract!Spec
=============================================================================
