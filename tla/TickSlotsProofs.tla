-------------------------- MODULE TickSlotsProofs --------------------------
(***************************************************************************)
(* Theorems about what the ticks of TickOrchestrator share: the advisory   *)
(* lock, the chain of their messages, and the slots of their children.     *)
(***************************************************************************)
EXTENDS TickOrchestratorProofs

USE DEF Parent, ActiveStatus, Terminal, SetChild

-----------------------------------------------------------------------------
(***************************************************************************)
(* The lock.  At most one tick is between loading the parent and           *)
(* releasing the advisory lock.                                            *)
(***************************************************************************)
AnyTickStep(t) == TickStep(t) \/ TickError(t) \/ TickCrash(t)

LockHeld == \A t \in Ticker : tpc[t] \in TickBody => lockOwner = t

LEMMA LockStep ==
    ASSUME TypeOK, LockHeld, [Next]_vars
    PROVE  LockHeld'
<1> SUFFICES ASSUME NEW u \in Ticker, tpc'[u] \in TickBody PROVE lockOwner' = u
  BY DEF LockHeld
<1>1. CASE ~ \E t \in Ticker : AnyTickStep(t)
  BY <1>1, TicksUntouched DEF LockHeld, AnyTickStep
<1>2. ASSUME NEW t \in Ticker, AnyTickStep(t), u # t PROVE lockOwner' = u
  <2>1. tpc[u] \in TickBody /\ lockOwner = u  BY <1>2, OtherTicks DEF AnyTickStep, LockHeld
  <2>2. lockOwner # NoOne  BY <2>1, ConstantsAssumption
  <2>3. lockOwner # t  BY <1>2, <2>1
  <2> QED
    BY <1>2, <2>1, <2>2, <2>3 DEF AnyTickStep, TickStep, Unlock, jobVars, tickVars, TickAcquire,
       TickLockBusy, TickRequeue, TickLoad, TickStopped, TickReap, TickMark, TickReconcile,
       TickCount, TickDispatch, TickSend, TickTouch, TickReenqueue, TickComplete, TickUnlock,
       TickNet, TickError, TickCrash
<1>3. ASSUME AnyTickStep(u) PROVE lockOwner' = u
  <2> USE DEF GoTo, TickIdle, TypeOK
  <2>0. "idle" \notin TickBody /\ "requeue" \notin TickBody  BY DEF TickBody
  <2>1. CASE TickAcquire(u)  BY <2>1 DEF TickAcquire
  <2>2. CASE TickLockBusy(u)  BY <2>0, <2>2 DEF TickLockBusy
  <2>3. CASE TickRequeue(u) \/ TickUnlock(u) \/ TickNet(u) \/ TickCrash(u)
    BY <2>0, <2>3 DEF TickRequeue, TickUnlock, TickNet, TickCrash
  <2>4. CASE TickLoad(u) \/ TickStopped(u) \/ TickReap(u) \/ TickMark(u) \/ TickReconcile(u)
             \/ TickCount(u) \/ TickDispatch(u) \/ TickSend(u) \/ TickTouch(u) \/ TickReenqueue(u)
             \/ TickComplete(u)
    <3>1. tpc[u] \in TickBody
      BY <2>4 DEF TickBody, TickLoad, TickStopped, TickReap, TickMark, TickReconcile, TickCount,
         TickDispatch, TickSend, TickTouch, TickReenqueue, TickComplete
    <3>2. lockOwner' = lockOwner
      BY <2>4 DEF TickLoad, TickStopped, TickReap, TickMark, TickReconcile, TickCount,
         TickDispatch, TickSend, TickTouch, TickReenqueue, TickComplete
    <3> QED  BY <3>1, <3>2 DEF LockHeld
  <2>5. CASE TickError(u)  BY <2>5 DEF TickError, LockHeld
  <2> QED  BY <1>3, <2>1, <2>2, <2>3, <2>4, <2>5 DEF AnyTickStep, TickStep
<1> QED  BY <1>1, <1>2, <1>3

\* While a tick is in its body, the others are not.
LEMMA OneInBody ==
    ASSUME LockHeld, NEW t \in Ticker, tpc[t] \in TickBody, NEW u \in Ticker, u # t
    PROVE  tpc[u] \notin TickBody
BY DEF LockHeld

-----------------------------------------------------------------------------
(***************************************************************************)
(* Dispatching after the end.  A tick that loaded the parent while it ran  *)
(* may insert children after a cancel or a verdict.  LateDispatchBounded   *)
(* counts them; the invariant ties that count to the tick's own count of   *)
(* occupied slots, which it took once, after it had loaded the parent.     *)
(***************************************************************************)
LateKnown(t) ==
    /\ tpc[t] \in {"reap", "mark", "reconcile", "count"} => late = 0
    /\ tpc[t] = "dispatch" => late <= tloc[t].active
    /\ tpc[t] = "send" => late <= tloc[t].active + 1

LateInv ==
    /\ late <= MaxParallel
    /\ status \notin Terminal => late = 0
    /\ \A t \in Ticker : LateKnown(t)

\* A terminal parent stays terminal.
LEMMA TerminalStays ==
    ASSUME [Next]_vars, status \in Terminal
    PROVE  status' \in Terminal
<1>1. CASE \E t \in Ticker : TickComplete(t)
  BY <1>1, VerdictsTerminal DEF TickComplete
<1>2. CASE ~ \E t \in Ticker : TickComplete(t)
  BY <1>2, StatusSteps DEF TriggerInsert, CancelWrite
<1> QED  BY <1>1, <1>2

\* Only the dispatch loop inserts, late or in time.
LEMMA LateUntouched ==
    ASSUME [Next]_vars, ~ \E t \in Ticker : TickDispatch(t)
    PROVE  late' = late
BY ZenonT(40) DEF Next, vars, envVars, TickStep, TickAcquire, TickLockBusy, TickRequeue, TickLoad,
   TickStopped, TickReap, TickMark, TickReconcile, TickCount, TickSend, TickTouch, TickReenqueue,
   TickComplete, TickUnlock, TickNet, TickError, TickCrash, WorkerStep, WorkerTake, WorkerMark,
   WorkerNoMarketplace, WorkerPulseRead, WorkerPulseWrite, WorkerCheck, WorkerFinish, WorkerAbort,
   WorkerCrash, AdminStep, BeatStep, TriggerInsert, TriggerEnqueue, TriggerLost, CancelRead,
   CancelWrite, Revive, ReaperSelect, ReaperWrite

\* A turn of the dispatch loop.
LEMMA LateDispatch ==
    ASSUME TypeOK, LockHeld, LateInv, NEW t \in Ticker, TickDispatch(t)
    PROVE  LateInv'
<1> USE DEF TypeOK, GoTo
<1>0. tloc[t] \in Locals /\ late \in Nat /\ MaxParallel \in Nat /\ tloc[t].active \in Nat
  BY ConstantsAssumption DEF Locals
<1>1. PICK m \in NextCode(t) : ChildInserted(t, m) \/ ChildRefused(t, m)
  BY DEF TickDispatch
<1>2. /\ tpc[t] = "dispatch" /\ late <= tloc[t].active /\ tloc[t].active < MaxParallel
      /\ status' = status
  BY DEF TickDispatch, MayDispatch, LateInv, LateKnown
<1>3. tloc'[t].active = tloc[t].active
  BY <1>0, <1>1 DEF ChildInserted, ChildRefused, Locals
<1>4. /\ late' \in Nat /\ late' <= late + 1
      /\ status \notin Terminal => late' = late
      /\ tpc'[t] = "dispatch" => late' = late
      /\ tpc'[t] \in {"dispatch", "send"}
  BY <1>0, <1>1, <1>2 DEF ChildInserted, ChildRefused
<1>5. LateKnown(t)'  BY <1>0, <1>2, <1>3, <1>4 DEF LateKnown
<1>6. ASSUME NEW u \in Ticker, u # t PROVE LateKnown(u)'
  <2>1. tpc'[u] = tpc[u]  BY <1>6, OtherTicks DEF TickStep
  <2>2. tpc[u] \notin TickBody  BY <1>2, <1>6, OneInBody DEF TickBody
  <2> QED  BY <2>1, <2>2 DEF LateKnown, TickBody
<1> QED  BY <1>0, <1>2, <1>4, <1>5, <1>6 DEF LateInv

\* A tick's other steps keep what it knows.
LEMMA LateTick ==
    ASSUME TypeOK, LateInv, NEW t \in Ticker, AnyTickStep(t), ~TickDispatch(t), late' = late
    PROVE  LateKnown(t)'
<1> USE DEF TypeOK, GoTo, TickIdle
<1>0. tloc[t] \in Locals /\ late \in Nat /\ tloc[t].active \in Nat /\ LateKnown(t)
  BY DEF Locals, LateInv
<1>1. CASE TickLoad(t)  BY <1>1 DEF TickLoad, LateInv, LateKnown
<1>2. CASE TickReap(t) \/ TickMark(t) \/ TickReconcile(t)
  BY <1>0, <1>2 DEF TickReap, TickMark, TickReconcile, AfterReconcile, LateKnown
<1>3. CASE TickCount(t)
  <2>1. late = 0 /\ tpc'[t] = "dispatch"  BY <1>0, <1>3 DEF TickCount, LateKnown
  <2>2. tloc'[t].active = Cardinality(ActiveChildren(tloc[t].kind))
    BY <1>0, <1>3 DEF TickCount, Locals
  <2> QED  BY <2>1, <2>2, CountIsNat DEF LateKnown
<1>4. CASE TickSend(t)
  <2>1. tloc'[t].active = tloc[t].active + 1  BY <1>0, <1>4 DEF TickSend, Locals
  <2> QED  BY <1>0, <1>4, <2>1 DEF TickSend, LateKnown
<1>5. CASE tpc'[t] \in {"load", "complete", "reenqueue", "unlock", "net", "idle", "requeue"}
  BY <1>5 DEF LateKnown
<1>6. TickAcquire(t) \/ TickLockBusy(t) \/ TickRequeue(t) \/ TickStopped(t) \/ TickTouch(t)
      \/ TickReenqueue(t) \/ TickComplete(t) \/ TickUnlock(t) \/ TickNet(t) \/ TickError(t)
      \/ TickCrash(t)
        => tpc'[t] \in {"load", "complete", "reenqueue", "unlock", "net", "idle", "requeue"}
  BY DEF TickAcquire, TickLockBusy, TickRequeue, TickStopped, TickTouch, TickReenqueue,
     TickComplete, TickUnlock, TickNet, TickError, TickCrash
<1> QED  BY <1>1, <1>2, <1>3, <1>4, <1>5, <1>6 DEF AnyTickStep, TickStep

LEMMA LateStep ==
    ASSUME TypeOK, LockHeld, LateInv, [Next]_vars
    PROVE  LateInv'
<1>1. CASE \E t \in Ticker : TickDispatch(t)  BY <1>1, LateDispatch
<1>2. CASE ~ \E t \in Ticker : TickDispatch(t)
  <2>1. late' = late  BY <1>2, LateUntouched
  <2>2. status' \notin Terminal => late' = 0  BY <2>1, TerminalStays DEF LateInv
  <2>3. ASSUME NEW u \in Ticker PROVE LateKnown(u)'
    <3>1. CASE AnyTickStep(u)  BY <1>2, <2>1, <3>1, LateTick
    <3>2. CASE \E t \in Ticker : AnyTickStep(t) /\ t # u
      BY <2>1, <3>2, OtherTicks DEF AnyTickStep, LateInv, LateKnown
    <3>3. CASE ~ \E t \in Ticker : AnyTickStep(t)
      BY <2>1, <3>3, TicksUntouched DEF AnyTickStep, LateInv, LateKnown
    <3> QED  BY <3>1, <3>2, <3>3
  <2> QED  BY <2>1, <2>2, <2>3 DEF LateInv
<1> QED  BY <1>1, <1>2

\* After a cancel, a reap or a verdict, at most MaxParallel children more are inserted,
\* whatever happens: the lock lets one tick at a time count slots, and it counts once.
THEOREM LateDispatchIsBounded == Spec => []LateDispatchBounded
<1>1. Init => LockHeld /\ LateInv
  BY ConstantsAssumption DEF Init, LockHeld, LateInv, LateKnown, TickBody
<1>2. IInv /\ LockHeld /\ LateInv /\ [Next]_vars => LockHeld' /\ LateInv'
  BY LockStep, LateStep DEF IInv
<1>3. LateInv => LateDispatchBounded  BY DEF LateInv, LateDispatchBounded
<1> QED  BY <1>1, <1>2, <1>3, Invariant, PTL DEF Spec

-----------------------------------------------------------------------------
(***************************************************************************)
(* The chain of ticks.  ChainAlive is not inductive: a tick about to       *)
(* release the lock keeps the chain alive no longer, it has sent its       *)
(* successor or has seen the parent end.                                   *)
(***************************************************************************)
Continues(t) == tpc[t] \notin {"idle", "unlock"}

ChainInv ==
    status = "running" => tickMsgs > 0 \/ api = "enqueue" \/ \E t \in Ticker : Continues(t)

\* A step of a tick hands over.
LEMMA ChainTick ==
    ASSUME TypeOK, ChainInv, Events \cap {"broker", "error", "reject"} = {},
           NEW t \in Ticker, AnyTickStep(t), status' = "running"
    PROVE  ChainInv'
<1> USE DEF TypeOK, GoTo, TickIdle
<1>0. "broker" \notin Events /\ "error" \notin Events /\ "reject" \notin Events  OBVIOUS
<1>1. CASE tickMsgs' = tickMsgs + 1  BY <1>1 DEF ChainInv
<1>2. CASE Continues(t)'  BY <1>2 DEF ChainInv
<1>3. CASE tickMsgs' = tickMsgs /\ ~Continues(t) /\ status = "running"
  <2>1. api' = api
    BY DEF AnyTickStep, adminVars, TickStep, TickAcquire, TickLockBusy, TickRequeue, TickLoad,
       TickStopped, TickReap, TickMark, TickReconcile, TickCount, TickDispatch, TickSend,
       TickTouch, TickReenqueue, TickComplete, TickUnlock, TickNet, TickError, TickCrash
  <2>2. \A u \in Ticker : Continues(u) => Continues(u)'
    BY <1>3, OtherTicks DEF AnyTickStep, Continues
  <2> QED  BY <1>3, <2>1, <2>2 DEF ChainInv
<1>4. CASE TickAcquire(t) \/ TickLockBusy(t) \/ TickLoad(t) \/ TickReap(t) \/ TickMark(t)
           \/ TickReconcile(t) \/ TickCount(t) \/ TickSend(t) \/ TickTouch(t)
  BY <1>2, <1>4 DEF Continues, TickAcquire, TickLockBusy, TickLoad, TickReap, TickMark,
     TickReconcile, AfterReconcile, TickCount, TickSend, TickTouch
<1>5. CASE TickDispatch(t)
  BY <1>2, <1>5 DEF Continues, TickDispatch, ChildInserted, ChildRefused
<1>6. CASE TickRequeue(t) \/ TickReenqueue(t) \/ TickNet(t) \/ TickCrash(t)
  BY <1>0, <1>1, <1>6 DEF TickRequeue, TickReenqueue, TickNet, TickCrash
<1>7. CASE TickStopped(t)
  BY <1>7 DEF TickStopped, jobVars
<1>8. CASE TickComplete(t)
  <2>1. status' \in Terminal  BY <1>0, <1>8, VerdictsTerminal DEF TickComplete
  <2> QED  BY <2>1
<1>9. CASE TickUnlock(t)
  BY <1>3, <1>9 DEF TickUnlock, Continues, jobVars, brokerVars
<1>10. CASE TickError(t)  BY <1>0, <1>10 DEF TickError
<1> QED
  BY <1>4, <1>5, <1>6, <1>7, <1>8, <1>9, <1>10 DEF AnyTickStep, TickStep

LEMMA ChainStep ==
    ASSUME TypeOK, ChainInv, Events \cap {"broker", "error", "reject"} = {}, [Next]_vars
    PROVE  ChainInv'
<1> SUFFICES ASSUME status' = "running" PROVE ChainInv'  BY DEF ChainInv
<1>0. "broker" \notin Events  OBVIOUS
<1>1. ASSUME NEW t \in Ticker, AnyTickStep(t) PROVE ChainInv'  BY <1>1, ChainTick
<1>2. CASE ~ \E t \in Ticker : AnyTickStep(t)
  <2>1. tpc' = tpc  BY <1>2, TicksUntouched DEF AnyTickStep
  <2>2. CASE TriggerInsert  BY <2>2 DEF TriggerInsert, ChainInv
  <2>3. CASE TriggerEnqueue \/ Revive
    BY <2>3 DEF TriggerEnqueue, Revive, ChainInv, TypeOK
  <2>4. CASE CancelWrite  BY <2>4 DEF CancelWrite
  <2>5. CASE UNCHANGED <<tickMsgs, api>> \/ CancelRead
    <3>1. status = "running"
      <4>1. CASE CancelRead  BY <4>1 DEF CancelRead
      <4>2. CASE UNCHANGED <<tickMsgs, api>>
        <5>1. ~ \E t \in Ticker : TickComplete(t)  BY <1>2 DEF AnyTickStep, TickStep
        <5>2. ~TriggerInsert /\ ~CancelWrite  BY <4>2 DEF TriggerInsert, CancelWrite
        <5> QED  BY <5>1, <5>2, StatusSteps
      <4> QED  BY <2>5, <4>1, <4>2
    <3>2. UNCHANGED tickMsgs /\ (api = "enqueue" => api' = "enqueue")
      BY <2>5 DEF CancelRead, brokerVars
    <3> QED  BY <2>1, <3>1, <3>2 DEF ChainInv, Continues
  <2>6. CASE \E w \in Worker : WorkerStep(w) \/ WorkerAbort(w) \/ WorkerCrash(w)
    <3>1. UNCHANGED <<tickMsgs, api>>
      BY <2>6 DEF brokerVars, adminVars, WorkerStep, WorkerTake, WorkerMark, WorkerNoMarketplace,
         WorkerPulseRead, WorkerPulseWrite, WorkerCheck, WorkerFinish, WorkerAbort, WorkerCrash
    <3> QED  BY <2>5, <3>1
  <2>7. CASE ReaperSelect \/ ReaperWrite \/ UNCHANGED vars
    <3>1. UNCHANGED <<tickMsgs, api>>
      BY <2>7 DEF brokerVars, adminVars, vars, ReaperSelect, ReaperWrite
    <3> QED  BY <2>5, <3>1
  <2>8. ~TriggerLost  BY <1>0 DEF TriggerLost
  <2> QED
    BY <1>2, <2>2, <2>3, <2>4, <2>5, <2>6, <2>7, <2>8 DEF Next, AnyTickStep, AdminStep, BeatStep
<1> QED  BY <1>1, <1>2

\* As long as messages reach the broker, the gate takes the parent's writes and no exception
\* leaves a tick, crashes of ticks, cancels, revivals and races for the lock do not end the
\* chain of a running parent.
THEOREM ChainStaysAlive ==
    ASSUME Events \cap {"broker", "error", "reject"} = {}
    PROVE  Spec => []ChainAlive
<1>1. Init => ChainInv  BY DEF Init, ChainInv
<1>2. IInv /\ ChainInv /\ [Next]_vars => ChainInv'  BY ChainStep DEF IInv
<1>3. IInv /\ ChainInv => ChainAlive
  BY DEF IInv, TypeOK, ChainInv, ChainAlive, ChainDead, Continues
<1> QED  BY <1>1, <1>2, <1>3, Invariant, PTL DEF Spec

-----------------------------------------------------------------------------
(***************************************************************************)
(* The slots.  A row that has ended occupies its slot again when a worker  *)
(* that took the task before writes 'running' over it.  Where children are *)
(* not written off, or their tasks sent again, while somebody works on     *)
(* them, that does not happen: every child has one message or one worker,  *)
(* and what a tick writes off or sends has neither.                        *)
(***************************************************************************)
NoEarlyReap == Events \cap {"stale", "overdue", "beat"} = {}

RowsWhole == \A c \in ChildId : child[c].kind = "none" <=> child[c].st = "none"

WorkersKnown ==
    \A w \in Worker :
        /\ wpc[w] = "idle" <=> wchild[w] = 0
        /\ wpc[w] # "idle" => child[wchild[w]].st \in ActiveStatus

OneTask ==
    \A c \in ChildId :
        /\ childMsgs[c] > 0 => childMsgs[c] = 1 /\ Unclaimed(c) /\ child[c].st # "none"
        /\ \A v, w \in Worker : wchild[v] = c /\ wchild[w] = c => v = w

TodoLost(t) ==
    tpc[t] \in {"mark", "send"} => \A c \in tloc[t].todo : Lost(c) /\ child[c].st # "none"

TaskInv ==
    /\ RowsWhole /\ WorkersKnown /\ OneTask
    /\ \A t \in Ticker : TodoLost(t)
    /\ targets = {}

\* What the ticks leave alone.
LEMMA TickFrame ==
    ASSUME NEW t \in Ticker, AnyTickStep(t)
    PROVE  /\ UNCHANGED <<wpc, wchild, wseen, api, apiSeen, targets>>
           /\ TickMark(t) \/ TickDispatch(t) \/ UNCHANGED child
           /\ TickReconcile(t) \/ TickSend(t) \/ UNCHANGED childMsgs
BY DEF AnyTickStep, TickStep, jobVars, brokerVars, workerVars, adminVars, TickAcquire,
   TickLockBusy, TickRequeue, TickLoad, TickStopped, TickReap, TickMark, TickReconcile, TickCount,
   TickDispatch, TickSend, TickTouch, TickReenqueue, TickComplete, TickUnlock, TickNet, TickError,
   TickCrash

\* The rest of TaskInv after a step in which a tick holding the lock writes rows or messages.
LEMMA TodoOfOthers ==
    ASSUME TypeOK, LockHeld, NEW t \in Ticker, AnyTickStep(t), tpc[t] \in TickBody,
           NEW u \in Ticker, u # t
    PROVE  TodoLost(u)'
<1>1. tpc'[u] = tpc[u]  BY OtherTicks DEF AnyTickStep
<1>2. tpc[u] \notin TickBody  BY OneInBody
<1> QED  BY <1>1, <1>2 DEF TodoLost, TickBody

LEMMA TaskDispatch ==
    ASSUME TypeOK, LockHeld, RowsFresh, TaskInv, NEW t \in Ticker, TickDispatch(t)
    PROVE  TaskInv'
<1> USE DEF TypeOK, GoTo
<1>0. AnyTickStep(t)  BY DEF AnyTickStep, TickStep
<1>1. PICK m \in NextCode(t) : ChildInserted(t, m) \/ ChildRefused(t, m)
  BY DEF TickDispatch
<1>2. tpc[t] = "dispatch" /\ UNCHANGED <<wpc, wchild, childMsgs, targets>>
  BY DEF TickDispatch, workerVars, brokerVars, adminVars
<1>3. \A u \in Ticker \ {t} : TodoLost(u)'  BY <1>0, <1>2, TodoOfOthers DEF TickBody
<1>4. CASE ChildRefused(t, m)
  <2>1. child' = child /\ tpc'[t] = "dispatch"  BY <1>2, <1>4 DEF ChildRefused
  <2>2. TodoLost(t)'  BY <2>1 DEF TodoLost
  <2> QED
    BY <1>2, <1>3, <2>1, <2>2 DEF TaskInv, RowsWhole, WorkersKnown, OneTask, Unclaimed
<1>5. CASE ChildInserted(t, m)
  <2> DEFINE n == inserted + 1
  <2>1. n \in ChildId /\ child[n].kind = "none"
    BY ConstantsAssumption DEF TickDispatch, MayDispatch, ChildId, RowsFresh
  <2>2. /\ \A c \in ChildId : c # n => child'[c] = child[c]
        /\ child'[n].st = "pending" /\ child'[n].kind = tloc[t].kind
    BY <1>5, <2>1 DEF ChildInserted
  <2>3. child[n].st = "none"  BY <2>1 DEF TaskInv, RowsWhole
  <2>4. tloc[t] \in Locals  OBVIOUS
  <2>5. tloc'[t].todo = {n}  BY <1>5, <2>4 DEF ChildInserted, Locals
  <2> HIDE DEF n
  <2>6. RowsWhole'
    <3>1. tloc[t].kind # "none"  BY <2>4 DEF Locals
    <3> QED  BY <2>1, <2>2, <3>1 DEF TaskInv, RowsWhole
  <2>7. \A w \in Worker : wpc[w] # "idle" => wchild[w] \in ChildId /\ wchild[w] # n
    <3> SUFFICES ASSUME NEW w \in Worker, wpc[w] # "idle"
                 PROVE  wchild[w] \in ChildId /\ wchild[w] # n
      OBVIOUS
    <3>1. wchild[w] # 0 /\ child[wchild[w]].st \in ActiveStatus
      BY DEF TaskInv, WorkersKnown
    <3> QED  BY <2>3, <3>1
  <2>8. WorkersKnown'  BY <1>2, <2>2, <2>7 DEF TaskInv, WorkersKnown
  <2>9. Lost(n)
    <3>1. childMsgs[n] = 0  BY <2>1, <2>3 DEF TaskInv, OneTask
    <3>2. Unclaimed(n)
      <4> SUFFICES ASSUME NEW w \in Worker, wchild[w] = n PROVE FALSE  BY DEF Unclaimed
      <4>1. wchild[w] # 0  BY <2>1 DEF ChildId
      <4> QED  BY <2>7, <4>1 DEF TaskInv, WorkersKnown
    <3> QED  BY <3>1, <3>2 DEF Lost
  <2>10. OneTask'
    <3> SUFFICES ASSUME NEW c \in ChildId
                 PROVE  /\ childMsgs[c] > 0 => childMsgs[c] = 1 /\ Unclaimed(c) /\ child'[c].st # "none"
                        /\ \A v, w \in Worker : wchild[v] = c /\ wchild[w] = c => v = w
      BY <1>2 DEF OneTask, Unclaimed
    <3> QED  BY <2>2 DEF TaskInv, OneTask
  <2>11. TodoLost(t)'
    BY <1>2, <2>2, <2>5, <2>9 DEF TodoLost, Lost, Unclaimed
  <2> QED  BY <1>2, <1>3, <2>6, <2>8, <2>10, <2>11 DEF TaskInv
<1> QED  BY <1>1, <1>4, <1>5

LEMMA TaskMark ==
    ASSUME TypeOK, LockHeld, TaskInv, NEW t \in Ticker, TickMark(t)
    PROVE  TaskInv'
<1> USE DEF TypeOK, GoTo
<1>0. AnyTickStep(t)  BY DEF AnyTickStep, TickStep
<1>1. PICK c \in tloc[t].todo : /\ SetChild(c, "failed")
                                /\ tloc' = [tloc EXCEPT ![t].todo = @ \ {c}]
  BY DEF TickMark
<1>2. tpc[t] = "mark" /\ UNCHANGED <<wpc, wchild, childMsgs, targets>>
  BY DEF TickMark, workerVars, brokerVars, adminVars
<1>3. tloc[t] \in Locals /\ c \in ChildId /\ Lost(c) /\ child[c].st # "none"
  BY <1>1, <1>2 DEF Locals, TaskInv, TodoLost
<1>4. /\ \A d \in ChildId : d # c => child'[d] = child[d]
      /\ child'[c].st \in {"failed", child[c].st} /\ child'[c].kind = child[c].kind
  BY <1>1, <1>3 DEF Row
<1>5. RowsWhole'  BY <1>3, <1>4 DEF TaskInv, RowsWhole
<1>6. WorkersKnown'
  <2> SUFFICES ASSUME NEW w \in Worker, wpc[w] # "idle" PROVE child'[wchild[w]] = child[wchild[w]]
    BY <1>2 DEF TaskInv, WorkersKnown
  <2>1. wchild[w] \in ChildId  BY DEF TaskInv, WorkersKnown
  <2> QED  BY <1>3, <1>4, <2>1 DEF Lost, Unclaimed
<1>7. OneTask'  BY <1>2, <1>4 DEF TaskInv, OneTask, Unclaimed
<1>8. TodoLost(t)'
  <2>1. tloc'[t].todo \subseteq tloc[t].todo  BY <1>1, <1>3 DEF Locals
  <2>2. tloc[t].todo \subseteq ChildId  BY <1>3 DEF Locals
  <2>3. \A d \in ChildId : child[d].st # "none" => child'[d].st # "none"  BY <1>4
  <2> QED  BY <1>2, <2>1, <2>2, <2>3 DEF TaskInv, TodoLost, Lost, Unclaimed
<1>9. \A u \in Ticker \ {t} : TodoLost(u)'  BY <1>0, <1>2, TodoOfOthers DEF TickBody
<1> QED  BY <1>2, <1>5, <1>6, <1>7, <1>8, <1>9 DEF TaskInv

LEMMA TaskReconcile ==
    ASSUME TypeOK, LockHeld, TaskInv, NoEarlyReap, NEW t \in Ticker, TickReconcile(t)
    PROVE  TaskInv'
<1> USE DEF TypeOK, GoTo
<1>0. AnyTickStep(t)  BY DEF AnyTickStep, TickStep
<1>1. PICK overdue \in SUBSET Pending(tloc[t].kind) :
         /\ \A c \in overdue : Lost(c)
         /\ childMsgs' = [c \in ChildId |-> IF c \in overdue THEN childMsgs[c] + 1 ELSE childMsgs[c]]
  BY DEF TickReconcile, NoEarlyReap
<1>2. tpc[t] = "reconcile" /\ UNCHANGED <<wpc, wchild, child, targets>>
  BY DEF TickReconcile, workerVars, jobVars, adminVars
<1>3. OneTask'
  <2> SUFFICES ASSUME NEW c \in ChildId, childMsgs'[c] > 0
               PROVE  childMsgs'[c] = 1 /\ Unclaimed(c) /\ child[c].st # "none"
    BY <1>2 DEF OneTask, TaskInv, Unclaimed
  <2>1. CASE c \in overdue
    <3>1. childMsgs[c] = 0 /\ Unclaimed(c)  BY <1>1, <2>1 DEF Lost
    <3>2. child[c].st = "pending"  BY <2>1 DEF Pending
    <3> QED  BY <1>1, <2>1, <3>1, <3>2
  <2>2. CASE c \notin overdue  BY <1>1, <2>2 DEF TaskInv, OneTask
  <2> QED  BY <2>1, <2>2
<1>4. TodoLost(t)'
  <2>1. tpc'[t] \in {"reap", "count", "complete"}  BY DEF TickReconcile, AfterReconcile
  <2> QED  BY <2>1 DEF TodoLost
<1>5. \A u \in Ticker \ {t} : TodoLost(u)'  BY <1>0, <1>2, TodoOfOthers DEF TickBody
<1> QED  BY <1>2, <1>3, <1>4, <1>5 DEF TaskInv, RowsWhole, WorkersKnown

LEMMA TaskSend ==
    ASSUME TypeOK, LockHeld, TaskInv, NEW t \in Ticker, TickSend(t)
    PROVE  TaskInv'
<1> USE DEF TypeOK, GoTo
<1>0. AnyTickStep(t)  BY DEF AnyTickStep, TickStep
<1>1. PICK c \in tloc[t].todo : childMsgs' = [childMsgs EXCEPT ![c] = @ + 1]
  BY DEF TickSend
<1>2. tpc[t] = "send" /\ tpc'[t] = "dispatch" /\ UNCHANGED <<wpc, wchild, child, targets>>
  BY DEF TickSend, workerVars, jobVars, adminVars
<1>3. tloc[t] \in Locals /\ c \in ChildId /\ Lost(c) /\ child[c].st # "none"
  BY <1>1, <1>2 DEF Locals, TaskInv, TodoLost
<1>4. /\ childMsgs'[c] = 1
      /\ \A d \in ChildId : d # c => childMsgs'[d] = childMsgs[d]
  BY <1>1, <1>3 DEF Lost
<1>5. OneTask'  BY <1>2, <1>3, <1>4 DEF TaskInv, OneTask, Unclaimed, Lost
<1>6. TodoLost(t)'  BY <1>2 DEF TodoLost
<1>7. \A u \in Ticker \ {t} : TodoLost(u)'  BY <1>0, <1>2, TodoOfOthers DEF TickBody
<1> QED  BY <1>2, <1>5, <1>6, <1>7 DEF TaskInv, RowsWhole, WorkersKnown

LEMMA TaskTick ==
    ASSUME TypeOK, LockHeld, RowsFresh, TaskInv, NoEarlyReap, NEW t \in Ticker, AnyTickStep(t)
    PROVE  TaskInv'
<1> USE DEF TypeOK, GoTo, TickIdle
<1>1. CASE TickMark(t) \/ TickDispatch(t) \/ TickReconcile(t) \/ TickSend(t)
  BY <1>1, TaskMark, TaskDispatch, TaskReconcile, TaskSend
<1>2. CASE ~(TickMark(t) \/ TickDispatch(t) \/ TickReconcile(t) \/ TickSend(t))
  <2>1. UNCHANGED <<wpc, wchild, child, childMsgs, targets>>  BY <1>2, TickFrame
  <2>2. ASSUME NEW u \in Ticker, u # t PROVE TodoLost(u)'
    BY <2>1, <2>2, OtherTicks DEF AnyTickStep, TaskInv, TodoLost, Lost, Unclaimed
  <2>3. TodoLost(t)'
    <3>1. CASE TickReap(t)
      <4>1. PICK stale \in SUBSET Running(tloc[t].kind) :
               (\A c \in stale : Lost(c)) /\ tloc' = [tloc EXCEPT ![t].todo = stale]
        BY <3>1 DEF TickReap, NoEarlyReap
      <4>2. tloc'[t].todo = stale  BY <4>1 DEF Locals
      <4>3. \A c \in stale : child[c].st # "none"  BY DEF Running
      <4> QED  BY <2>1, <4>1, <4>2, <4>3 DEF TodoLost, Lost, Unclaimed
    <3>2. CASE ~TickReap(t)
      <4>1. tpc'[t] \notin {"mark", "send"}
        BY <1>2, <3>2 DEF AnyTickStep, TickStep, TickAcquire, TickLockBusy, TickRequeue, TickLoad,
           TickStopped, TickCount, TickTouch, TickReenqueue, TickComplete, TickUnlock, TickNet,
           TickError, TickCrash
      <4> QED  BY <4>1 DEF TodoLost
    <3> QED  BY <3>1, <3>2
  <2> QED
    BY <2>1, <2>2, <2>3 DEF TaskInv, RowsWhole, WorkersKnown, OneTask, Unclaimed
<1> QED  BY <1>1, <1>2

\* What a worker's step writes: the row and the messages of its child only.
LEMMA TaskWorker ==
    ASSUME TypeOK, TaskInv, NEW w \in Worker, WorkerStep(w) \/ WorkerAbort(w) \/ WorkerCrash(w)
    PROVE  TaskInv'
<1> USE DEF TypeOK
<1> DEFINE x == wchild[w]
<1>0. /\ UNCHANGED <<tpc, tloc, targets>>
      /\ 0 \notin ChildId
  BY DEF ChildId, WorkerStep, tickVars, adminVars, WorkerTake, WorkerMark, WorkerNoMarketplace,
     WorkerPulseRead, WorkerPulseWrite, WorkerCheck, WorkerFinish, WorkerAbort, WorkerCrash
<1>1. wpc[w] # "idle" => x \in ChildId /\ child[x].st \in ActiveStatus /\ childMsgs[x] = 0
                         /\ \A t \in Ticker : tpc[t] \in {"mark", "send"} => x \notin tloc[t].todo
  <2> SUFFICES ASSUME wpc[w] # "idle"
               PROVE  x \in ChildId /\ child[x].st \in ActiveStatus /\ childMsgs[x] = 0
                      /\ \A t \in Ticker : tpc[t] \in {"mark", "send"} => x \notin tloc[t].todo
    OBVIOUS
  <2>1. x \in ChildId /\ child[x].st \in ActiveStatus  BY DEF TaskInv, WorkersKnown
  <2>2. ~Unclaimed(x)  BY DEF Unclaimed
  <2>3. childMsgs[x] = 0  BY <2>1, <2>2 DEF TaskInv, OneTask
  <2> QED  BY <2>1, <2>2, <2>3 DEF TaskInv, TodoLost, Lost
<1>2. wpc[w] # "idle" => \A v \in Worker : v # w => wchild[v] # x
  BY <1>1 DEF TaskInv, OneTask
<1>3. \A t \in Ticker : \A c \in tloc[t].todo : c \in ChildId  BY DEF Locals
<1>4. ASSUME NEW c \in ChildId, WorkerTake(w, c) PROVE TaskInv'
  <2>1. /\ wpc[w] = "idle" /\ wchild[w] = 0 /\ childMsgs[c] = 1 /\ Unclaimed(c)
        /\ child[c].st # "none" /\ child' = child
    BY <1>4 DEF WorkerTake, TaskInv, WorkersKnown, OneTask, jobVars
  <2>2. childMsgs'[c] = 0 /\ \A d \in ChildId : d # c => childMsgs'[d] = childMsgs[d]
    BY <1>4, <2>1 DEF WorkerTake
  <2>3. \A t \in Ticker : tpc[t] \in {"mark", "send"} => c \notin tloc[t].todo
    BY <2>1 DEF TaskInv, TodoLost, Lost
  <2>4. CASE child[c].st \in Terminal
    <3>1. UNCHANGED <<wpc, wchild>>  BY <1>4, <2>4 DEF WorkerTake
    <3> QED
      BY <1>0, <1>3, <2>1, <2>2, <2>3, <3>1
      DEF TaskInv, RowsWhole, WorkersKnown, OneTask, TodoLost, Lost, Unclaimed
  <2>5. CASE child[c].st \notin Terminal
    <3>1. wpc' = [wpc EXCEPT ![w] = "mark"] /\ wchild' = [wchild EXCEPT ![w] = c]
      BY <1>4, <2>5 DEF WorkerTake
    <3>2. child[c] \in Row /\ child[c].st \in ActiveStatus  BY <2>1, <2>5 DEF Row
    <3>3. WorkersKnown'  BY <1>0, <2>1, <3>1, <3>2 DEF TaskInv, WorkersKnown
    <3>4. OneTask'
      <4> SUFFICES ASSUME NEW d \in ChildId
                   PROVE  /\ childMsgs'[d] > 0 => childMsgs'[d] = 1 /\ Unclaimed(d)' /\ child'[d].st # "none"
                          /\ \A u, v \in Worker : wchild'[u] = d /\ wchild'[v] = d => u = v
        BY DEF OneTask
      <4>1. CASE d = c  BY <2>1, <2>2, <3>1, <4>1 DEF Unclaimed
      <4>2. CASE d # c  BY <1>0, <2>1, <2>2, <3>1, <4>2 DEF TaskInv, OneTask, Unclaimed
      <4> QED  BY <4>1, <4>2
    <3>5. \A t \in Ticker : TodoLost(t)'
      BY <1>0, <1>3, <2>1, <2>2, <2>3, <3>1 DEF TaskInv, TodoLost, Lost, Unclaimed
    <3> QED  BY <1>0, <2>1, <3>3, <3>4, <3>5 DEF TaskInv, RowsWhole
  <2> QED  BY <2>4, <2>5
<1> HIDE DEF x
<1>5. ASSUME wpc[w] # "idle", NEW s \in ActiveStatus \cup Terminal,
             SetChild(x, s), UNCHANGED childMsgs,
             \/ WorkerIdle(w)
             \/ s \in ActiveStatus /\ wchild' = wchild /\ wpc'[w] # "idle"
                /\ \A v \in Worker : v # w => wpc'[v] = wpc[v]
      PROVE  TaskInv'
  <2>1. /\ \A d \in ChildId : d # x => child'[d] = child[d]
        /\ child'[x].st \in {s, child[x].st} /\ child'[x].kind = child[x].kind
    BY <1>1, <1>5 DEF Row
  <2>2. \A d \in ChildId : child[d].st # "none" => child'[d].st # "none"  BY <2>1, <1>5
  <2>3. RowsWhole'  BY <1>1, <1>5, <2>1 DEF TaskInv, RowsWhole
  <2>4. \A v \in Worker : v # w => wpc'[v] = wpc[v] /\ wchild'[v] = wchild[v]
    BY <1>5 DEF WorkerIdle
  <2>5. \/ wpc'[w] = "idle" /\ wchild'[w] = 0
        \/ wpc'[w] # "idle" /\ wchild'[w] = x /\ s \in ActiveStatus
    BY <1>5 DEF WorkerIdle, x
  <2>6. WorkersKnown'
    <3> SUFFICES ASSUME NEW v \in Worker
                 PROVE  /\ wpc'[v] = "idle" <=> wchild'[v] = 0
                        /\ wpc'[v] # "idle" => child'[wchild'[v]].st \in ActiveStatus
      BY DEF WorkersKnown
    <3>1. CASE v = w  BY <1>0, <1>1, <1>5, <2>1, <2>5, <3>1
    <3>2. CASE v # w
      <4>1. wchild[v] # x  BY <1>2, <1>5, <3>2
      <4>2. wpc[v] # "idle" => wchild[v] \in ChildId  BY DEF TaskInv, WorkersKnown
      <4> QED  BY <2>1, <2>4, <3>2, <4>1, <4>2 DEF TaskInv, WorkersKnown
    <3> QED  BY <3>1, <3>2
  <2>7. \A c \in ChildId : Unclaimed(c) => Unclaimed(c)'
    BY <1>0, <2>4, <2>5 DEF Unclaimed, x
  <2>8. OneTask'
    <3> SUFFICES ASSUME NEW d \in ChildId
                 PROVE  /\ childMsgs'[d] > 0 => childMsgs'[d] = 1 /\ Unclaimed(d)' /\ child'[d].st # "none"
                        /\ \A u, v \in Worker : wchild'[u] = d /\ wchild'[v] = d => u = v
      BY DEF OneTask
    <3>1. \A v \in Worker : wchild'[v] = d => wchild[v] = d
      BY <1>0, <2>4, <2>5 DEF x
    <3> QED  BY <1>5, <2>2, <2>7, <3>1 DEF TaskInv, OneTask
  <2>9. \A t \in Ticker : TodoLost(t)'
    BY <1>0, <1>3, <1>5, <2>2, <2>7 DEF TaskInv, TodoLost, Lost
  <2> QED  BY <1>0, <2>3, <2>6, <2>8, <2>9 DEF TaskInv
<1>6. CASE WorkerMark(w)  BY <1>5, <1>6 DEF WorkerMark, brokerVars, x
<1>7. CASE WorkerNoMarketplace(w)  BY <1>5, <1>7 DEF WorkerNoMarketplace, brokerVars, x
<1>8. CASE WorkerFinish(w)
  <2>1. PICK s \in Terminal : SetChild(x, s)  BY <1>8 DEF WorkerFinish, x
  <2> QED  BY <1>5, <1>8, <2>1 DEF WorkerFinish, brokerVars
<1>9. CASE WorkerPulseRead(w) \/ WorkerPulseWrite(w) \/ WorkerCheck(w)
  <2>1. UNCHANGED <<child, childMsgs, wchild>>
    BY <1>9 DEF WorkerPulseRead, WorkerPulseWrite, WorkerCheck, jobVars, brokerVars, workerVars
  <2>2. \A v \in Worker : wpc'[v] = "idle" <=> wpc[v] = "idle"
    BY <1>9 DEF WorkerPulseRead, WorkerPulseWrite, WorkerCheck, workerVars
  <2>3. RowsWhole' /\ WorkersKnown'  BY <2>1, <2>2 DEF TaskInv, RowsWhole, WorkersKnown
  <2>4. OneTask'  BY <2>1 DEF TaskInv, OneTask, Unclaimed
  <2>5. \A t \in Ticker : TodoLost(t)'  BY <1>0, <2>1 DEF TaskInv, TodoLost, Lost, Unclaimed
  <2> QED  BY <1>0, <2>3, <2>4, <2>5 DEF TaskInv
<1>10. CASE WorkerAbort(w) \/ WorkerCrash(w)
  <2>1. wpc[w] # "idle" /\ WorkerIdle(w) /\ child' = child
    BY <1>10 DEF WorkerAbort, WorkerCrash, jobVars
  <2>2. childMsgs' = childMsgs \/ childMsgs' = [childMsgs EXCEPT ![x] = @ + 1]
    BY <1>10 DEF WorkerAbort, WorkerCrash, brokerVars, x
  <2>3. /\ \A d \in ChildId : d # x => childMsgs'[d] = childMsgs[d]
        /\ childMsgs'[x] \in {0, 1}
    BY <1>1, <2>1, <2>2
  <2>4. \A v \in Worker : IF v = w THEN wpc'[v] = "idle" /\ wchild'[v] = 0
                          ELSE wpc'[v] = wpc[v] /\ wchild'[v] = wchild[v]
    BY <2>1 DEF WorkerIdle
  <2>5. RowsWhole' /\ WorkersKnown'  BY <2>1, <2>4 DEF TaskInv, RowsWhole, WorkersKnown
  <2>6. OneTask'
    <3> SUFFICES ASSUME NEW d \in ChildId
                 PROVE  /\ childMsgs'[d] > 0 => childMsgs'[d] = 1 /\ Unclaimed(d)' /\ child'[d].st # "none"
                        /\ \A u, v \in Worker : wchild'[u] = d /\ wchild'[v] = d => u = v
      BY DEF OneTask
    <3>1. \A v \in Worker : wchild'[v] = d => wchild[v] = d /\ v # w  BY <1>0, <2>4
    <3>2. CASE d = x
      <4>1. Unclaimed(d)'  BY <1>2, <2>1, <3>1, <3>2 DEF Unclaimed
      <4>2. child'[d].st # "none"  BY <1>1, <2>1, <3>2
      <4>3. childMsgs'[d] > 0 => childMsgs'[d] = 1  BY <2>3, <3>2
      <4> QED  BY <3>1, <4>1, <4>2, <4>3 DEF TaskInv, OneTask
    <3>3. CASE d # x  BY <2>1, <2>3, <3>1, <3>3 DEF TaskInv, OneTask, Unclaimed
    <3> QED  BY <3>2, <3>3
  <2>7. \A t \in Ticker : TodoLost(t)'
    BY <1>0, <1>1, <1>3, <2>1, <2>3, <2>4 DEF TaskInv, TodoLost, Lost, Unclaimed
  <2> QED  BY <1>0, <2>5, <2>6, <2>7 DEF TaskInv
<1> QED  BY <1>4, <1>6, <1>7, <1>8, <1>9, <1>10 DEF WorkerStep

LEMMA TaskStep ==
    ASSUME TypeOK, LockHeld, RowsFresh, TaskInv, NoEarlyReap, [Next]_vars
    PROVE  TaskInv'
<1>1. CASE \E t \in Ticker : AnyTickStep(t)  BY <1>1, TaskTick
<1>2. CASE \E w \in Worker : WorkerStep(w) \/ WorkerAbort(w) \/ WorkerCrash(w)
  BY <1>2, TaskWorker
<1>3. CASE AdminStep \/ BeatStep \/ UNCHANGED vars
  <2>1. ~ReaperSelect /\ ~ReaperWrite
    BY DEF NoEarlyReap, ReaperSelect, ReaperWrite, TaskInv
  <2>2. UNCHANGED <<child, childMsgs, tpc, tloc, wpc, wchild, targets>>
    BY <1>3, <2>1 DEF AdminStep, BeatStep, vars, jobVars, brokerVars, tickVars, workerVars,
       adminVars, TriggerInsert, TriggerEnqueue, TriggerLost, CancelRead, CancelWrite, Revive
  <2> QED
    BY <2>2 DEF TaskInv, RowsWhole, WorkersKnown, OneTask, TodoLost, Lost, Unclaimed
<1> QED  BY <1>1, <1>2, <1>3 DEF Next, AnyTickStep

\* Which steps occupy a slot.
SlotsKnown(t) ==
    /\ tpc[t] = "dispatch" => Cardinality(Unfinished(tloc[t].kind)) <= tloc[t].active
    /\ tpc[t] = "send" => Cardinality(Unfinished(tloc[t].kind)) <= tloc[t].active + 1

SlotsInv == SlotsBounded /\ \A t \in Ticker : SlotsKnown(t)

LEMMA UnfinishedFinite ==
    \A kind : IsFiniteSet(Unfinished(kind)) /\ Cardinality(Unfinished(kind)) \in Nat
<1> TAKE kind
<1>1. IsFiniteSet(ChildId)  BY FS_Interval, ConstantsAssumption DEF ChildId
<1>2. IsFiniteSet(Unfinished(kind))  BY <1>1, FS_Subset DEF Unfinished
<1> QED  BY <1>2, FS_CardinalityType

LEMMA FewerUnfinished ==
    ASSUME NEW kind, Unfinished(kind)' \subseteq Unfinished(kind)
    PROVE  Cardinality(Unfinished(kind)') <= Cardinality(Unfinished(kind))
BY UnfinishedFinite, FS_Subset

\* A row whose status is written by id to one it may have keeps its slot or frees it.
LEMMA StatusFrees ==
    ASSUME TypeOK, NEW x, NEW s, SetChild(x, s),
           s \in ActiveStatus => x \in ChildId /\ child[x].st \in ActiveStatus, NEW kind
    PROVE  Unfinished(kind)' \subseteq Unfinished(kind)
<1> SUFFICES ASSUME NEW c \in ChildId, child'[c].kind = kind, child'[c].st \in ActiveStatus
             PROVE  child[c].kind = kind /\ child[c].st \in ActiveStatus
  BY DEF Unfinished
<1>1. child'[c].kind = child[c].kind  BY StatusKeepsRows
<1>2. CASE c = x  BY <1>1, <1>2 DEF TypeOK, Row
<1>3. CASE c # x  BY <1>1, <1>3 DEF TypeOK
<1> QED  BY <1>1, <1>2, <1>3

\* Only the dispatch loop occupies slots.
LEMMA OthersFreeSlots ==
    ASSUME TypeOK, TaskInv, NoEarlyReap, [Next]_vars, ~ \E t \in Ticker : TickDispatch(t), NEW kind
    PROVE  Unfinished(kind)' \subseteq Unfinished(kind)
<1>0. ~ReaperWrite  BY DEF NoEarlyReap, ReaperWrite, TaskInv
<1>1. CASE UNCHANGED child  BY <1>1 DEF Unfinished
<1>2. ASSUME NEW t \in Ticker, TickMark(t) PROVE Unfinished(kind)' \subseteq Unfinished(kind)
  <2>1. PICK c : SetChild(c, "failed")  BY <1>2 DEF TickMark
  <2>2. CASE child' = [child EXCEPT ![c].st = "failed"]  BY <2>2, StatusFrees
  <2> QED  BY <1>1, <2>1, <2>2
<1>3. ASSUME NEW w \in Worker, WorkerMark(w) PROVE Unfinished(kind)' \subseteq Unfinished(kind)
  <2>1. wchild[w] \in ChildId /\ child[wchild[w]].st \in ActiveStatus
    BY <1>3 DEF WorkerMark, TaskInv, WorkersKnown, TypeOK
  <2> QED  BY <1>3, <2>1, StatusFrees DEF WorkerMark
<1>4. ASSUME NEW w \in Worker, WorkerNoMarketplace(w) \/ WorkerFinish(w)
      PROVE  Unfinished(kind)' \subseteq Unfinished(kind)
  <2>1. PICK s \in Terminal : SetChild(wchild[w], s)
    BY <1>4 DEF WorkerNoMarketplace, WorkerFinish
  <2> QED  BY <2>1, StatusFrees
<1>5. \/ UNCHANGED child
      \/ \E t \in Ticker : TickMark(t)
      \/ \E w \in Worker : WorkerMark(w) \/ WorkerNoMarketplace(w) \/ WorkerFinish(w)
  <2>1. ASSUME NEW t \in Ticker, AnyTickStep(t) PROVE TickMark(t) \/ UNCHANGED child
    BY <2>1, TickFrame
  <2>2. ASSUME NEW w \in Worker, WorkerStep(w) \/ WorkerAbort(w) \/ WorkerCrash(w)
        PROVE  \/ UNCHANGED child
               \/ WorkerMark(w) \/ WorkerNoMarketplace(w) \/ WorkerFinish(w)
    BY <2>2 DEF jobVars, WorkerStep, WorkerTake, WorkerPulseRead, WorkerPulseWrite, WorkerCheck,
       WorkerAbort, WorkerCrash
  <2>3. CASE AdminStep \/ BeatStep \/ UNCHANGED vars
    BY <1>0, <2>3 DEF vars, jobVars, AdminStep, BeatStep, TriggerInsert, TriggerEnqueue,
       TriggerLost, CancelRead, CancelWrite, Revive, ReaperSelect
  <2> QED  BY <2>1, <2>2, <2>3 DEF Next, AnyTickStep
<1> QED  BY <1>1, <1>2, <1>3, <1>4, <1>5

\* A turn of the dispatch loop occupies one slot of its kind, or none.
LEMMA DispatchOccupies ==
    ASSUME TypeOK, RowsFresh, NEW t \in Ticker, TickDispatch(t), NEW kind,
           kind \in {"discovery", "scrape"}
    PROVE  \/ tpc'[t] \in {"dispatch", "send"} /\ Unfinished(kind)' = Unfinished(kind)
           \/ /\ tpc'[t] = "send" /\ kind = tloc[t].kind
              /\ \E n : Unfinished(kind)' = Unfinished(kind) \cup {n}
<1> USE DEF TypeOK, GoTo
<1>1. PICK m \in NextCode(t) : ChildInserted(t, m) \/ ChildRefused(t, m)
  BY DEF TickDispatch
<1>2. CASE ChildRefused(t, m)
  <2>1. child' = child /\ tpc'[t] = "dispatch"  BY <1>2 DEF ChildRefused, TickDispatch
  <2> QED  BY <2>1 DEF Unfinished
<1>3. CASE ChildInserted(t, m)
  <2> DEFINE n == inserted + 1
  <2>1. n \in ChildId /\ child[n].kind = "none"
    BY ConstantsAssumption DEF TickDispatch, MayDispatch, ChildId, RowsFresh
  <2>2. /\ \A c \in ChildId : c # n => child'[c] = child[c]
        /\ child'[n].st = "pending" /\ child'[n].kind = tloc[t].kind
    BY <1>3, <2>1 DEF ChildInserted
  <2>3. tpc'[t] = "send"  BY <1>3 DEF ChildInserted
  <2> HIDE DEF n
  <2>4. CASE kind = tloc[t].kind
    <3>1. Unfinished(kind)' = Unfinished(kind) \cup {n}  BY <2>1, <2>2, <2>4 DEF Unfinished
    <3> QED  BY <2>3, <2>4, <3>1
  <2>5. CASE kind # tloc[t].kind
    <3>1. Unfinished(kind)' = Unfinished(kind)  BY <2>1, <2>2, <2>5 DEF Unfinished
    <3> QED  BY <2>3, <3>1
  <2> QED  BY <2>4, <2>5
<1> QED  BY <1>1, <1>2, <1>3

LEMMA OneMore ==
    ASSUME NEW S, IsFiniteSet(S), NEW n
    PROVE  Cardinality(S \cup {n}) \in Nat /\ Cardinality(S \cup {n}) <= Cardinality(S) + 1
<1>1. IsFiniteSet(S \cup {n}) /\ (Cardinality(S \cup {n}) = Cardinality(S)
                                  \/ Cardinality(S \cup {n}) = Cardinality(S) + 1)
  BY FS_AddElement
<1>2. Cardinality(S) \in Nat /\ Cardinality(S \cup {n}) \in Nat  BY <1>1, FS_CardinalityType
<1> QED  BY <1>1, <1>2

LEMMA SlotsDispatch ==
    ASSUME TypeOK, LockHeld, RowsFresh, SlotsInv, NEW t \in Ticker, TickDispatch(t)
    PROVE  SlotsInv'
<1> USE DEF TypeOK
<1>1. AnyTickStep(t) /\ tpc[t] = "dispatch"  BY DEF AnyTickStep, TickStep, TickDispatch
<1>2. /\ tloc[t] \in Locals /\ tloc'[t].kind = tloc[t].kind /\ tloc'[t].active = tloc[t].active
      /\ tloc[t].kind \in {"discovery", "scrape"} /\ tloc[t].active \in Nat
  <2>1. PICK m \in NextCode(t) : ChildInserted(t, m) \/ ChildRefused(t, m)  BY DEF TickDispatch
  <2> QED  BY <2>1 DEF ChildInserted, ChildRefused, Locals
<1>3. tloc[t].active < MaxParallel /\ MaxParallel \in Nat
  BY ConstantsAssumption DEF TickDispatch, MayDispatch
<1>4. ASSUME NEW kind \in {"discovery", "scrape"}
      PROVE  /\ Cardinality(Unfinished(kind)') <= MaxParallel
             /\ kind = tloc[t].kind /\ tpc'[t] = "dispatch"
                  => Cardinality(Unfinished(kind)') <= tloc[t].active
             /\ kind = tloc[t].kind /\ tpc'[t] = "send"
                  => Cardinality(Unfinished(kind)') <= tloc[t].active + 1
  <2> DEFINE N == Cardinality(Unfinished(kind))
  <2>1. N \in Nat /\ N <= MaxParallel  BY UnfinishedFinite DEF SlotsInv, SlotsBounded
  <2>2. kind = tloc[t].kind => N <= tloc[t].active  BY <1>1 DEF SlotsInv, SlotsKnown
  <2>3. CASE Unfinished(kind)' = Unfinished(kind)  BY <1>2, <2>1, <2>2, <2>3
  <2>4. ASSUME NEW n, kind = tloc[t].kind, tpc'[t] = "send",
               Unfinished(kind)' = Unfinished(kind) \cup {n}
        PROVE  Cardinality(Unfinished(kind)') \in Nat /\ Cardinality(Unfinished(kind)') <= N + 1
    BY <2>1, <2>4, UnfinishedFinite, OneMore
  <2> HIDE DEF N
  <2>5. CASE /\ tpc'[t] = "send" /\ kind = tloc[t].kind
             /\ \E n : Unfinished(kind)' = Unfinished(kind) \cup {n}
    <3>1. Cardinality(Unfinished(kind)') \in Nat /\ Cardinality(Unfinished(kind)') <= N + 1
      BY <2>4, <2>5
    <3> QED  BY <1>2, <1>3, <2>1, <2>2, <2>5, <3>1
  <2> QED  BY <2>3, <2>5, DispatchOccupies
<1>5. SlotsKnown(t)'  BY <1>2, <1>4 DEF SlotsKnown
<1>6. ASSUME NEW u \in Ticker, u # t PROVE SlotsKnown(u)'
  <2>1. tpc'[u] = tpc[u]  BY <1>1, <1>6, OtherTicks DEF AnyTickStep
  <2>2. tpc[u] \notin TickBody  BY <1>1, <1>6, OneInBody DEF TickBody
  <2> QED  BY <2>1, <2>2 DEF SlotsKnown, TickBody
<1> QED  BY <1>4, <1>5, <1>6 DEF SlotsInv, SlotsBounded

\* A tick's other steps keep its count a bound of the rows.
LEMMA SlotsTick ==
    ASSUME TypeOK, SlotsInv, NEW t \in Ticker, AnyTickStep(t), ~TickDispatch(t),
           \A kind : Unfinished(kind)' \subseteq Unfinished(kind)
    PROVE  SlotsKnown(t)'
<1> USE DEF TypeOK, GoTo, TickIdle
<1>0. tloc[t] \in Locals /\ tloc[t].active \in Nat  BY DEF Locals
<1>1. CASE TickCount(t)
  <2>1. PICK kind : kind = tloc[t].kind  OBVIOUS
  <2>2. tloc'[t].kind = kind /\ tloc'[t].active = Cardinality(Unfinished(kind)) /\ tpc'[t] = "dispatch"
    BY <1>0, <1>1, <2>1, ZenonT(40) DEF TickCount, Locals, ActiveChildren, Unfinished
  <2>3. Cardinality(Unfinished(kind)') <= Cardinality(Unfinished(kind))  BY FewerUnfinished
  <2> QED  BY <2>2, <2>3 DEF SlotsKnown
<1>2. CASE TickSend(t)
  <2>1. PICK kind : kind = tloc[t].kind  OBVIOUS
  <2>2. /\ tpc[t] = "send" /\ tpc'[t] = "dispatch"
        /\ tloc'[t].kind = kind /\ tloc'[t].active = tloc[t].active + 1
    BY <1>0, <1>2, <2>1 DEF TickSend, Locals
  <2>3. Cardinality(Unfinished(kind)') <= Cardinality(Unfinished(kind))  BY FewerUnfinished
  <2>4. Cardinality(Unfinished(kind)) <= tloc[t].active + 1
    BY <2>1, <2>2 DEF SlotsInv, SlotsKnown
  <2>5. /\ Cardinality(Unfinished(kind)) \in Nat /\ Cardinality(Unfinished(kind)') \in Nat
    <3>1. Unfinished(kind)' \subseteq Unfinished(kind)  OBVIOUS
    <3> QED  BY <3>1, UnfinishedFinite, FS_Subset, FS_CardinalityType
  <2> QED  BY <1>0, <2>2, <2>3, <2>4, <2>5 DEF SlotsKnown
<1>3. CASE ~TickCount(t) /\ ~TickSend(t)
  <2>1. tpc'[t] \notin {"dispatch", "send"}
    BY <1>3 DEF AnyTickStep, TickStep, TickAcquire, TickLockBusy, TickRequeue, TickLoad,
       TickStopped, TickReap, TickMark, TickReconcile, AfterReconcile, TickTouch, TickReenqueue,
       TickComplete, TickUnlock, TickNet, TickError, TickCrash
  <2> QED  BY <2>1 DEF SlotsKnown
<1> QED  BY <1>1, <1>2, <1>3

LEMMA SlotsStep ==
    ASSUME TypeOK, LockHeld, RowsFresh, TaskInv, SlotsInv, NoEarlyReap, [Next]_vars
    PROVE  SlotsInv'
<1>1. CASE \E t \in Ticker : TickDispatch(t)  BY <1>1, SlotsDispatch
<1>2. CASE ~ \E t \in Ticker : TickDispatch(t)
  <2>1. \A kind : Unfinished(kind)' \subseteq Unfinished(kind)  BY <1>2, OthersFreeSlots
  <2>2. ASSUME NEW kind
        PROVE  /\ Cardinality(Unfinished(kind)) \in Nat /\ Cardinality(Unfinished(kind)') \in Nat
               /\ Cardinality(Unfinished(kind)') <= Cardinality(Unfinished(kind))
    <3>1. Unfinished(kind)' \subseteq Unfinished(kind)  BY <2>1
    <3> QED  BY <3>1, UnfinishedFinite, FS_Subset, FS_CardinalityType
  <2>3. SlotsBounded'  BY <2>2, ConstantsAssumption DEF SlotsInv, SlotsBounded
  <2>4. ASSUME NEW u \in Ticker PROVE SlotsKnown(u)'
    <3>1. CASE AnyTickStep(u)  BY <1>2, <2>1, <3>1, SlotsTick
    <3>2. CASE ~AnyTickStep(u)
      <4>1. tpc'[u] = tpc[u] /\ tloc'[u] = tloc[u]
        BY <3>2, OtherTicks, TicksUntouched DEF AnyTickStep
      <4>2. tloc[u].active \in Nat  BY DEF TypeOK, Locals
      <4>3. PICK kind : kind = tloc[u].kind  OBVIOUS
      <4>4. SlotsKnown(u)  BY DEF SlotsInv
      <4> QED  BY <2>2, <4>1, <4>2, <4>3, <4>4 DEF SlotsKnown
    <3> QED  BY <3>1, <3>2
  <2> QED  BY <2>3, <2>4 DEF SlotsInv
<1> QED  BY <1>1, <1>2

SharedInv == IInv /\ LockHeld /\ TaskInv /\ SlotsInv

LEMMA SharedInvariant == ASSUME NoEarlyReap PROVE Spec => []SharedInv
<1>1. Init => LockHeld /\ TaskInv /\ SlotsInv
  <2> SUFFICES ASSUME Init PROVE LockHeld /\ TaskInv /\ SlotsInv  OBVIOUS
  <2>1. LockHeld  BY DEF Init, LockHeld, TickBody
  <2>2. TaskInv
    BY DEF Init, TaskInv, RowsWhole, WorkersKnown, OneTask, Unclaimed, TodoLost, NoRow, ChildId
  <2>3. \A kind : Unfinished(kind) = {}  BY DEF Init, Unfinished, NoRow
  <2>4. \A kind : Cardinality(Unfinished(kind)) = 0  BY <2>3, UnfinishedFinite, FS_EmptySet
  <2>5. SlotsInv
    BY <2>4, ConstantsAssumption DEF Init, SlotsInv, SlotsBounded, SlotsKnown
  <2> QED  BY <2>1, <2>2, <2>5
<1>2. SharedInv /\ [Next]_vars => LockHeld' /\ TaskInv' /\ SlotsInv'
  BY LockStep, TaskStep, SlotsStep DEF SharedInv, IInv
<1>3. SharedInv <=> IInv /\ LockHeld /\ TaskInv /\ SlotsInv  BY DEF SharedInv
<1> QED  BY <1>1, <1>2, <1>3, Invariant, PTL DEF Spec

\* MAX_PARALLEL_DISCOVERY and MAX_PARALLEL_SCRAPE are hard caps on the children that occupy a
\* slot, through crashes of ticks and workers, cancels, pulses, revivals, lost messages, refused
\* writes and exceptions, as long as no child is written off or sent again while it is worked on.
THEOREM SlotsStayBounded ==
    ASSUME NoEarlyReap
    PROVE  Spec => []SlotsBounded
<1>1. SharedInv => SlotsBounded  BY DEF SharedInv, SlotsInv
<1> QED  BY <1>1, SharedInvariant, PTL

-----------------------------------------------------------------------------
(***************************************************************************)
(* The barrier between the phases.  A tick decides on the phase it loaded, *)
(* and what is committed may be overwritten with an older copy.  That no   *)
(* discovery child is unfinished beside a scrape child is inductive with   *)
(* what every copy may say: once a copy is past discovery no discovery     *)
(* child is unfinished, the committed one is past it while the run lasts,  *)
(* and no tick in its body still believes in discovery.                    *)
(***************************************************************************)
Later(d) == d.phase \in {"scrape", "complete"}

AnyLater ==
    \/ Later(meta) \/ Later(apiSeen)
    \/ \E t \in Ticker : Later(tmeta[t])
    \/ \E w \in Worker : Later(wseen[w])
    \/ \E c \in ChildId : child[c].kind = "scrape"

Deciding == {"reap", "mark", "reconcile", "count", "dispatch", "send"}

TickBelieves(t) ==
    /\ tpc[t] \in Deciding /\ tmeta[t].phase = "discovery" => ~AnyLater
    /\ tpc[t] \in {"count", "dispatch", "send"} /\ tloc[t].kind = "discovery"
           => tmeta[t].phase = "discovery"

PulseBelieves(w) ==
    status = "running" /\ wpc[w] = "pulse" /\ child[wchild[w]].kind = "scrape" => Later(wseen[w])

BarrierInv ==
    /\ AnyLater => Unfinished("discovery") = {}
    /\ status = "running" /\ AnyLater => Later(meta)
    /\ \A t \in Ticker : TickBelieves(t)
    /\ \A w \in Worker : PulseBelieves(w)
    /\ status = "absent" => ~AnyLater /\ \A c \in ChildId : child[c].kind = "none"

\* The turn of a tick that ends the discovery phase.
EndsDiscovery(t) == TickTouch(t) /\ Unfinished("discovery") = {} /\ Later(meta')

LEMMA PhaseAfterLater ==
    ASSUME TypeOK, SlotsInv, NEW t \in Ticker, TickTouch(t), PhaseKnown(t), TickBelieves(t)
    PROVE  /\ PhaseAfter(t) \in {"scrape", "complete"} =>
                  Later(tmeta[t]) \/ Unfinished("discovery") = {}
           /\ Later(tmeta[t]) => PhaseAfter(t) \in {"scrape", "complete"}
<1> USE DEF TypeOK, Later
<1>0. tloc[t] \in Locals /\ tmeta[t] \in Metadata /\ tpc[t] = "dispatch"  BY DEF TickTouch
<1>1. tloc[t].kind \in {"discovery", "scrape"} /\ tloc[t].active \in Nat  BY <1>0 DEF Locals
<1>2. CASE tloc[t].kind = "scrape"
  <2>1. tmeta[t].phase = "scrape"  BY <1>2 DEF PhaseKnown
  <2>2. PhaseAfter(t) \in {"scrape", "complete"}  BY <1>2, <2>1 DEF PhaseAfter
  <2> QED  BY <2>1, <2>2
<1>3. CASE tloc[t].kind = "discovery"
  <2>1. tmeta[t].phase = "discovery"  BY <1>0, <1>3 DEF TickBelieves
  <2>2. PhaseAfter(t) \in {"scrape", "complete"} => tloc[t].active = 0  BY <2>1 DEF PhaseAfter
  <2>3. tloc[t].active = 0 => Unfinished("discovery") = {}
    <3>1. Cardinality(Unfinished("discovery")) <= tloc[t].active
      BY <1>0, <1>3 DEF SlotsInv, SlotsKnown
    <3> QED  BY <3>1, UnfinishedFinite, FS_EmptySet
  <2> QED  BY <2>1, <2>2, <2>3
<1> QED  BY <1>1, <1>2, <1>3

\* The copies and rows past discovery come from others past it, and from the turn that ends it.
LEMMA LaterTick ==
    ASSUME IInv, SlotsInv, BarrierInv, NEW t \in Ticker, AnyTickStep(t), AnyLater', ~AnyLater
    PROVE  EndsDiscovery(t)
<1> USE DEF TypeOK, GoTo
<1>0. /\ TypeOK /\ PhaseKnown(t) /\ TickBelieves(t) /\ RowsFresh
      /\ tmeta[t] \in Metadata /\ tloc[t] \in Locals
      /\ UNCHANGED <<wseen, apiSeen>>
  BY TickFrame DEF IInv, TickPhases, BarrierInv
<1>1. Later(tmeta'[t]) => Later(tmeta[t]) \/ Later(meta)
  <2>1. CASE TickLoad(t)  BY <1>0, <2>1 DEF TickLoad, Later, Metadata
  <2>2. CASE TickReconcile(t) \/ TickDispatch(t) \/ TickSend(t)
    <3>1. tmeta'[t].phase = tmeta[t].phase
      BY <1>0, <2>2 DEF TickReconcile, AfterReconcile, TickDispatch, TickSend, Metadata
    <3> QED  BY <3>1 DEF Later
  <2>3. CASE TickIdle(t)  BY <1>0, <2>3 DEF TickIdle, InitialMetadata, Later
  <2>4. CASE ~(TickLoad(t) \/ TickReconcile(t) \/ TickDispatch(t) \/ TickSend(t) \/ TickIdle(t))
    <3>1. tmeta' = tmeta
      BY <2>4 DEF AnyTickStep, TickStep, TickAcquire, TickLockBusy, TickRequeue, TickStopped,
         TickReap, TickMark, TickCount, TickTouch, TickReenqueue, TickComplete, TickUnlock,
         TickNet, TickError, TickCrash
    <3> QED  BY <3>1
  <2> QED  BY <2>1, <2>2, <2>3, <2>4
<1>2. \A u \in Ticker : u # t => tmeta'[u] = tmeta[u]  BY <1>0, OtherTicks DEF AnyTickStep
<1>3. \A u \in Ticker : ~Later(tmeta'[u])  BY <1>1, <1>2 DEF AnyLater
<1>4. \A c \in ChildId : child'[c].kind # "scrape"
  <2>1. CASE TickDispatch(t)
    <3>1. PICK m \in NextCode(t) : ChildInserted(t, m) \/ ChildRefused(t, m)
      BY <2>1 DEF TickDispatch
    <3>2. tloc[t].kind # "scrape"
      BY <1>0 DEF PhaseKnown, AnyLater, Later
    <3>3. CASE ChildRefused(t, m)  BY <3>3 DEF ChildRefused, AnyLater
    <3>4. CASE ChildInserted(t, m)  BY <1>0, <3>2, <3>4 DEF ChildInserted, AnyLater
    <3> QED  BY <3>1, <3>3, <3>4
  <2>2. CASE TickMark(t)
    <3>1. PICK c \in tloc[t].todo : SetChild(c, "failed")
      BY <2>2 DEF TickMark
    <3> QED  BY <1>0, <3>1, StatusKeepsRows DEF AnyLater
  <2>3. CASE ~TickDispatch(t) /\ ~TickMark(t)
    <3>1. child' = child  BY <2>3, TickFrame
    <3> QED  BY <3>1 DEF AnyLater
  <2> QED  BY <2>1, <2>2, <2>3
<1>5. Later(meta')  BY <1>0, <1>3, <1>4 DEF AnyLater
<1>6. CASE TickTouch(t)
  <2>1. meta' = [tmeta[t] EXCEPT !.phase = PhaseAfter(t)]
    BY <1>5, <1>6 DEF TickTouch, AnyLater
  <2>2. PhaseAfter(t) \in {"scrape", "complete"}  BY <1>0, <1>5, <2>1 DEF Later, Metadata
  <2>3. Unfinished("discovery") = {}
    BY <1>0, <1>6, <2>2, PhaseAfterLater DEF AnyLater
  <2> QED  BY <1>5, <1>6, <2>3 DEF EndsDiscovery
<1>7. CASE TickComplete(t)
  <2>1. Later(tmeta[t])  BY <1>0, <1>7 DEF TickComplete, PhaseKnown, Later
  <2> QED  BY <2>1 DEF AnyLater
<1>8. CASE ~TickTouch(t) /\ ~TickComplete(t)
  <2>1. meta' = meta
    BY <1>8 DEF jobVars, AnyTickStep, TickStep, TickAcquire, TickLockBusy, TickRequeue, TickLoad,
       TickStopped, TickReap, TickMark, TickReconcile, TickCount, TickDispatch, TickSend,
       TickReenqueue, TickUnlock, TickNet, TickError, TickCrash
  <2> QED  BY <1>5, <2>1 DEF AnyLater
<1> QED  BY <1>6, <1>7, <1>8

LEMMA LaterArises ==
    ASSUME IInv, SlotsInv, BarrierInv, [Next]_vars, AnyLater', ~AnyLater
    PROVE  \E t \in Ticker : EndsDiscovery(t)
<1>1. CASE \E t \in Ticker : AnyTickStep(t)  BY <1>1, LaterTick
<1>2. CASE ~ \E t \in Ticker : AnyTickStep(t)
  <2>0. TypeOK  BY DEF IInv
  <2>1. tmeta' = tmeta  BY <1>2, TicksUntouched DEF AnyTickStep
  <2>2. SameRows
    BY <1>2, <2>0, OthersKeepRows DEF AnyTickStep, TickStep
  <2>3. ~Later(InitialMetadata)  BY DEF Later, InitialMetadata
  <2>4. ~Later(meta) /\ ~Later(apiSeen) /\ \A w \in Worker : ~Later(wseen[w])  BY DEF AnyLater
  <2>5. ASSUME NEW w \in Worker, WorkerStep(w) \/ WorkerAbort(w) \/ WorkerCrash(w)
        PROVE  ~Later(meta') /\ ~Later(apiSeen') /\ \A v \in Worker : ~Later(wseen'[v])
    <3> USE <2>0, <2>3, <2>4 DEF TypeOK, jobVars, workerVars, adminVars, WorkerIdle
    <3>1. CASE WorkerPulseRead(w)  BY <3>1 DEF WorkerPulseRead
    <3>2. CASE WorkerPulseWrite(w)  BY <3>2 DEF WorkerPulseWrite
    <3>3. CASE WorkerNoMarketplace(w) \/ WorkerFinish(w) \/ WorkerAbort(w) \/ WorkerCrash(w)
      BY <3>3 DEF WorkerNoMarketplace, WorkerFinish, WorkerAbort, WorkerCrash
    <3>4. CASE (\E c \in ChildId : WorkerTake(w, c)) \/ WorkerMark(w) \/ WorkerCheck(w)
      BY <3>4 DEF WorkerTake, WorkerMark, WorkerCheck
    <3> QED  BY <2>5, <3>1, <3>2, <3>3, <3>4 DEF WorkerStep
  <2>6. ASSUME AdminStep \/ BeatStep \/ UNCHANGED vars
        PROVE  ~Later(meta') /\ ~Later(apiSeen') /\ \A v \in Worker : ~Later(wseen'[v])
    BY <2>3, <2>4, <2>6 DEF AdminStep, BeatStep, vars, jobVars, workerVars, adminVars,
       TriggerInsert, TriggerEnqueue, TriggerLost, CancelRead, CancelWrite, Revive, ReaperSelect,
       ReaperWrite
  <2>7. ~Later(meta') /\ ~Later(apiSeen') /\ \A v \in Worker : ~Later(wseen'[v])
    BY <1>2, <2>5, <2>6 DEF Next, AnyTickStep
  <2> QED  BY <2>1, <2>2, <2>4, <2>7 DEF AnyLater, SameRows
<1> QED  BY <1>1, <1>2

\* No discovery child is unfinished.
LEMMA BarrierRows ==
    ASSUME SharedInv, BarrierInv, NoEarlyReap, [Next]_vars, AnyLater'
    PROVE  Unfinished("discovery")' = {}
<1>0. TypeOK /\ RowsFresh /\ TaskInv /\ SlotsInv /\ IInv /\ TickPhases  BY DEF SharedInv, IInv
<1>1. Unfinished("discovery") = {}
  BY <1>0, LaterArises DEF BarrierInv, EndsDiscovery
<1>2. CASE ~ \E t \in Ticker : TickDispatch(t)
  <2>1. Unfinished("discovery")' \subseteq Unfinished("discovery")
    BY <1>0, <1>2, OthersFreeSlots
  <2> QED  BY <1>1, <2>1
<1>3. ASSUME NEW t \in Ticker, TickDispatch(t) PROVE Unfinished("discovery")' = {}
  <2>1. AnyLater
    <3>1. AnyTickStep(t) /\ ~EndsDiscovery(t)
      BY <1>3 DEF AnyTickStep, TickStep, EndsDiscovery, TickTouch, TickDispatch
    <3> QED  BY <1>0, <3>1, LaterTick
  <2>2. tloc[t].kind # "discovery"
    BY <1>3, <2>1 DEF TickDispatch, BarrierInv, TickBelieves, Deciding
  <2>3. Unfinished("discovery")' = Unfinished("discovery")
    BY <1>0, <1>3, <2>2, DispatchOccupies
  <2> QED  BY <1>1, <2>3
<1> QED  BY <1>2, <1>3

\* The parent is only triggered once.
LEMMA RunningWas ==
    ASSUME TypeOK, [Next]_vars, status' = "running"
    PROVE  status = "running" \/ TriggerInsert
<1>1. CASE \E t \in Ticker : TickComplete(t)
  BY <1>1, VerdictsTerminal DEF TickComplete
<1>2. CASE ~ \E t \in Ticker : TickComplete(t)
  BY <1>2, StatusSteps DEF CancelWrite
<1> QED  BY <1>1, <1>2

LEMMA AbsentWas ==
    ASSUME TypeOK, [Next]_vars, status' = "absent"
    PROVE  status = "absent" /\ UNCHANGED status
<1>1. CASE \E t \in Ticker : TickComplete(t)
  BY <1>1, VerdictsTerminal DEF TickComplete
<1>2. CASE ~ \E t \in Ticker : TickComplete(t)
  BY <1>2, StatusSteps DEF CancelWrite, TriggerInsert
<1> QED  BY <1>1, <1>2

\* A claimed row is a row of a phase.
LEMMA ClaimedRow ==
    ASSUME TypeOK, TaskInv, NEW w \in Worker, wpc[w] # "idle"
    PROVE  /\ wchild[w] \in ChildId
           /\ child[wchild[w]].kind \in {"discovery", "scrape"}
           /\ wchild[w] \in Unfinished(child[wchild[w]].kind)
<1>1. wchild[w] \in ChildId /\ child[wchild[w]].st \in ActiveStatus
  BY DEF TypeOK, TaskInv, WorkersKnown
<1>2. child[wchild[w]].kind # "none"  BY <1>1 DEF TaskInv, RowsWhole
<1> QED  BY <1>1, <1>2 DEF TypeOK, Row, Unfinished

\* What is committed while the run lasts.
LEMMA BarrierCommitted ==
    ASSUME SharedInv, BarrierInv, NoEarlyReap, [Next]_vars, AnyLater', status' = "running"
    PROVE  Later(meta')
<1>0. /\ TypeOK /\ RowsFresh /\ TaskInv /\ SlotsInv /\ IInv
      /\ \A t \in Ticker : PhaseKnown(t) /\ TickBelieves(t)
  BY DEF SharedInv, IInv, TickPhases, BarrierInv
<1>1. CASE ~AnyLater  BY <1>0, <1>1, LaterArises DEF EndsDiscovery
<1>2. CASE AnyLater
  <2>1. status = "running"  BY <1>0, <1>2, RunningWas DEF TriggerInsert, BarrierInv
  <2>2. Later(meta)  BY <1>2, <2>1 DEF BarrierInv
  <2>3. ASSUME NEW t \in Ticker, AnyTickStep(t) PROVE Later(meta')
    <3>0. tmeta[t] \in Metadata  BY <1>0 DEF TypeOK
    <3>1. CASE TickTouch(t)
      <4>1. tmeta[t].phase \notin {"none", "discovery"}
        BY <1>0, <1>2, <3>1 DEF TickTouch, PhaseKnown, TickBelieves, Deciding
      <4>2. Later(tmeta[t])  BY <3>0, <4>1 DEF Later, Metadata
      <4>3. PhaseAfter(t) \in {"scrape", "complete"}  BY <1>0, <3>1, <4>2, PhaseAfterLater
      <4> QED  BY <2>2, <3>0, <3>1, <4>3 DEF TickTouch, Later, Metadata
    <3>2. CASE TickComplete(t)
      BY <1>0, <2>2, <3>2 DEF TickComplete, PhaseKnown, Later
    <3>3. CASE ~TickTouch(t) /\ ~TickComplete(t)
      <4>1. meta' = meta
        BY <2>3, <3>3 DEF jobVars, AnyTickStep, TickStep, TickAcquire, TickLockBusy, TickRequeue,
           TickLoad, TickStopped, TickReap, TickMark, TickReconcile, TickCount, TickDispatch,
           TickSend, TickReenqueue, TickUnlock, TickNet, TickError, TickCrash
      <4> QED  BY <2>2, <4>1
    <3> QED  BY <3>1, <3>2, <3>3
  <2>4. ASSUME NEW w \in Worker, WorkerStep(w) \/ WorkerAbort(w) \/ WorkerCrash(w)
        PROVE  Later(meta')
    <3>1. CASE WorkerPulseWrite(w) /\ meta' # meta
      <4>1. wpc[w] = "pulse" /\ meta' = wseen[w]  BY <3>1 DEF WorkerPulseWrite
      <4>2. child[wchild[w]].kind # "discovery"
        BY <1>0, <1>2, <4>1, ClaimedRow DEF BarrierInv
      <4>3. child[wchild[w]].kind = "scrape"  BY <1>0, <4>1, <4>2, ClaimedRow
      <4> QED  BY <2>1, <4>1, <4>3 DEF BarrierInv, PulseBelieves
    <3>2. CASE ~WorkerPulseWrite(w) \/ meta' = meta
      <4>1. meta' = meta
        BY <2>4, <3>2 DEF jobVars, WorkerStep, WorkerTake, WorkerMark, WorkerNoMarketplace,
           WorkerPulseRead, WorkerCheck, WorkerFinish, WorkerAbort, WorkerCrash
      <4> QED  BY <2>2, <4>1
    <3> QED  BY <3>1, <3>2
  <2>5. CASE AdminStep \/ BeatStep \/ UNCHANGED vars
    <3>1. CancelWrite => meta' = meta  BY DEF CancelWrite
    <3>2. meta' = meta
      BY <2>5, <3>1 DEF vars, jobVars, AdminStep, BeatStep, TriggerInsert, TriggerEnqueue,
         TriggerLost, CancelRead, Revive, ReaperSelect, ReaperWrite
    <3> QED  BY <2>2, <3>2
  <2> QED  BY <2>3, <2>4, <2>5 DEF Next, AnyTickStep
<1> QED  BY <1>1, <1>2

\* What a tick in its body believes.
LEMMA BarrierOwnTick ==
    ASSUME SharedInv, BarrierInv, NEW t \in Ticker, AnyTickStep(t)
    PROVE  TickBelieves(t)'
<1> USE DEF TypeOK, GoTo
<1>0. /\ TypeOK /\ SlotsInv /\ IInv /\ PhaseKnown(t) /\ TickBelieves(t)
      /\ tmeta[t] \in Metadata /\ tloc[t] \in Locals
  BY DEF SharedInv, IInv, TickPhases, BarrierInv
<1>1. CASE TickLoad(t)
  <2>1. status = "running" /\ tpc'[t] = "reap"  BY <1>0, <1>1 DEF TickLoad
  <2>2. tmeta'[t].phase = "discovery" => ~Later(meta)
    BY <1>0, <1>1 DEF TickLoad, Later, Metadata
  <2>3. ~EndsDiscovery(t)  BY <1>1 DEF EndsDiscovery, TickLoad, TickTouch
  <2>4. tmeta'[t].phase = "discovery" => ~AnyLater'
    BY <1>0, <2>1, <2>2, <2>3, LaterTick DEF BarrierInv
  <2> QED  BY <2>1, <2>4 DEF TickBelieves
<1>2. CASE TickReap(t) \/ TickMark(t) \/ TickReconcile(t) \/ TickCount(t) \/ TickDispatch(t)
           \/ TickSend(t)
  <2>1. tpc[t] \in Deciding
    BY <1>2 DEF Deciding, TickReap, TickMark, TickReconcile, TickCount, TickDispatch, TickSend
  <2>2. ~EndsDiscovery(t)
    <3>1. CASE ~TickDispatch(t)
      BY <1>2, <3>1 DEF EndsDiscovery, TickTouch, TickReap, TickMark, TickReconcile, TickCount,
         TickSend
    <3>2. CASE TickDispatch(t)  BY <3>2 DEF EndsDiscovery, TickTouch, TickDispatch
    <3> QED  BY <3>1, <3>2
  <2>3. tmeta'[t].phase = tmeta[t].phase
    BY <1>0, <1>2 DEF TickReap, TickMark, TickReconcile, AfterReconcile, TickCount, TickDispatch,
       TickSend, Metadata
  <2>4. tmeta'[t].phase = "discovery" => ~AnyLater'
    BY <1>0, <2>1, <2>2, <2>3, LaterTick DEF TickBelieves
  <2>5. tpc'[t] \in {"count", "dispatch", "send"} /\ tloc'[t].kind = "discovery"
           => tmeta'[t].phase = "discovery"
    <3>1. CASE TickReap(t) \/ TickMark(t)
      BY <1>0, <3>1 DEF TickReap, TickMark
    <3>2. CASE TickReconcile(t)
      BY <1>0, <3>2 DEF TickReconcile, AfterReconcile, Locals
    <3>3. CASE TickCount(t) \/ TickSend(t)
      <4>1. tloc'[t].kind = tloc[t].kind /\ tpc[t] \in {"count", "send"}
        BY <1>0, <3>3 DEF TickCount, TickSend, Locals
      <4> QED  BY <1>0, <2>3, <4>1 DEF TickBelieves
    <3>4. CASE TickDispatch(t)
      <4>1. PICK m \in NextCode(t) : ChildInserted(t, m) \/ ChildRefused(t, m)
        BY <3>4 DEF TickDispatch
      <4>2. tloc'[t].kind = tloc[t].kind /\ tpc[t] = "dispatch"
        BY <1>0, <3>4, <4>1 DEF TickDispatch, ChildInserted, ChildRefused, Locals
      <4> QED  BY <1>0, <2>3, <4>2 DEF TickBelieves
    <3> QED  BY <1>2, <3>1, <3>2, <3>3, <3>4
  <2> QED  BY <2>4, <2>5 DEF TickBelieves
<1>3. CASE TickAcquire(t) \/ TickLockBusy(t) \/ TickRequeue(t) \/ TickStopped(t) \/ TickTouch(t)
           \/ TickReenqueue(t) \/ TickComplete(t) \/ TickUnlock(t) \/ TickNet(t) \/ TickError(t)
           \/ TickCrash(t)
  <2>1. tpc'[t] \in {"load", "requeue", "idle", "unlock", "reenqueue", "net"}
    BY <1>0, <1>3 DEF TickIdle, TickAcquire, TickLockBusy, TickRequeue, TickStopped, TickTouch,
       TickReenqueue, TickComplete, TickUnlock, TickNet, TickError, TickCrash
  <2> QED  BY <2>1 DEF TickBelieves, Deciding
<1> QED  BY <1>1, <1>2, <1>3 DEF AnyTickStep, TickStep

LEMMA BarrierTicks ==
    ASSUME SharedInv, BarrierInv, [Next]_vars, NEW u \in Ticker
    PROVE  TickBelieves(u)'
<1>0. TypeOK /\ SlotsInv /\ IInv /\ LockHeld /\ TickBelieves(u)
  BY DEF SharedInv, IInv, BarrierInv
<1>1. CASE AnyTickStep(u)  BY <1>1, BarrierOwnTick
<1>2. CASE ~AnyTickStep(u)
  <2>1. tpc'[u] = tpc[u] /\ tloc'[u] = tloc[u] /\ tmeta'[u] = tmeta[u]
    BY <1>0, <1>2, OtherTicks, TicksUntouched DEF AnyTickStep
  <2>2. tpc[u] \in Deciding /\ ~AnyLater => ~AnyLater'
    <3> SUFFICES ASSUME tpc[u] \in Deciding, ~AnyLater, AnyLater' PROVE FALSE
      OBVIOUS
    <3>1. PICK t \in Ticker : EndsDiscovery(t)  BY <1>0, LaterArises
    <3>2. tpc[t] = "dispatch" /\ t # u
      BY <1>2, <3>1 DEF EndsDiscovery, TickTouch, AnyTickStep, TickStep
    <3>3. tpc[t] \in TickBody /\ tpc[u] \in TickBody  BY <3>2 DEF TickBody, Deciding
    <3> QED  BY <1>0, <3>2, <3>3, OneInBody
  <2> QED  BY <1>0, <2>1, <2>2 DEF TickBelieves
<1> QED  BY <1>1, <1>2

LEMMA BarrierPulses ==
    ASSUME SharedInv, BarrierInv, NoEarlyReap, [Next]_vars, NEW v \in Worker
    PROVE  PulseBelieves(v)'
<1> SUFFICES ASSUME status' = "running", wpc'[v] = "pulse", child'[wchild'[v]].kind = "scrape"
             PROVE  Later(wseen'[v])
  BY DEF PulseBelieves
<1>0. TypeOK /\ RowsFresh /\ TaskInv /\ SlotsInv /\ IInv /\ PulseBelieves(v)
  BY DEF SharedInv, IInv, BarrierInv
<1>1. CASE WorkerPulseRead(v)
  <2>1. UNCHANGED <<status, child, wchild>> /\ wpc[v] = "run" /\ wseen'[v] = meta
    BY <1>0, <1>1 DEF WorkerPulseRead, jobVars, TypeOK
  <2>2. wchild[v] \in ChildId  BY <1>0, <2>1, ClaimedRow
  <2>3. AnyLater  BY <2>1, <2>2 DEF AnyLater
  <2> QED  BY <2>1, <2>3 DEF BarrierInv
<1>2. CASE ~WorkerPulseRead(v)
  <2>1. wpc[v] = "pulse" /\ wseen'[v] = wseen[v] /\ wchild'[v] = wchild[v]
    <3>1. ASSUME NEW w \in Worker, w # v, WorkerStep(w) \/ WorkerAbort(w) \/ WorkerCrash(w)
          PROVE  wpc'[v] = wpc[v] /\ wseen'[v] = wseen[v] /\ wchild'[v] = wchild[v]
      BY <1>0, <3>1 DEF TypeOK, workerVars, WorkerIdle, WorkerStep, WorkerTake, WorkerMark,
         WorkerNoMarketplace, WorkerPulseRead, WorkerPulseWrite, WorkerCheck, WorkerFinish,
         WorkerAbort, WorkerCrash
    <3>2. ASSUME WorkerStep(v) \/ WorkerAbort(v) \/ WorkerCrash(v)
          PROVE  wpc'[v] = wpc[v] /\ wseen'[v] = wseen[v] /\ wchild'[v] = wchild[v]
      BY <1>0, <1>2, <3>2 DEF TypeOK, workerVars, WorkerIdle, WorkerStep, WorkerTake, WorkerMark,
         WorkerNoMarketplace, WorkerPulseWrite, WorkerCheck, WorkerFinish, WorkerAbort, WorkerCrash
    <3>3. ASSUME NEW t \in Ticker, AnyTickStep(t)
          PROVE  wpc'[v] = wpc[v] /\ wseen'[v] = wseen[v] /\ wchild'[v] = wchild[v]
      BY <3>3, TickFrame
    <3>4. CASE AdminStep \/ BeatStep \/ UNCHANGED vars
      BY <3>4 DEF vars, workerVars, AdminStep, BeatStep, TriggerInsert, TriggerEnqueue,
         TriggerLost, CancelRead, CancelWrite, Revive, ReaperSelect, ReaperWrite
    <3> QED  BY <3>1, <3>2, <3>3, <3>4 DEF Next, AnyTickStep
  <2>2. wchild[v] \in ChildId /\ child[wchild[v]].kind # "none"  BY <1>0, <2>1, ClaimedRow
  <2>3. child'[wchild[v]].kind = child[wchild[v]].kind
    <3>1. CASE ~ \E t \in Ticker : TickDispatch(t)
      BY <1>0, <2>2, <3>1, OthersKeepRows DEF SameRows
    <3>2. ASSUME NEW t \in Ticker, TickDispatch(t)
          PROVE  child'[wchild[v]].kind = child[wchild[v]].kind
      <4>1. PICK m \in NextCode(t) : ChildInserted(t, m) \/ ChildRefused(t, m)
        BY <3>2 DEF TickDispatch
      <4>2. inserted + 1 \in ChildId /\ child[inserted + 1].kind = "none"
        BY <1>0, <3>2, ConstantsAssumption
        DEF TickDispatch, MayDispatch, ChildId, RowsFresh, TypeOK
      <4> QED  BY <1>0, <2>2, <4>1, <4>2 DEF ChildInserted, ChildRefused, TypeOK
    <3> QED  BY <3>1, <3>2
  <2>4. status = "running"
    <3>1. status # "absent"  BY <2>2 DEF BarrierInv
    <3> QED  BY <1>0, <3>1, RunningWas DEF TriggerInsert
  <2> QED  BY <1>0, <2>1, <2>3, <2>4 DEF PulseBelieves
<1> QED  BY <1>1, <1>2

LEMMA BarrierAbsent ==
    ASSUME SharedInv, BarrierInv, [Next]_vars, status' = "absent"
    PROVE  ~AnyLater' /\ \A c \in ChildId : child'[c].kind = "none"
<1>0. TypeOK /\ IInv /\ SlotsInv /\ NothingYet  BY DEF SharedInv, IInv
<1>1. status = "absent"  BY <1>0, AbsentWas
<1>2. ~AnyLater /\ \A c \in ChildId : child[c].kind = "none"  BY <1>1 DEF BarrierInv
<1>3. ~ \E t \in Ticker : AnyTickStep(t)  BY <1>0, <1>1, TicksWait DEF AnyTickStep
<1>4. ~AnyLater'
  BY <1>0, <1>2, <1>3, LaterArises DEF EndsDiscovery, AnyTickStep, TickStep
<1>5. SameRows  BY <1>0, <1>3, OthersKeepRows DEF AnyTickStep, TickStep
<1> QED  BY <1>2, <1>4, <1>5 DEF SameRows

LEMMA BarrierStep ==
    ASSUME SharedInv, BarrierInv, NoEarlyReap, [Next]_vars
    PROVE  BarrierInv'
<1>1. AnyLater' => Unfinished("discovery")' = {}  BY BarrierRows
<1>2. status' = "running" /\ AnyLater' => Later(meta')  BY BarrierCommitted
<1>3. \A t \in Ticker : TickBelieves(t)'  BY BarrierTicks
<1>4. \A w \in Worker : PulseBelieves(w)'  BY BarrierPulses
<1>5. status' = "absent" => ~AnyLater' /\ \A c \in ChildId : child'[c].kind = "none"
  BY BarrierAbsent
<1> QED  BY <1>1, <1>2, <1>3, <1>4, <1>5 DEF BarrierInv, Later

LEMMA BarrierInvariant == ASSUME NoEarlyReap PROVE Spec => []BarrierInv
<1>1. Init => BarrierInv
  <2> SUFFICES ASSUME Init PROVE BarrierInv  OBVIOUS
  <2>1. ~Later(InitialMetadata)  BY DEF Later, InitialMetadata
  <2>2. \A c \in ChildId : child[c].kind = "none"  BY DEF Init, NoRow
  <2>3. ~AnyLater  BY <2>1, <2>2 DEF Init, AnyLater
  <2> QED  BY <2>2, <2>3 DEF Init, BarrierInv, TickBelieves, PulseBelieves, Deciding
<1>2. SharedInv /\ BarrierInv /\ [Next]_vars => BarrierInv'  BY BarrierStep
<1> QED  BY <1>1, <1>2, SharedInvariant, PTL DEF Spec

\* No scrape child exists before the last discovery child ended: neither the older copies of
\* the metadata that crashed ticks, pulses and cancels write back nor a tick that believes in
\* the phase it loaded breaks the barrier, where no child is written off or sent again while it
\* is worked on.
THEOREM BarrierHolds ==
    ASSUME NoEarlyReap
    PROVE  Spec => []PhaseBarrier
<1>1. BarrierInv => PhaseBarrier  BY DEF BarrierInv, PhaseBarrier, AnyLater
<1> QED  BY <1>1, BarrierInvariant, PTL
=============================================================================
