------------------------- MODULE TickVerdictProofs -------------------------
(***************************************************************************)
(* Theorems about what a run of TickOrchestrator leaves behind: no listing *)
(* unchecked under a verdict, and one discovery child per marketplace.     *)
(***************************************************************************)
EXTENDS TickSlotsProofs

USE DEF Parent, ActiveStatus, Terminal, SetChild

-----------------------------------------------------------------------------
(***************************************************************************)
(* The verdict.  The tick that concludes the run relies on the phase it    *)
(* loaded; the phase was set on remainders counted by an earlier tick, and *)
(* the cohort grows back when a tick that finds no anchor sets one.        *)
(* VerdictAfterDrain is inductive with what the copies say: once one of    *)
(* them is complete the cohort is drained, the committed one is complete   *)
(* while the run lasts, and no tick in its body believes otherwise.        *)
(***************************************************************************)
Done(d) == d.phase = "complete"

Drained == \A m \in Marketplace : cohort[m] = 0

AnyDone ==
    \/ Done(meta) \/ Done(apiSeen)
    \/ \E t \in Ticker : Done(tmeta[t])
    \/ \E w \in Worker : Done(wseen[w])

\* What the tick in its body relies on.
DrainKnown(t) ==
    /\ tpc[t] \in Deciding /\ ~Done(tmeta[t]) => ~AnyDone /\ status \notin {"completed", "partial"}
    /\ tpc[t] \in {"count", "dispatch", "send"} => ~Done(tmeta[t])
    /\ tpc[t] \in {"dispatch", "send"} /\ tloc[t].kind = "scrape" =>
          \A m \in Marketplace : cohort[m] <= tloc[t].rem[m]

DrainInv ==
    /\ AnyDone \/ status \in {"completed", "partial"} => Drained
    /\ status = "running" /\ AnyDone => Done(meta)
    /\ \A t \in Ticker : DrainKnown(t)
    /\ status = "absent" => ~AnyDone

\* Nobody pulses once a copy is complete: shown below for two kinds of runs.
Quiet == AnyDone => \A w \in Worker : wpc[w] # "pulse"

\* The turn of a tick that ends the scrape phase.
EndsScrape(t) ==
    /\ TickTouch(t) /\ Drained /\ Done(meta')
    /\ tpc[t] = "dispatch" /\ tloc[t].kind = "scrape" /\ tloc[t].active = 0

LEMMA PhaseAfterDone ==
    ASSUME TypeOK, NEW t \in Ticker, TickTouch(t), DrainKnown(t), PhaseAfter(t) = "complete"
    PROVE  Drained /\ tpc[t] = "dispatch" /\ tloc[t].kind = "scrape" /\ tloc[t].active = 0
<1>1. /\ tpc[t] = "dispatch" /\ tloc[t] \in Locals /\ cohort \in [Marketplace -> 0..MaxCohort]
      /\ tmeta[t].phase # "complete"
  BY DEF TickTouch, TypeOK, DrainKnown, Done
<1>2. /\ tloc[t].kind = "scrape" /\ tloc[t].active = 0
      /\ \A m \in Marketplace : tloc[t].rem[m] = 0
  BY <1>1 DEF PhaseAfter
<1>3. ASSUME NEW m \in Marketplace PROVE cohort[m] = 0
  <2>1. cohort[m] <= tloc[t].rem[m]  BY <1>1, <1>2 DEF DrainKnown
  <2>2. tloc[t].rem[m] = 0  BY <1>2
  <2>3. cohort[m] \in Nat  BY <1>1, ConstantsAssumption
  <2> QED  BY <2>1, <2>2, <2>3
<1> QED  BY <1>1, <1>2, <1>3 DEF Drained

\* Who commits metadata.
LEMMA TickCommits ==
    ASSUME NEW t \in Ticker, AnyTickStep(t)
    PROVE  \/ UNCHANGED meta
           \/ TickTouch(t) /\ meta' = [tmeta[t] EXCEPT !.phase = PhaseAfter(t)]
           \/ TickComplete(t) /\ meta' = tmeta[t]
BY DEF jobVars, AnyTickStep, TickStep, TickAcquire, TickLockBusy, TickRequeue, TickLoad,
   TickStopped, TickReap, TickMark, TickReconcile, TickCount, TickDispatch, TickSend, TickTouch,
   TickReenqueue, TickComplete, TickUnlock, TickNet, TickError, TickCrash

\* Where a tick's copy comes from.
LEMMA TickPhaseFrom ==
    ASSUME TypeOK, NEW t \in Ticker, AnyTickStep(t)
    PROVE  \/ tmeta'[t].phase = tmeta[t].phase
           \/ TickLoad(t) /\ tmeta'[t].phase \in {meta.phase, "discovery"}
           \/ tmeta'[t] = InitialMetadata
<1> USE DEF TypeOK, GoTo
<1>1. CASE TickLoad(t)  BY <1>1 DEF TickLoad, Metadata
<1>2. CASE TickReconcile(t) \/ TickDispatch(t) \/ TickSend(t)
  BY <1>2 DEF TickReconcile, AfterReconcile, TickDispatch, TickSend, Metadata
<1>3. CASE TickIdle(t)  BY <1>3 DEF TickIdle
<1>4. CASE ~(TickLoad(t) \/ TickReconcile(t) \/ TickDispatch(t) \/ TickSend(t) \/ TickIdle(t))
  <2>1. tmeta' = tmeta
    BY <1>4 DEF AnyTickStep, TickStep, TickAcquire, TickLockBusy, TickRequeue, TickStopped,
       TickReap, TickMark, TickCount, TickTouch, TickReenqueue, TickComplete, TickUnlock, TickNet,
       TickError, TickCrash
  <2> QED  BY <2>1
<1> QED  BY <1>1, <1>2, <1>3, <1>4

\* A copy becomes complete with the turn that ends the scrape phase.
LEMMA DoneTick ==
    ASSUME IInv, DrainInv, NEW t \in Ticker, AnyTickStep(t), AnyDone', ~AnyDone
    PROVE  EndsScrape(t)
<1>0. /\ TypeOK /\ PhaseKnown(t) /\ DrainKnown(t) /\ tmeta[t] \in Metadata
      /\ UNCHANGED <<wseen, apiSeen>>
  BY TickFrame DEF IInv, TickPhases, DrainInv, TypeOK
<1>1. ~Done(tmeta'[t])  BY <1>0, TickPhaseFrom DEF AnyDone, Done, InitialMetadata
<1>2. \A u \in Ticker : u # t => tmeta'[u] = tmeta[u]  BY <1>0, OtherTicks DEF AnyTickStep
<1>3. Done(meta') /\ meta' # meta  BY <1>0, <1>1, <1>2 DEF AnyDone
<1>4. ~TickComplete(t)  BY <1>0 DEF TickComplete, PhaseKnown, AnyDone, Done
<1>5. TickTouch(t) /\ meta' = [tmeta[t] EXCEPT !.phase = PhaseAfter(t)]
  BY <1>3, <1>4, TickCommits
<1>6. PhaseAfter(t) = "complete"  BY <1>0, <1>3, <1>5 DEF Done, Metadata
<1> QED  BY <1>0, <1>3, <1>5, <1>6, PhaseAfterDone DEF EndsScrape

LEMMA DoneArises ==
    ASSUME IInv, DrainInv, [Next]_vars, AnyDone', ~AnyDone
    PROVE  \E t \in Ticker : EndsScrape(t)
<1>1. CASE \E t \in Ticker : AnyTickStep(t)  BY <1>1, DoneTick
<1>2. CASE ~ \E t \in Ticker : AnyTickStep(t)
  <2>0. TypeOK  BY DEF IInv
  <2>1. tmeta' = tmeta  BY <1>2, TicksUntouched DEF AnyTickStep
  <2>2. ~Done(InitialMetadata)  BY DEF Done, InitialMetadata
  <2>3. ~Done(meta) /\ ~Done(apiSeen) /\ \A w \in Worker : ~Done(wseen[w])  BY DEF AnyDone
  <2>4. ASSUME NEW w \in Worker, WorkerStep(w) \/ WorkerAbort(w) \/ WorkerCrash(w)
        PROVE  ~Done(meta') /\ ~Done(apiSeen') /\ \A v \in Worker : ~Done(wseen'[v])
    <3> USE <2>0, <2>2, <2>3 DEF TypeOK, jobVars, workerVars, adminVars, WorkerIdle
    <3>1. CASE WorkerPulseRead(w)  BY <3>1 DEF WorkerPulseRead
    <3>2. CASE WorkerPulseWrite(w)  BY <3>2 DEF WorkerPulseWrite
    <3>3. CASE WorkerNoMarketplace(w) \/ WorkerFinish(w) \/ WorkerAbort(w) \/ WorkerCrash(w)
      BY <3>3 DEF WorkerNoMarketplace, WorkerFinish, WorkerAbort, WorkerCrash
    <3>4. CASE (\E c \in ChildId : WorkerTake(w, c)) \/ WorkerMark(w) \/ WorkerCheck(w)
      BY <3>4 DEF WorkerTake, WorkerMark, WorkerCheck
    <3> QED  BY <2>4, <3>1, <3>2, <3>3, <3>4 DEF WorkerStep
  <2>5. ASSUME AdminStep \/ BeatStep \/ UNCHANGED vars
        PROVE  ~Done(meta') /\ ~Done(apiSeen') /\ \A v \in Worker : ~Done(wseen'[v])
    BY <2>2, <2>3, <2>5 DEF AdminStep, BeatStep, vars, jobVars, workerVars, adminVars,
       TriggerInsert, TriggerEnqueue, TriggerLost, CancelRead, CancelWrite, Revive, ReaperSelect,
       ReaperWrite
  <2>6. ~Done(meta') /\ ~Done(apiSeen') /\ \A v \in Worker : ~Done(wseen'[v])
    BY <1>2, <2>4, <2>5 DEF Next, AnyTickStep
  <2> QED  BY <2>1, <2>3, <2>6 DEF AnyDone
<1> QED  BY <1>1, <1>2

\* The cohort grows when a tick sets its anchor, and then only.
LEMMA CohortShrinks ==
    ASSUME TypeOK, [Next]_vars, ~ \E t \in Ticker : TickReconcile(t), NEW m \in Marketplace
    PROVE  cohort'[m] \in Nat /\ cohort'[m] <= cohort[m]
<1>0. cohort[m] \in Nat  BY ConstantsAssumption DEF TypeOK
<1>1. CASE UNCHANGED cohort  BY <1>0, <1>1
<1>2. ASSUME NEW w \in Worker, WorkerCheck(w)
      PROVE  cohort'[m] \in Nat /\ cohort'[m] <= cohort[m]
  <2> DEFINE n == child[wchild[w]].mp
  <2>1. cohort[n] > 0 /\ cohort' = [cohort EXCEPT ![n] = @ - 1]  BY <1>2 DEF WorkerCheck
  <2> HIDE DEF n
  <2>2. CASE n = m  BY <1>0, <2>1, <2>2 DEF TypeOK
  <2>3. CASE n # m  BY <1>0, <2>1, <2>3 DEF TypeOK
  <2> QED  BY <2>2, <2>3
<1>3. UNCHANGED cohort \/ \E w \in Worker : WorkerCheck(w)
  BY ZenonT(40) DEF envVars, vars, Next, TickStep, TickAcquire, TickLockBusy, TickRequeue, TickLoad,
     TickStopped, TickReap, TickMark, TickCount, TickDispatch, TickSend, TickTouch, TickReenqueue,
     TickComplete, TickUnlock, TickNet, TickError, TickCrash, WorkerStep, WorkerTake, WorkerMark,
     WorkerNoMarketplace, WorkerPulseRead, WorkerPulseWrite, WorkerFinish, WorkerAbort,
     WorkerCrash, AdminStep, BeatStep, TriggerInsert, TriggerEnqueue, TriggerLost, CancelRead,
     CancelWrite, Revive, ReaperSelect, ReaperWrite
<1> QED  BY <1>1, <1>2, <1>3

LEMMA DrainedStays ==
    ASSUME TypeOK, [Next]_vars, Drained, ~ \E t \in Ticker : TickReconcile(t)
    PROVE  Drained'
<1> SUFFICES ASSUME NEW m \in Marketplace PROVE cohort'[m] = 0  BY DEF Drained
<1>1. cohort'[m] \in Nat /\ cohort'[m] <= cohort[m] /\ cohort[m] = 0
  BY CohortShrinks DEF Drained
<1> QED  BY <1>1

\* Reconciling, a tick moves the anchor only if the run is not done.
LEMMA DrainedReconcile ==
    ASSUME TypeOK, DrainInv, NEW t \in Ticker, TickReconcile(t),
           AnyDone \/ status \in {"completed", "partial"}
    PROVE  UNCHANGED cohort
<1>1. tpc[t] = "reconcile" /\ DrainKnown(t)  BY DEF TickReconcile, DrainInv
<1>2. tmeta[t].phase = "complete"  BY <1>1 DEF DrainKnown, Deciding, Done
<1> QED  BY <1>2 DEF TickReconcile, AfterReconcile

\* A verdict is written by a tick that loaded a complete run.
LEMMA VerdictBy ==
    ASSUME [Next]_vars, status' \in {"completed", "partial"}
    PROVE  status \in {"completed", "partial"} \/ \E t \in Ticker : TickComplete(t)
<1> SUFFICES ASSUME ~ \E t \in Ticker : TickComplete(t) PROVE status \in {"completed", "partial"}
  OBVIOUS
<1> QED  BY StatusSteps DEF TriggerInsert, CancelWrite

LEMMA DrainRows ==
    ASSUME IInv, DrainInv, [Next]_vars, AnyDone' \/ status' \in {"completed", "partial"}
    PROVE  Drained'
<1>0. TypeOK  BY DEF IInv
<1>1. CASE AnyDone \/ status \in {"completed", "partial"}
  <2>1. Drained  BY <1>1 DEF DrainInv
  <2>2. CASE ~ \E t \in Ticker : TickReconcile(t)  BY <1>0, <2>1, <2>2, DrainedStays
  <2>3. CASE \E t \in Ticker : TickReconcile(t)
    BY <1>0, <1>1, <2>1, <2>3, DrainedReconcile DEF Drained
  <2> QED  BY <2>2, <2>3
<1>2. CASE ~AnyDone /\ status \notin {"completed", "partial"}
  <2>1. ~ \E t \in Ticker : TickComplete(t)
    BY <1>2 DEF TickComplete, IInv, TickPhases, PhaseKnown, AnyDone, Done
  <2>2. PICK t \in Ticker : EndsScrape(t)  BY <1>2, <2>1, VerdictBy, DoneArises
  <2>3. UNCHANGED cohort  BY <2>2 DEF EndsScrape, TickTouch, envVars
  <2> QED  BY <2>2, <2>3 DEF EndsScrape, Drained
<1> QED  BY <1>1, <1>2

\* What is committed while the run lasts.
LEMMA DoneCommitted ==
    ASSUME IInv, DrainInv, Quiet, [Next]_vars, AnyDone', status' = "running"
    PROVE  Done(meta')
<1>0. TypeOK  BY DEF IInv
<1>1. CASE ~AnyDone  BY <1>1, DoneArises DEF EndsScrape
<1>2. CASE AnyDone
  <2>1. status = "running" /\ Done(meta)
    BY <1>0, <1>2, RunningWas DEF TriggerInsert, DrainInv
  <2>2. ASSUME NEW t \in Ticker, AnyTickStep(t) PROVE Done(meta')
    <3>1. CASE TickTouch(t)
      BY <1>2, <3>1 DEF TickTouch, DrainInv, DrainKnown, Deciding
    <3>2. CASE TickComplete(t)
      BY <2>1, <3>2 DEF TickComplete, IInv, TickPhases, PhaseKnown, Done
    <3>3. CASE ~TickTouch(t) /\ ~TickComplete(t)  BY <2>1, <2>2, <3>3, TickCommits
    <3> QED  BY <3>1, <3>2, <3>3
  <2>3. ASSUME NEW w \in Worker, WorkerStep(w) \/ WorkerAbort(w) \/ WorkerCrash(w)
        PROVE  Done(meta')
    <3>1. ~WorkerPulseWrite(w)  BY <1>2 DEF WorkerPulseWrite, Quiet
    <3>2. meta' = meta
      BY <2>3, <3>1 DEF jobVars, WorkerStep, WorkerTake, WorkerMark, WorkerNoMarketplace,
         WorkerPulseRead, WorkerCheck, WorkerFinish, WorkerAbort, WorkerCrash
    <3> QED  BY <2>1, <3>2
  <2>4. CASE AdminStep \/ BeatStep \/ UNCHANGED vars
    <3>1. CancelWrite => meta' = meta  BY DEF CancelWrite
    <3>2. meta' = meta
      BY <2>4, <3>1 DEF vars, jobVars, AdminStep, BeatStep, TriggerInsert, TriggerEnqueue,
         TriggerLost, CancelRead, Revive, ReaperSelect, ReaperWrite
    <3> QED  BY <2>1, <3>2
  <2> QED  BY <2>2, <2>3, <2>4 DEF Next, AnyTickStep
<1> QED  BY <1>1, <1>2

LEMMA DrainOwnTick ==
    ASSUME IInv, DrainInv, NEW t \in Ticker, AnyTickStep(t)
    PROVE  DrainKnown(t)'
<1> USE DEF TypeOK, GoTo
<1>0. /\ TypeOK /\ PhaseKnown(t) /\ DrainKnown(t) /\ tmeta[t] \in Metadata /\ tloc[t] \in Locals
  BY DEF IInv, TickPhases, DrainInv
<1>1. ASSUME ~TickReconcile(t), NEW m \in Marketplace
      PROVE  cohort'[m] \in Nat /\ cohort'[m] <= cohort[m]
  <2>1. cohort' = cohort
    BY <1>1 DEF AnyTickStep, envVars, TickStep, TickAcquire, TickLockBusy, TickRequeue, TickLoad,
       TickStopped, TickReap, TickMark, TickCount, TickDispatch, TickSend, TickTouch,
       TickReenqueue, TickComplete, TickUnlock, TickNet, TickError, TickCrash
  <2> QED  BY <1>0, <2>1, ConstantsAssumption
<1>2. CASE TickLoad(t)
  <2>1. status = "running" /\ status' = status /\ tpc'[t] = "reap"
    BY <1>0, <1>2 DEF TickLoad, jobVars
  <2>2. ~Done(tmeta'[t]) => ~Done(meta)
    BY <1>0, <1>2 DEF TickLoad, Done, Metadata
  <2>3. ~EndsScrape(t)  BY <1>2 DEF EndsScrape, TickLoad, TickTouch
  <2>4. ~Done(tmeta'[t]) => ~AnyDone'
    BY <2>1, <2>2, <2>3, DoneTick DEF DrainInv
  <2> QED  BY <2>1, <2>4 DEF DrainKnown
<1>3. CASE TickReap(t) \/ TickMark(t) \/ TickReconcile(t) \/ TickCount(t) \/ TickDispatch(t)
           \/ TickSend(t)
  <2>1. tpc[t] \in Deciding
    BY <1>3 DEF Deciding, TickReap, TickMark, TickReconcile, TickCount, TickDispatch, TickSend
  <2>2. ~EndsScrape(t)
    <3>1. CASE ~TickDispatch(t)
      BY <1>3, <3>1 DEF EndsScrape, TickTouch, TickReap, TickMark, TickReconcile, TickCount,
         TickSend
    <3>2. CASE TickDispatch(t)  BY <3>2 DEF EndsScrape, TickTouch, TickDispatch
    <3> QED  BY <3>1, <3>2
  <2>3. tmeta'[t].phase = tmeta[t].phase
    BY <1>0, <1>3 DEF TickReap, TickMark, TickReconcile, AfterReconcile, TickCount, TickDispatch,
       TickSend, Metadata
  <2>4. status' = status
    BY <1>3 DEF jobVars, TickReap, TickMark, TickReconcile, TickCount, TickDispatch, TickSend
  <2>5. ~Done(tmeta'[t]) => ~AnyDone' /\ status' \notin {"completed", "partial"}
    BY <1>0, <2>1, <2>2, <2>3, <2>4, DoneTick DEF DrainKnown, Done
  <2>6. tpc'[t] \in {"count", "dispatch", "send"} => ~Done(tmeta'[t])
    <3>1. CASE TickReap(t) \/ TickMark(t)  BY <1>0, <3>1 DEF TickReap, TickMark
    <3>2. CASE TickReconcile(t)
      BY <1>0, <2>3, <3>2 DEF TickReconcile, AfterReconcile, PhaseKnown, Done
    <3>3. CASE TickCount(t) \/ TickDispatch(t) \/ TickSend(t)
      <4>1. tpc[t] \in {"count", "dispatch", "send"}
        BY <3>3 DEF TickCount, TickDispatch, TickSend
      <4> QED  BY <1>0, <2>3, <4>1 DEF DrainKnown, Done
    <3> QED  BY <1>3, <3>1, <3>2, <3>3
  <2>7. ASSUME tpc'[t] \in {"dispatch", "send"}, tloc'[t].kind = "scrape", NEW m \in Marketplace
        PROVE  cohort'[m] <= tloc'[t].rem[m]
    <3>1. ~TickReap(t) /\ ~TickMark(t) /\ ~TickReconcile(t)
      BY <1>0, <2>7 DEF TickReap, TickMark, TickReconcile, AfterReconcile
    <3>2. cohort'[m] \in Nat /\ cohort'[m] <= cohort[m]  BY <1>1, <3>1
    <3>3. CASE TickCount(t)
      <4>1. tloc[t].kind = "scrape"  BY <1>0, <2>7, <3>3 DEF TickCount, Locals
      <4>2. tloc'[t].rem = cohort  BY <1>0, <3>3, <4>1 DEF TickCount, Locals
      <4> QED  BY <3>2, <4>2
    <3>4. CASE TickDispatch(t) \/ TickSend(t)
      <4>1. tloc'[t].kind = tloc[t].kind /\ tloc'[t].rem = tloc[t].rem
        <5>1. CASE TickSend(t)  BY <1>0, <5>1 DEF TickSend, Locals
        <5>2. CASE TickDispatch(t)
          <6>1. PICK n \in NextCode(t) : ChildInserted(t, n) \/ ChildRefused(t, n)
            BY <5>2 DEF TickDispatch
          <6> QED  BY <1>0, <6>1 DEF ChildInserted, ChildRefused, Locals
        <5> QED  BY <3>4, <5>1, <5>2
      <4>2. tpc[t] \in {"dispatch", "send"}  BY <3>4 DEF TickDispatch, TickSend
      <4>3. cohort[m] <= tloc[t].rem[m]  BY <1>0, <2>7, <4>1, <4>2 DEF DrainKnown
      <4>4. cohort[m] \in Nat /\ tloc[t].rem[m] \in Nat
        BY <1>0, ConstantsAssumption DEF Locals
      <4> QED  BY <3>2, <4>1, <4>3, <4>4
    <3> QED  BY <1>3, <3>1, <3>3, <3>4
  <2> QED  BY <2>5, <2>6, <2>7 DEF DrainKnown, Done
<1>4. CASE TickAcquire(t) \/ TickLockBusy(t) \/ TickRequeue(t) \/ TickStopped(t) \/ TickTouch(t)
           \/ TickReenqueue(t) \/ TickComplete(t) \/ TickUnlock(t) \/ TickNet(t) \/ TickError(t)
           \/ TickCrash(t)
  <2>1. tpc'[t] \in {"load", "requeue", "idle", "unlock", "reenqueue", "net"}
    BY <1>0, <1>4 DEF TickIdle, TickAcquire, TickLockBusy, TickRequeue, TickStopped, TickTouch,
       TickReenqueue, TickComplete, TickUnlock, TickNet, TickError, TickCrash
  <2> QED  BY <2>1 DEF DrainKnown, Deciding
<1> QED  BY <1>2, <1>3, <1>4 DEF AnyTickStep, TickStep

LEMMA DrainTicks ==
    ASSUME IInv, LockHeld, DrainInv, [Next]_vars, NEW u \in Ticker
    PROVE  DrainKnown(u)'
<1>0. TypeOK /\ DrainKnown(u) /\ tloc[u] \in Locals  BY DEF IInv, DrainInv, TypeOK
<1>1. CASE AnyTickStep(u)  BY <1>1, DrainOwnTick
<1>2. CASE ~AnyTickStep(u)
  <2>1. tpc'[u] = tpc[u] /\ tloc'[u] = tloc[u] /\ tmeta'[u] = tmeta[u]
    BY <1>0, <1>2, OtherTicks, TicksUntouched DEF AnyTickStep
  <2>2. CASE tpc[u] \notin Deciding  BY <2>1, <2>2 DEF DrainKnown, Deciding
  <2>3. CASE tpc[u] \in Deciding
    <3>1. ASSUME NEW t \in Ticker, tpc[t] \in TickBody PROVE ~AnyTickStep(t)
      BY <1>2, <2>3, <3>1, OneInBody DEF Deciding, TickBody
    <3>2. \A t \in Ticker : ~TickReconcile(t) /\ ~TickComplete(t) /\ ~EndsScrape(t)
      BY <3>1 DEF AnyTickStep, TickStep, TickReconcile, TickComplete, EndsScrape, TickTouch,
         TickBody
    <3>3. ~AnyDone => ~AnyDone'  BY <3>2, DoneArises
    <3>4. status' \in {"completed", "partial"} => status \in {"completed", "partial"}
      BY <3>2, VerdictBy
    <3>5. ASSUME NEW m \in Marketplace, cohort[m] <= tloc[u].rem[m]
          PROVE  cohort'[m] <= tloc[u].rem[m]
      <4>1. cohort'[m] \in Nat /\ cohort'[m] <= cohort[m]  BY <1>0, <3>2, CohortShrinks
      <4>2. cohort[m] \in Nat /\ tloc[u].rem[m] \in Nat
        BY <1>0, ConstantsAssumption DEF TypeOK, Locals
      <4> QED  BY <3>5, <4>1, <4>2
    <3> QED  BY <1>0, <2>1, <3>3, <3>4, <3>5 DEF DrainKnown
  <2> QED  BY <2>2, <2>3
<1> QED  BY <1>1, <1>2

LEMMA DrainStep ==
    ASSUME IInv, LockHeld, DrainInv, Quiet, [Next]_vars
    PROVE  DrainInv'
<1>1. AnyDone' \/ status' \in {"completed", "partial"} => Drained'  BY DrainRows
<1>2. status' = "running" /\ AnyDone' => Done(meta')  BY DoneCommitted
<1>3. \A t \in Ticker : DrainKnown(t)'  BY DrainTicks
<1>4. status' = "absent" => ~AnyDone'
  <2> SUFFICES ASSUME status' = "absent", AnyDone' PROVE FALSE  OBVIOUS
  <2>1. status = "absent" /\ ~AnyDone  BY AbsentWas DEF IInv, DrainInv
  <2>2. ~ \E t \in Ticker : AnyTickStep(t)  BY <2>1, TicksWait DEF AnyTickStep, IInv
  <2> QED  BY <2>1, <2>2, DoneArises DEF EndsScrape, AnyTickStep, TickStep
<1> QED  BY <1>1, <1>2, <1>3, <1>4 DEF DrainInv, Done

LEMMA DrainInit == Init => DrainInv
<1> SUFFICES ASSUME Init PROVE DrainInv  OBVIOUS
<1>1. ~AnyDone  BY DEF Init, AnyDone, Done, InitialMetadata
<1> QED  BY <1>1 DEF Init, DrainInv, DrainKnown, Deciding

\* Where nobody pulses, nobody pulses late.
NoPulse == \A w \in Worker : wpc[w] # "pulse"

LEMMA NoPulseStep ==
    ASSUME TypeOK, NoPulse, "pulse" \notin Events, [Next]_vars
    PROVE  NoPulse'
<1> USE DEF TypeOK, NoPulse
<1>1. CASE \E t \in Ticker : AnyTickStep(t)  BY <1>1, TickFrame
<1>2. ASSUME NEW w \in Worker, WorkerStep(w) \/ WorkerAbort(w) \/ WorkerCrash(w) PROVE NoPulse'
  BY <1>2 DEF WorkerStep, WorkerTake, WorkerMark, WorkerNoMarketplace, WorkerPulseRead,
     WorkerPulseWrite, WorkerCheck, WorkerFinish, WorkerAbort, WorkerCrash, WorkerIdle, workerVars
<1>3. CASE AdminStep \/ BeatStep \/ UNCHANGED vars
  BY <1>3 DEF vars, workerVars, AdminStep, BeatStep, TriggerInsert, TriggerEnqueue, TriggerLost,
     CancelRead, CancelWrite, Revive, ReaperSelect, ReaperWrite
<1> QED  BY <1>1, <1>2, <1>3 DEF Next, AnyTickStep

\* Where children are left alone while they are worked on, the run is done when the last of
\* them has ended: nobody is left to pulse.
EndsIdle == AnyDone => Unfinished("scrape") = {}

LEMMA EndsIdleStep ==
    ASSUME SharedInv, DrainInv, EndsIdle, NoEarlyReap, [Next]_vars
    PROVE  EndsIdle'
<1> SUFFICES ASSUME AnyDone' PROVE Unfinished("scrape")' = {}  BY DEF EndsIdle
<1>0. TypeOK /\ TaskInv /\ SlotsInv /\ IInv  BY DEF SharedInv, IInv
<1>1. CASE AnyDone
  <2>1. ~ \E t \in Ticker : TickDispatch(t)
    BY <1>1 DEF TickDispatch, DrainInv, DrainKnown, Deciding
  <2>2. Unfinished("scrape")' \subseteq Unfinished("scrape")  BY <1>0, <2>1, OthersFreeSlots
  <2> QED  BY <1>1, <2>2 DEF EndsIdle
<1>2. CASE ~AnyDone
  <2>1. PICK t \in Ticker : EndsScrape(t)  BY <1>0, <1>2, DoneArises
  <2>2. Cardinality(Unfinished("scrape")) <= 0
    BY <1>0, <2>1 DEF EndsScrape, SlotsInv, SlotsKnown
  <2>3. Unfinished("scrape") = {}  BY <2>2, UnfinishedFinite, FS_EmptySet
  <2>4. child' = child  BY <2>1 DEF EndsScrape, TickTouch
  <2> QED  BY <2>3, <2>4 DEF Unfinished
<1> QED  BY <1>1, <1>2

LEMMA IdleIsQuiet ==
    ASSUME SharedInv, BarrierInv, EndsIdle
    PROVE  Quiet
<1> SUFFICES ASSUME AnyDone, NEW w \in Worker, wpc[w] = "pulse" PROVE FALSE  BY DEF Quiet
<1>1. AnyLater  BY DEF AnyDone, AnyLater, Done, Later
<1>2. Unfinished("discovery") = {} /\ Unfinished("scrape") = {}
  BY <1>1 DEF BarrierInv, EndsIdle
<1> QED  BY <1>2, ClaimedRow DEF SharedInv, IInv

\* A run that reaches a verdict of its own left no listing of its cohort unchecked: neither a
\* crash between the turn that ends the scrape phase and the one that concludes, nor a tick that
\* sets the anchor anew, nor a cancel that writes older metadata back lets a verdict pass over
\* one.  Pulses do not either, where children are left alone while they are worked on.
THEOREM VerdictIsDrained ==
    ASSUME "pulse" \notin Events \/ NoEarlyReap
    PROVE  Spec => []VerdictAfterDrain
<1>1. DrainInv => VerdictAfterDrain  BY DEF DrainInv, VerdictAfterDrain, Drained
<1>2. CASE "pulse" \notin Events
  <2>1. Init => LockHeld /\ NoPulse  BY DEF Init, LockHeld, TickBody, NoPulse
  <2>2. NoPulse => Quiet  BY DEF NoPulse, Quiet
  <2>3. IInv /\ LockHeld /\ NoPulse /\ DrainInv /\ [Next]_vars => LockHeld' /\ NoPulse' /\ DrainInv'
    BY <1>2, <2>2, LockStep, NoPulseStep, DrainStep DEF IInv
  <2> QED  BY <1>1, <2>1, <2>3, DrainInit, Invariant, PTL DEF Spec
<1>3. CASE NoEarlyReap
  <2>1. Init => EndsIdle
    <3> SUFFICES ASSUME Init PROVE Unfinished("scrape") = {}  BY DEF EndsIdle
    <3> QED  BY DEF Init, Unfinished, NoRow
  <2>2. SharedInv /\ BarrierInv /\ EndsIdle /\ DrainInv /\ [Next]_vars => EndsIdle' /\ DrainInv'
    BY <1>3, IdleIsQuiet, EndsIdleStep, DrainStep DEF SharedInv
  <2>3. Spec => []SharedInv /\ []BarrierInv  BY <1>3, SharedInvariant, BarrierInvariant
  <2> QED  BY <1>1, <2>1, <2>2, <2>3, DrainInit, PTL DEF Spec
<1> QED  BY <1>2, <1>3

-----------------------------------------------------------------------------
(***************************************************************************)
(* One discovery child per marketplace.  The queue a tick pops is its own; *)
(* it is committed when the loop ends.  Where a tick that dispatched is    *)
(* sure to commit, and nobody commits an older copy, the queue that the    *)
(* next tick loads holds no marketplace twice, and none that has a child.  *)
(***************************************************************************)
FreshQueue(d) ==
    /\ \A i, j \in 1..Len(d.queue) : d.queue[i] = d.queue[j] => i = j
    /\ \A c \in ChildId : child[c].kind = "discovery" =>
           \A i \in 1..Len(d.queue) : d.queue[i] # child[c].mp

Fresh(d) == IF d.phase = "none" THEN \A c \in ChildId : child[c].kind # "discovery"
            ELSE FreshQueue(d)

DupInv ==
    /\ NoDuplicateDiscovery
    /\ \A t \in Ticker : tpc[t] \in Deciding => FreshQueue(tmeta[t])
    /\ status \in {"absent", "running"} /\ (\A t \in Ticker : tpc[t] \notin {"dispatch", "send"})
           => Fresh(meta)

\* No crash and no exception keeps a tick from committing, and no write of a copy is refused
\* or out of date.
CommitsKept == Events \cap {"crash", "error", "reject", "pulse"} = {}

LEMMA TailFresh ==
    ASSUME NEW d \in Metadata, FreshQueue(d), d.queue # <<>>
    PROVE  /\ FreshQueue([d EXCEPT !.queue = Tail(d.queue)])
           /\ \A i \in 1..Len(Tail(d.queue)) : Tail(d.queue)[i] # Head(d.queue)
           /\ \A c \in ChildId : child[c].kind = "discovery" => Head(d.queue) # child[c].mp
<1> DEFINE q == d.queue
<1>1. q \in Seq(Marketplace) /\ [d EXCEPT !.queue = Tail(d.queue)].queue = Tail(q)
  BY DEF Metadata
<1>2. /\ \A i, j \in 1..Len(q) : q[i] = q[j] => i = j
      /\ \A c \in ChildId : child[c].kind = "discovery" => \A i \in 1..Len(q) : q[i] # child[c].mp
  BY DEF FreshQueue
<1>3. q # <<>>  OBVIOUS
<1> HIDE DEF q
<1>4. /\ Len(q) \in Nat \ {0} /\ Head(q) = q[1]
      /\ Len(Tail(q)) = Len(q) - 1
      /\ \A i \in 1..Len(Tail(q)) : Tail(q)[i] = q[i + 1]
  BY <1>1, <1>3
<1>5. \A i \in 1..Len(Tail(q)) : i + 1 \in 1..Len(q) /\ i + 1 # 1  BY <1>4
<1>6. 1 \in 1..Len(q)  BY <1>4
<1>7. \A i, j \in 1..Len(Tail(q)) : Tail(q)[i] = Tail(q)[j] => i = j
  <2> TAKE i, j \in 1..Len(Tail(q))
  <2>1. Tail(q)[i] = Tail(q)[j] => i + 1 = j + 1  BY <1>2, <1>4, <1>5
  <2> QED  BY <1>4, <2>1
<1>8. \A i \in 1..Len(Tail(q)) : Tail(q)[i] # Head(q)  BY <1>2, <1>4, <1>5, <1>6
<1>9. \A c \in ChildId : child[c].kind = "discovery" =>
         Head(q) # child[c].mp /\ \A i \in 1..Len(Tail(q)) : Tail(q)[i] # child[c].mp
  BY <1>2, <1>4, <1>5, <1>6
<1> QED  BY <1>1, <1>7, <1>8, <1>9 DEF FreshQueue, q

LEMMA DupDispatch ==
    ASSUME IInv, LockHeld, DupInv, CommitsKept, NEW t \in Ticker, TickDispatch(t)
    PROVE  DupInv'
<1> USE DEF TypeOK, GoTo
<1>0. /\ TypeOK /\ RowsFresh /\ AnyTickStep(t) /\ tpc[t] = "dispatch"
      /\ tmeta[t] \in Metadata /\ tloc[t] \in Locals /\ FreshQueue(tmeta[t])
      /\ status' = status
  BY DEF IInv, AnyTickStep, TickStep, TickDispatch, DupInv, Deciding
<1>1. PICK m \in NextCode(t) : ChildInserted(t, m)
  BY DEF TickDispatch, ChildRefused, CommitsKept
<1> DEFINE n == inserted + 1
<1>2. n \in ChildId /\ child[n].kind = "none"
  BY <1>0, ConstantsAssumption DEF TickDispatch, MayDispatch, ChildId, RowsFresh
<1>3. /\ \A c \in ChildId : c # n => child'[c] = child[c]
      /\ child'[n].kind = tloc[t].kind /\ child'[n].mp = m
      /\ tpc'[t] = "send"
  BY <1>0, <1>1, <1>2 DEF ChildInserted
<1> HIDE DEF n
<1>4. NoDuplicateDiscovery' /\ FreshQueue(tmeta[t])'
  <2>1. CASE tloc[t].kind = "discovery"
    <3>1. tmeta[t].queue # <<>> /\ m = Head(tmeta[t].queue)
      BY <2>1 DEF TickDispatch, MayDispatch, NextCode
    <3>2. tmeta'[t] = [tmeta[t] EXCEPT !.queue = Tail(tmeta[t].queue)]
      BY <1>0, <2>1 DEF TickDispatch
    <3>3. tmeta'[t].queue = Tail(tmeta[t].queue)  BY <1>0, <3>2 DEF Metadata
    <3>4. /\ FreshQueue([tmeta[t] EXCEPT !.queue = Tail(tmeta[t].queue)])
          /\ \A i \in 1..Len(Tail(tmeta[t].queue)) : Tail(tmeta[t].queue)[i] # m
          /\ \A c \in ChildId : child[c].kind = "discovery" => m # child[c].mp
      BY <1>0, <3>1, TailFresh
    <3>5. NoDuplicateDiscovery'
      BY <1>2, <1>3, <3>4 DEF DupInv, NoDuplicateDiscovery
    <3>6. FreshQueue(tmeta[t])'
      BY <1>2, <1>3, <3>2, <3>3, <3>4 DEF FreshQueue
    <3> QED  BY <3>5, <3>6
  <2>2. CASE tloc[t].kind # "discovery"
    <3>1. tmeta'[t].queue = tmeta[t].queue  BY <1>0, <2>2 DEF TickDispatch, Metadata
    <3>2. \A c \in ChildId : child'[c].kind = "discovery" => c # n /\ child'[c] = child[c]
      BY <1>2, <1>3, <2>2
    <3> QED  BY <1>0, <3>1, <3>2 DEF DupInv, NoDuplicateDiscovery, FreshQueue
  <2> QED  BY <2>1, <2>2
<1>5. ASSUME NEW u \in Ticker, u # t PROVE tpc'[u] \notin Deciding
  <2>1. tpc'[u] = tpc[u]  BY <1>0, <1>5, OtherTicks DEF AnyTickStep
  <2>2. tpc[u] \notin TickBody  BY <1>0, <1>5, OneInBody DEF TickBody
  <2> QED  BY <2>1, <2>2 DEF TickBody, Deciding
<1> QED  BY <1>0, <1>3, <1>4, <1>5 DEF DupInv

\* A tick in its body: only the first one snapshots the marketplaces, whose codes are distinct.
LEMMA DupOwnTick ==
    ASSUME IInv, LockHeld, DupInv, CommitsKept, NEW t \in Ticker, AnyTickStep(t),
           ~TickDispatch(t), SameRows, tpc'[t] \in Deciding
    PROVE  FreshQueue(tmeta[t])'
<1> USE DEF TypeOK, GoTo
<1>0. TypeOK /\ tmeta[t] \in Metadata  BY DEF IInv
<1>1. CASE TickLoad(t)
  <2>1. \A u \in Ticker : tpc[u] \notin {"dispatch", "send"}
    BY <1>1, OneInBody DEF TickLoad, TickBody
  <2>2. Fresh(meta)  BY <1>1, <2>1 DEF TickLoad, DupInv
  <2>3. CASE meta.phase = "none"
    <3>1. tmeta'[t].queue = Codes  BY <1>0, <1>1, <2>3 DEF TickLoad, Metadata
    <3>2. \A c \in ChildId : child[c].kind # "discovery"  BY <2>2, <2>3 DEF Fresh
    <3> QED  BY <3>1, <3>2, ConstantsAssumption DEF FreshQueue, SameRows
  <2>4. CASE meta.phase # "none"
    <3>1. tmeta'[t].queue = meta.queue  BY <1>0, <1>1, <2>4 DEF TickLoad
    <3> QED  BY <2>2, <2>4, <3>1 DEF Fresh, FreshQueue, SameRows
  <2> QED  BY <2>3, <2>4
<1>2. CASE TickReap(t) \/ TickMark(t) \/ TickReconcile(t) \/ TickCount(t) \/ TickSend(t)
  <2>1. tpc[t] \in Deciding
    BY <1>2 DEF Deciding, TickReap, TickMark, TickReconcile, TickCount, TickSend
  <2>2. tmeta'[t].queue = tmeta[t].queue
    BY <1>0, <1>2 DEF TickReap, TickMark, TickReconcile, AfterReconcile, TickCount, TickSend,
       Metadata
  <2> QED  BY <2>1, <2>2 DEF DupInv, FreshQueue, SameRows
<1>3. CASE TickAcquire(t) \/ TickLockBusy(t) \/ TickRequeue(t) \/ TickStopped(t) \/ TickTouch(t)
           \/ TickReenqueue(t) \/ TickComplete(t) \/ TickUnlock(t) \/ TickNet(t) \/ TickError(t)
           \/ TickCrash(t)
  <2>1. tpc'[t] \in {"load", "requeue", "idle", "unlock", "reenqueue", "net"}
    BY <1>0, <1>3 DEF TickIdle, TickAcquire, TickLockBusy, TickRequeue, TickStopped, TickTouch,
       TickReenqueue, TickComplete, TickUnlock, TickNet, TickError, TickCrash
  <2> QED  BY <2>1 DEF Deciding
<1> QED  BY <1>1, <1>2, <1>3 DEF AnyTickStep, TickStep

\* A tick that dispatched is about to commit its queue; the others leave the committed one.
LEMMA DupCommitted ==
    ASSUME IInv, LockHeld, NoPulse, DupInv, CommitsKept, [Next]_vars,
           ~ \E t \in Ticker : TickDispatch(t), SameRows,
           status' \in {"absent", "running"},
           \A t \in Ticker : tpc'[t] \notin {"dispatch", "send"}
    PROVE  Fresh(meta)'
<1>0. TypeOK  BY DEF IInv
<1>1. status \in {"absent", "running"}
  BY <1>0, AbsentWas, RunningWas DEF TriggerInsert
<1>2. CASE \E t \in Ticker : tpc[t] \in {"dispatch", "send"}
  <2>1. PICK t \in Ticker : tpc[t] \in {"dispatch", "send"}  BY <1>2
  <2>2. AnyTickStep(t)  BY <1>0, <2>1, OtherTicks, TicksUntouched DEF AnyTickStep
  <2>3. TickTouch(t)
    BY <1>0, <2>1, <2>2 DEF CommitsKept, TypeOK, GoTo, AnyTickStep, TickStep, TickAcquire,
       TickLockBusy, TickRequeue, TickLoad, TickStopped, TickReap, TickMark, TickReconcile,
       TickCount, TickSend, TickReenqueue, TickComplete, TickUnlock, TickNet, TickError, TickCrash
  <2>4. tpc[t] = "dispatch" /\ meta' = [tmeta[t] EXCEPT !.phase = PhaseAfter(t)]
    BY <2>3 DEF TickTouch, CommitsKept
  <2>5. tmeta[t] \in Metadata /\ tmeta[t].phase # "none"
    BY <1>0, <2>4 DEF TypeOK, IInv, TickPhases, PhaseKnown
  <2>6. meta'.queue = tmeta[t].queue /\ meta'.phase # "none"
    BY <2>4, <2>5 DEF PhaseAfter, Metadata
  <2>7. FreshQueue(tmeta[t])  BY <2>4 DEF DupInv, Deciding
  <2> QED  BY <2>6, <2>7 DEF Fresh, FreshQueue, SameRows
<1>3. CASE \A t \in Ticker : tpc[t] \notin {"dispatch", "send"}
  <2>1. Fresh(meta)  BY <1>1, <1>3 DEF DupInv
  <2>2. meta' = meta
    <3>1. ASSUME NEW t \in Ticker, AnyTickStep(t) PROVE meta' = meta
      <4>1. ~TickTouch(t)  BY <1>3 DEF TickTouch
      <4>2. ~(TickComplete(t) /\ meta' = tmeta[t] /\ meta' # meta)
        BY VerdictsTerminal DEF TickComplete
      <4> QED  BY <3>1, <4>1, <4>2, TickCommits
    <3>2. ASSUME NEW w \in Worker, WorkerStep(w) \/ WorkerAbort(w) \/ WorkerCrash(w)
          PROVE  meta' = meta
      <4>1. ~WorkerPulseWrite(w)  BY DEF WorkerPulseWrite, NoPulse
      <4> QED
        BY <3>2, <4>1 DEF jobVars, WorkerStep, WorkerTake, WorkerMark, WorkerNoMarketplace,
           WorkerPulseRead, WorkerCheck, WorkerFinish, WorkerAbort, WorkerCrash
    <3>3. CASE AdminStep \/ BeatStep \/ UNCHANGED vars
      <4>1. CancelWrite => meta' = meta  BY DEF CancelWrite
      <4> QED
        BY <3>3, <4>1 DEF vars, jobVars, AdminStep, BeatStep, TriggerInsert, TriggerEnqueue,
           TriggerLost, CancelRead, Revive, ReaperSelect, ReaperWrite
    <3> QED  BY <3>1, <3>2, <3>3 DEF Next, AnyTickStep
  <2> QED  BY <2>1, <2>2 DEF Fresh, FreshQueue, SameRows
<1> QED  BY <1>2, <1>3

LEMMA DupStep ==
    ASSUME IInv, LockHeld, NoPulse, DupInv, CommitsKept, [Next]_vars
    PROVE  DupInv'
<1>0. TypeOK  BY DEF IInv
<1>1. CASE \E t \in Ticker : TickDispatch(t)  BY <1>1, DupDispatch
<1>2. CASE ~ \E t \in Ticker : TickDispatch(t)
  <2>1. SameRows  BY <1>0, <1>2, OthersKeepRows
  <2>2. NoDuplicateDiscovery'  BY <2>1 DEF DupInv, NoDuplicateDiscovery, SameRows
  <2>3. ASSUME NEW u \in Ticker, tpc'[u] \in Deciding PROVE FreshQueue(tmeta[u])'
    <3>1. CASE AnyTickStep(u)  BY <1>2, <2>1, <2>3, <3>1, DupOwnTick
    <3>2. CASE ~AnyTickStep(u)
      <4>1. tpc'[u] = tpc[u] /\ tmeta'[u] = tmeta[u]
        BY <1>0, <3>2, OtherTicks, TicksUntouched DEF AnyTickStep
      <4> QED  BY <2>1, <2>3, <4>1 DEF DupInv, FreshQueue, SameRows
    <3> QED  BY <3>1, <3>2
  <2>4. status' \in {"absent", "running"} /\ (\A t \in Ticker : tpc'[t] \notin {"dispatch", "send"})
            => Fresh(meta)'
    BY <1>2, <2>1, DupCommitted
  <2> QED  BY <2>2, <2>3, <2>4 DEF DupInv
<1> QED  BY <1>1, <1>2

LEMMA DupInit == Init => DupInv
<1> SUFFICES ASSUME Init PROVE DupInv  OBVIOUS
<1>1. \A c \in ChildId : child[c].kind = "none"  BY DEF Init, NoRow
<1>2. \A t \in Ticker : tpc[t] = "idle"  BY DEF Init
<1>3. meta.phase = "none"  BY DEF Init, InitialMetadata
<1> QED  BY <1>1, <1>2, <1>3 DEF DupInv, NoDuplicateDiscovery, Fresh, Deciding

\* The advisory lock makes concurrent ticks dispatch each marketplace once, where every tick that
\* dispatched commits its queue and no pulse writes an older one back; cancels, revivals of a
\* living chain, redelivered children, reapers and lost messages do not disturb it.
THEOREM NoDuplicates ==
    ASSUME CommitsKept
    PROVE  Spec => []NoDuplicateDiscovery
<1>1. "pulse" \notin Events  BY DEF CommitsKept
<1>2. Init => LockHeld /\ NoPulse /\ DupInv
  BY DupInit DEF Init, LockHeld, TickBody, NoPulse
<1>3. IInv /\ LockHeld /\ NoPulse /\ DupInv /\ [Next]_vars => LockHeld' /\ NoPulse' /\ DupInv'
  BY <1>1, LockStep, NoPulseStep, DupStep DEF IInv
<1>4. DupInv => NoDuplicateDiscovery  BY DEF DupInv
<1> QED  BY <1>2, <1>3, <1>4, Invariant, PTL DEF Spec
=============================================================================
