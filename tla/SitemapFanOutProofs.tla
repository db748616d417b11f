--------------------------- MODULE SitemapFanOutProofs ---------------------------
(***************************************************************************)
(* Proofs about SitemapFanOut, for any shards, runs and workers, any       *)
(* bounds and any set of events (but "overtake" for NoShardLost).          *)
(***************************************************************************)
EXTENDS SitemapFanOut, FiniteSetTheorems, TLAPS

Labels == {"idle", "resolve", "send", "inline", "walk", "hset", "decr", "hvals",
           "load", "estimate", "members", "delete", "publish", "park"}
ShardSteps == {"walk", "hset", "decr", "hvals", "load", "members", "delete", "publish"}

\* The locals of a worker fit the step it is at.
Fit(label, j) ==
    /\ label # "idle" => j.walk # NoWalk
    /\ label \in {"resolve", "send", "inline"} => j.walk = Coordinator
    /\ label \in ShardSteps => j.walk \in Run \X Shard
    /\ j.walk \in Run \X Shard => j.run = j.walk[1]
    /\ j.walk = Coordinator /\ label # "send" => j.run = NoRun
    /\ label = "send" => j.run \in Run
    /\ label = "hset" => j.count \in 0..Size[j.walk[2]]

JobsFit == \A w \in Worker : Fit(pc[w], job[w])

-----------------------------------------------------------------------------
(***************************************************************************)
(* Typing.                                                                 *)
(***************************************************************************)
LEMMA Blank == NoTally \in Tally /\ EmptyShop \in Shop /\ NoJob \in Locals
<1>1. NoTally \in Tally  BY DEF NoTally, Tally, Counted
<1>2. Total(NoTally) \in Estimates  BY <1>1 DEF Estimates
<1>3. EmptyShop \in Shop  BY <1>2 DEF EmptyShop, Shop
<1>4. NoJob \in Locals  BY <1>2, <1>3, ConstantsAssumption DEF NoJob, Locals
<1> QED  BY <1>1, <1>3, <1>4

LEMMA TallyUpdate ==
    ASSUME NEW c \in Tally, NEW s \in Shard, NEW n \in 0..Size[s]
    PROVE  [c EXCEPT ![s] = n] \in Tally
<1>1. n \in Counted(s)  BY DEF Counted
<1>2. n \in UNION {Counted(t) : t \in Shard}  BY <1>1
<1> QED  BY <1>1, <1>2 DEF Tally

LEMMA TotalType == \A c \in Tally : Total(c) \in Estimates
  BY DEF Estimates

LEMMA TypeInit == Init => TypeOK /\ JobsFit
  BY Blank, ConstantsAssumption
  DEF Init, TypeOK, JobsFit, Fit, NoJob, NoEntries, ShardSteps, Shop, EmptyShop, Walk

\* A worker goes on with new locals.
LEMMA WorkerStep ==
    ASSUME TypeOK, JobsFit, NEW w \in Worker, NEW j \in Locals, NEW label \in Labels,
           job' = [job EXCEPT ![w] = j], pc' = [pc EXCEPT ![w] = label], Fit(label, j)
    PROVE  job' \in [Worker -> Locals] /\ pc' \in [Worker -> Labels] /\ JobsFit'
<1>1. job' \in [Worker -> Locals] /\ pc' \in [Worker -> Labels]  BY DEF TypeOK, Labels
<1>2. ASSUME NEW v \in Worker PROVE Fit(pc'[v], job'[v])
  <2>1. CASE v = w  BY <2>1 DEF TypeOK
  <2>2. CASE v # w  BY <2>2 DEF TypeOK, JobsFit
  <2> QED  BY <2>1, <2>2
<1> QED  BY <1>1, <1>2 DEF JobsFit

LEMMA ReturnStep ==
    ASSUME TypeOK, JobsFit, NEW w \in Worker, Return(w)
    PROVE  job' \in [Worker -> Locals] /\ pc' \in [Worker -> Labels] /\ JobsFit'
<1>1. Fit("idle", NoJob)
  BY ConstantsAssumption DEF Fit, NoJob, ShardSteps, Walk
<1>2. "idle" \in Labels  BY DEF Labels
<1> QED  BY <1>1, <1>2, Blank, WorkerStep DEF Return, Goto

\* A message that is sent is a message.
LEMMA SendType ==
    ASSUME TypeOK, NEW k \in Walk, NEW n \in 0..MaxAttempts, Send(k, n)
    PROVE  queue' \in [Message -> Nat]
<1>1. Envelope(k, n) \in Message  BY DEF Envelope, Message
<1>2. queue[Envelope(k, n)] + 1 \in Nat  BY <1>1 DEF TypeOK
<1> QED  BY <1>1, <1>2 DEF Send, TypeOK

LEMMA HeldType ==
    ASSUME TypeOK, JobsFit, NEW w \in Worker, pc[w] # "idle"
    PROVE  job[w] \in Locals /\ job[w].walk \in Walk /\ job[w].attempts \in 0..MaxAttempts
  BY DEF TypeOK, JobsFit, Fit, Locals

LEMMA RaiseType ==
    ASSUME TypeOK, NEW seen \in Shop, NEW total \in Estimates, Raise(seen, total)
    PROVE  shop' \in Shop /\ peak' \in Estimates
  BY DEF Raise, TypeOK, Shop

LEMMA MergeType ==
    ASSUME TypeOK, NEW seen \in Shop, NEW found \in SUBSET Shard, Merge(seen, found)
    PROVE  shop' \in Shop /\ peak' \in Estimates
  BY DEF Merge, TypeOK, Shop

\* What a walk leaves in the locals.
LEMMA WalkDoneLocals ==
    ASSUME TypeOK, JobsFit, NEW w \in Worker, WalkDone(w)
    PROVE  \E n \in 0..Size[job[w].walk[2]] :
              job' = [job EXCEPT ![w].count = n]
<1> DEFINE s == job[w].walk[2]
<1>1. job[w] \in Locals /\ s \in Shard
  BY HeldType DEF WalkDone, JobsFit, Fit, ShardSteps
<1>2. Size[s] \in 0..Size[s]  BY <1>1, ConstantsAssumption
<1>3. CASE job' = [job EXCEPT ![w].count = Size[s]]
  BY <1>2, <1>3
<1>5. CASE Fault("short") /\ \E n \in 0..Size[s], found \in BOOLEAN :
              /\ job' = [job EXCEPT ![w].count = n]
              /\ stash' = IF found THEN [stash EXCEPT ![job[w].run] = @ \cup {s}] ELSE stash
  BY <1>5
<1> QED  BY <1>3, <1>5 DEF WalkDone

LEMMA TypeNext ==
    ASSUME TypeOK, JobsFit, [Next]_vars
    PROVE  TypeOK' /\ JobsFit'
<1> USE ConstantsAssumption DEF Goto, redisVars, historyVars, Labels
<1>1. CASE Request
  <2>1. queue' \in [Message -> Nat]  BY <1>1, SendType DEF Request, Walk
  <2> QED  BY <1>1, <2>1 DEF Request, TypeOK, JobsFit
<1>2. ASSUME NEW w \in Worker, Take(w) PROVE TypeOK' /\ JobsFit'
  <2>1. PICK m \in Message :
           /\ queue[m] > 0
           /\ queue' = [queue EXCEPT ![m] = @ - 1]
           /\ job' = [job EXCEPT ![w] =
                        [NoJob EXCEPT !.walk = m.walk, !.attempts = m.attempts,
                                      !.run = IF m.walk = Coordinator THEN NoRun ELSE m.walk[1]]]
           /\ pc' = [pc EXCEPT ![w] = IF m.walk = Coordinator THEN "resolve" ELSE "walk"]
    BY <1>2 DEF Take
  <2> DEFINE j == [NoJob EXCEPT !.walk = m.walk, !.attempts = m.attempts,
                                !.run = IF m.walk = Coordinator THEN NoRun ELSE m.walk[1]]
             label == IF m.walk = Coordinator THEN "resolve" ELSE "walk"
  <2>2. m.walk \in Walk /\ m.attempts \in 0..MaxAttempts  BY DEF Message
  <2>3. j \in Locals  BY <2>2, Blank DEF Locals, Walk
  <2>4. Fit(label, j)  BY <2>2, Blank DEF Fit, Locals, Walk, ShardSteps
  <2>5. queue' \in [Message -> Nat]  BY <2>1 DEF TypeOK
  <2>6. label \in Labels  OBVIOUS
  <2>7. job' = [job EXCEPT ![w] = j] /\ pc' = [pc EXCEPT ![w] = label]  BY <2>1
  <2> HIDE DEF j, label
  <2>8. job' \in [Worker -> Locals] /\ pc' \in [Worker -> Labels] /\ JobsFit'
    BY <2>3, <2>4, <2>6, <2>7, WorkerStep
  <2> QED  BY <1>2, <2>5, <2>8 DEF Take, TypeOK
<1>3. ASSUME NEW w \in Worker, OutOfBudget(w) PROVE TypeOK' /\ JobsFit'
  <2>1. Fit("park", job[w]) /\ job[w] \in Locals /\ "park" \in Labels
    BY <1>3, HeldType DEF OutOfBudget, JobsFit, Fit, ShardSteps
  <2>2. job' = [job EXCEPT ![w] = job[w]]  BY <1>3 DEF OutOfBudget, TypeOK
  <2>3. job' \in [Worker -> Locals] /\ pc' \in [Worker -> Labels] /\ JobsFit'
    BY <1>3, <2>1, <2>2, WorkerStep DEF OutOfBudget
  <2> QED  BY <1>3, <2>3 DEF OutOfBudget, TypeOK
<1>4. ASSUME NEW w \in Worker, Park(w) PROVE TypeOK' /\ JobsFit'
  <2>1. job' \in [Worker -> Locals] /\ pc' \in [Worker -> Labels] /\ JobsFit'
    BY <1>4, ReturnStep DEF Park
  <2>2. job[w].walk \in Walk /\ job[w].attempts \in 0..MaxAttempts
    BY <1>4, HeldType DEF Park
  <2>3. parked' \in [Walk -> 0..MaxAttempts] /\ dropped' \subseteq Walk /\ faults' \in Nat
    BY <1>4, <2>2 DEF Park, Drop, Fault, TypeOK
  <2> QED  BY <1>4, <2>1, <2>3 DEF Park, TypeOK
<1>5. ASSUME NEW w \in Worker, StartRun(w) PROVE TypeOK' /\ JobsFit'
  <2>1. PICK r \in Run \ begun :
           /\ begun' = begun \cup {r}
           /\ job' = [job EXCEPT ![w].run = r, ![w].shards = Shard]
           /\ \/ /\ pending' = [pending EXCEPT ![r] = Cardinality(Shard)]
                 /\ UNCHANGED <<faults, blurred>>
              \/ /\ Fault("redis")
                 /\ blurred' = blurred \cup {r}
                 /\ UNCHANGED pending
    BY <1>5 DEF StartRun
  <2> DEFINE j == [job[w] EXCEPT !.run = r, !.shards = Shard]
  <2>2. job[w] \in Locals /\ job[w].walk = Coordinator
    BY <1>5, HeldType DEF StartRun, JobsFit, Fit
  <2>3. j \in Locals  BY <2>2 DEF Locals
  <2>4. Fit("send", j)  BY <2>2 DEF Fit, Locals, ShardSteps, Walk
  <2>5. job' = [job EXCEPT ![w] = j]  BY <2>1, <2>2 DEF TypeOK, Locals
  <2>6. "send" \in Labels  OBVIOUS
  <2>7. Cardinality(Shard) \in Int  BY FS_CardinalityType
  <2> HIDE DEF j
  <2>8. job' \in [Worker -> Locals] /\ pc' \in [Worker -> Labels] /\ JobsFit'
    BY <1>5, <2>3, <2>4, <2>5, <2>6, WorkerStep DEF StartRun
  <2>9. pending' \in [Run -> Int] /\ faults' \in Nat /\ blurred' \subseteq Run /\ begun' \subseteq Run
    BY <2>1, <2>7 DEF Fault, TypeOK
  <2> QED  BY <1>5, <2>8, <2>9 DEF StartRun, TypeOK
<1>6. ASSUME NEW w \in Worker, SendShard(w) PROVE TypeOK' /\ JobsFit'
  <2>1. PICK s \in job[w].shards :
           /\ Send(<<job[w].run, s>>, 0)
           /\ sent' = sent \cup {<<job[w].run, s>>}
           /\ job' = [job EXCEPT ![w].shards = @ \ {s}]
    BY <1>6 DEF SendShard
  <2> DEFINE j == [job[w] EXCEPT !.shards = @ \ {s}]
  <2>2. job[w] \in Locals /\ job[w].run \in Run /\ Fit("send", job[w])
    BY <1>6, HeldType DEF SendShard, JobsFit, Fit
  <2>3. s \in Shard  BY <2>2 DEF Locals
  <2>4. <<job[w].run, s>> \in Run \X Shard  BY <2>2, <2>3
  <2>5. j \in Locals /\ Fit("send", j)  BY <2>2 DEF Locals, Fit, ShardSteps
  <2>6. pc' = [pc EXCEPT ![w] = "send"]
    BY <1>6 DEF SendShard, TypeOK
  <2>11. job' = [job EXCEPT ![w] = j]
    BY <2>1, <2>2 DEF TypeOK, Locals
  <2>7. "send" \in Labels  OBVIOUS
  <2> HIDE DEF j
  <2>8. job' \in [Worker -> Locals] /\ pc' \in [Worker -> Labels] /\ JobsFit'
    BY <2>5, <2>6, <2>7, <2>11, WorkerStep
  <2>9. queue' \in [Message -> Nat]
    BY <2>1, <2>4, SendType DEF Walk
  <2> QED  BY <1>6, <2>1, <2>4, <2>8, <2>9 DEF SendShard, TypeOK
<1>7. ASSUME NEW w \in Worker, SentAll(w) PROVE TypeOK' /\ JobsFit'
  BY <1>7, ReturnStep DEF SentAll, TypeOK
<1>8. ASSUME NEW w \in Worker, StartInline(w) PROVE TypeOK' /\ JobsFit'
  <2> DEFINE j == [job[w] EXCEPT !.seen = shop]
  <2>1. job[w] \in Locals /\ Fit("resolve", job[w])
    BY <1>8, HeldType DEF StartInline, JobsFit
  <2>2. j \in Locals /\ Fit("inline", j) /\ "inline" \in Labels
    BY <2>1 DEF Locals, Fit, ShardSteps, TypeOK
  <2>3. job' = [job EXCEPT ![w] = j]  BY <1>8 DEF StartInline, TypeOK, Locals
  <2> HIDE DEF j
  <2>4. job' \in [Worker -> Locals] /\ pc' \in [Worker -> Labels] /\ JobsFit'
    BY <1>8, <2>2, <2>3, WorkerStep DEF StartInline
  <2> QED  BY <1>8, <2>4 DEF StartInline, TypeOK
<1>9. ASSUME NEW w \in Worker, InlineDone(w) PROVE TypeOK' /\ JobsFit'
  <2>1. PICK c \in Tally, found \in SUBSET Shard :
           /\ UNCHANGED faults \/ Fault("short")
           /\ Merge(job[w].seen, found)
           /\ job' = [job EXCEPT ![w].total = Total(c)]
    BY <1>9 DEF InlineDone
  <2> DEFINE j == [job[w] EXCEPT !.total = Total(c)]
  <2>2. job[w] \in Locals /\ Fit("inline", job[w])
    BY <1>9, HeldType DEF InlineDone, JobsFit
  <2>3. j \in Locals /\ Fit("estimate", j) /\ "estimate" \in Labels
    BY <2>2, TotalType DEF Locals, Fit, ShardSteps
  <2>4. job' = [job EXCEPT ![w] = j]  BY <2>1 DEF TypeOK, Locals
  <2> HIDE DEF j
  <2>5. job' \in [Worker -> Locals] /\ pc' \in [Worker -> Labels] /\ JobsFit'
    BY <1>9, <2>3, <2>4, WorkerStep DEF InlineDone
  <2>6. shop' \in Shop /\ peak' \in Estimates
    BY <2>1, <2>2, MergeType DEF Locals
  <2>7. faults' \in Nat  BY <2>1 DEF Fault, TypeOK
  <2> QED  BY <1>9, <2>5, <2>6, <2>7 DEF InlineDone, TypeOK
<1>10. ASSUME NEW w \in Worker, InlineBudget(w) PROVE TypeOK' /\ JobsFit'
  <2>1. job[w] \in Locals /\ Fit("inline", job[w])
    BY <1>10, HeldType DEF InlineBudget, JobsFit
  <2>2. Fit("park", job[w]) /\ "park" \in Labels  BY <2>1 DEF Fit, ShardSteps
  <2>3. job' = [job EXCEPT ![w] = job[w]]  BY <1>10 DEF InlineBudget, TypeOK
  <2>4. job' \in [Worker -> Locals] /\ pc' \in [Worker -> Labels] /\ JobsFit'
    BY <1>10, <2>1, <2>2, <2>3, WorkerStep DEF InlineBudget
  <2>5. shop' \in Shop /\ peak' \in Estimates
    BY <1>10, <2>1, RaiseType, TotalType DEF InlineBudget, Locals
  <2> QED  BY <1>10, <2>4, <2>5 DEF InlineBudget, TypeOK
<1>11. ASSUME NEW w \in Worker, WalkDone(w) PROVE TypeOK' /\ JobsFit'
  <2> DEFINE r == job[w].run
             s == job[w].walk[2]
  <2>1. job[w] \in Locals /\ job[w].walk \in Run \X Shard /\ Fit("walk", job[w])
    BY <1>11, HeldType DEF WalkDone, JobsFit, Fit, ShardSteps
  <2>2. r \in Run /\ s \in Shard  BY <2>1 DEF Fit
  <2>3. Size[s] \in 0..Size[s]  BY <2>2
  <2>4. PICK n \in 0..Size[s] :
           job' = [job EXCEPT ![w].count = n]
    BY <1>11, WalkDoneLocals
  <2> DEFINE j == [job[w] EXCEPT !.count = n]
  <2>10. Size[s] \in Nat /\ n \in Nat  BY <2>2
  <2>5. j \in Locals  BY <2>1, <2>10 DEF Locals
  <2>6. Fit("hset", j) /\ "hset" \in Labels  BY <2>1, <2>2 DEF Fit, Locals, ShardSteps
  <2>7. job' = [job EXCEPT ![w] = j]  BY <2>1, <2>4 DEF TypeOK, Locals
  <2>8. stash' \in [Run -> SUBSET Shard] /\ faults' \in Nat
    <3>1. stash' = stash \/ stash' = [stash EXCEPT ![r] = @ \cup {s}]
      BY <1>11 DEF WalkDone
    <3>2. faults' \in Nat  BY <1>11 DEF WalkDone, Fault, TypeOK
    <3> QED  BY <2>2, <3>1, <3>2 DEF TypeOK
  <2> HIDE DEF j
  <2>9. job' \in [Worker -> Locals] /\ pc' \in [Worker -> Labels] /\ JobsFit'
    BY <1>11, <2>5, <2>6, <2>7, WorkerStep DEF WalkDone
  <2> QED  BY <1>11, <2>8, <2>9 DEF WalkDone, TypeOK
<1>12. ASSUME NEW w \in Worker, RecordCount(w) PROVE TypeOK' /\ JobsFit'
  <2>1. /\ job[w] \in Locals /\ job[w].walk \in Run \X Shard /\ Fit("hset", job[w])
        /\ job[w].run = job[w].walk[1] /\ job[w].count \in 0..Size[job[w].walk[2]]
    BY <1>12, HeldType DEF RecordCount, JobsFit, Fit, ShardSteps
  <2>2. Fit("decr", job[w]) /\ "decr" \in Labels  BY <2>1 DEF Fit, ShardSteps
  <2>3. job' = [job EXCEPT ![w] = job[w]]  BY <1>12 DEF RecordCount, TypeOK
  <2>4. job' \in [Worker -> Locals] /\ pc' \in [Worker -> Labels] /\ JobsFit'
    BY <1>12, <2>1, <2>2, <2>3, WorkerStep DEF RecordCount
  <2>5. [counts[job[w].run] EXCEPT ![job[w].walk[2]] = job[w].count] \in Tally
    BY <2>1, TallyUpdate DEF TypeOK
  <2>6. counts' \in [Run -> Tally]
    BY <1>12, <2>1, <2>5 DEF RecordCount, TypeOK
  <2> QED  BY <1>12, <2>4, <2>6 DEF RecordCount, TypeOK
<1>13. ASSUME NEW w \in Worker, Decrement(w) PROVE TypeOK' /\ JobsFit'
  <2>1. /\ job[w] \in Locals /\ job[w].walk \in Run \X Shard /\ Fit("decr", job[w])
        /\ job[w].run = job[w].walk[1]
    BY <1>13, HeldType DEF Decrement, JobsFit, Fit, ShardSteps
  <2>2. job' \in [Worker -> Locals] /\ pc' \in [Worker -> Labels] /\ JobsFit'
    <3>1. CASE Return(w)  BY <3>1, ReturnStep
    <3>2. CASE Goto(w, "hvals") /\ UNCHANGED job
      <4>1. Fit("hvals", job[w]) /\ "hvals" \in Labels  BY <2>1 DEF Fit, ShardSteps
      <4>2. job' = [job EXCEPT ![w] = job[w]]  BY <3>2 DEF TypeOK
      <4> QED  BY <2>1, <3>2, <4>1, <4>2, WorkerStep
    <3> QED  BY <1>13, <3>1, <3>2 DEF Decrement
  <2>3. /\ pending' \in [Run -> Int] /\ blurred' \subseteq Run
        /\ ticked' \in [Run -> SUBSET Shard]
    BY <1>13, <2>1 DEF Decrement, TypeOK
  <2> QED  BY <1>13, <2>2, <2>3 DEF Decrement, TypeOK
<1>14. ASSUME NEW w \in Worker, AddUp(w) PROVE TypeOK' /\ JobsFit'
  <2> DEFINE j == [job[w] EXCEPT !.total = Total(counts[job[w].run])]
  <2>1. job[w] \in Locals /\ Fit("hvals", job[w]) /\ job[w].run \in Run
    BY <1>14, HeldType DEF AddUp, JobsFit, Fit, ShardSteps
  <2>2. Total(counts[job[w].run]) \in Estimates  BY <2>1, TotalType DEF TypeOK
  <2>3. j \in Locals /\ Fit("load", j) /\ "load" \in Labels
    BY <2>1, <2>2 DEF Locals, Fit, ShardSteps
  <2>4. job' = [job EXCEPT ![w] = j]  BY <1>14, <2>1 DEF AddUp, TypeOK, Locals
  <2> HIDE DEF j
  <2>5. job' \in [Worker -> Locals] /\ pc' \in [Worker -> Labels] /\ JobsFit'
    BY <1>14, <2>3, <2>4, WorkerStep DEF AddUp
  <2> QED  BY <1>14, <2>5 DEF AddUp, TypeOK
<1>15. ASSUME NEW w \in Worker, LoadShop(w) PROVE TypeOK' /\ JobsFit'
  <2> DEFINE j == [job[w] EXCEPT !.seen = shop]
  <2>1. job[w] \in Locals /\ Fit("load", job[w])
    BY <1>15, HeldType DEF LoadShop, JobsFit
  <2>2. j \in Locals /\ Fit("estimate", j) /\ "estimate" \in Labels
    BY <2>1 DEF Locals, Fit, ShardSteps, TypeOK
  <2>3. job' = [job EXCEPT ![w] = j]  BY <1>15 DEF LoadShop, TypeOK, Locals
  <2> HIDE DEF j
  <2>4. job' \in [Worker -> Locals] /\ pc' \in [Worker -> Labels] /\ JobsFit'
    BY <1>15, <2>2, <2>3, WorkerStep DEF LoadShop
  <2> QED  BY <1>15, <2>4 DEF LoadShop, TypeOK
<1>16. ASSUME NEW w \in Worker, WriteEstimate(w) PROVE TypeOK' /\ JobsFit'
  <2>1. job[w] \in Locals /\ Fit("estimate", job[w]) /\ job[w].walk \in Walk
    BY <1>16, HeldType DEF WriteEstimate, JobsFit
  <2>2. shop' \in Shop /\ peak' \in Estimates
    BY <1>16, <2>1, RaiseType DEF WriteEstimate, Locals
  <2>3. job' \in [Worker -> Locals] /\ pc' \in [Worker -> Labels] /\ JobsFit'
    <3>1. CASE Return(w)  BY <3>1, ReturnStep
    <3>2. CASE job[w].walk # Coordinator /\ Goto(w, "members") /\ UNCHANGED job
      <4>1. Fit("members", job[w]) /\ "members" \in Labels
        BY <2>1, <3>2 DEF Fit, ShardSteps, Walk
      <4>2. job' = [job EXCEPT ![w] = job[w]]  BY <3>2 DEF TypeOK
      <4> QED  BY <2>1, <3>2, <4>1, <4>2, WorkerStep
    <3> QED  BY <1>16, <3>1, <3>2 DEF WriteEstimate
  <2> QED  BY <1>16, <2>2, <2>3 DEF WriteEstimate, TypeOK
<1>17. ASSUME NEW w \in Worker, ReadCategories(w) PROVE TypeOK' /\ JobsFit'
  <2> DEFINE j == [job[w] EXCEPT !.shards = stash[job[w].run]]
  <2>1. job[w] \in Locals /\ Fit("members", job[w]) /\ job[w].run \in Run
    BY <1>17, HeldType DEF ReadCategories, JobsFit, Fit, ShardSteps
  <2>2. j \in Locals /\ Fit("delete", j) /\ "delete" \in Labels
    BY <2>1 DEF Locals, Fit, ShardSteps, TypeOK
  <2>3. job' = [job EXCEPT ![w] = j]  BY <1>17 DEF ReadCategories, TypeOK, Locals
  <2> HIDE DEF j
  <2>4. job' \in [Worker -> Locals] /\ pc' \in [Worker -> Labels] /\ JobsFit'
    BY <1>17, <2>2, <2>3, WorkerStep DEF ReadCategories
  <2> QED  BY <1>17, <2>4 DEF ReadCategories, TypeOK
<1>18. ASSUME NEW w \in Worker, DeleteCategories(w) PROVE TypeOK' /\ JobsFit'
  <2>1. job[w] \in Locals /\ Fit("delete", job[w]) /\ job[w].run \in Run
    BY <1>18, HeldType DEF DeleteCategories, JobsFit, Fit, ShardSteps
  <2>2. Fit("publish", job[w]) /\ "publish" \in Labels  BY <2>1 DEF Fit, ShardSteps
  <2>3. job' = [job EXCEPT ![w] = job[w]]  BY <1>18 DEF DeleteCategories, TypeOK
  <2>4. job' \in [Worker -> Locals] /\ pc' \in [Worker -> Labels] /\ JobsFit'
    BY <1>18, <2>1, <2>2, <2>3, WorkerStep DEF DeleteCategories
  <2>5. stash' \in [Run -> SUBSET Shard]  BY <1>18 DEF DeleteCategories, TypeOK
  <2> QED  BY <1>18, <2>4, <2>5 DEF DeleteCategories, TypeOK
<1>19. ASSUME NEW w \in Worker, Publish(w) PROVE TypeOK' /\ JobsFit'
  <2>1. job[w] \in Locals  BY <1>19, HeldType DEF Publish
  <2>2. shop' \in Shop /\ peak' \in Estimates
    BY <1>19, <2>1, MergeType DEF Publish, Locals
  <2> QED  BY <1>19, <2>2, ReturnStep DEF Publish, TypeOK
<1>20. CASE RetryTick
  <2>1. CASE RetryRead  BY <2>1 DEF RetryRead, TypeOK, JobsFit
  <2>2. CASE RetrySend
    <3>1. PICK k \in Walk : Send(k, retry.entries[k]) /\ retry' = [retry EXCEPT !.at = k]
      BY <2>2 DEF RetrySend
    <3>2. retry.entries[k] \in 0..MaxAttempts  BY DEF TypeOK
    <3>3. queue' \in [Message -> Nat]  BY <3>1, <3>2, SendType
    <3> QED  BY <2>2, <3>1, <3>3 DEF RetrySend, TypeOK, JobsFit
  <2>3. CASE RetryDelete  BY <2>3 DEF RetryDelete, TypeOK, JobsFit
  <2> QED  BY <1>20, <2>1, <2>2, <2>3 DEF RetryTick
<1>21. ASSUME NEW w \in Worker, Crash(w) PROVE TypeOK' /\ JobsFit'
  <2>1. queue' \in [Message -> Nat]  BY <1>21, HeldType, SendType DEF Crash
  <2> QED  BY <1>21, <2>1, ReturnStep DEF Crash, Fault, TypeOK
<1>22. ASSUME NEW w \in Worker, Overtime(w) PROVE TypeOK' /\ JobsFit'
  <2>1. queue' \in [Message -> Nat]  BY <1>22, HeldType, SendType DEF Overtime
  <2> QED  BY <1>22, <2>1 DEF Overtime, Fault, TypeOK, JobsFit
<1>23. ASSUME NEW w \in Worker, Fails(w) \/ LosesRedis(w) PROVE TypeOK' /\ JobsFit'
  <2>1. pc[w] # "idle" /\ Return(w) /\ dropped' = dropped \cup {job[w].walk} /\ faults' = faults + 1
    BY <1>23 DEF Fails, LosesRedis, Drop, Fault
  <2> QED  BY <1>23, <2>1, HeldType, ReturnStep DEF Fails, LosesRedis, TypeOK
<1>24. CASE RetryDies
  BY <1>24 DEF RetryDies, Fault, NoEntries, TypeOK, JobsFit
<1>25. ASSUME NEW r \in Run, Lapse(r) PROVE TypeOK' /\ JobsFit'
  BY <1>25, Blank DEF Lapse, Fault, TypeOK, JobsFit
<1>26. CASE UNCHANGED vars
  BY <1>26 DEF vars, TypeOK, JobsFit
<1> QED
  BY <1>1, <1>2, <1>3, <1>4, <1>5, <1>6, <1>7, <1>8, <1>9, <1>10, <1>11, <1>12, <1>13, <1>14,
     <1>15, <1>16, <1>17, <1>18, <1>19, <1>20, <1>21, <1>22, <1>23, <1>24, <1>25, <1>26
  DEF Next, Work, Coordinate, WalkShard, Finish

\* Type correctness, for every value of the constants.
THEOREM TypeCorrect == Spec => []TypeOK
<1>1. Init => TypeOK /\ JobsFit  BY TypeInit
<1>2. TypeOK /\ JobsFit /\ [Next]_vars => (TypeOK /\ JobsFit)'  BY TypeNext
<1> QED  BY <1>1, <1>2, PTL DEF Spec

-----------------------------------------------------------------------------
(***************************************************************************)
(* No shard is lost.                                                       *)
(***************************************************************************)

\* Whoever does the duties of the last shard has decremented.
FinishersTicked == \A w \in Worker : Finishing(w) => job[w].walk[2] \in ticked[job[w].walk[1]]

\* While the retry tick is between sending a walk and deleting its entry, the
\* entry is not what keeps the walk.
ResentOnItsWay == retry.at \in sent => OnItsWay(retry.at)

\* The retry tick deletes an entry before its walk can be parked again.
NoOvertake == "overtake" \notin Events

LEMMA HistoryGrows ==
    ASSUME TypeOK, JobsFit, [Next]_vars
    PROVE  /\ \A r \in Run : ticked[r] \subseteq ticked'[r]
           /\ dropped \subseteq dropped'
<1> USE DEF redisVars, historyVars
<1>1. ASSUME NEW w \in Worker, Decrement(w)
      PROVE  (\A r \in Run : ticked[r] \subseteq ticked'[r]) /\ dropped \subseteq dropped'
  BY <1>1 DEF Decrement, TypeOK
<1>2. CASE UNCHANGED ticked /\ dropped \subseteq dropped'  BY <1>2
<1>3. CASE UNCHANGED vars  BY <1>3 DEF vars
<1> QED
  BY <1>1, <1>2, <1>3
  DEF Next, Work, Coordinate, WalkShard, Finish, RetryTick, Request, Take, OutOfBudget, Park, Drop,
      StartRun, SendShard, SentAll, StartInline, InlineDone, InlineBudget, WalkDone, RecordCount,
      AddUp, LoadShop, WriteEstimate, ReadCategories, DeleteCategories, Publish,
      RetryRead, RetrySend, RetryDelete, Crash, Overtime, Fails, LosesRedis, RetryDies, Lapse

LEMMA QueuedStaysQueued ==
    ASSUME TypeOK, JobsFit, [Next]_vars, NEW m \in Message, queue[m] > 0
    PROVE  \/ queue'[m] > 0
           \/ \E w \in Worker : pc'[w] # "idle" /\ job'[w].walk = m.walk
<1> USE DEF redisVars, historyVars
<1>1. ASSUME NEW k, NEW n, Send(k, n) PROVE queue'[m] > 0
  <2>1. queue[m] \in Nat /\ queue \in [Message -> Nat]  BY DEF TypeOK
  <2>2. CASE m = Envelope(k, n)  BY <1>1, <2>1, <2>2 DEF Send
  <2>3. CASE m # Envelope(k, n)  BY <1>1, <2>1, <2>3 DEF Send
  <2> QED  BY <2>2, <2>3
<1>2. ASSUME NEW w \in Worker, Take(w)
      PROVE  queue'[m] > 0 \/ \E v \in Worker : pc'[v] # "idle" /\ job'[v].walk = m.walk
  <2>1. PICK n \in Message :
           /\ queue[n] > 0
           /\ queue' = [queue EXCEPT ![n] = @ - 1]
           /\ job' = [job EXCEPT ![w] =
                        [NoJob EXCEPT !.walk = n.walk, !.attempts = n.attempts,
                                      !.run = IF n.walk = Coordinator THEN NoRun ELSE n.walk[1]]]
           /\ pc' = [pc EXCEPT ![w] = IF n.walk = Coordinator THEN "resolve" ELSE "walk"]
    BY <1>2 DEF Take, Goto
  <2>2. CASE n = m
    <3>1. pc'[w] # "idle"  BY <2>1 DEF TypeOK
    <3>2. job'[w].walk = m.walk  BY <2>1, <2>2, Blank DEF TypeOK, Locals, NoJob
    <3> QED  BY <3>1, <3>2
  <2>3. CASE n # m  BY <2>1, <2>3 DEF TypeOK
  <2> QED  BY <2>2, <2>3
<1>3. CASE UNCHANGED queue  BY <1>3
<1>4. CASE UNCHANGED vars  BY <1>4 DEF vars
<1> QED
  BY <1>1, <1>2, <1>3, <1>4
  DEF Next, Work, Coordinate, WalkShard, Finish, RetryTick, Request, OutOfBudget, Park,
      StartRun, SendShard, SentAll, StartInline, InlineDone, InlineBudget, WalkDone, RecordCount,
      Decrement, AddUp, LoadShop, WriteEstimate, ReadCategories, DeleteCategories, Publish,
      RetryRead, RetrySend, RetryDelete, Crash, Overtime, Fails, LosesRedis, RetryDies, Lapse

\* A worker's step leaves the other workers alone.
LEMMA OthersStay ==
    ASSUME TypeOK, NEW v \in Worker, NEW w \in Worker, w # v,
           Work(w) \/ Crash(w) \/ Overtime(w) \/ Fails(w) \/ LosesRedis(w)
    PROVE  job'[v] = job[v] /\ pc'[v] = pc[v]
  BY ZenonT(40) DEF Work, Coordinate, WalkShard, Finish, TypeOK, Return, Goto, Take, OutOfBudget, Park,
         StartRun, SendShard, SentAll, StartInline, InlineDone, InlineBudget, WalkDone, RecordCount,
         Decrement, AddUp, LoadShop, WriteEstimate, ReadCategories, DeleteCategories, Publish,
         Crash, Overtime, Fails, LosesRedis

\* Whoever does the last shard's duties did them before, or has just found no
\* positive counter.
LEMMA FinishingMoves ==
    ASSUME TypeOK, JobsFit, [Next]_vars, NEW v \in Worker, Finishing(v)'
    PROVE  \/ Finishing(v) /\ job'[v].walk = job[v].walk
           \/ Decrement(v) /\ job'[v] = job[v] /\ pending[job[v].run] - 1 <= 0
<1> USE DEF redisVars, historyVars, Goto, Finishing
<1>1. Finishing(v)'  OBVIOUS
<1>3. CASE Decrement(v)
  <2>1. pending[job[v].run] - 1 \in Int
    BY <1>3, HeldType DEF Decrement, TypeOK, JobsFit, Fit, ShardSteps
  <2>2. ~(pending[job[v].run] - 1 > 0) /\ UNCHANGED job
    BY <1>1, <1>3 DEF Decrement, Return, TypeOK
  <2> QED  BY <1>3, <2>1, <2>2
<1>4. ASSUME Work(v), ~Decrement(v)
      PROVE  Finishing(v) /\ job'[v].walk = job[v].walk
  <2>1. CASE InlineDone(v) \/ StartInline(v) \/ InlineBudget(v)
    <3>1. job[v].walk = Coordinator
      BY <2>1 DEF InlineDone, StartInline, InlineBudget, JobsFit, Fit
    <3>2. job'[v].walk = Coordinator
      BY <2>1, <3>1 DEF InlineDone, StartInline, InlineBudget, TypeOK, Locals
    <3> QED  BY <1>1, <3>2
  <2>2. CASE Take(v) \/ OutOfBudget(v) \/ Park(v) \/ StartRun(v) \/ SendShard(v) \/ SentAll(v)
             \/ WalkDone(v) \/ RecordCount(v)
    <3>1. pc'[v] \notin {"hvals", "load", "estimate", "members", "delete", "publish"}
      BY <2>2 DEF Take, OutOfBudget, Park, StartRun, SendShard, SentAll, WalkDone, RecordCount,
                  Return, TypeOK
    <3> QED  BY <1>1, <3>1
  <2>3. CASE AddUp(v) \/ LoadShop(v) \/ WriteEstimate(v) \/ ReadCategories(v) \/ DeleteCategories(v)
    <3>1. job'[v].walk = job[v].walk
      BY <1>1, <2>3 DEF AddUp, LoadShop, WriteEstimate, ReadCategories, DeleteCategories,
                        Return, TypeOK, Locals
    <3> QED
      BY <1>1, <2>3, <3>1 DEF AddUp, LoadShop, WriteEstimate, ReadCategories, DeleteCategories
  <2>4. ~Publish(v)  BY <1>1 DEF Publish, Return, TypeOK
  <2> QED  BY <1>4, <2>1, <2>2, <2>3, <2>4 DEF Work, Coordinate, WalkShard, Finish
<1>5. ASSUME NEW w \in Worker, w # v, Work(w) \/ Crash(w) \/ Overtime(w) \/ Fails(w) \/ LosesRedis(w)
      PROVE  Finishing(v) /\ job'[v].walk = job[v].walk
  BY <1>1, <1>5, OthersStay
<1>6. ASSUME Crash(v) \/ Fails(v) \/ LosesRedis(v) PROVE FALSE
  BY <1>1, <1>6 DEF Crash, Fails, LosesRedis, Return, TypeOK
<1>7. ASSUME UNCHANGED <<pc, job>> PROVE Finishing(v) /\ job'[v].walk = job[v].walk
  BY <1>1, <1>7
<1>8. CASE Request \/ RetryTick \/ RetryDies \/ Overtime(v) \/ UNCHANGED vars
           \/ \E r \in Run : Lapse(r)
  BY <1>8, <1>7
  DEF Request, RetryTick, RetryRead, RetrySend, RetryDelete, RetryDies, Overtime, Lapse, vars
<1> QED  BY <1>3, <1>4, <1>5, <1>6, <1>8 DEF Next

LEMMA FinishersTickedStep ==
    ASSUME TypeOK, JobsFit, FinishersTicked, [Next]_vars
    PROVE  FinishersTicked'
<1>1. SUFFICES ASSUME NEW v \in Worker, Finishing(v)'
               PROVE  job'[v].walk[2] \in ticked'[job'[v].walk[1]]
  BY DEF FinishersTicked
<1>2. CASE Finishing(v) /\ job'[v].walk = job[v].walk
  <2>1. job[v].walk[1] \in Run
    BY <1>2 DEF Finishing, JobsFit, Fit, TypeOK, Locals, Walk
  <2> QED  BY <1>2, <2>1, HistoryGrows DEF FinishersTicked
<1>3. CASE Decrement(v) /\ job'[v] = job[v]
  <2>1. job[v].walk \in Run \X Shard /\ job[v].run = job[v].walk[1]
    BY <1>3 DEF Decrement, JobsFit, Fit, ShardSteps
  <2> QED  BY <1>3, <2>1 DEF Decrement, TypeOK
<1> QED  BY <1>1, <1>2, <1>3, FinishingMoves

\* A shard's walk in a worker's hands stays there, goes back to the queue, is
\* recorded, given up or parked.
LEMMA HeldStays ==
    ASSUME TypeOK, JobsFit, FinishersTicked, NoOvertake, [Next]_vars,
           NEW k \in Run \X Shard, NEW w \in Worker, pc[w] # "idle", job[w].walk = k
    PROVE  OnItsWay(k)' \/ (parked'[k] > 0 /\ retry'.at # k)
<1> USE ConstantsAssumption DEF redisVars, historyVars, Goto
<1> DEFINE Held == pc'[w] # "idle" /\ job'[w].walk = k
<1>1. ASSUME NEW v \in Worker, v # w, Work(v) \/ Crash(v) \/ Overtime(v) \/ Fails(v) \/ LosesRedis(v)
      PROVE  Held
  BY <1>1, OthersStay
<1>2. k # Coordinator /\ k \in Walk /\ job[w].attempts \in 0..MaxAttempts /\ job[w].run = k[1]
      /\ job[w] \in Locals
  BY DEF Walk, TypeOK, Locals, JobsFit, Fit
<1>3. CASE OutOfBudget(w) \/ WalkDone(w) \/ RecordCount(w) \/ AddUp(w) \/ LoadShop(w)
           \/ WriteEstimate(w) \/ ReadCategories(w) \/ DeleteCategories(w) \/ Overtime(w)
  <2>1. CASE WalkDone(w)
    <3>1. PICK n : job' = [job EXCEPT ![w].count = n]
      BY <2>1, WalkDoneLocals
    <3>2. job'[w].walk = k  BY <1>2, <3>1 DEF TypeOK, Locals
    <3>3. pc'[w] # "idle"  BY <2>1 DEF WalkDone, TypeOK
    <3> QED  BY <3>2, <3>3 DEF OnItsWay
  <2>2. CASE AddUp(w) \/ LoadShop(w) \/ ReadCategories(w)
    BY <1>2, <2>2 DEF AddUp, LoadShop, ReadCategories, TypeOK, Locals, OnItsWay
  <2>3. CASE OutOfBudget(w) \/ RecordCount(w) \/ WriteEstimate(w) \/ DeleteCategories(w) \/ Overtime(w)
    <3>1. Held
      BY <1>2, <2>3 DEF OutOfBudget, RecordCount, WriteEstimate, DeleteCategories, Overtime, TypeOK
    <3> QED  BY <3>1 DEF OnItsWay
  <2> QED  BY <1>3, <2>1, <2>2, <2>3
<1>4. CASE Park(w)
  <2>1. retry'.at # k  BY <1>4 DEF Park, NoOvertake
  <2>2. k \in dropped' \/ parked'[k] > 0  BY <1>2, <1>4 DEF Park, Drop, TypeOK
  <2> QED  BY <2>1, <2>2 DEF OnItsWay
<1>5. CASE Decrement(w)
  <2>1. k[2] \in ticked'[k[1]]  BY <1>2, <1>5 DEF Decrement, TypeOK
  <2> QED  BY <2>1 DEF OnItsWay
<1>6. CASE Publish(w)
  <2>1. Finishing(w)  BY <1>2, <1>6 DEF Publish, Finishing
  <2>2. k[2] \in ticked'[k[1]]  BY <2>1, HistoryGrows DEF FinishersTicked
  <2> QED  BY <2>2 DEF OnItsWay
<1>7. CASE Crash(w)
  <2>1. Envelope(k, job[w].attempts) \in Message  BY <1>2 DEF Envelope, Message
  <2>2. queue'[Envelope(k, job[w].attempts)] > 0
    BY <1>7, <2>1 DEF Crash, Send, TypeOK
  <2> QED  BY <1>2, <2>2 DEF OnItsWay
<1>8. CASE Fails(w) \/ LosesRedis(w)
  BY <1>8 DEF Fails, LosesRedis, Drop, OnItsWay
<1>9. ~Coordinate(w) /\ ~Take(w)
  BY <1>2
  DEF Coordinate, StartRun, SendShard, SentAll, StartInline, InlineDone, InlineBudget, Take, JobsFit, Fit
<1>10. CASE Request \/ RetryTick \/ RetryDies \/ UNCHANGED vars \/ \E r \in Run : Lapse(r)
  <2>1. Held
    BY <1>10 DEF Request, RetryTick, RetryRead, RetrySend, RetryDelete, RetryDies, Lapse, vars
  <2> QED  BY <2>1 DEF OnItsWay
<1>11. ASSUME Held PROVE OnItsWay(k)'  BY <1>11 DEF OnItsWay
<1> QED
  BY <1>1, <1>3, <1>4, <1>5, <1>6, <1>7, <1>8, <1>9, <1>10, <1>11
  DEF Next, Work, WalkShard, Finish

LEMMA OnItsWayStays ==
    ASSUME TypeOK, JobsFit, FinishersTicked, NoOvertake, [Next]_vars,
           NEW k \in Run \X Shard, OnItsWay(k)
    PROVE  OnItsWay(k)' \/ (parked'[k] > 0 /\ retry'.at # k)
<1>1. CASE k[2] \in ticked[k[1]] \/ k \in dropped
  BY <1>1, HistoryGrows DEF OnItsWay
<1>2. ASSUME NEW n \in 0..MaxAttempts, queue[Envelope(k, n)] > 0 PROVE OnItsWay(k)'
  <2>1. Envelope(k, n) \in Message /\ Envelope(k, n).walk = k  BY DEF Envelope, Message, Walk
  <2> QED  BY <1>2, <2>1, QueuedStaysQueued DEF OnItsWay
<1>3. ASSUME NEW w \in Worker, pc[w] # "idle", job[w].walk = k
      PROVE  OnItsWay(k)' \/ (parked'[k] > 0 /\ retry'.at # k)
  BY <1>3, HeldStays
<1> QED  BY <1>1, <1>2, <1>3 DEF OnItsWay

\* With NoOvertake, the strengthening of NoShardLost that a step preserves.
KeptWalks == NoShardLost /\ ResentOnItsWay /\ FinishersTicked

LEMMA KeptWalksStep ==
    ASSUME NoOvertake, TypeOK, JobsFit, KeptWalks, [Next]_vars
    PROVE  KeptWalks'
<1> USE ConstantsAssumption DEF redisVars, historyVars, Goto
<1>1. FinishersTicked'  BY FinishersTickedStep DEF KeptWalks
<1>2. ASSUME NEW k \in sent', k \notin sent PROVE OnItsWay(k)'
  <2>1. PICK w \in Worker : SendShard(w)
    BY <1>2
    DEF Next, Work, Coordinate, WalkShard, Finish, RetryTick, Request, Take, OutOfBudget, Park,
        StartRun, SentAll, StartInline, InlineDone, InlineBudget, WalkDone, RecordCount, Decrement,
        AddUp, LoadShop, WriteEstimate, ReadCategories, DeleteCategories, Publish, RetryRead, RetrySend,
        RetryDelete, Crash, Overtime, Fails, LosesRedis, RetryDies, Lapse, vars
  <2>2. Send(k, 0) /\ k \in Run \X Shard
    <3>1. PICK s \in job[w].shards :
             Send(<<job[w].run, s>>, 0) /\ sent' = sent \cup {<<job[w].run, s>>}
      BY <2>1 DEF SendShard
    <3>2. k = <<job[w].run, s>>  BY <1>2, <3>1
    <3>3. job[w].run \in Run /\ s \in Shard
      BY <2>1, <3>1 DEF SendShard, JobsFit, Fit, TypeOK, Locals
    <3> QED  BY <3>1, <3>2, <3>3
  <2>3. Envelope(k, 0) \in Message  BY <2>2 DEF Envelope, Message, Walk
  <2>4. queue'[Envelope(k, 0)] > 0  BY <2>2, <2>3 DEF Send, TypeOK
  <2> QED  BY <2>4 DEF OnItsWay
<1>3. ASSUME NEW k \in sent, OnItsWay(k) PROVE OnItsWay(k)' \/ (parked'[k] > 0 /\ retry'.at # k)
  BY <1>3, OnItsWayStays DEF TypeOK, KeptWalks
<1>4. ASSUME NEW k \in sent, parked[k] > 0, ~OnItsWay(k) PROVE parked'[k] > 0
  <2>1. k \in Walk /\ retry.at # k
    BY <1>4 DEF TypeOK, Walk, KeptWalks, ResentOnItsWay
  <2>2. CASE RetryDelete  BY <1>4, <2>1, <2>2 DEF RetryDelete, TypeOK
  <2>3. ASSUME NEW w \in Worker, Park(w) PROVE parked'[k] > 0
    <3>1. job[w].attempts \in 0..MaxAttempts  BY <2>3, HeldType DEF Park
    <3> QED  BY <1>4, <2>1, <2>3, <3>1 DEF Park, TypeOK
  <2>4. CASE UNCHANGED parked  BY <1>4, <2>4
  <2> QED
    BY <2>2, <2>3, <2>4
    DEF Next, Work, Coordinate, WalkShard, Finish, RetryTick, Request, Take, OutOfBudget,
        StartRun, SendShard, SentAll, StartInline, InlineDone, InlineBudget, WalkDone, RecordCount,
        Decrement, AddUp, LoadShop, WriteEstimate, ReadCategories, DeleteCategories, Publish, RetryRead,
        RetrySend, Crash, Overtime, Fails, LosesRedis, RetryDies, Lapse, vars
<1>5. NoShardLost'
  BY <1>2, <1>3, <1>4 DEF KeptWalks, NoShardLost
<1>6. ResentOnItsWay'
  <2>1. SUFFICES ASSUME retry'.at \in sent', retry'.at \in sent PROVE OnItsWay(retry.at)'
    BY <1>2 DEF ResentOnItsWay
  <2>2. CASE retry'.at = retry.at
    BY <2>1, <2>2, <1>3 DEF KeptWalks, ResentOnItsWay
  <2>3. CASE RetrySend
    <3>1. PICK k \in Walk : Send(k, retry.entries[k]) /\ retry' = [retry EXCEPT !.at = k]
      BY <2>3 DEF RetrySend
    <3>2. retry'.at = k /\ retry.entries[k] \in 0..MaxAttempts  BY <3>1 DEF TypeOK
    <3>3. Envelope(k, retry.entries[k]) \in Message  BY <3>2 DEF Envelope, Message
    <3>4. queue'[Envelope(k, retry.entries[k])] > 0  BY <3>1, <3>3 DEF Send, TypeOK
    <3> QED  BY <3>2, <3>4 DEF OnItsWay
  <2>4. CASE RetryDelete \/ RetryDies
    BY <2>1, <2>4 DEF RetryDelete, RetryDies, TypeOK, Walk
  <2>5. CASE RetryRead  BY <2>2, <2>5 DEF RetryRead, TypeOK
  <2> QED
    BY <2>2, <2>3, <2>4, <2>5, ZenonT(40)
    DEF Next, Work, Coordinate, WalkShard, Finish, RetryTick, Request, Take, OutOfBudget, Park,
        StartRun, SendShard, SentAll, StartInline, InlineDone, InlineBudget, WalkDone, RecordCount,
        Decrement, AddUp, LoadShop, WriteEstimate, ReadCategories, DeleteCategories, Publish,
        Crash, Overtime, Fails, LosesRedis, Lapse, vars
<1> QED  BY <1>1, <1>5, <1>6 DEF KeptWalks

\* However often its task is redelivered, parked, sent again or dies, a shard
\* that was sent is recorded, on its way or parked, as long as the retry tick
\* deletes an entry before the walk it sent is parked again.
THEOREM NothingLost ==
    ASSUME NoOvertake
    PROVE  Spec => []NoShardLost
<1>1. Init => TypeOK /\ JobsFit /\ KeptWalks
  <2>1. Init => KeptWalks
    BY DEF Init, KeptWalks, NoShardLost, ResentOnItsWay, FinishersTicked, Finishing
  <2> QED  BY <2>1, TypeInit
<1>2. TypeOK /\ JobsFit /\ KeptWalks /\ [Next]_vars => (TypeOK /\ JobsFit /\ KeptWalks)'
  BY TypeNext, KeptWalksStep
<1>3. KeptWalks => NoShardLost  BY DEF KeptWalks
<1> QED  BY <1>1, <1>2, <1>3, PTL DEF Spec

-----------------------------------------------------------------------------
(***************************************************************************)
(* The last shard sees all.                                                *)
(***************************************************************************)

\* Only a run that took its id has anything to its name.
QueueBegun == \A m \in Message : queue[m] > 0 /\ m.walk \in Run \X Shard => m.walk[1] \in begun
ParkedBegun == \A k \in Run \X Shard : parked[k] > 0 \/ retry.entries[k] > 0 => k[1] \in begun
JobsBegun == \A w \in Worker : job[w].walk \in Run \X Shard \/ pc[w] = "send" => job[w].run \in begun
TickedBegun == \A r \in Run \ begun : ticked[r] = {}
RunsBegun == QueueBegun /\ ParkedBegun /\ JobsBegun /\ TickedBegun

\* The counter is the number of shards that have not decremented it.
CounterCounts ==
    \A r \in begun \ blurred : pending[r] = Cardinality(Shard) - Cardinality(ticked[r])

\* Who decremented, or is about to, has stored its count.
CountedFirst ==
    /\ \A r \in Run \ blurred : \A s \in ticked[r] : counts[r][s] # NoCount
    /\ \A w \in Worker :
          pc[w] = "decr" /\ job[w].run \notin blurred => counts[job[w].run][job[w].walk[2]] # NoCount

\* The last shard is the last.
FinisherIsLast ==
    \A w \in Worker : Finishing(w) /\ job[w].run \notin blurred => ticked[job[w].run] = Shard

LEMMA RunsGrow ==
    ASSUME [Next]_vars PROVE begun \subseteq begun' /\ blurred \subseteq blurred'
<1> USE DEF redisVars, historyVars
<1>1. CASE UNCHANGED vars  BY <1>1 DEF vars
<1> QED
  BY <1>1, ZenonT(40)
  DEF Next, Work, Coordinate, WalkShard, Finish, RetryTick, Request, Take, OutOfBudget, Park,
      StartRun, SendShard, SentAll, StartInline, InlineDone, InlineBudget, WalkDone, RecordCount,
      Decrement, AddUp, LoadShop, WriteEstimate, ReadCategories, DeleteCategories, Publish,
      RetryRead, RetrySend, RetryDelete, Crash, Overtime, Fails, LosesRedis, RetryDies, Lapse

\* A worker goes on with its walk, returns, takes a message or starts a run.
LEMMA JobMoves ==
    ASSUME TypeOK, JobsFit, [Next]_vars, NEW v \in Worker
    PROVE  \/ job'[v].walk = job[v].walk /\ job'[v].run = job[v].run
           \/ job'[v] = NoJob /\ pc'[v] = "idle"
           \/ Take(v)
           \/ StartRun(v)
<1> USE DEF redisVars, historyVars, Goto
<1> DEFINE Same == job'[v].walk = job[v].walk /\ job'[v].run = job[v].run
           Back == job'[v] = NoJob /\ pc'[v] = "idle"
<1>1. ASSUME NEW w \in Worker, w # v, Work(w) \/ Crash(w) \/ Overtime(w) \/ Fails(w) \/ LosesRedis(w)
      PROVE  job'[v] = job[v]
  BY <1>1, OthersStay
<1>2. CASE Return(v)  BY <1>2 DEF Return, TypeOK
<1>3. CASE UNCHANGED job  BY <1>3
<1>4. CASE SendShard(v)
  <2>1. PICK S : job' = [job EXCEPT ![v].shards = S]  BY <1>4 DEF SendShard
  <2> QED  BY <2>1 DEF TypeOK, Locals
<1>5. CASE StartInline(v) \/ LoadShop(v)
  BY <1>5 DEF StartInline, LoadShop, TypeOK, Locals
<1>6. CASE InlineDone(v)
  <2>1. PICK x : job' = [job EXCEPT ![v].total = x]  BY <1>6 DEF InlineDone
  <2> QED  BY <2>1 DEF TypeOK, Locals
<1>7. CASE WalkDone(v)
  <2>1. PICK n : job' = [job EXCEPT ![v].count = n]
    BY <1>7, WalkDoneLocals
  <2> QED  BY <2>1 DEF TypeOK, Locals
<1>8. CASE AddUp(v)  BY <1>8 DEF AddUp, TypeOK, Locals
<1>9. CASE ReadCategories(v)  BY <1>9 DEF ReadCategories, TypeOK, Locals
<1>10. CASE Work(v)
  BY <1>2, <1>3, <1>4, <1>5, <1>6, <1>7, <1>8, <1>9, <1>10
  DEF Work, Coordinate, WalkShard, Finish, OutOfBudget, Park, SentAll, InlineBudget, RecordCount,
      Decrement, WriteEstimate, DeleteCategories, Publish
<1>11. CASE Crash(v) \/ Overtime(v) \/ Fails(v) \/ LosesRedis(v)
  BY <1>2, <1>3, <1>11 DEF Crash, Overtime, Fails, LosesRedis
<1>12. CASE Request \/ RetryTick \/ RetryDies \/ UNCHANGED vars \/ \E r \in Run : Lapse(r)
  BY <1>3, <1>12 DEF Request, RetryTick, RetryRead, RetrySend, RetryDelete, RetryDies, Lapse, vars
<1> QED  BY <1>1, <1>10, <1>11, <1>12 DEF Next

\* Only StartRun leads to "send".
LEMMA SendMoves ==
    ASSUME TypeOK, JobsFit, [Next]_vars, NEW v \in Worker, pc'[v] = "send", pc[v] # "send"
    PROVE  StartRun(v)
<1> USE DEF redisVars, historyVars, Goto
<1>1. ASSUME NEW w \in Worker, w # v, Work(w) \/ Crash(w) \/ Overtime(w) \/ Fails(w) \/ LosesRedis(w)
      PROVE  FALSE
  BY <1>1, OthersStay
<1>2. ASSUME Work(v), ~StartRun(v) PROVE FALSE
  BY <1>2
  DEF Work, Coordinate, WalkShard, Finish, TypeOK, Return, Take, OutOfBudget, Park,
      SendShard, SentAll, StartInline, InlineDone, InlineBudget, WalkDone, RecordCount,
      Decrement, AddUp, LoadShop, WriteEstimate, ReadCategories, DeleteCategories, Publish
<1>3. ~(Crash(v) \/ Overtime(v) \/ Fails(v) \/ LosesRedis(v))
  BY DEF Crash, Overtime, Fails, LosesRedis, Return, TypeOK
<1>4. ~(Request \/ RetryTick \/ RetryDies \/ UNCHANGED vars \/ \E r \in Run : Lapse(r))
  BY DEF Request, RetryTick, RetryRead, RetrySend, RetryDelete, RetryDies, Lapse, vars
<1> QED  BY <1>1, <1>2, <1>3, <1>4 DEF Next

LEMMA RunsBegunStep ==
    ASSUME TypeOK, JobsFit, RunsBegun, [Next]_vars
    PROVE  RunsBegun'
<1> USE ConstantsAssumption DEF redisVars, historyVars, RunsBegun
<1> DEFINE Begun(k) == k \in Run \X Shard => k[1] \in begun'
<1>1. begun \subseteq begun'  BY RunsGrow
<1>2. ASSUME NEW w \in Worker PROVE Begun(job[w].walk)
  BY <1>1 DEF JobsBegun, JobsFit, Fit
<1>3. QueueBegun'
  <2>1. SUFFICES ASSUME NEW m \in Message, queue'[m] > 0, ~(queue[m] > 0) PROVE Begun(m.walk)
    BY <1>1 DEF QueueBegun
  <2>2. ASSUME NEW k, NEW n, Send(k, n), Begun(k) PROVE Begun(m.walk)
    <3>1. CASE m = Envelope(k, n)  BY <2>2, <3>1 DEF Envelope
    <3>2. CASE m # Envelope(k, n)  BY <2>1, <2>2, <3>2 DEF Send, TypeOK
    <3> QED  BY <3>1, <3>2
  <2>3. CASE Request  BY <2>2, <2>3 DEF Request
  <2>4. ASSUME NEW w \in Worker, SendShard(w) PROVE Begun(m.walk)
    <3>1. PICK s : Send(<<job[w].run, s>>, 0)  BY <2>4 DEF SendShard
    <3>2. Begun(<<job[w].run, s>>)  BY <1>1, <2>4 DEF SendShard, JobsBegun
    <3> QED  BY <2>2, <3>1, <3>2
  <2>5. CASE RetrySend
    <3>1. PICK k \in Walk : retry.entries[k] > 0 /\ Send(k, retry.entries[k])  BY <2>5 DEF RetrySend
    <3>2. Begun(k)  BY <1>1, <3>1 DEF ParkedBegun
    <3> QED  BY <2>2, <3>1, <3>2
  <2>6. ASSUME NEW w \in Worker, Crash(w) \/ Overtime(w) PROVE Begun(m.walk)
    BY <1>2, <2>2, <2>6 DEF Crash, Overtime
  <2>7. ASSUME NEW w \in Worker, Take(w) PROVE FALSE
    BY <2>1, <2>7 DEF Take, TypeOK
  <2>8. CASE UNCHANGED queue  BY <2>1, <2>8
  <2>9. CASE UNCHANGED vars  BY <2>8, <2>9 DEF vars
  <2> HIDE DEF Begun
  <2> QED
    BY <2>3, <2>4, <2>5, <2>6, <2>7, <2>8, <2>9
    DEF Next, Work, Coordinate, WalkShard, Finish, RetryTick, OutOfBudget, Park,
        StartRun, SentAll, StartInline, InlineDone, InlineBudget, WalkDone, RecordCount,
        Decrement, AddUp, LoadShop, WriteEstimate, ReadCategories, DeleteCategories, Publish,
        RetryRead, RetryDelete, Fails, LosesRedis, RetryDies, Lapse
<1>4. ParkedBegun'
  <2>1. SUFFICES ASSUME NEW k \in Run \X Shard, parked'[k] > 0 \/ retry'.entries[k] > 0
                 PROVE  k[1] \in begun'
    BY DEF ParkedBegun
  <2>2. CASE parked[k] > 0 \/ retry.entries[k] > 0  BY <1>1, <2>2 DEF ParkedBegun
  <2>3. ASSUME NEW w \in Worker, Park(w) PROVE k[1] \in begun'
    <3>1. CASE k = job[w].walk  BY <1>2, <3>1
    <3>2. CASE k # job[w].walk
      <4>1. job[w].walk \in Walk /\ k \in Walk  BY <2>3, HeldType DEF Park, Walk
      <4>2. parked'[k] = parked[k] /\ retry' = retry  BY <2>3, <3>2, <4>1 DEF Park, TypeOK
      <4> QED  BY <2>1, <2>2, <4>2
    <3> QED  BY <3>1, <3>2
  <2>4. CASE RetryRead  BY <2>1, <2>2, <2>4 DEF RetryRead, TypeOK
  <2>5. CASE RetrySend  BY <2>1, <2>2, <2>5 DEF RetrySend, TypeOK
  <2>6. CASE RetryDelete
    <3>1. retry.at \in Walk /\ k \in Walk  BY <2>6 DEF RetryDelete, TypeOK, Walk
    <3> QED  BY <2>1, <2>2, <2>6, <3>1 DEF RetryDelete, TypeOK
  <2>7. CASE RetryDies  BY <2>1, <2>2, <2>7 DEF RetryDies, NoEntries, Walk
  <2>8. CASE UNCHANGED <<parked, retry>>  BY <2>1, <2>2, <2>8
  <2>9. CASE UNCHANGED vars  BY <2>8, <2>9 DEF vars
  <2> QED
    BY <2>3, <2>4, <2>5, <2>6, <2>7, <2>8, <2>9
    DEF Next, Work, Coordinate, WalkShard, Finish, RetryTick, Request, Take, OutOfBudget,
        StartRun, SendShard, SentAll, StartInline, InlineDone, InlineBudget, WalkDone, RecordCount,
        Decrement, AddUp, LoadShop, WriteEstimate, ReadCategories, DeleteCategories, Publish,
        Crash, Overtime, Fails, LosesRedis, Lapse
<1>5. JobsBegun'
  <2>1. SUFFICES ASSUME NEW v \in Worker, job'[v].walk \in Run \X Shard \/ pc'[v] = "send"
                 PROVE  job'[v].run \in begun'
    BY DEF JobsBegun
  <2>2. CASE Take(v)
    <3>1. PICK m \in Message :
             /\ queue[m] > 0
             /\ job' = [job EXCEPT ![v] =
                          [NoJob EXCEPT !.walk = m.walk, !.attempts = m.attempts,
                                        !.run = IF m.walk = Coordinator THEN NoRun ELSE m.walk[1]]]
             /\ pc' = [pc EXCEPT ![v] = IF m.walk = Coordinator THEN "resolve" ELSE "walk"]
      BY <2>2 DEF Take, Goto
    <3>2. job'[v].walk = m.walk /\ job'[v].run = IF m.walk = Coordinator THEN NoRun ELSE m.walk[1]
      BY <3>1, Blank DEF TypeOK, Locals
    <3>3. pc'[v] # "send"  BY <3>1 DEF TypeOK
    <3> QED  BY <1>1, <2>1, <3>1, <3>2, <3>3 DEF QueueBegun
  <2>3. CASE StartRun(v)
    <3>1. PICK r \in Run : begun' = begun \cup {r} /\ job' = [job EXCEPT ![v].run = r, ![v].shards = Shard]
      BY <2>3 DEF StartRun
    <3> QED  BY <3>1 DEF TypeOK, Locals
  <2>4. CASE job'[v] = NoJob /\ pc'[v] = "idle"
    BY <2>1, <2>4 DEF NoJob, Walk
  <2>5. CASE job'[v].walk = job[v].walk /\ job'[v].run = job[v].run
    <3>1. CASE job[v].walk \in Run \X Shard  BY <1>1, <2>5, <3>1 DEF JobsBegun
    <3>2. CASE pc'[v] = "send" /\ pc[v] = "send"  BY <1>1, <2>5, <3>2 DEF JobsBegun
    <3>3. CASE pc'[v] = "send" /\ pc[v] # "send"  BY <2>3, <3>3, SendMoves
    <3> QED  BY <2>1, <2>5, <3>1, <3>2, <3>3
  <2> QED  BY <2>2, <2>3, <2>4, <2>5, JobMoves
<1>6. TickedBegun'
  <2>1. ASSUME NEW w \in Worker, Decrement(w) PROVE TickedBegun'
    <3>1. job[w].run \in begun
      BY <2>1 DEF Decrement, JobsBegun, JobsFit, Fit, ShardSteps
    <3> QED  BY <2>1, <3>1 DEF Decrement, TypeOK, TickedBegun
  <2>2. CASE UNCHANGED ticked  BY <1>1, <2>2 DEF TickedBegun
  <2>3. CASE UNCHANGED vars  BY <2>2, <2>3 DEF vars
  <2> QED
    BY <2>1, <2>2, <2>3
    DEF Next, Work, Coordinate, WalkShard, Finish, RetryTick, Request, Take, OutOfBudget, Park,
        StartRun, SendShard, SentAll, StartInline, InlineDone, InlineBudget, WalkDone, RecordCount,
        AddUp, LoadShop, WriteEstimate, ReadCategories, DeleteCategories, Publish,
        RetryRead, RetrySend, RetryDelete, Crash, Overtime, Fails, LosesRedis, RetryDies, Lapse
<1> QED  BY <1>3, <1>4, <1>5, <1>6

LEMMA CounterCountsStep ==
    ASSUME TypeOK, JobsFit, RunsBegun, CounterCounts, [Next]_vars
    PROVE  CounterCounts'
<1> USE ConstantsAssumption DEF redisVars, historyVars
<1>1. SUFFICES ASSUME NEW r \in begun', r \notin blurred'
               PROVE  pending'[r] = Cardinality(Shard) - Cardinality(ticked'[r])
  BY DEF CounterCounts
<1>2. r \notin blurred  BY <1>1, RunsGrow
<1>3. ASSUME NEW w \in Worker, Decrement(w)
      PROVE  pending'[r] = Cardinality(Shard) - Cardinality(ticked'[r])
  <2> DEFINE q == job[w].run
             s == job[w].walk[2]
  <2>1. q \in begun /\ q \in Run /\ r \in begun /\ s \in Shard /\ ticked[r] \subseteq Shard
    BY <1>3 DEF Decrement, JobsFit, Fit, ShardSteps, RunsBegun, JobsBegun, TypeOK
  <2>2. pending[r] = Cardinality(Shard) - Cardinality(ticked[r])
    BY <1>2, <2>1 DEF CounterCounts
  <2>3. CASE r = q
    <3>1. s \notin ticked[r]  BY <1>1, <1>3, <2>3 DEF Decrement
    <3>2. pending'[r] = pending[r] - 1 /\ ticked'[r] = ticked[r] \cup {s}
      BY <1>3, <2>1, <2>3 DEF Decrement, TypeOK
    <3>3. IsFiniteSet(ticked[r])  BY <2>1, FS_Subset
    <3>4. Cardinality(ticked[r] \cup {s}) = Cardinality(ticked[r]) + 1
      BY <3>1, <3>3, FS_AddElement
    <3>5. Cardinality(ticked[r]) \in Nat /\ Cardinality(Shard) \in Nat
      BY <3>3, FS_CardinalityType
    <3> QED  BY <2>2, <3>2, <3>4, <3>5
  <2>4. CASE r # q
    <3>1. pending'[r] = pending[r] /\ ticked'[r] = ticked[r]
      BY <1>3, <2>1, <2>4 DEF Decrement, TypeOK
    <3> QED  BY <2>2, <3>1
  <2> QED  BY <2>3, <2>4
<1>4. ASSUME NEW w \in Worker, StartRun(w)
      PROVE  pending'[r] = Cardinality(Shard) - Cardinality(ticked'[r])
  <2>1. PICK q \in Run \ begun :
           /\ begun' = begun \cup {q}
           /\ \/ pending' = [pending EXCEPT ![q] = Cardinality(Shard)]
              \/ blurred' = blurred \cup {q} /\ UNCHANGED pending
    BY <1>4 DEF StartRun
  <2>2. ticked' = ticked  BY <1>4 DEF StartRun
  <2>3. CASE r = q
    <3>1. pending'[r] = Cardinality(Shard)  BY <1>1, <2>1, <2>3 DEF TypeOK
    <3>2. ticked'[r] = {}  BY <2>1, <2>2, <2>3 DEF RunsBegun, TickedBegun
    <3>3. Cardinality(Shard) \in Nat  BY FS_CardinalityType
    <3> QED  BY <3>1, <3>2, <3>3, FS_EmptySet
  <2>4. CASE r # q
    BY <1>1, <1>2, <2>1, <2>2, <2>4 DEF CounterCounts, TypeOK
  <2> QED  BY <2>3, <2>4
<1>5. ASSUME NEW q \in Run, Lapse(q)
      PROVE  pending'[r] = Cardinality(Shard) - Cardinality(ticked'[r])
  BY <1>1, <1>2, <1>5 DEF Lapse, CounterCounts, TypeOK
<1>6. CASE UNCHANGED <<pending, ticked, begun>>
  BY <1>1, <1>2, <1>6 DEF CounterCounts
<1>7. CASE UNCHANGED vars  BY <1>6, <1>7 DEF vars
<1> QED
  BY <1>3, <1>4, <1>5, <1>6, <1>7
  DEF Next, Work, Coordinate, WalkShard, Finish, RetryTick, Request, Take, OutOfBudget, Park,
      SendShard, SentAll, StartInline, InlineDone, InlineBudget, WalkDone, RecordCount,
      AddUp, LoadShop, WriteEstimate, ReadCategories, DeleteCategories, Publish,
      RetryRead, RetrySend, RetryDelete, Crash, Overtime, Fails, LosesRedis, RetryDies

\* A count that is stored stays, unless a key expires.
LEMMA CountsStay ==
    ASSUME TypeOK, JobsFit, [Next]_vars, NEW r \in Run \ blurred', NEW s \in Shard,
           counts[r][s] # NoCount
    PROVE  counts'[r][s] # NoCount
<1> USE ConstantsAssumption DEF redisVars, historyVars
<1>1. ASSUME NEW w \in Worker, RecordCount(w) PROVE counts'[r][s] # NoCount
  <2>1. /\ job[w].run \in Run /\ job[w].walk[2] \in Shard /\ job[w].count \in Nat
        /\ job[w].count # NoCount
    BY <1>1 DEF RecordCount, JobsFit, Fit, ShardSteps, NoCount
  <2>2. counts[r] \in [Shard -> UNION {Counted(t) : t \in Shard}]  BY DEF TypeOK, Tally
  <2> QED  BY <1>1, <2>1, <2>2 DEF RecordCount, TypeOK
<1>2. ASSUME NEW q \in Run, Lapse(q) PROVE counts'[r][s] # NoCount
  BY <1>2 DEF Lapse, TypeOK
<1>3. CASE UNCHANGED counts  BY <1>3
<1>4. CASE UNCHANGED vars  BY <1>3, <1>4 DEF vars
<1> QED
  BY <1>1, <1>2, <1>3, <1>4
  DEF Next, Work, Coordinate, WalkShard, Finish, RetryTick, Request, Take, OutOfBudget, Park,
      StartRun, SendShard, SentAll, StartInline, InlineDone, InlineBudget, WalkDone, Decrement,
      AddUp, LoadShop, WriteEstimate, ReadCategories, DeleteCategories, Publish,
      RetryRead, RetrySend, RetryDelete, Crash, Overtime, Fails, LosesRedis, RetryDies

\* Only RecordCount leads to "decr".
LEMMA DecrMoves ==
    ASSUME TypeOK, JobsFit, [Next]_vars, NEW v \in Worker, pc'[v] = "decr"
    PROVE  RecordCount(v) \/ (pc[v] = "decr" /\ job'[v] = job[v])
<1> USE DEF redisVars, historyVars, Goto
<1>1. ASSUME NEW w \in Worker, w # v, Work(w) \/ Crash(w) \/ Overtime(w) \/ Fails(w) \/ LosesRedis(w)
      PROVE  pc[v] = "decr" /\ job'[v] = job[v]
  BY <1>1, OthersStay
<1>2. ASSUME Work(v), ~RecordCount(v) PROVE FALSE
  <2>1. ~SendShard(v)  BY DEF SendShard
  <2> QED
    BY <1>2, <2>1
    DEF Work, Coordinate, WalkShard, Finish, TypeOK, Return, Take, OutOfBudget, Park,
        StartRun, SentAll, StartInline, InlineDone, InlineBudget, WalkDone,
        Decrement, AddUp, LoadShop, WriteEstimate, ReadCategories, DeleteCategories, Publish
<1>3. ~(Crash(v) \/ Fails(v) \/ LosesRedis(v))
  BY DEF Crash, Fails, LosesRedis, Return, TypeOK
<1>4. CASE Request \/ RetryTick \/ RetryDies \/ Overtime(v) \/ UNCHANGED vars \/ \E r \in Run : Lapse(r)
  BY <1>4 DEF Request, RetryTick, RetryRead, RetrySend, RetryDelete, RetryDies, Overtime, Lapse, vars
<1> QED  BY <1>1, <1>2, <1>3, <1>4 DEF Next

LEMMA CountedFirstStep ==
    ASSUME TypeOK, JobsFit, CountedFirst, [Next]_vars
    PROVE  CountedFirst'
<1> USE ConstantsAssumption DEF redisVars, historyVars
<1>1. blurred \subseteq blurred'  BY RunsGrow
<1>2. ASSUME NEW r \in Run \ blurred', NEW s \in ticked'[r] PROVE counts'[r][s] # NoCount
  <2>1. CASE s \in ticked[r]
    <3>1. s \in Shard  BY <2>1 DEF TypeOK
    <3> QED  BY <1>1, <1>2, <2>1, <3>1, CountsStay DEF CountedFirst
  <2>2. ASSUME NEW w \in Worker, Decrement(w), s \notin ticked[r] PROVE counts'[r][s] # NoCount
    <3>1. job[w].run = r /\ job[w].walk[2] = s /\ s \in Shard
      BY <1>2, <2>2 DEF Decrement, JobsFit, Fit, ShardSteps, TypeOK
    <3>2. counts[r][s] # NoCount  BY <1>1, <2>2, <3>1 DEF CountedFirst, Decrement
    <3> QED  BY <3>1, <3>2, CountsStay
  <2>3. CASE UNCHANGED ticked  BY <1>2, <2>1, <2>3
  <2>4. CASE UNCHANGED vars  BY <2>3, <2>4 DEF vars
  <2> QED
    BY <2>1, <2>2, <2>3, <2>4, ZenonT(40)
    DEF Next, Work, Coordinate, WalkShard, Finish, RetryTick, Request, Take, OutOfBudget, Park,
        StartRun, SendShard, SentAll, StartInline, InlineDone, InlineBudget, WalkDone, RecordCount,
        AddUp, LoadShop, WriteEstimate, ReadCategories, DeleteCategories, Publish,
        RetryRead, RetrySend, RetryDelete, Crash, Overtime, Fails, LosesRedis, RetryDies, Lapse
<1>3. ASSUME NEW v \in Worker, pc'[v] = "decr", job'[v].run \notin blurred'
      PROVE  counts'[job'[v].run][job'[v].walk[2]] # NoCount
  <2>1. CASE RecordCount(v)
    <3>1. /\ job[v].run \in Run /\ job[v].walk[2] \in Shard /\ job[v].count # NoCount
          /\ job'[v] = job[v]
      BY <2>1 DEF RecordCount, JobsFit, Fit, ShardSteps, NoCount
    <3>2. counts[job[v].run] \in [Shard -> UNION {Counted(t) : t \in Shard}]
      BY <3>1 DEF TypeOK, Tally
    <3> QED  BY <2>1, <3>1, <3>2 DEF RecordCount, TypeOK
  <2>2. CASE pc[v] = "decr" /\ job'[v] = job[v]
    <3>1. job[v].run \in Run \ blurred' /\ job[v].walk[2] \in Shard
      BY <1>3, <2>2 DEF JobsFit, Fit, ShardSteps
    <3>2. counts[job[v].run][job[v].walk[2]] # NoCount
      BY <1>1, <2>2, <3>1 DEF CountedFirst
    <3> QED  BY <2>2, <3>1, <3>2, CountsStay
  <2> QED  BY <1>3, <2>1, <2>2, DecrMoves
<1> QED  BY <1>2, <1>3 DEF CountedFirst

LEMMA FinisherIsLastStep ==
    ASSUME TypeOK, JobsFit, RunsBegun, CounterCounts, FinisherIsLast, [Next]_vars
    PROVE  FinisherIsLast'
<1> USE ConstantsAssumption
<1>1. SUFFICES ASSUME NEW v \in Worker, Finishing(v)', job'[v].run \notin blurred'
               PROVE  ticked'[job'[v].run] = Shard
  BY DEF FinisherIsLast
<1>2. JobsFit' /\ TypeOK' /\ CounterCounts' /\ RunsBegun'
  BY TypeNext, CounterCountsStep, RunsBegunStep
<1>3. job'[v].walk \in Run \X Shard /\ job'[v].run = job'[v].walk[1] /\ job'[v].run \in Run
  BY <1>1, <1>2 DEF Finishing, JobsFit, Fit, TypeOK, Locals, Walk
<1>4. CASE Finishing(v) /\ job'[v].walk = job[v].walk
  <2>1. job[v].run = job'[v].run  BY <1>3, <1>4 DEF JobsFit, Fit
  <2>2. ticked[job[v].run] = Shard
    BY <1>1, <1>4, <2>1, RunsGrow DEF FinisherIsLast
  <2>3. ticked[job[v].run] \subseteq ticked'[job[v].run]  BY <1>3, <2>1, HistoryGrows
  <2>4. ticked'[job[v].run] \subseteq Shard  BY <1>2, <1>3, <2>1 DEF TypeOK
  <2> QED  BY <2>1, <2>2, <2>3, <2>4
<1>5. CASE Decrement(v) /\ job'[v] = job[v] /\ pending[job[v].run] - 1 <= 0
  <2> DEFINE r == job'[v].run
  <2>1. r \in begun'  BY <1>2, <1>3 DEF RunsBegun, JobsBegun
  <2>2. pending'[r] = Cardinality(Shard) - Cardinality(ticked'[r])
    BY <1>1, <1>2, <2>1 DEF CounterCounts
  <2>3. pending'[r] <= 0
    BY <1>3, <1>5 DEF Decrement, TypeOK
  <2>4. ticked'[r] \in SUBSET Shard  BY <1>2, <1>3 DEF TypeOK
  <2>5. IsFiniteSet(ticked'[r]) /\ Cardinality(ticked'[r]) <= Cardinality(Shard)
        /\ (Cardinality(Shard) = Cardinality(ticked'[r]) => Shard = ticked'[r])
    BY <2>4, FS_Subset
  <2>6. Cardinality(ticked'[r]) \in Nat /\ Cardinality(Shard) \in Nat
    BY <2>5, FS_CardinalityType
  <2> QED  BY <2>2, <2>3, <2>5, <2>6
<1> QED  BY <1>1, <1>4, <1>5, FinishingMoves

\* The strengthening of LastShardSeesAll that a step preserves.
LastShardInv == RunsBegun /\ CounterCounts /\ CountedFirst /\ FinisherIsLast

\* However the shards of a run interleave, die, are parked or delivered again: as
\* long as none of them decremented twice and no key expired, the shard that takes
\* itself for the last one finds the counts of all.
THEOREM LastShardIsLast == Spec => []LastShardSeesAll
<1> DEFINE Inv == TypeOK /\ JobsFit /\ LastShardInv
<1>1. Init => Inv
  <2>1. ASSUME Init PROVE LastShardInv
    <3>1. RunsBegun
      BY <2>1, ConstantsAssumption
      DEF Init, RunsBegun, QueueBegun, ParkedBegun, JobsBegun, TickedBegun, NoEntries, NoJob, Walk
    <3>2. CounterCounts /\ CountedFirst /\ FinisherIsLast
      BY <2>1 DEF Init, CounterCounts, CountedFirst, FinisherIsLast, Finishing
    <3> QED  BY <3>1, <3>2 DEF LastShardInv
  <2> QED  BY <2>1, TypeInit
<1>2. Inv /\ [Next]_vars => Inv'
  BY TypeNext, RunsBegunStep, CounterCountsStep, CountedFirstStep, FinisherIsLastStep DEF LastShardInv
<1>3. Inv => LastShardSeesAll
  <2>1. SUFFICES ASSUME Inv, NEW w \in Worker, Finishing(w), job[w].run \notin blurred, NEW s \in Shard
                 PROVE  counts[job[w].run][s] # NoCount
    BY DEF LastShardSeesAll
  <2>2. job[w].run \in Run
    BY <2>1 DEF Finishing, JobsFit, Fit, TypeOK, Locals, Walk
  <2> QED  BY <2>1, <2>2 DEF LastShardInv, FinisherIsLast, CountedFirst
<1> QED  BY <1>1, <1>2, <1>3, PTL DEF Spec

=============================================================================
