--------------------------- MODULE ScrapeCohortProofs ---------------------------
(***************************************************************************)
(* Proofs about ScrapeCohort, for any listings, runners, batch size,       *)
(* limit and events.                                                       *)
(*                                                                         *)
(* DeactivationEarned rests on "earned" streaks: every copy of a streak, in *)
(* a row or in the hands of a runner, is at most the number of failures    *)
(* that reached the shop.  CompletedMeansChecked rests on the bookkeeping  *)
(* of a run: what it took on is still to do, or checked, or gone, or it    *)
(* counted a failure; CompletedLeavesNothing follows from it, and, while   *)
(* children run one at a time, OncePerAnchor.                              *)
(***************************************************************************)
EXTENDS ScrapeCohort, FiniteSetTheorems, TLAPS

Earned(n, l) == n <= fails[l] \/ fails[l] >= DeactivateAfter

StreaksEarned ==
    /\ \A l \in Listing : Earned(row[l].streak, l)
    /\ \A r \in Runner : pc[r] = "persist" => Earned(job[r].seen, job[r].at)

\* The listings a child has dealt with without counting a failure were checked
\* since it started, or are gone.
Accounted(c) ==
    /\ pc[c] = "sent" => job[c] = NoJob
    /\ pc[c] = "persist" => job[c].at \in job[c].todo
    /\ pc[c] \in {"select", "done"} /\ ~job[c].exhausted /\ ~job[c].hard => job[c].todo = {}
    /\ job[c].failed \/ job[c].exhausted \/ job[c].hard
       \/ \A l \in job[c].processed \ job[c].todo : row[l].exists => row[l].checked >= job[c].since

RunsAccounted == \A c \in Child : Accounted(c)

\* Nothing was read or checked under an anchor that has not been set.
AnchorsInOrder ==
    /\ \A c \in Child : job[c].anchor <= job[c].since /\ job[c].since <= anchor.made
    /\ \A l \in Listing : row[l].checked <= anchor.made

\* The updates that mark a listing as checked, and deletions of non-products,
\* go through: otherwise their outcome is counted and the row is as it was.
NoRefusals == "reject" \notin Events /\ "unpruned" \notin Events

-----------------------------------------------------------------------------
(***************************************************************************)
(* Typing.                                                                 *)
(***************************************************************************)
LEMMA NoJobType == NoJob \in Locals
  BY DEF NoJob, Locals

\* What one listing's outcome does to a row is a row again.
LEMMA RowTypes ==
    ASSUME TypeOK, NEW old \in ListingRow, NEW n \in Nat, NEW a \in BOOLEAN, NEW b \in BOOLEAN
    PROVE  /\ Checked(old) \in ListingRow
           /\ Struck(old, n, a, b) \in ListingRow
           /\ [old EXCEPT !.streak = 0] \in ListingRow
           /\ [old EXCEPT !.exists = FALSE] \in ListingRow
           /\ [old EXCEPT !.due = TRUE] \in ListingRow
  BY ConstantsAssumption DEF TypeOK, Checked, Struck, ListingRow

\* A runner whose locals and label change keeps the types of both.
LEMMA RunnerStep ==
    ASSUME TypeOK, NEW r \in Runner, NEW j \in Locals,
           NEW label \in {"idle", "sent", "select", "work", "persist", "done"},
           job' = [job EXCEPT ![r] = j], pc' = [pc EXCEPT ![r] = label],
           label = "persist" => j.at \in Listing
    PROVE  /\ job' \in [Runner -> Locals]
           /\ pc' \in [Runner -> {"idle", "sent", "select", "work", "persist", "done"}]
           /\ \A q \in Runner : pc'[q] = "persist" => job'[q].at \in Listing
  BY DEF TypeOK

LEMMA ListingDoneType ==
    ASSUME TypeOK, NEW r \in Runner, NEW good \in BOOLEAN, ListingDone(r, good)
    PROVE  /\ job' \in [Runner -> Locals]
           /\ pc' \in [Runner -> {"idle", "sent", "select", "work", "persist", "done"}]
           /\ \A q \in Runner : pc'[q] = "persist" => job'[q].at \in Listing
<1> DEFINE j == [job[r] EXCEPT !.todo = @ \ {job[r].at}, !.at = NoListing, !.seen = 0,
                               !.ok = @ \/ good, !.failed = @ \/ ~good]
<1>1. job[r] \in Locals  BY DEF TypeOK
<1>2. j \in Locals  BY <1>1 DEF Locals
<1>3. job' = [job EXCEPT ![r] = j]  BY <1>1 DEF ListingDone, TypeOK, Locals
<1> HIDE DEF j
<1> QED  BY <1>2, <1>3, RunnerStep DEF ListingDone, GoTo

\* What a child selects: a batch, and what it takes of it.
Selects(c, batch, taken) ==
    \/ batch \subseteq job[c].processed /\ pc' = [pc EXCEPT ![c] = "done"] /\ job' = job
    \/ /\ taken \cap job[c].processed = {}
       /\ job' = [job EXCEPT ![c].todo = taken, ![c].processed = @ \cup taken]
       /\ pc' = [pc EXCEPT ![c] = "work"]

LEMMA SelectCases ==
    ASSUME NEW c \in Child, Select(c)
    PROVE  \E batch \in BatchesOf(c), taken \in SUBSET Selectable(c) : Selects(c, batch, taken)
<1>1. PICK batch \in BatchesOf(c) :
          IF batch \subseteq job[c].processed
          THEN GoTo(c, "done") /\ UNCHANGED job
          ELSE /\ \E taken \in Some(batch \ job[c].processed, Room(c)) :
                     job' = [job EXCEPT ![c].todo = taken, ![c].processed = @ \cup taken]
               /\ GoTo(c, "work")
  BY DEF Select
<1>2. CASE batch \subseteq job[c].processed
  <2>1. Selects(c, batch, {})  BY <1>1, <1>2 DEF Selects, GoTo
  <2> QED  BY <2>1
<1>3. CASE ~(batch \subseteq job[c].processed)
  <2>1. PICK taken \in Some(batch \ job[c].processed, Room(c)) :
            job' = [job EXCEPT ![c].todo = taken, ![c].processed = @ \cup taken]
    BY <1>1, <1>3
  <2>2. taken \subseteq batch \ job[c].processed  BY DEF Some
  <2>3. Selects(c, batch, taken)  BY <1>1, <1>3, <2>1, <2>2 DEF Selects, GoTo
  <2>4. taken \in SUBSET Selectable(c)  BY <2>2 DEF BatchesOf, Some
  <2> QED  BY <2>3, <2>4
<1> QED  BY <1>2, <1>3

LEMMA BatchesListed ==
    ASSUME NEW c \in Child, NEW batch \in BatchesOf(c)
    PROVE  batch \subseteq Selectable(c) /\ batch \subseteq Listing
  BY DEF BatchesOf, Some, Selectable, Due

LEMMA TypeInit == Init => TypeOK
<1> SUFFICES ASSUME Init PROVE TypeOK  OBVIOUS
<1>1. [exists: {TRUE}, active: BOOLEAN, checked: {0}, due: BOOLEAN, streak: {0}]
          \subseteq ListingRow
  <2>1. {TRUE} \subseteq BOOLEAN /\ {0} \subseteq Nat  OBVIOUS
  <2> QED  BY <2>1, Zenon DEF ListingRow
<1>2. row \in [Listing -> ListingRow]  BY <1>1 DEF Init
<1> QED  BY <1>2, NoJobType DEF Init, TypeOK

LEMMA TypeNext ==
    ASSUME TypeOK, [Next]_vars
    PROVE  TypeOK'
<1> USE NoJobType DEF GoTo, history
<1>0. CASE SetAnchor \/ SaveAnchor
  <2>1. CASE SetAnchor  BY <2>1 DEF SetAnchor, TypeOK
  <2>2. CASE SaveAnchor  BY <2>2 DEF SaveAnchor, TypeOK
  <2> QED  BY <1>0, <2>1, <2>2
<1>1. ASSUME NEW c \in Child, Dispatch(c) \/ ChildStep(c) \/ Deadline(c) \/ Fatal(c)
      PROVE  TypeOK'
  <2> c \in Runner  BY DEF Runner
  <2>0. CASE Dispatch(c)  BY <2>0 DEF Dispatch, TypeOK
  <2>1. CASE StartChild(c)
    <3> DEFINE j == [job[c] EXCEPT !.anchor = anchor.saved, !.since = anchor.made]
    <3>1. j \in Locals  BY DEF TypeOK, Locals
    <3>2. job' = [job EXCEPT ![c] = j]  BY <2>1 DEF StartChild, TypeOK, Locals
    <3> HIDE DEF j
    <3> QED  BY <2>1, <3>1, <3>2, RunnerStep DEF StartChild, TypeOK
  <2>2. CASE Select(c)
    <3>1. PICK batch \in BatchesOf(c), taken \in SUBSET Selectable(c) : Selects(c, batch, taken)
      BY <2>2, SelectCases
    <3>2. taken \subseteq Listing  BY DEF Selectable, Due
    <3>3. CASE job' = job  BY <2>2, <3>1, <3>3 DEF Select, Selects, TypeOK
    <3>4. CASE pc' = [pc EXCEPT ![c] = "work"]
               /\ job' = [job EXCEPT ![c].todo = taken, ![c].processed = @ \cup taken]
      <4> DEFINE j == [job[c] EXCEPT !.todo = taken, !.processed = @ \cup taken]
      <4>1. j \in Locals  BY <3>1, <3>2 DEF TypeOK, Locals
      <4>2. job' = [job EXCEPT ![c] = j]  BY <3>4 DEF TypeOK, Locals
      <4> HIDE DEF j
      <4> QED  BY <2>2, <3>4, <4>1, <4>2, RunnerStep DEF Select, TypeOK
    <3> QED  BY <3>1, <3>3, <3>4 DEF Selects
  <2>5. CASE Full(c)  BY <2>5 DEF Full, TypeOK
  <2>3. CASE Deadline(c)
    <3> DEFINE j == [job[c] EXCEPT !.exhausted = TRUE, !.todo = {}]
    <3>1. j \in Locals  BY DEF TypeOK, Locals
    <3>2. job' = [job EXCEPT ![c] = j]  BY <2>3 DEF Deadline, TypeOK, Locals
    <3> HIDE DEF j
    <3>3. skips' \in Nat  BY <2>3 DEF Deadline, CanSkip, TypeOK
    <3> QED  BY <2>3, <3>1, <3>2, <3>3, RunnerStep DEF Deadline, TypeOK
  <2>4. CASE Fatal(c)
    <3> DEFINE j == [job[c] EXCEPT !.hard = TRUE, !.todo = {}]
    <3>1. j \in Locals  BY DEF TypeOK, Locals
    <3>2. job' = [job EXCEPT ![c] = j]  BY <2>4 DEF Fatal, TypeOK, Locals
    <3> HIDE DEF j
    <3>3. skips' \in Nat  BY <2>4 DEF Fatal, CanSkip, TypeOK
    <3> QED  BY <2>4, <3>1, <3>2, <3>3, RunnerStep DEF Fatal, TypeOK
  <2> QED  BY <1>1, <2>0, <2>1, <2>2, <2>3, <2>4, <2>5 DEF ChildStep
<1>2. ASSUME NEW s \in Shard, StartShard(s)
      PROVE  TypeOK'
  <2> s \in Runner  BY DEF Runner
  <2>1. PICK ids \in SUBSET Listing :
            job' = [job EXCEPT ![s] = [NoJob EXCEPT !.todo = ids, !.processed = ids]]
    BY <1>2 DEF StartShard, Due
  <2>2. [NoJob EXCEPT !.todo = ids, !.processed = ids] \in Locals  BY DEF NoJob, Locals
  <2> QED  BY <1>2, <2>1, <2>2 DEF StartShard, TypeOK
<1>3. ASSUME NEW r \in Runner, ListingStep(r)
      PROVE  TypeOK'
  <2>1. CASE Read(r)
    <3>1. PICK l \in job[r].todo : job' = [job EXCEPT ![r].at = l, ![r].seen = row[l].streak]
      BY <2>1 DEF Read
    <3> DEFINE j == [job[r] EXCEPT !.at = l, !.seen = row[l].streak]
    <3>2. l \in Listing /\ row[l].streak \in Nat  BY DEF TypeOK, Locals, ListingRow
    <3>3. j \in Locals /\ j.at \in Listing  BY <3>2 DEF TypeOK, Locals
    <3>4. job' = [job EXCEPT ![r] = j]  BY <3>1 DEF TypeOK, Locals
    <3> HIDE DEF j
    <3> QED  BY <2>1, <3>3, <3>4, RunnerStep DEF Read, TypeOK
  <2>2. CASE Missing(r)
    <3>1. PICK l \in job[r].todo, late \in BOOLEAN :
              job' = [job EXCEPT ![r].todo = @ \ {l}, ![r].failed = @ \/ late]
      BY <2>2 DEF Missing
    <3> DEFINE j == [job[r] EXCEPT !.todo = @ \ {l}, !.failed = @ \/ late]
    <3>2. j \in Locals  BY DEF TypeOK, Locals
    <3>3. job' = [job EXCEPT ![r] = j]  BY <3>1 DEF TypeOK, Locals
    <3> HIDE DEF j
    <3>4. pc' = [pc EXCEPT ![r] = "work"]  BY <2>2 DEF Missing, TypeOK
    <3> QED  BY <2>2, <3>2, <3>3, <3>4, RunnerStep DEF Missing, TypeOK
  <2>3. CASE BatchDone(r)  BY <2>3 DEF BatchDone, TypeOK
  <2>4. CASE Success(r)
    <3> DEFINE l == job[r].at
    <3>1. PICK kept \in BOOLEAN :
              LET reset == [row[l] EXCEPT !.streak = IF kept THEN 0 ELSE @] IN
              Put(l, Checked(reset)) \/ Put(l, reset)
      BY <2>4 DEF Success, Kept
    <3>2. l \in Listing /\ row[l] \in ListingRow  BY <2>4 DEF Success, ListingDone, TypeOK
    <3>3. [row[l] EXCEPT !.streak = IF kept THEN 0 ELSE @] \in ListingRow
      BY <3>2, RowTypes DEF ListingRow
    <3>4. Checked([row[l] EXCEPT !.streak = IF kept THEN 0 ELSE @]) \in ListingRow
      BY <3>3, RowTypes
    <3>5. row' \in [Listing -> ListingRow]  BY <3>1, <3>2, <3>3, <3>4 DEF Put, TypeOK
    <3>6. oks' \in [Listing -> Nat]
      BY <2>4, <3>2 DEF Success, TypeOK
    <3>7. ListingDone(r, TRUE) /\ UNCHANGED <<anchor, fails, skips>>  BY <2>4 DEF Success
    <3> QED  BY <3>5, <3>6, <3>7, ListingDoneType DEF TypeOK
  <2>5. CASE Failure(r)
    <3> DEFINE l == job[r].at
    <3>1. l \in Listing /\ row[l] \in ListingRow /\ job[r].seen + 1 \in Nat
      BY <2>5 DEF Failure, ListingDone, TypeOK, Locals
    <3>2. PICK counted \in BOOLEAN, off \in BOOLEAN :
              LET struck == Struck(row[l], job[r].seen + 1, counted, off) IN
              Put(l, struck) \/ Put(l, Checked(struck))
      BY <2>5 DEF Failure, Kept
    <3>3. Struck(row[l], job[r].seen + 1, counted, off) \in ListingRow  BY <3>1, RowTypes
    <3>4. Checked(Struck(row[l], job[r].seen + 1, counted, off)) \in ListingRow
      BY <3>3, RowTypes
    <3>5. row' \in [Listing -> ListingRow]  BY <3>1, <3>2, <3>3, <3>4 DEF Put, TypeOK
    <3>6. fails' \in [Listing -> Nat]
      BY <2>5, <3>1, ConstantsAssumption DEF Failure, OneMore, TypeOK
    <3> QED  BY <2>5, <3>5, <3>6, ListingDoneType DEF Failure, TypeOK
  <2>6. CASE ProxySkip(r)
    <3>1. ListingDone(r, FALSE) /\ UNCHANGED <<row, anchor, fails, oks>>
      BY <2>6 DEF ProxySkip
    <3>2. skips' \in Nat  BY <2>6 DEF ProxySkip, CanSkip, TypeOK
    <3> QED  BY <3>1, <3>2, ListingDoneType DEF TypeOK
  <2>7. CASE WriteLost(r)
    <3>1. ListingDone(r, FALSE) /\ UNCHANGED <<row, anchor, fails, oks>>
      BY <2>7 DEF WriteLost
    <3>2. skips' \in Nat  BY <2>7 DEF WriteLost, CanSkip, TypeOK
    <3> QED  BY <3>1, <3>2, ListingDoneType DEF TypeOK
  <2>8. CASE Prune(r)
    <3>1. job[r].at \in Listing  BY <2>8 DEF Prune, ListingDone, TypeOK
    <3>2. [row[job[r].at] EXCEPT !.exists = FALSE] \in ListingRow
      BY <3>1, RowTypes DEF TypeOK
    <3>3. row' \in [Listing -> ListingRow]  BY <2>8, <3>1, <3>2 DEF Prune, TypeOK
    <3>4. skips' \in Nat  BY <2>8 DEF Prune, CanSkip, TypeOK
    <3> QED  BY <2>8, <3>3, <3>4, ListingDoneType DEF Prune, TypeOK
  <2> QED  BY <1>3, <2>1, <2>2, <2>3, <2>4, <2>5, <2>6, <2>7, <2>8 DEF ListingStep
<1>4. ASSUME NEW l \in Listing, BecomesDue(l)
      PROVE  TypeOK'
  BY <1>4 DEF BecomesDue, TypeOK, ListingRow
<1>5. CASE NewRun
  <2>1. row' \in [Listing -> ListingRow]  BY <1>5 DEF NewRun, TypeOK, ListingRow
  <2>2. pc' \in [Runner -> {"idle", "sent", "select", "work", "persist", "done"}]
    BY <1>5 DEF NewRun, TypeOK
  <2>3. job' \in [Runner -> Locals]  BY <1>5 DEF NewRun, TypeOK
  <2>4. \A r \in Runner : pc'[r] = "persist" => job'[r].at \in Listing
    BY <1>5 DEF NewRun, TypeOK
  <2>5. oks' \in [Listing -> Nat] /\ fails' \in [Listing -> Nat] /\ skips' \in Nat
    BY <1>5 DEF NewRun, TypeOK
  <2>6. anchor' \in [made: Nat, saved: Nat] /\ anchor'.saved <= anchor'.made
    BY <1>5 DEF NewRun
  <2> QED  BY <2>1, <2>2, <2>3, <2>4, <2>5, <2>6 DEF TypeOK
<1>6. CASE UNCHANGED vars  BY <1>6 DEF vars, TypeOK
<1> QED  BY <1>0, <1>1, <1>2, <1>3, <1>4, <1>5, <1>6 DEF Next

\* Type correctness.
THEOREM TypeCorrect == Spec => []TypeOK
  BY TypeInit, TypeNext, PTL DEF Spec

-----------------------------------------------------------------------------
(***************************************************************************)
(* Earned streaks.                                                         *)
(***************************************************************************)
LEMMA EarnedInit == Init => StreaksEarned
<1> SUFFICES ASSUME Init PROVE StreaksEarned  OBVIOUS
<1>1. \A l \in Listing : row[l].streak = 0 /\ fails[l] = 0  BY DEF Init
<1>2. \A r \in Runner : pc[r] = "idle"  BY DEF Init
<1> QED  BY <1>1, <1>2 DEF StreaksEarned, Earned

\* fails never decreases, so what was earned stays earned.
LEMMA FailsGrow ==
    ASSUME TypeOK, [Next]_vars, NEW l \in Listing
    PROVE  fails[l] <= fails'[l]
<1>1. CASE \E r \in Runner : Failure(r)
  BY <1>1, ConstantsAssumption DEF Failure, OneMore, TypeOK
<1>2. CASE UNCHANGED fails  BY <1>2 DEF TypeOK
<1> QED
  BY <1>1, <1>2 DEF Next, vars, history, ListingStep, SetAnchor, SaveAnchor, Dispatch, ChildStep, StartChild,
     Select, Full, Deadline, Fatal,
     StartShard, Read, Missing, Success, ProxySkip, WriteLost, Prune, BatchDone, BecomesDue, NewRun

\* What a success does to a row: nothing, or to its own listing's row.
LEMMA SuccessRow ==
    ASSUME TypeOK, NEW r \in Runner, Success(r), NEW l \in Listing
    PROVE  /\ row'[l].streak \in {row[l].streak, 0}
           /\ row'[l].active = row[l].active
           /\ row'[l].exists = row[l].exists
           /\ row'[l].checked \in {row[l].checked, anchor.made}
<1> DEFINE at == job[r].at
<1>1. at \in Listing /\ row[at] \in ListingRow  BY DEF Success, ListingDone, TypeOK
<1>2. PICK kept \in BOOLEAN :
          LET reset == [row[at] EXCEPT !.streak = IF kept THEN 0 ELSE @] IN
          Put(at, Checked(reset)) \/ Put(at, reset)
  BY DEF Success, Kept
<1> DEFINE reset == [row[at] EXCEPT !.streak = IF kept THEN 0 ELSE @]
<1>3. /\ reset.streak \in {row[at].streak, 0}
      /\ reset.active = row[at].active
      /\ reset.exists = row[at].exists
      /\ reset.checked = row[at].checked
      /\ reset \in ListingRow
  BY <1>1 DEF ListingRow
<1>4. /\ Checked(reset).streak = reset.streak
      /\ Checked(reset).active = reset.active
      /\ Checked(reset).exists = reset.exists
      /\ Checked(reset).checked = anchor.made
  BY <1>3 DEF Checked, ListingRow
<1>5. \/ row' = row
      \/ row' = [row EXCEPT ![at] = reset]
      \/ row' = [row EXCEPT ![at] = Checked(reset)]
  BY <1>2 DEF Put
<1>6. l # at => row'[l] = row[l]  BY <1>1, <1>5 DEF TypeOK
<1>7. l = at => row'[l] = row[l] \/ row'[l] = reset \/ row'[l] = Checked(reset)
  BY <1>1, <1>5 DEF TypeOK
<1> HIDE DEF reset
<1> QED  BY <1>3, <1>4, <1>6, <1>7

\* What a failure does to a row: nothing, or to its own listing's row.
LEMMA FailureRow ==
    ASSUME TypeOK, NEW r \in Runner, Failure(r), NEW l \in Listing
    PROVE  \/ row'[l] = row[l]
           \/ /\ l = job[r].at
              /\ row'[l].streak \in {row[l].streak, job[r].seen + 1}
              /\ row[l].active /\ ~row'[l].active => job[r].seen + 1 >= DeactivateAfter
              /\ row'[l].exists = row[l].exists
              /\ row'[l].checked \in {row[l].checked, anchor.made}
<1> DEFINE at == job[r].at
           seen1 == job[r].seen + 1
<1>1. at \in Listing /\ row[at] \in ListingRow /\ seen1 \in Nat
  BY DEF Failure, ListingDone, TypeOK, Locals
<1>2. PICK counted \in BOOLEAN, off \in BOOLEAN :
          LET struck == Struck(row[at], seen1, counted, off) IN
          Put(at, struck) \/ Put(at, Checked(struck))
  BY DEF Failure, Kept
<1> DEFINE struck == Struck(row[at], seen1, counted, off)
<1>3. /\ struck.streak \in {row[at].streak, seen1}
      /\ row[at].active /\ ~struck.active => seen1 >= DeactivateAfter
      /\ struck.exists = row[at].exists
      /\ struck.checked = row[at].checked
      /\ struck \in ListingRow
  <2>1. struck.streak \in {row[at].streak, seen1}  BY <1>1 DEF Struck, ListingRow
  <2>2. row[at].active /\ ~struck.active => seen1 >= DeactivateAfter
    BY <1>1, Zenon DEF Struck, ListingRow
  <2>3. struck.exists = row[at].exists /\ struck.checked = row[at].checked
    BY <1>1 DEF Struck, ListingRow
  <2>4. struck \in ListingRow  BY <1>1, RowTypes
  <2> QED  BY <2>1, <2>2, <2>3, <2>4
<1>4. /\ Checked(struck).streak = struck.streak
      /\ Checked(struck).active = struck.active
      /\ Checked(struck).exists = struck.exists
      /\ Checked(struck).checked = anchor.made
  BY <1>3 DEF Checked, ListingRow
<1>5. \/ row' = row
      \/ row' = [row EXCEPT ![at] = struck]
      \/ row' = [row EXCEPT ![at] = Checked(struck)]
  BY <1>2 DEF Put
<1>6. l # at => row'[l] = row[l]  BY <1>1, <1>5 DEF TypeOK
<1>7. l = at => row'[l] = row[l] \/ row'[l] = struck \/ row'[l] = Checked(struck)
  BY <1>1, <1>5 DEF TypeOK
<1> HIDE DEF struck
<1> QED  BY <1>3, <1>4, <1>6, <1>7

\* The streak a failure writes is earned by the failure itself.
LEMMA FailureEarned ==
    ASSUME TypeOK, StreaksEarned, NEW r \in Runner, Failure(r)
    PROVE  /\ job[r].at \in Listing
           /\ job[r].seen + 1 <= fails'[job[r].at] \/ fails'[job[r].at] >= DeactivateAfter
<1>1. job[r].at \in Listing /\ job[r].seen \in Nat
  BY DEF Failure, ListingDone, TypeOK, Locals
<1>2. Earned(job[r].seen, job[r].at)  BY DEF Failure, ListingDone, StreaksEarned
<1>3. fails' = OneMore(fails, job[r].at)  BY DEF Failure
<1> QED  BY <1>1, <1>2, <1>3, ConstantsAssumption DEF Earned, OneMore, TypeOK

\* Where a row's streak comes from: it was there, it is zero, or a failure
\* wrote it.
LEMMA StreakSources ==
    ASSUME TypeOK, [Next]_vars, NEW l \in Listing
    PROVE  \/ row'[l].streak = row[l].streak
           \/ row'[l].streak = 0
           \/ \E r \in Runner : Failure(r) /\ l = job[r].at /\ row'[l].streak = job[r].seen + 1
<1> USE DEF ListingRow
<1>1. ASSUME NEW r \in Runner, Success(r)
      PROVE  row'[l].streak \in {row[l].streak, 0}
  BY <1>1, SuccessRow
<1>2. ASSUME NEW r \in Runner, Failure(r)
      PROVE  \/ row'[l].streak = row[l].streak
             \/ l = job[r].at /\ row'[l].streak = job[r].seen + 1
  BY <1>2, FailureRow
<1>3. ASSUME NEW r \in Runner, Prune(r)
      PROVE  row'[l].streak = row[l].streak
  BY <1>3 DEF Prune, ListingDone, TypeOK
<1>4. ASSUME NEW m \in Listing, BecomesDue(m)
      PROVE  row'[l].streak = row[l].streak
  BY <1>4 DEF BecomesDue, TypeOK
<1>5. CASE UNCHANGED row  BY <1>5
<1>6. CASE NewRun  BY <1>6 DEF NewRun, TypeOK
<1> QED
  BY <1>1, <1>2, <1>3, <1>4, <1>5, <1>6 DEF Next, vars, ListingStep, SetAnchor, SaveAnchor, Dispatch, ChildStep, StartChild,
     Select, Full, Deadline, Fatal,
     StartShard, Read, Missing, ProxySkip, WriteLost, BatchDone

\* A runner that is about to write had read the row before, or reads it now.
LEMMA SeenSources ==
    ASSUME TypeOK, [Next]_vars, NEW r \in Runner, pc'[r] = "persist"
    PROVE  \/ pc[r] = "persist" /\ job'[r] = job[r]
           \/ job'[r].at \in Listing /\ job'[r].seen = row[job'[r].at].streak /\ row' = row
<1> USE DEF GoTo
<1>1. ASSUME NEW q \in Runner, Read(q)
      PROVE  \/ pc[r] = "persist" /\ job'[r] = job[r]
             \/ job'[r].at \in Listing /\ job'[r].seen = row[job'[r].at].streak /\ row' = row
  <2>1. PICK l \in job[q].todo : job' = [job EXCEPT ![q].at = l, ![q].seen = row[l].streak]
    BY <1>1 DEF Read
  <2>2. l \in Listing  BY DEF TypeOK, Locals
  <2>3. CASE q = r  BY <1>1, <2>1, <2>2, <2>3 DEF Read, TypeOK, Locals
  <2>4. CASE q # r  BY <1>1, <2>1, <2>4 DEF Read, TypeOK
  <2> QED  BY <2>3, <2>4
<1>2. ASSUME NEW q \in Runner, NEW good \in BOOLEAN, ListingDone(q, good)
      PROVE  pc[r] = "persist" /\ job'[r] = job[r]
  BY <1>2 DEF ListingDone, TypeOK
<1>3. ASSUME NEW q \in Runner, Missing(q) \/ BatchDone(q)
      PROVE  pc[r] = "persist" /\ job'[r] = job[r]
  BY <1>3 DEF Missing, BatchDone, TypeOK
<1>4. ASSUME NEW q \in Runner,
             Dispatch(q) \/ StartChild(q) \/ Select(q) \/ Full(q) \/ Deadline(q) \/ Fatal(q) \/ StartShard(q)
      PROVE  pc[r] = "persist" /\ job'[r] = job[r]
  BY <1>4 DEF SetAnchor, SaveAnchor, Dispatch, ChildStep, StartChild,
     Select, Full, Deadline, Fatal, StartShard, TypeOK
<1>5. CASE UNCHANGED <<pc, job>>  BY <1>5
<1>6. CASE NewRun  BY <1>6 DEF NewRun
<1> QED
  BY <1>1, <1>2, <1>3, <1>4, <1>5, <1>6 DEF Next, vars, ListingStep, ChildStep, SetAnchor,
     SaveAnchor, Success, Failure, ProxySkip, WriteLost, Prune, BecomesDue, Runner

LEMMA EarnedNext ==
    ASSUME TypeOK, StreaksEarned, [Next]_vars
    PROVE  StreaksEarned'
<1>0. TypeOK'  BY TypeNext
<1>1. ASSUME NEW l \in Listing
      PROVE  Earned(row[l].streak, l)'
  <2>0. fails[l] \in Nat /\ fails'[l] \in Nat /\ fails[l] <= fails'[l] /\ row[l].streak \in Nat
    BY <1>0, FailsGrow DEF TypeOK, ListingRow
  <2>1. CASE row'[l].streak = row[l].streak
    BY <2>0, <2>1, ConstantsAssumption DEF StreaksEarned, Earned
  <2>2. CASE row'[l].streak = 0  BY <2>0, <2>2 DEF Earned
  <2>3. ASSUME NEW r \in Runner, Failure(r), l = job[r].at, row'[l].streak = job[r].seen + 1
        PROVE  Earned(row[l].streak, l)'
    BY <2>3, FailureEarned DEF Earned
  <2> QED  BY <2>1, <2>2, <2>3, StreakSources
<1>2. ASSUME NEW r \in Runner, pc'[r] = "persist"
      PROVE  Earned(job[r].seen, job[r].at)'
  <2> DEFINE l == job'[r].at
  <2>1. l \in Listing  BY <1>0, <1>2 DEF TypeOK
  <2>2. Earned(job'[r].seen, l)
    <3>1. CASE pc[r] = "persist" /\ job'[r] = job[r]  BY <3>1 DEF StreaksEarned
    <3>2. CASE job'[r].seen = row[l].streak  BY <2>1, <3>2 DEF StreaksEarned
    <3> QED  BY <1>2, <3>1, <3>2, SeenSources
  <2>3. fails[l] \in Nat /\ fails'[l] \in Nat /\ fails[l] <= fails'[l] /\ job'[r].seen \in Nat
    BY <1>0, <2>1, FailsGrow DEF TypeOK, Locals
  <2> QED  BY <2>2, <2>3, ConstantsAssumption DEF Earned
<1> QED  BY <1>1, <1>2 DEF StreaksEarned

\* A step that switches a listing off is a failure whose streak is at the limit.
LEMMA EarnedStep ==
    ASSUME TypeOK, StreaksEarned, [Next]_vars, NEW l \in Listing,
           row[l].active, ~row'[l].active
    PROVE  fails'[l] >= DeactivateAfter
<1> USE DEF ListingRow
<1>1. ASSUME NEW r \in Runner, Failure(r)
      PROVE  fails'[l] >= DeactivateAfter
  <2>1. job[r].at \in Listing /\ job[r].seen \in Nat
    BY <1>1 DEF Failure, ListingDone, TypeOK, Locals
  <2>3. l = job[r].at /\ job[r].seen + 1 >= DeactivateAfter
    BY <1>1, FailureRow
  <2>4. fails'[l] \in Nat  BY TypeNext DEF TypeOK
  <2> QED  BY <1>1, <2>1, <2>3, <2>4, FailureEarned, ConstantsAssumption
<1>2. ASSUME NEW r \in Runner, Success(r)
      PROVE  FALSE
  BY <1>2, SuccessRow
<1>3. ASSUME NEW r \in Runner, Prune(r)
      PROVE  FALSE
  BY <1>3 DEF Prune, ListingDone, TypeOK
<1>4. ASSUME NEW m \in Listing, BecomesDue(m)
      PROVE  FALSE
  BY <1>4 DEF BecomesDue, TypeOK
<1>5. CASE UNCHANGED row  BY <1>5
<1>6. CASE NewRun  BY <1>6 DEF NewRun, TypeOK
<1> QED
  BY <1>1, <1>2, <1>3, <1>4, <1>5, <1>6 DEF Next, vars, ListingStep, SetAnchor, SaveAnchor, Dispatch, ChildStep, StartChild,
     Select, Full, Deadline, Fatal,
     StartShard, Read, Missing, ProxySkip, WriteLost, BatchDone

\* No interleaving of runners, proxy outage, rolled back write or rejected
\* update switches off a listing that has not failed often enough.
THEOREM DeactivationIsEarned == Spec => DeactivationEarned
<1>1. Init => TypeOK /\ StreaksEarned  BY TypeInit, EarnedInit
<1>2. TypeOK /\ StreaksEarned /\ [Next]_vars => (TypeOK /\ StreaksEarned)'
  BY TypeNext, EarnedNext
<1>3. TypeOK /\ StreaksEarned /\ [Next]_vars
         => [\A l \in Listing : row[l].active /\ ~row'[l].active => fails'[l] >= DeactivateAfter]_vars
  BY EarnedStep
<1> QED  BY <1>1, <1>2, <1>3, PTL DEF Spec, DeactivationEarned

-----------------------------------------------------------------------------
(***************************************************************************)
(* The bookkeeping of a run.                                               *)
(***************************************************************************)
Handled(c) == job[c].processed \ job[c].todo

LEMMA AccountedInit == Init => RunsAccounted
<1> SUFFICES ASSUME Init, NEW c \in Child PROVE Accounted(c)  BY DEF RunsAccounted
<1>1. pc[c] = "idle" /\ job[c] = NoJob  BY DEF Init, Runner
<1> QED  BY <1>1 DEF Accounted, NoJob

\* Within a run a deleted row never comes back, and a row is checked, if at all, now.
LEMMA RowsMonotone ==
    ASSUME TypeOK, [Next]_vars, ~NewRun, NEW l \in Listing
    PROVE  (row'[l].exists => row[l].exists) /\ row'[l].checked \in {row[l].checked, anchor.made}
<1> USE DEF ListingRow
<1> DEFINE Goal == (row'[l].exists => row[l].exists)
                   /\ row'[l].checked \in {row[l].checked, anchor.made}
<1>1. ASSUME NEW r \in Runner, Success(r) PROVE Goal  BY <1>1, SuccessRow
<1>2. ASSUME NEW r \in Runner, Failure(r) PROVE Goal  BY <1>2, FailureRow
<1>3. ASSUME NEW r \in Runner, Prune(r) PROVE Goal  BY <1>3 DEF Prune, ListingDone, TypeOK
<1>4. ASSUME NEW m \in Listing, BecomesDue(m) PROVE Goal  BY <1>4 DEF BecomesDue, TypeOK
<1>5. CASE UNCHANGED row  BY <1>5
<1> QED
  BY <1>1, <1>2, <1>3, <1>4, <1>5 DEF Next, vars, ListingStep, SetAnchor, SaveAnchor, Dispatch,
     ChildStep, StartChild, Select, Full, Deadline, Fatal, StartShard, Read, Missing, ProxySkip,
     WriteLost, BatchDone

\* Where the anchor and the start of a child come from.
LEMMA AnchorSources ==
    ASSUME TypeOK, [Next]_vars, NEW c \in Child
    PROVE  \/ job'[c].anchor = job[c].anchor /\ job'[c].since = job[c].since
           \/ job'[c].anchor = 0 /\ job'[c].since = 0
           \/ StartChild(c) /\ job'[c].anchor = anchor.saved /\ job'[c].since = anchor.made
<1> c \in Runner  BY DEF Runner
<1> DEFINE Same == job'[c].anchor = job[c].anchor /\ job'[c].since = job[c].since
           None == job'[c].anchor = 0 /\ job'[c].since = 0
<1>1. ASSUME NEW q \in Child, Dispatch(q) PROVE Same \/ None
  BY <1>1 DEF Dispatch, NoJob, TypeOK
<1>2. ASSUME NEW q \in Child, StartChild(q)
      PROVE  Same \/ (q = c /\ job'[c].anchor = anchor.saved /\ job'[c].since = anchor.made)
  BY <1>2 DEF StartChild, TypeOK, Locals
<1>3. ASSUME NEW q \in Child, Select(q) PROVE Same
  <2>1. PICK batch \in BatchesOf(q), taken \in SUBSET Selectable(q) : Selects(q, batch, taken)
    BY <1>3, SelectCases
  <2> QED  BY <2>1 DEF Selects, TypeOK, Locals
<1>4. ASSUME NEW q \in Child, Full(q) \/ Deadline(q) \/ Fatal(q) PROVE Same
  BY <1>4 DEF Full, Deadline, Fatal, TypeOK, Locals
<1>5. ASSUME NEW q \in Shard, StartShard(q) PROVE Same
  BY <1>5, ConstantsAssumption DEF StartShard, TypeOK
<1>6. ASSUME NEW q \in Runner, Read(q) \/ Missing(q) \/ BatchDone(q) PROVE Same
  <2>1. CASE Read(q)  BY <2>1 DEF Read, TypeOK, Locals
  <2>2. CASE Missing(q)  BY <2>2 DEF Missing, TypeOK, Locals
  <2>3. CASE BatchDone(q)  BY <2>3 DEF BatchDone
  <2> QED  BY <1>6, <2>1, <2>2, <2>3
<1>7. ASSUME NEW q \in Runner, NEW good \in BOOLEAN, ListingDone(q, good) PROVE Same
  BY <1>7 DEF ListingDone, TypeOK, Locals
<1>8. CASE NewRun  BY <1>8 DEF NewRun, NoJob
<1>9. CASE UNCHANGED job  BY <1>9
<1> QED
  BY <1>1, <1>2, <1>3, <1>4, <1>5, <1>6, <1>7, <1>8, <1>9 DEF Next, vars, ListingStep, ChildStep,
     SetAnchor, SaveAnchor, Success, Failure, ProxySkip, WriteLost, Prune, BecomesDue

\* Anchors are only added, but for a later run.
LEMMA AnchorsGrow ==
    ASSUME TypeOK, [Next]_vars, ~NewRun
    PROVE  /\ anchor'.made = anchor.made \/ (SetAnchor /\ anchor'.made = anchor.made + 1)
           /\ anchor.made \in Nat /\ anchor.saved \in Nat /\ anchor.saved <= anchor.made
<1>1. CASE SetAnchor  BY <1>1 DEF SetAnchor, TypeOK
<1>2. CASE SaveAnchor  BY <1>2 DEF SaveAnchor, TypeOK
<1>3. CASE UNCHANGED anchor  BY <1>3 DEF TypeOK
<1> QED
  BY <1>1, <1>2, <1>3 DEF Next, vars, ListingStep, Dispatch, ChildStep, StartChild, Select, Full,
     Deadline, Fatal, StartShard, Read, Missing, Success, Failure, ProxySkip, WriteLost, Prune,
     BatchDone, BecomesDue

LEMMA AnchorsInit == Init => AnchorsInOrder
<1> SUFFICES ASSUME Init PROVE AnchorsInOrder  OBVIOUS
<1>1. \A c \in Child : job[c] = NoJob  BY DEF Init, Runner
<1>2. \A l \in Listing : row[l].checked = 0  BY DEF Init
<1>3. anchor.made = 0  BY DEF Init
<1> QED  BY <1>1, <1>2, <1>3 DEF AnchorsInOrder, NoJob

LEMMA AnchorsNext ==
    ASSUME TypeOK, AnchorsInOrder, [Next]_vars
    PROVE  AnchorsInOrder'
<1>1. CASE NewRun
  <2>1. \A c \in Child : job'[c] = NoJob  BY <1>1 DEF NewRun, Runner
  <2>2. \A l \in Listing : row'[l].checked = 0  BY <1>1 DEF NewRun, TypeOK, ListingRow
  <2>3. anchor'.made = 0  BY <1>1 DEF NewRun
  <2> QED  BY <2>1, <2>2, <2>3 DEF AnchorsInOrder, NoJob
<1>2. CASE ~NewRun
  <2>1. anchor.made \in Nat /\ anchor'.made \in Nat /\ anchor.saved \in Nat
        /\ anchor.made <= anchor'.made /\ anchor.saved <= anchor.made
    BY <1>2, AnchorsGrow
  <2>2. ASSUME NEW c \in Child
        PROVE  job'[c].anchor <= job'[c].since /\ job'[c].since <= anchor'.made
    <3>1. job[c].anchor \in Nat /\ job[c].since \in Nat  BY DEF TypeOK, Locals, Runner
    <3>2. job[c].anchor <= job[c].since /\ job[c].since <= anchor.made  BY DEF AnchorsInOrder
    <3> QED  BY <2>1, <3>1, <3>2, AnchorSources
  <2>3. ASSUME NEW l \in Listing PROVE row'[l].checked <= anchor'.made
    <3>1. row[l].checked \in Nat /\ row[l].checked <= anchor.made
      BY DEF TypeOK, ListingRow, AnchorsInOrder
    <3> QED  BY <1>2, <2>1, <3>1, RowsMonotone
  <2> QED  BY <2>2, <2>3 DEF AnchorsInOrder
<1> QED  BY <1>1, <1>2

\* What was checked since a child started stays so.
LEMMA CheckedStays ==
    ASSUME TypeOK, AnchorsInOrder, [Next]_vars, ~NewRun, NEW l \in Listing, NEW n \in Nat,
           row[l].exists => row[l].checked >= n
    PROVE  row'[l].exists => row'[l].checked >= n
<1>1. row[l].checked \in Nat /\ anchor.made \in Nat /\ row[l].checked <= anchor.made
  BY DEF TypeOK, ListingRow, AnchorsInOrder
<1> QED  BY <1>1, RowsMonotone

\* After the outcome of one listing.
LEMMA ListingDoneLocals ==
    ASSUME TypeOK, NEW r \in Runner, NEW good \in BOOLEAN, ListingDone(r, good)
    PROVE  /\ pc[r] = "persist" /\ pc'[r] = "work"
           /\ job[r].at \in Listing
           /\ job'[r].todo = job[r].todo \ {job[r].at}
           /\ job'[r].processed = job[r].processed
           /\ ~good \/ job[r].failed => job'[r].failed
           /\ job'[r].exhausted = job[r].exhausted /\ job'[r].hard = job[r].hard
           /\ job'[r].since = job[r].since /\ job'[r].anchor = job[r].anchor
  BY DEF ListingDone, GoTo, TypeOK, Locals

\* A listing whose outcome counted no failure is checked or gone.
LEMMA OutcomeAccounted ==
    ASSUME TypeOK, AnchorsInOrder, [Next]_vars, ~NewRun, NEW c \in Child, Accounted(c),
           NEW good \in BOOLEAN, ListingDone(c, good),
           ~good \/ (row'[job[c].at].exists => row'[job[c].at].checked >= job[c].since)
    PROVE  Accounted(c)'
<1>1. c \in Runner  BY DEF Runner
<1>2. CASE job[c].failed \/ ~good \/ job[c].exhausted \/ job[c].hard
  BY <1>1, <1>2, ListingDoneLocals DEF Accounted
<1>3. CASE ~(job[c].failed \/ ~good \/ job[c].exhausted \/ job[c].hard)
  <2>1. ASSUME NEW l \in job'[c].processed \ job'[c].todo
        PROVE  row'[l].exists => row'[l].checked >= job[c].since
    <3>1. l \in Handled(c) \/ l = job[c].at
      BY <1>1, <2>1, ListingDoneLocals DEF Handled
    <3>2. l \in Listing  BY <1>1, <2>1, ListingDoneLocals DEF TypeOK, Locals
    <3>3. CASE l \in Handled(c)
      <4>1. row[l].exists => row[l].checked >= job[c].since
        BY <1>3, <3>3 DEF Accounted, Handled
      <4>2. job[c].since \in Nat  BY <1>1 DEF TypeOK, Locals
      <4> QED  BY <3>2, <4>1, <4>2, CheckedStays
    <3>4. CASE l = job[c].at  BY <1>3, <3>4
    <3> QED  BY <3>1, <3>3, <3>4
  <2> QED  BY <1>1, <2>1, ListingDoneLocals DEF Accounted
<1> QED  BY <1>2, <1>3

\* The steps of other runners, and of the clock.
LEMMA OthersAccounted ==
    ASSUME TypeOK, AnchorsInOrder, [Next]_vars, ~NewRun, NEW c \in Child, Accounted(c),
           job'[c] = job[c], pc'[c] = pc[c]
    PROVE  Accounted(c)'
<1>1. job[c].processed \subseteq Listing /\ job[c].since \in Nat  BY DEF TypeOK, Locals, Runner
<1>2. ASSUME NEW l \in Handled(c), row[l].exists => row[l].checked >= job[c].since
      PROVE  row'[l].exists => row'[l].checked >= job[c].since
  BY <1>1, <1>2, CheckedStays DEF Handled
<1> QED  BY <1>2 DEF Accounted, Handled

\* A child's own steps between two listings leave the rows alone.
LEMMA OwnAccounted ==
    ASSUME TypeOK, NEW c \in Child, Accounted(c),
           Dispatch(c) \/ StartChild(c) \/ StartShard(c) \/ Select(c) \/ Full(c) \/ Deadline(c) \/ Fatal(c)
              \/ Read(c) \/ Missing(c) \/ BatchDone(c)
    PROVE  Accounted(c)'
<1> c \in Runner  BY DEF Runner
<1> job[c] \in Locals  BY DEF TypeOK
<1> USE DEF GoTo
<1>0. CASE Dispatch(c)  BY <1>0 DEF Dispatch, Accounted, NoJob, TypeOK
<1>1. CASE StartChild(c)
  <2>1. job[c] = NoJob /\ pc'[c] = "select"  BY <1>1 DEF StartChild, Accounted, TypeOK
  <2>2. job'[c].todo = {} /\ job'[c].processed = {}
    BY <1>1, <2>1 DEF StartChild, NoJob, TypeOK, Locals
  <2> QED  BY <2>1, <2>2 DEF Accounted
<1>2. CASE StartShard(c)
  <2>1. PICK ids : job' = [job EXCEPT ![c] = [NoJob EXCEPT !.todo = ids, !.processed = ids]]
    BY <1>2 DEF StartShard
  <2>2. pc'[c] = "work"  BY <1>2 DEF StartShard, TypeOK
  <2>3. job'[c].todo = ids /\ job'[c].processed = ids  BY <2>1 DEF TypeOK, NoJob
  <2> QED  BY <2>2, <2>3 DEF Accounted
<1>3. CASE Select(c)
  <2>1. PICK batch \in BatchesOf(c), taken \in SUBSET Selectable(c) : Selects(c, batch, taken)
    BY <1>3, SelectCases
  <2>2. pc[c] = "select" /\ row' = row  BY <1>3 DEF Select
  <2>3. CASE pc' = [pc EXCEPT ![c] = "done"] /\ job' = job
    BY <2>2, <2>3 DEF Accounted, TypeOK
  <2>4. CASE /\ job' = [job EXCEPT ![c].todo = taken, ![c].processed = @ \cup taken]
             /\ pc' = [pc EXCEPT ![c] = "work"]
    <3>0. job[c].todo = {} \/ job[c].exhausted \/ job[c].hard  BY <2>2 DEF Accounted
    <3>1. /\ job'[c].todo = taken
          /\ job'[c].processed = job[c].processed \cup taken
          /\ job'[c].failed = job[c].failed /\ job'[c].since = job[c].since
          /\ job'[c].exhausted = job[c].exhausted /\ job'[c].hard = job[c].hard
          /\ pc'[c] = "work"
      BY <2>4 DEF TypeOK, Locals
    <3> QED  BY <2>2, <3>0, <3>1 DEF Accounted
  <2> QED  BY <2>1, <2>3, <2>4 DEF Selects
<1>4. CASE Deadline(c)
  <2>1. job'[c].exhausted /\ pc'[c] = "done"  BY <1>4 DEF Deadline, TypeOK, Locals
  <2> QED  BY <2>1 DEF Accounted
<1>5. CASE Fatal(c)
  <2>1. job'[c].hard /\ pc'[c] = "done"  BY <1>5 DEF Fatal, TypeOK, Locals
  <2> QED  BY <2>1 DEF Accounted
<1>6. CASE Read(c)
  <2>1. PICK l \in job[c].todo : job' = [job EXCEPT ![c].at = l, ![c].seen = row[l].streak]
    BY <1>6 DEF Read
  <2>2. /\ job'[c].at = l /\ job'[c].todo = job[c].todo /\ job'[c].processed = job[c].processed
        /\ job'[c].failed = job[c].failed /\ job'[c].since = job[c].since
        /\ job'[c].exhausted = job[c].exhausted /\ job'[c].hard = job[c].hard
    BY <2>1 DEF TypeOK, Locals
  <2>3. row' = row /\ pc'[c] = "persist"  BY <1>6 DEF Read, TypeOK
  <2> QED  BY <2>2, <2>3 DEF Accounted
<1>7. CASE Missing(c)
  <2>1. PICK l \in job[c].todo, late \in BOOLEAN :
            /\ ~row[l].exists
            /\ job' = [job EXCEPT ![c].todo = @ \ {l}, ![c].failed = @ \/ late]
    BY <1>7 DEF Missing
  <2>2. /\ job'[c].todo = job[c].todo \ {l} /\ job'[c].processed = job[c].processed
        /\ job[c].failed => job'[c].failed
        /\ job'[c].since = job[c].since
        /\ job'[c].exhausted = job[c].exhausted /\ job'[c].hard = job[c].hard
    BY <2>1 DEF TypeOK, Locals
  <2>3. row' = row /\ pc'[c] = "work"  BY <1>7 DEF Missing
  <2> QED  BY <2>1, <2>2, <2>3 DEF Accounted
<1>8. CASE BatchDone(c)
  <2>1. row' = row /\ job' = job /\ job[c].todo = {} /\ pc'[c] \in {"select", "done"}
    BY <1>8 DEF BatchDone, TypeOK
  <2> QED  BY <2>1 DEF Accounted
<1>9. CASE Full(c)
  <2>1. row' = row /\ job' = job /\ pc[c] = "select" /\ pc'[c] = "done"
    BY <1>9 DEF Full, TypeOK
  <2> QED  BY <2>1 DEF Accounted
<1> QED  BY <1>0, <1>1, <1>2, <1>3, <1>4, <1>5, <1>6, <1>7, <1>8, <1>9

LEMMA AccountedStep ==
    ASSUME TypeOK, AnchorsInOrder, RunsAccounted, [Next]_vars, ~NewRun, NoRefusals
    PROVE  RunsAccounted'
<1> SUFFICES ASSUME NEW c \in Child PROVE Accounted(c)'  BY DEF RunsAccounted
<1>0. Accounted(c) /\ c \in Runner  BY DEF RunsAccounted, Runner
<1> USE DEF GoTo
<1>1. ASSUME NEW q \in Runner, q # c,
             Dispatch(q) \/ StartChild(q) \/ Select(q) \/ Full(q) \/ Deadline(q) \/ Fatal(q) \/ StartShard(q) \/ Read(q)
                \/ Missing(q) \/ BatchDone(q)
      PROVE  job'[c] = job[c] /\ pc'[c] = pc[c]
  BY <1>0, <1>1 DEF SetAnchor, SaveAnchor, Dispatch, ChildStep, StartChild,
     Select, Full, Deadline, Fatal, StartShard, Read, Missing, BatchDone, TypeOK
<1>2. ASSUME NEW q \in Runner, q # c, NEW good \in BOOLEAN, ListingDone(q, good)
      PROVE  job'[c] = job[c] /\ pc'[c] = pc[c]
  BY <1>0, <1>2 DEF ListingDone, TypeOK
<1>3. ASSUME NEW q \in Runner, Failure(q) \/ ProxySkip(q) \/ WriteLost(q)
      PROVE  Accounted(c)'
  <2>1. ListingDone(q, FALSE)  BY <1>3 DEF Failure, ProxySkip, WriteLost
  <2>2. CASE q # c  BY <1>0, <1>2, <2>1, <2>2, OthersAccounted
  <2>3. CASE q = c  BY <1>0, <2>1, <2>3, OutcomeAccounted
  <2> QED  BY <2>2, <2>3
<1>4. ASSUME NEW q \in Runner, Success(q)
      PROVE  Accounted(c)'
  <2>1. ListingDone(q, TRUE)  BY <1>4 DEF Success
  <2>2. CASE q # c  BY <1>0, <1>2, <2>1, <2>2, OthersAccounted
  <2>3. CASE q = c
    <3>1. job[c].at \in Listing  BY <1>0, <2>1, <2>3, ListingDoneLocals
    <3>2. Put(job[c].at, Checked([row[job[c].at] EXCEPT !.streak = 0]))
      BY <1>4, <2>3 DEF Success, Kept, NoRefusals
    <3>3. row'[job[c].at].exists => row'[job[c].at].checked = anchor.made
      BY <3>1, <3>2 DEF Put, Checked, TypeOK, ListingRow
    <3>4. job[c].since <= anchor.made /\ job[c].since \in Nat /\ anchor.made \in Nat
      BY <1>0 DEF AnchorsInOrder, TypeOK, Locals
    <3>5. row'[job[c].at].exists => row'[job[c].at].checked >= job[c].since  BY <3>3, <3>4
    <3> QED  BY <1>0, <2>1, <2>3, <3>5, OutcomeAccounted
  <2> QED  BY <2>2, <2>3
<1>5. ASSUME NEW q \in Runner, Prune(q)
      PROVE  Accounted(c)'
  <2>1. PICK good \in BOOLEAN : ListingDone(q, good)  BY <1>5 DEF Prune
  <2>2. CASE q # c  BY <1>0, <1>2, <2>1, <2>2, OthersAccounted
  <2>3. CASE q = c
    <3>1. job[c].at \in Listing  BY <1>0, <2>1, <2>3, ListingDoneLocals
    <3>2. ~row'[job[c].at].exists  BY <1>5, <2>3, <3>1 DEF Prune, TypeOK, ListingRow, NoRefusals
    <3> QED  BY <1>0, <2>1, <2>3, <3>2, OutcomeAccounted
  <2> QED  BY <2>2, <2>3
<1>6. ASSUME NEW q \in Runner,
             Dispatch(q) \/ StartChild(q) \/ Select(q) \/ Full(q) \/ Deadline(q) \/ Fatal(q) \/ StartShard(q) \/ Read(q)
                \/ Missing(q) \/ BatchDone(q)
      PROVE  Accounted(c)'
  <2>1. CASE q = c  BY <1>0, <1>6, <2>1, OwnAccounted
  <2>2. CASE q # c  BY <1>0, <1>1, <1>6, <2>2, OthersAccounted
  <2> QED  BY <2>1, <2>2
<1>7. CASE UNCHANGED <<pc, job>>  BY <1>0, <1>7, OthersAccounted
<1> QED
  BY <1>3, <1>4, <1>5, <1>6, <1>7 DEF Next, vars, ListingStep, ChildStep, SetAnchor, SaveAnchor,
     BecomesDue, Runner

LEMMA AccountedNext ==
    ASSUME TypeOK, AnchorsInOrder, RunsAccounted, [Next]_vars, NoRefusals
    PROVE  (AnchorsInOrder /\ RunsAccounted)'
<1>0. AnchorsInOrder'  BY AnchorsNext
<1>1. ASSUME NewRun PROVE RunsAccounted'
  <2> SUFFICES ASSUME NEW c \in Child PROVE Accounted(c)'  BY DEF RunsAccounted
  <2>1. pc'[c] = "idle" /\ job'[c] = NoJob  BY <1>1 DEF NewRun, Runner
  <2> QED  BY <2>1 DEF Accounted, NoJob
<1> QED  BY <1>0, <1>1, AccountedStep

\* A child that reports "completed" within its budget has no listing on its
\* books that was not checked since it started, provided the gate refuses no
\* write.
THEOREM CompletedIsChecked ==
    ASSUME NoRefusals
    PROVE  Spec => []CompletedMeansChecked
<1>1. Init => TypeOK /\ AnchorsInOrder /\ RunsAccounted  BY TypeInit, AnchorsInit, AccountedInit
<1>2. TypeOK /\ AnchorsInOrder /\ RunsAccounted /\ [Next]_vars
         => (TypeOK /\ AnchorsInOrder /\ RunsAccounted)'
  BY TypeNext, AccountedNext
<1>3. TypeOK /\ RunsAccounted => CompletedMeansChecked
  <2> SUFFICES ASSUME TypeOK, RunsAccounted, NEW c \in Child, pc[c] = "done",
                      ~job[c].exhausted, Verdict(c) = "completed", NEW l \in job[c].processed
               PROVE  row[l].exists => row[l].checked >= job[c].since
    BY DEF CompletedMeansChecked
  <2>1. ~job[c].hard /\ ~job[c].failed  BY DEF Verdict
  <2>2. Accounted(c)  BY DEF RunsAccounted
  <2> QED  BY <2>1, <2>2 DEF Accounted
<1> QED  BY <1>1, <1>2, <1>3, PTL DEF Spec

-----------------------------------------------------------------------------
(***************************************************************************)
(* How a child ends.  Without a failure on its books, what a child has     *)
(* processed was checked since its anchor or is gone: a batch of processed *)
(* listings is empty, and an empty batch is only selected from nothing.    *)
(***************************************************************************)
LEMMA EmptyBatch ==
    ASSUME IsFiniteSet(Listing), NEW c \in Child, {} \in BatchesOf(c)
    PROVE  Selectable(c) = {}
<1> DEFINE n == Cardinality(Selectable(c))
<1>1. IsFiniteSet(Selectable(c))  BY FS_Subset DEF Selectable, Due
<1>2. n \in Nat /\ (n = 0 <=> Selectable(c) = {})
  BY <1>1, FS_CardinalityType, FS_EmptySet
<1>3. Cardinality({}) = 0  BY FS_EmptySet
<1>4. Cardinality({}) = IF n < BatchSize THEN n ELSE BatchSize  BY DEF BatchesOf, Some
<1> HIDE DEF n
<1> QED  BY <1>2, <1>3, <1>4, ConstantsAssumption

LEMMA CompletedStep ==
    ASSUME TypeOK, AnchorsInOrder, RunsAccounted, [Next]_vars, NEW c \in Child,
           IsFiniteSet(Listing), pc[c] # "done", pc'[c] = "done", ~job'[c].exhausted,
           Verdict(c)' = "completed", job[c].anchor # 0, Room(c) > 0
    PROVE  Selectable(c) = {}
<1> c \in Runner  BY DEF Runner
<1> job[c] \in Locals  BY DEF TypeOK
<1>0. ~job'[c].hard /\ ~job'[c].failed  BY DEF Verdict
<1>1. ASSUME Select(c) PROVE Selectable(c) = {}
  <2>1. PICK batch \in BatchesOf(c), taken \in SUBSET Selectable(c) : Selects(c, batch, taken)
    BY <1>1, SelectCases
  <2>2. batch \subseteq job[c].processed /\ job' = job
    BY <2>1 DEF Selects, TypeOK
  <2>3. pc[c] = "select"  BY <1>1 DEF Select
  <2>4. \A l \in job[c].processed : row[l].exists => row[l].checked >= job[c].since
    BY <1>0, <2>2, <2>3 DEF RunsAccounted, Accounted
  <2>5. batch \subseteq Selectable(c) /\ batch \subseteq Listing  BY BatchesListed
  <2>6. ASSUME NEW l \in batch PROVE FALSE
    <3>1. row[l].exists /\ row[l].checked < job[c].anchor  BY <2>5 DEF Selectable, Due
    <3>2. row[l].checked >= job[c].since  BY <2>2, <2>4, <3>1
    <3>3. job[c].anchor <= job[c].since  BY DEF AnchorsInOrder
    <3>4. row[l].checked \in Nat /\ job[c].anchor \in Nat /\ job[c].since \in Nat
      BY <2>5 DEF TypeOK, ListingRow, Locals
    <3> QED  BY <3>1, <3>2, <3>3, <3>4
  <2>7. batch = {}  BY <2>6
  <2> QED  BY <2>7, EmptyBatch
<1>9. ASSUME Full(c) PROVE FALSE
  <2>1. Cardinality(job[c].processed) \in Nat
    BY FS_Subset, FS_CardinalityType DEF Locals
  <2> QED  BY <1>9, <2>1, ConstantsAssumption DEF Full, Room
<1>2. ASSUME Deadline(c) \/ Fatal(c) PROVE FALSE
  <2>1. CASE Deadline(c)  BY <2>1 DEF Deadline, Locals, TypeOK
  <2>2. CASE Fatal(c)  BY <1>0, <2>2 DEF Fatal, Locals, TypeOK
  <2> QED  BY <1>2, <2>1, <2>2
<1>3. ASSUME NEW r \in Runner, NEW good \in BOOLEAN, ListingDone(r, good) PROVE FALSE
  BY <1>3 DEF ListingDone, GoTo, TypeOK
<1>4. ASSUME NEW r \in Runner, Read(r) \/ Missing(r) \/ BatchDone(r) PROVE FALSE
  BY <1>4 DEF Read, Missing, BatchDone, GoTo, TypeOK, Runner
<1>5. ASSUME NEW d \in Child, d # c, Select(d) \/ Full(d) \/ Deadline(d) \/ Fatal(d) PROVE FALSE
  BY <1>5 DEF Select, Full, Deadline, Fatal, GoTo, TypeOK, Runner
<1>6. ASSUME NEW r \in Runner, Dispatch(r) \/ StartChild(r) \/ StartShard(r) PROVE FALSE
  BY <1>6 DEF Dispatch, StartChild, StartShard, GoTo, TypeOK
<1>7. CASE NewRun  BY <1>7 DEF NewRun
<1>8. CASE UNCHANGED pc  BY <1>8
<1> QED
  BY <1>1, <1>2, <1>3, <1>4, <1>5, <1>6, <1>7, <1>8, <1>9 DEF Next, vars, ListingStep, ChildStep,
     SetAnchor, SaveAnchor, Success, Failure, ProxySkip, WriteLost, Prune, BecomesDue, Runner

\* When the gate refuses no write, a child with an anchor that ends as completed
\* within its budget and its number of listings leaves nothing selectable, for any size of its batches and of the
\* cohort, and whoever works on the listings beside it.
THEOREM CompletedIsDrained ==
    ASSUME NoRefusals, IsFiniteSet(Listing)
    PROVE  Spec => CompletedLeavesNothing
<1>1. Init => TypeOK /\ AnchorsInOrder /\ RunsAccounted  BY TypeInit, AnchorsInit, AccountedInit
<1>2. TypeOK /\ AnchorsInOrder /\ RunsAccounted /\ [Next]_vars
         => (TypeOK /\ AnchorsInOrder /\ RunsAccounted)'
  BY TypeNext, AccountedNext
<1>3. TypeOK /\ AnchorsInOrder /\ RunsAccounted /\ [Next]_vars
         => [\A c \in Child :
                pc[c] # "done" /\ pc'[c] = "done" /\ ~job'[c].exhausted
                    /\ Verdict(c)' = "completed" /\ job[c].anchor # 0 /\ Room(c) > 0
                    => Selectable(c) = {}]_vars
  BY CompletedStep
<1> QED  BY <1>1, <1>2, <1>3, PTL DEF Spec, CompletedLeavesNothing

-----------------------------------------------------------------------------
(***************************************************************************)
(* Once per anchor.  While children run one at a time, a listing a child     *)
(* with an anchor is about to try has had no success since the latest one:  *)
(* it had not been checked when it was selected, and only that child could  *)
(* have scraped it since.                                                  *)
(***************************************************************************)
OneAtATime == "duplicate" \notin Events

Active(c) == pc[c] \in {"sent", "select", "work", "persist"}

Solo ==
    /\ \A c, d \in Child : Active(c) /\ Active(d) => c = d
    /\ \A c \in Child : pc[c] \in {"idle", "done", "sent", "select"} => job[c].todo = {}

Untried == \A c \in Child : job[c].anchor # 0 => \A l \in job[c].todo : oks[l] = 0

SuccessIsChecked ==
    \A l \in Listing : oks[l] >= 1 => (row[l].exists => row[l].checked = anchor.made)

OnceInv == Solo /\ Untried /\ SuccessIsChecked /\ OncePerAnchor

LEMMA OnceInit == Init => OnceInv
<1> SUFFICES ASSUME Init PROVE OnceInv  OBVIOUS
<1>1. \A c \in Child : pc[c] = "idle" /\ job[c] = NoJob  BY DEF Init, Runner
<1>2. \A l \in Listing : oks[l] = 0  BY DEF Init
<1>3. Solo  BY <1>1 DEF Solo, Active, NoJob
<1>4. Untried  BY <1>1 DEF Untried, NoJob
<1> QED  BY <1>2, <1>3, <1>4 DEF OnceInv, SuccessIsChecked, OncePerAnchor

\* Which child is at work, and what it still has to do.
LEMMA SoloNext ==
    ASSUME TypeOK, Solo, [Next]_vars, OneAtATime
    PROVE  Solo'
<1> USE DEF GoTo
<1>1. ASSUME NEW q \in Child, Dispatch(q) PROVE Solo'
  <2>1. \A d \in Child : pc[d] \in {"idle", "done"}  BY <1>1 DEF Dispatch, OneAtATime
  <2>2. pc' = [pc EXCEPT ![q] = "sent"] /\ job' = [job EXCEPT ![q] = NoJob]
    BY <1>1 DEF Dispatch
  <2>3. \A c \in Child : c # q => pc'[c] = pc[c] /\ job'[c] = job[c]
    BY <2>2 DEF TypeOK, Runner
  <2>4. job'[q].todo = {}  BY <2>2 DEF TypeOK, Runner, NoJob
  <2> QED  BY <2>1, <2>3, <2>4 DEF Solo, Active
<1>2. ASSUME NEW q \in Runner,
             \A c \in Child : c # q => pc'[c] = pc[c] /\ job'[c] = job[c],
             q \in Child => /\ Active(q)
                            /\ pc'[q] \in {"done", "select"} => job'[q].todo = {}
                            /\ pc'[q] \notin {"idle", "sent"}
      PROVE  Solo'
  <2>1. ASSUME NEW c \in Child, NEW d \in Child, Active(c)', Active(d)' PROVE c = d
    BY <1>2, <2>1 DEF Solo, Active
  <2>2. ASSUME NEW c \in Child, pc'[c] \in {"idle", "done", "sent", "select"} PROVE job'[c].todo = {}
    BY <1>2, <2>2 DEF Solo
  <2> QED  BY <2>1, <2>2 DEF Solo
<1>3. ASSUME NEW q \in Child, Select(q) PROVE Solo'
  <2>0. PICK batch \in BatchesOf(q), taken \in SUBSET Selectable(q) : Selects(q, batch, taken)
    BY <1>3, SelectCases
  <2>1. \A c \in Child : c # q => pc'[c] = pc[c] /\ job'[c] = job[c]
    BY <2>0 DEF Selects, TypeOK, Runner
  <2>2. pc[q] = "select" /\ ((pc'[q] = "done" /\ job' = job) \/ pc'[q] = "work")
    BY <1>3, <2>0 DEF Select, Selects, TypeOK, Runner
  <2>3. job[q].todo = {}  BY <2>2 DEF Solo
  <2> QED  BY <1>2, <2>1, <2>2, <2>3 DEF Active, Runner
<1>4. ASSUME NEW q \in Child, Deadline(q) \/ Fatal(q) PROVE Solo'
  <2>1. \A c \in Child : c # q => pc'[c] = pc[c] /\ job'[c] = job[c]
    BY <1>4 DEF Deadline, Fatal, TypeOK, Runner
  <2>2. pc[q] \in {"select", "work"} /\ pc'[q] = "done" /\ job'[q].todo = {}
    BY <1>4 DEF Deadline, Fatal, TypeOK, Runner, Locals
  <2> QED  BY <1>2, <2>1, <2>2 DEF Active, Runner
<1>5. ASSUME NEW q \in Shard, StartShard(q) PROVE Solo'
  <2>1. q \notin Child  BY ConstantsAssumption
  <2>2. \A c \in Child : c # q => pc'[c] = pc[c] /\ job'[c] = job[c]
    BY <1>5 DEF StartShard, TypeOK, Runner
  <2> QED  BY <1>2, <2>1, <2>2 DEF Runner
<1>6. ASSUME NEW q \in Runner, NEW good \in BOOLEAN, ListingDone(q, good) PROVE Solo'
  <2>1. \A c \in Child : c # q => pc'[c] = pc[c] /\ job'[c] = job[c]
    BY <1>6 DEF ListingDone, TypeOK, Runner
  <2> QED  BY <1>2, <1>6, <2>1, ListingDoneLocals DEF Active
<1>7. ASSUME NEW q \in Runner, Read(q) \/ Missing(q) PROVE Solo'
  <2>1. \A c \in Child : c # q => pc'[c] = pc[c] /\ job'[c] = job[c]
    BY <1>7 DEF Read, Missing, TypeOK, Runner
  <2>2. pc[q] = "work" /\ pc'[q] \in {"work", "persist"}  BY <1>7 DEF Read, Missing, TypeOK
  <2> QED  BY <1>2, <2>1, <2>2 DEF Active
<1>8. ASSUME NEW q \in Runner, BatchDone(q) PROVE Solo'
  <2>1. \A c \in Child : c # q => pc'[c] = pc[c] /\ job'[c] = job[c]
    BY <1>8 DEF BatchDone, TypeOK, Runner
  <2>2. pc[q] = "work" /\ pc'[q] \in {"select", "done"} /\ job'[q].todo = {}
    BY <1>8 DEF BatchDone, TypeOK
  <2> QED  BY <1>2, <2>1, <2>2 DEF Active
<1>9. CASE NewRun
  <2>1. \A c \in Child : pc'[c] = "idle" /\ job'[c] = NoJob  BY <1>9 DEF NewRun, Runner
  <2> QED  BY <2>1 DEF Solo, Active, NoJob
<1>10. CASE UNCHANGED <<pc, job>>  BY <1>10 DEF Solo, Active
<1>11. ASSUME NEW q \in Child, StartChild(q) \/ Full(q) PROVE Solo'
  <2>1. \A c \in Child : c # q => pc'[c] = pc[c] /\ job'[c] = job[c]
    BY <1>11 DEF StartChild, Full, TypeOK, Runner
  <2>2. pc[q] \in {"sent", "select"} /\ pc'[q] \in {"select", "done"}
    BY <1>11 DEF StartChild, Full, TypeOK, Runner
  <2>3. job[q].todo = {}  BY <2>2 DEF Solo
  <2>4. job'[q].todo = {}  BY <1>11, <2>3 DEF StartChild, Full, TypeOK, Runner, Locals
  <2> QED  BY <1>2, <2>1, <2>2, <2>4 DEF Active, Runner
<1> QED
  BY <1>1, <1>3, <1>4, <1>5, <1>6, <1>7, <1>8, <1>9, <1>10, <1>11 DEF Next, vars, ListingStep,
     ChildStep, SetAnchor, SaveAnchor, Success, Failure, ProxySkip, WriteLost, Prune, BecomesDue

\* A child takes on only what it selects: everything else on its list was there.
LEMMA TodoSources ==
    ASSUME TypeOK, [Next]_vars, NEW c \in Child, NEW l \in job'[c].todo
    PROVE  l \in job[c].todo \/ (Select(c) /\ l \in Selectable(c))
<1> USE DEF GoTo
<1> c \in Runner  BY DEF Runner
<1>0. ASSUME NEW q \in Child, Dispatch(q) PROVE l \in job[c].todo
  BY <1>0 DEF Dispatch, NoJob, TypeOK
<1>1. ASSUME NEW q \in Child, StartChild(q) \/ Full(q) PROVE l \in job[c].todo
  BY <1>1 DEF StartChild, Full, TypeOK, Locals
<1>2. ASSUME NEW q \in Child, Select(q)
      PROVE  l \in job[c].todo \/ (q = c /\ l \in Selectable(c))
  <2>1. PICK batch \in BatchesOf(q), taken \in SUBSET Selectable(q) : Selects(q, batch, taken)
    BY <1>2, SelectCases
  <2>2. CASE job' = job  BY <2>2
  <2>3. CASE job' = [job EXCEPT ![q].todo = taken, ![q].processed = @ \cup taken]
    <3>1. q = c => job'[c].todo = taken  BY <2>3 DEF TypeOK, Locals
    <3>2. q # c => job'[c] = job[c]  BY <2>3 DEF TypeOK
    <3> QED  BY <3>1, <3>2
  <2> QED  BY <2>1, <2>2, <2>3 DEF Selects
<1>3. ASSUME NEW q \in Child, Deadline(q) \/ Fatal(q) PROVE l \in job[c].todo
  <2>1. q = c => job'[c].todo = {}  BY <1>3 DEF Deadline, Fatal, TypeOK, Locals
  <2>2. q # c => job'[c] = job[c]  BY <1>3 DEF Deadline, Fatal, TypeOK
  <2> QED  BY <2>1, <2>2
<1>4. ASSUME NEW q \in Shard, StartShard(q) PROVE l \in job[c].todo
  BY <1>4, ConstantsAssumption DEF StartShard, TypeOK
<1>5. ASSUME NEW q \in Runner, NEW good \in BOOLEAN, ListingDone(q, good) PROVE l \in job[c].todo
  <2>1. CASE q = c  BY <1>5, <2>1, ListingDoneLocals
  <2>2. CASE q # c  BY <1>5, <2>2 DEF ListingDone, TypeOK
  <2> QED  BY <2>1, <2>2
<1>6. ASSUME NEW q \in Runner, Read(q) \/ Missing(q) \/ BatchDone(q) PROVE l \in job[c].todo
  <2>1. CASE Read(q)
    <3>1. PICK k \in job[q].todo : job' = [job EXCEPT ![q].at = k, ![q].seen = row[k].streak]
      BY <2>1 DEF Read
    <3>2. job'[c].todo = job[c].todo  BY <3>1 DEF TypeOK, Locals
    <3> QED  BY <3>2
  <2>2. CASE Missing(q)
    <3>1. PICK k \in job[q].todo, late \in BOOLEAN :
              job' = [job EXCEPT ![q].todo = @ \ {k}, ![q].failed = @ \/ late]
      BY <2>2 DEF Missing
    <3>2. job'[c].todo \subseteq job[c].todo  BY <3>1 DEF TypeOK, Locals
    <3> QED  BY <3>2
  <2>3. CASE BatchDone(q)  BY <2>3 DEF BatchDone
  <2> QED  BY <1>6, <2>1, <2>2, <2>3
<1>7. CASE NewRun  BY <1>7 DEF NewRun, NoJob
<1>8. CASE UNCHANGED job  BY <1>8
<1> QED
  BY <1>0, <1>1, <1>2, <1>3, <1>4, <1>5, <1>6, <1>7, <1>8 DEF Next, vars, ListingStep, ChildStep,
     SetAnchor, SaveAnchor, Success, Failure, ProxySkip, WriteLost, Prune, BecomesDue

\* The success of a child counts once, for a listing that had none if the child
\* has an anchor, and checks it; the other children have nothing to do.
LEMMA ChildSucceeds ==
    ASSUME TypeOK, RunsAccounted, OnceInv, [Next]_vars, NoRefusals, NEW c \in Child, Success(c)
    PROVE  /\ job[c].at \in job[c].todo /\ job[c].at \in Listing
           /\ oks' = [oks EXCEPT ![job[c].at] = 1] /\ anchor' = anchor
           /\ row'[job[c].at].exists => row'[job[c].at].checked = anchor.made
           /\ \A d \in Child : d # c => job'[d].todo = {}
           /\ job'[c].todo = job[c].todo \ {job[c].at} /\ job'[c].anchor = job[c].anchor
<1> c \in Runner  BY DEF Runner
<1> DEFINE l == job[c].at
<1>1. ListingDone(c, TRUE) /\ anchor' = anchor  BY DEF Success
<1>2. /\ l \in Listing /\ pc[c] = "persist" /\ job'[c].todo = job[c].todo \ {l}
      /\ job'[c].anchor = job[c].anchor
  BY <1>1, ListingDoneLocals
<1>3. l \in job[c].todo  BY <1>2 DEF RunsAccounted, Accounted
<1>4. oks' = [oks EXCEPT ![l] = IF job[c].anchor = 0 /\ @ = 0 THEN 1
                                ELSE IF job[c].anchor # 0 /\ @ < 2 THEN @ + 1 ELSE @]
  BY DEF Success
<1>5. oks' = [oks EXCEPT ![l] = 1]
  <2>1. oks[l] \in Nat /\ oks[l] <= 1  BY <1>2 DEF TypeOK, OnceInv, OncePerAnchor
  <2>2. job[c].anchor # 0 => oks[l] = 0  BY <1>3 DEF OnceInv, Untried
  <2>3. oks \in [Listing -> Nat]  BY DEF TypeOK
  <2> HIDE DEF l
  <2>4. CASE job[c].anchor = 0
    <3>1. (IF job[c].anchor = 0 /\ oks[l] = 0 THEN 1
           ELSE IF job[c].anchor # 0 /\ oks[l] < 2 THEN oks[l] + 1 ELSE oks[l]) = 1
      BY <2>1, <2>4
    <3> QED  BY <1>2, <1>4, <2>3, <3>1
  <2>5. CASE job[c].anchor # 0
    <3>1. (IF job[c].anchor = 0 /\ oks[l] = 0 THEN 1
           ELSE IF job[c].anchor # 0 /\ oks[l] < 2 THEN oks[l] + 1 ELSE oks[l]) = 1
      BY <2>2, <2>5
    <3> QED  BY <1>2, <1>4, <2>3, <3>1
  <2> QED  BY <2>4, <2>5
<1>6. Put(l, Checked([row[l] EXCEPT !.streak = 0]))  BY DEF Success, Kept, NoRefusals
<1>7. row'[l].exists => row'[l].checked = anchor.made
  BY <1>2, <1>6 DEF Put, Checked, TypeOK, ListingRow
<1>8. ASSUME NEW d \in Child, d # c PROVE job'[d].todo = {}
  <2>1. ~Active(d)  BY <1>2, <1>8 DEF OnceInv, Solo, Active
  <2>2. pc[d] \in {"idle", "done"}  BY <2>1 DEF Active, TypeOK, Runner
  <2>3. job[d].todo = {}  BY <2>2 DEF OnceInv, Solo
  <2> QED  BY <1>1, <1>8, <2>3 DEF ListingDone, TypeOK, Runner
<1> QED  BY <1>1, <1>2, <1>3, <1>5, <1>7, <1>8

\* Where the count of successes comes from.
LEMMA OksSources ==
    ASSUME TypeOK, [Next]_vars
    PROVE  oks' = oks \/ NewRun \/ SetAnchor \/ \E c \in Child : Success(c)
<1>1. ASSUME NEW s \in Runner, s \notin Child, Success(s) PROVE oks' = oks
  BY <1>1 DEF Success
<1> QED
  BY <1>1 DEF Next, vars, history, ListingStep, SaveAnchor, Dispatch, ChildStep, StartChild, Select,
     Full, Deadline, Fatal, StartShard, Read, Missing, Failure, ProxySkip, WriteLost, Prune,
     BatchDone, BecomesDue

LEMMA OnceNext ==
    ASSUME TypeOK, AnchorsInOrder, RunsAccounted, OnceInv, [Next]_vars, NoRefusals, OneAtATime
    PROVE  OnceInv'
<1>1. Solo'  BY SoloNext DEF OnceInv
<1>2. CASE NewRun \/ SetAnchor
  <2>1. \A l \in Listing : oks'[l] = 0  BY <1>2 DEF NewRun, SetAnchor
  <2>2. ASSUME NEW c \in Child PROVE job'[c].todo \subseteq Listing
    BY TypeNext DEF TypeOK, Locals, Runner
  <2> QED  BY <1>1, <2>1, <2>2 DEF OnceInv, Untried, SuccessIsChecked, OncePerAnchor
<1>3. ASSUME NEW c \in Child, Success(c), ~NewRun PROVE OnceInv'
  <2> DEFINE m == job[c].at
  <2>1. /\ m \in Listing /\ oks' = [oks EXCEPT ![m] = 1] /\ anchor' = anchor
        /\ row'[m].exists => row'[m].checked = anchor.made
        /\ \A d \in Child : d # c => job'[d].todo = {}
        /\ job'[c].todo = job[c].todo \ {m} /\ job'[c].anchor = job[c].anchor
    BY <1>3, ChildSucceeds
  <2> HIDE DEF m
  <2>2. \A l \in Listing : l # m => oks'[l] = oks[l]  BY <2>1 DEF TypeOK
  <2>3. oks'[m] = 1  BY <2>1 DEF TypeOK
  <2>4. job[c].todo \subseteq Listing  BY DEF TypeOK, Locals, Runner
  <2>5. Untried'
    <3> SUFFICES ASSUME job[c].anchor # 0, NEW l \in job'[c].todo PROVE oks'[l] = 0
      BY <2>1 DEF Untried
    <3>1. l \in job[c].todo /\ l # m /\ l \in Listing  BY <2>1, <2>4
    <3> QED  BY <2>2, <3>1 DEF OnceInv, Untried
  <2>6. SuccessIsChecked'
    <3> SUFFICES ASSUME NEW l \in Listing, oks'[l] >= 1
                 PROVE  row'[l].exists => row'[l].checked = anchor.made
      BY <2>1 DEF SuccessIsChecked
    <3>1. CASE l = m  BY <2>1, <3>1
    <3>2. CASE l # m
      <4>1. row[l].exists => row[l].checked = anchor.made
        BY <2>2, <3>2 DEF OnceInv, SuccessIsChecked
      <4> QED  BY <1>3, <4>1, RowsMonotone
    <3> QED  BY <3>1, <3>2
  <2>7. OncePerAnchor'  BY <2>2, <2>3 DEF OnceInv, OncePerAnchor
  <2> QED  BY <1>1, <2>5, <2>6, <2>7 DEF OnceInv
<1>4. ASSUME oks' = oks, ~NewRun, ~SetAnchor PROVE OnceInv'
  <2>0. anchor'.made = anchor.made  BY <1>4, AnchorsGrow
  <2>1. SuccessIsChecked'
    <3> SUFFICES ASSUME NEW l \in Listing, oks[l] >= 1
                 PROVE  row'[l].exists => row'[l].checked = anchor.made
      BY <1>4, <2>0 DEF SuccessIsChecked
    <3>1. row[l].exists => row[l].checked = anchor.made  BY DEF OnceInv, SuccessIsChecked
    <3> QED  BY <1>4, <3>1, RowsMonotone
  <2>2. Untried'
    <3> SUFFICES ASSUME NEW c \in Child, job'[c].anchor # 0, NEW l \in job'[c].todo
                 PROVE  oks[l] = 0
      BY <1>4 DEF Untried
    <3>1. CASE job'[c].anchor = job[c].anchor
      <4>1. CASE l \in job[c].todo  BY <3>1, <4>1 DEF OnceInv, Untried
      <4>2. CASE l \in Selectable(c)
        <5>1. l \in Listing /\ row[l].exists /\ row[l].checked < job[c].anchor
          BY <3>1, <4>2 DEF Selectable, Due
        <5>2. job[c].anchor <= job[c].since /\ job[c].since <= anchor.made
          BY DEF AnchorsInOrder
        <5>3. /\ row[l].checked \in Nat /\ job[c].anchor \in Nat /\ job[c].since \in Nat
              /\ anchor.made \in Nat /\ oks[l] \in Nat
          BY <5>1 DEF TypeOK, ListingRow, Locals, Runner
        <5>4. row[l].checked # anchor.made  BY <5>1, <5>2, <5>3
        <5> QED  BY <5>1, <5>3, <5>4 DEF OnceInv, SuccessIsChecked
      <4> QED  BY <4>1, <4>2, TodoSources
    <3>2. CASE job'[c].anchor = 0  BY <3>2
    <3>3. CASE StartChild(c)
      <4>1. job[c].todo = {}  BY <3>3 DEF StartChild, OnceInv, Solo
      <4>2. ~Select(c)  BY <3>3 DEF StartChild, Select
      <4> QED  BY <4>1, <4>2, TodoSources
    <3> QED  BY <3>1, <3>2, <3>3, AnchorSources
  <2>3. OncePerAnchor'  BY <1>4 DEF OnceInv, OncePerAnchor
  <2> QED  BY <1>1, <2>1, <2>2, <2>3 DEF OnceInv
<1> QED  BY <1>2, <1>3, <1>4, OksSources

\* While children run one after the other and the gate refuses no write, a
\* child with an anchor scrapes no listing that a child of the run has scraped
\* since that anchor was set, whatever shards, clocks, stale copies of the metadata
\* and faults do beside them, and however often the anchor is lost and set anew.
THEOREM ScrapedOncePerAnchor ==
    ASSUME NoRefusals, OneAtATime
    PROVE  Spec => []OncePerAnchor
<1>1. Init => TypeOK /\ AnchorsInOrder /\ RunsAccounted /\ OnceInv
  BY TypeInit, AnchorsInit, AccountedInit, OnceInit
<1>2. TypeOK /\ AnchorsInOrder /\ RunsAccounted /\ OnceInv /\ [Next]_vars
         => (TypeOK /\ AnchorsInOrder /\ RunsAccounted /\ OnceInv)'
  BY TypeNext, AccountedNext, OnceNext
<1>3. OnceInv => OncePerAnchor  BY DEF OnceInv
<1> QED  BY <1>1, <1>2, <1>3, PTL DEF Spec

=============================================================================
