---------------------------- MODULE PipelineContract ----------------------------
(***************************************************************************)
(* What a full-pipeline run promises to the admin who triggered it,        *)
(* without ticks, locks, children or metadata: every marketplace is        *)
(* attempted before the run may claim a verdict of its own, "completed" or *)
(* "partial"; a run may fail at any time; once it has a terminal status it *)
(* is never running again.  TickOrchestrator implements this.              *)
(***************************************************************************)
CONSTANT Marketplace

VARIABLES
    status,      \* status of the parent job
    attempted    \* marketplaces whose discovery was attempted

contractVars == <<status, attempted>>

Verdict == {"completed", "partial"}

Init == status = "absent" /\ attempted = {}

\* The admin triggers the run.
Start == status = "absent" /\ status' = "running" /\ UNCHANGED attempted

\* One marketplace is taken on.  This may still happen after the run ended:
\* a tick that was already dispatching finishes its step.
Attempt == status # "absent" /\ \E m \in Marketplace : attempted' = attempted \cup {m}
           /\ UNCHANGED status

\* The run reaches a verdict: not before all of its marketplaces were attempted.
Conclude == /\ status # "absent"
            /\ attempted = Marketplace
            /\ status' \in Verdict
            /\ UNCHANGED attempted

\* The run fails: its own verdict, a cancel, or the reaper.
Fail == status # "absent" /\ status' = "failed" /\ UNCHANGED attempted

Next == Start \/ Attempt \/ Conclude \/ Fail

Spec == Init /\ [][Next]_contractVars
=============================================================================
