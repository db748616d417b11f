--------------------------- MODULE MCTickOrchestrator ---------------------------
(***************************************************************************)
(* Model-checking instances of TickOrchestrator.                           *)
(***************************************************************************)
EXTENDS TickOrchestrator, TLC

CONSTANTS a, b

\* The ascending snapshot of two, and of one, marketplace codes.
TwoCodes == <<a, b>>
OneCode == <<a>>

\* Worker processes are interchangeable.
Symmetry == Permutations(Ticker) \cup Permutations(Worker)
=============================================================================
