-------------------------------- MODULE MCLive --------------------------------
(***************************************************************************)
(* The matching tick and the cohort of a scrape child, for the properties  *)
(* that need fairness: the initial state chooses one of them (part), the   *)
(* other stands still.                                                     *)
(***************************************************************************)
EXTENDS Matching, TLC

CONSTANTS
    Parts,
    Listing, Child, BatchSize, MaxListings, DeactivateAfter, MaxStreak, MaxSkips, MaxAnchors,
    NoListing, Events

VARIABLES part, cRow, cAnchor, cPc, cJob, cFails, cOks, cSkips

cVars == <<cRow, cAnchor, cPc, cJob, cFails, cOks, cSkips>>

C == INSTANCE ScrapeCohort WITH
    Shard <- {},
    row <- cRow, anchor <- cAnchor, pc <- cPc, job <- cJob, fails <- cFails, oks <- cOks,
    skips <- cSkips

-----------------------------------------------------------------------------
\* Three products: of the first everything arrives late, and may put it beside
\* the second, whose title is alike, or beside the third, of another type.
ThreeGtins == 1 :> 9 @@ 2 :> 0 @@ 3 :> 0
ThreeCodes == 1 :> 5 @@ 2 :> 0 @@ 3 :> 5
ThreeTitles == 1 :> 3 @@ 2 :> 2 @@ 3 :> 0
ThreeTypes == 1 :> 2 @@ 2 :> 2 @@ 3 :> 1
ThreeGiven == 1 :> {} @@ 2 :> {"type"} @@ 3 :> {"name", "type"}

\* Four products of one signature, one of the first type and three of the second.
FourNone == [p \in 1..4 |-> Nothing]
FourCodes == [p \in 1..4 |-> 5]
FourTypes == 1 :> 1 @@ 2 :> 2 @@ 3 :> 2 @@ 4 :> 2
FourGiven == [p \in 1..4 |-> {"name"}]

TitlesAlike == {{2, 3}}

\* One order of the hashes: groups split off, then those of titles, the latest first.
Weight(g) == IF g[1] = "title" THEN 9 - g[3] ELSE IF g[1] = "split" THEN 0 ELSE 10
LighterGroup(g, h) == Weight(g) < Weight(h)

-----------------------------------------------------------------------------
MCInit ==
    /\ part \in Parts
    /\ Init /\ C!Init
    /\ part # "cohort" => \A l \in Listing : cRow[l].active /\ cRow[l].due

MCNext ==
    \/ part = "matching" /\ Next /\ UNCHANGED <<part, cVars>>
    \/ part = "cohort" /\ C!Next /\ UNCHANGED <<part, vars>>

\* The fairness of each part.
MCFairness ==
    /\ \A t \in Ticker : WF_vars(part = "matching" /\ TickStep(t))
    /\ WF_cVars(part = "cohort" /\ C!SetAnchor) /\ WF_cVars(part = "cohort" /\ C!SaveAnchor)
    /\ \A c \in Child :
          /\ WF_cVars(part = "cohort" /\ C!Dispatch(c))
          /\ WF_cVars(part = "cohort" /\ (C!ChildStep(c) \/ C!ListingStep(c)))
    /\ \A l \in Listing : WF_cVars(part = "cohort" /\ C!BecomesDue(l))

MCSpec == MCInit /\ [][MCNext]_<<part, vars, cVars>> /\ MCFairness

-----------------------------------------------------------------------------
\* ScrapeCohort: the cohort drains.
CohortDrains == part = "cohort" => C!CohortDrains
=============================================================================
