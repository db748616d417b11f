----------------------------- MODULE HarvestRotation -----------------------------
(***************************************************************************)
(* The rotation of the price harvest (workers/harvest_tasks.py): a tick    *)
(* picks the shops that were harvested longest ago, stamps them in a ZSET  *)
(* of Redis and sends a run for each.  The scores are read and written in  *)
(* two commands; a redelivered tick runs beside the next one.              *)
(***************************************************************************)
EXTENDS Naturals, FiniteSets

CONSTANTS
    Shop,            \* shops with category pages
    PerTick,         \* HARVEST_SHOPS_PER_TICK
    Ticker,          \* ticks that may overlap
    MaxTicks, MaxFaults    \* bounds

RotationAssumption ==
    IsFiniteSet(Shop) /\ IsFiniteSet(Ticker) /\ Ticker # {} /\ PerTick \in Nat \ {0}

VARIABLES
    score, clock,    \* harvest:rotation, time
    tick, ranked,    \* tickers: where they are, the scores they read
    ticks, faults,
    wait             \* history: ticks since a shop was picked

vars == <<score, clock, tick, ranked, ticks, faults, wait>>

Init ==
    /\ score = [s \in Shop |-> 0] /\ clock = 0
    /\ tick = [t \in Ticker |-> "idle"] /\ ranked = [t \in Ticker |-> score]
    /\ ticks = 0 /\ faults = 0
    /\ wait = [s \in Shop |-> 0]

\* The scores are read; a shop without one was never harvested.
TickRead(t) ==
    /\ tick[t] = "idle" /\ ticks < MaxTicks /\ ticks' = ticks + 1
    /\ ranked' = [ranked EXCEPT ![t] = score]
    /\ tick' = [tick EXCEPT ![t] = "ranked"]
    /\ UNCHANGED <<score, clock, faults, wait>>

\* Mutant: the shops harvested last come first.
StalestReversed(scores, picked) ==
    \A s \in picked, o \in Shop \ picked : scores[s] >= scores[o]

\* Any set of the stalest shops: equal scores are in the order of the query.
Stalest(scores, picked) ==
    \A s \in picked, o \in Shop \ picked : scores[s] <= scores[o]

\* ranked[:count]
Picks == IF PerTick < Cardinality(Shop) THEN PerTick ELSE Cardinality(Shop)

\* ZADD of the picked shops; their runs are sent afterwards.
TickPick(t) ==
    /\ tick[t] = "ranked"
    /\ clock' = clock + 1
    /\ \E picked \in SUBSET Shop :
          /\ Cardinality(picked) = Picks /\ Stalest(ranked[t], picked)
          /\ score' = [s \in Shop |-> IF s \in picked THEN clock' ELSE score[s]]
          /\ wait' = [s \in Shop |-> IF s \in picked THEN 0 ELSE wait[s] + 1]
    /\ tick' = [tick EXCEPT ![t] = "idle"]
    /\ UNCHANGED <<ranked, ticks, faults>>

\* The tick dies between reading and writing; acks_late sends it again.
TickDies(t) ==
    /\ tick[t] = "ranked" /\ faults < MaxFaults /\ faults' = faults + 1
    /\ tick' = [tick EXCEPT ![t] = "idle"]
    /\ UNCHANGED <<score, clock, ranked, ticks, wait>>

Next == \E t \in Ticker : TickRead(t) \/ TickPick(t) \/ TickDies(t)

Spec == Init /\ [][Next]_vars

-----------------------------------------------------------------------------
TypeOK ==
    /\ score \in [Shop -> 0..clock] /\ clock <= MaxTicks
    /\ tick \in [Ticker -> {"idle", "ranked"}] /\ ranked \in [Ticker -> [Shop -> 0..clock]]

Rounds == (Cardinality(Shop) + PerTick - 1) \div PerTick

\* No shop waits longer than one round of all of them; each tick that runs
\* beside another may pick the same shops and add a round
\* (_pick_rotation_shops).
NoShopStarves == \A s \in Shop : wait[s] < Rounds * Cardinality(Ticker)
=============================================================================
