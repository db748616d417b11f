------------------------------ MODULE ProxyLimiter ------------------------------
(***************************************************************************)
(* The arithmetic of modules/scraper/proxy_provider_limiter.py: the token  *)
(* bucket that spaces paid requests and the budget guard that spreads what *)
(* is left of a billing cycle over the days that remain.                   *)
(*                                                                         *)
(* A day is its number in the billing cycle, 0 the day of renewal.  Costs  *)
(* are counted in parts of a JS-tier request, JsWeight parts to one (100   *)
(* in the code).                                                           *)
(***************************************************************************)
EXTENDS Integers, FiniteSetsExt

CONSTANTS
    Rate,          \* tokens per unit of time (proxy_provider_rps)
    Capacity,      \* size of the bucket (the same setting)
    MonthlyCap,    \* JS-tier requests the budget buys; 0: no budget
    DailyCap,      \* hard ceiling per day; 0: none
    CycleDays,     \* days of a billing cycle
    JsWeight, NoJsWeight   \* cost of a request with and without JS

ASSUME LimiterAssumption ==
    /\ Rate \in Nat \ {0} /\ Capacity \in Nat \ {0}
    /\ MonthlyCap \in Nat /\ DailyCap \in Nat
    /\ CycleDays \in Nat \ {0}
    /\ NoJsWeight \in Nat \ {0} /\ JsWeight \in Nat /\ NoJsWeight <= JsWeight

Day == 0..CycleDays - 1

\* cost_weight_hundredths
Weight(renderJs) == IF renderJs THEN JsWeight ELSE NoJsWeight

(***************************************************************************)
(* _ACQUIRE_LUA, one atomic script.  now is the clock of the worker that   *)
(* asks, not of the server.                                                *)
(***************************************************************************)
Refilled(bucket, now) ==
    LET elapsed == Max({0, now - bucket.last})
    IN  Min({Capacity, bucket.tokens + elapsed * Rate})

Granted(bucket, now) == Refilled(bucket, now) >= 1

\* Mutant: the time of the last refill is kept.
AcquireAgain(bucket, now) ==
    [bucket EXCEPT !.tokens = Refilled(bucket, now) - (IF Granted(bucket, now) THEN 1 ELSE 0)]

Acquire(bucket, now) ==
    [tokens |-> Refilled(bucket, now) - (IF Granted(bucket, now) THEN 1 ELSE 0), last |-> now]

(***************************************************************************)
(* budget_status_sync.  Usage of one day: the weighted counter, or, where  *)
(* that key is missing, the number of requests taken as JS requests.       *)
(***************************************************************************)
NoKey == -1

PerDay(count, cost) ==
    CASE cost # NoKey -> cost
      [] cost = NoKey /\ count # NoKey -> count * JsWeight
      [] OTHER -> 0

\* sum(per_day), of the days before one.
SumBefore(d, usage) ==
    LET sum[n \in 0..CycleDays] == IF n = 0 THEN 0 ELSE sum[n - 1] + usage[n - 1]
    IN  sum[d]

UsedBefore(today, counts, costs) ==
    SumBefore(today, [d \in Day |-> PerDay(counts[d], costs[d])])

\* Whole JS-tier requests one day may spend of what is left of the cycle.
Paced(today, usedBefore) ==
    Max({MonthlyCap * JsWeight - usedBefore, 0}) \div (JsWeight * (CycleDays - today))

DailyAllowance(today, usedBefore) ==
    IF MonthlyCap = 0 THEN DailyCap
    ELSE IF DailyCap = 0 THEN Paced(today, usedBefore)
    ELSE Min({Paced(today, usedBefore), DailyCap})

\* daily_budget_exhausted_sync
Exhausted(today, counts, costs) ==
    LET before == UsedBefore(today, counts, costs)
        used == PerDay(counts[today], costs[today])
    IN  /\ MonthlyCap > 0 \/ DailyCap > 0
        /\ \/ MonthlyCap > 0 /\ before + used >= MonthlyCap * JsWeight
           \/ used >= DailyAllowance(today, before) * JsWeight
=============================================================================
