------------------------------- MODULE AlertEngine -------------------------------
(***************************************************************************)
(* The alert engine (workers/alert_tasks.py over modules/alerts/engine.py) *)
(* on top of PriceIngest: every ten minutes an evaluation reads the rules, *)
(* the newest price row and the last event of each, and fires those whose  *)
(* condition holds: it delivers, records an event, and marks the rule, in  *)
(* two transactions.  Nothing keeps two evaluations apart, and one that    *)
(* dies is not started again.                                              *)
(***************************************************************************)
EXTENDS PriceIngest, Sequences

CONSTANTS
    Rule,          \* ids of rules, all on the one listing
    AlertTypes,    \* types a rule may have
    Threshold,     \* threshold_pct of the rules
    Cooldown,      \* cooldown of the rules, in stamps
    Evaluator,     \* processes that run evaluations
    MaxEvents,     \* bound on the events
    MaxEdits,      \* bound on the edits of rules
    MaxFlips       \* bound on how often the listing goes and comes back

VARIABLES
    is_active,     \* of the listing
    alerts,        \* alert_type and last_triggered_at of each rule
    alert_events,  \* the events in the order they were recorded
    epc, eval,     \* where each evaluation is, and its locals
    edits, flips   \* counters of the bounds

alertVars == <<is_active, alerts, alert_events, epc, eval, edits, flips>>
vars == <<clock, ingestVars, alertVars>>

Never == 0
NoRow == [at |-> 0, price |-> NoPrice, from |-> NoPrice]
Off == [now |-> 0, rules |-> <<>>, active |-> TRUE, row |-> NoRow, was |-> <<>>,
        todo |-> {}, firing |-> {}, alone |-> TRUE]

Init ==
    /\ IngestInit
    /\ is_active = TRUE
    /\ alerts \in [Rule -> [type : AlertTypes, triggered : {Never}]]
    /\ alert_events = <<>>
    /\ epc = [e \in Evaluator |-> "idle"] /\ eval = [e \in Evaluator |-> Off]
    /\ edits = 0 /\ flips = 0

-----------------------------------------------------------------------------
(***************************************************************************)
(* What one rule decides.                                                  *)
(***************************************************************************)

InCooldown(rule, now) == rule.triggered # Never /\ now < rule.triggered + Cooldown

\* decide_price_trigger: the change against the price before crosses the threshold.
PriceTrigger(type, row) ==
    /\ row.from # NoPrice
    /\ \/ type = "price_drop" /\ 100 * row.price <= (100 - Threshold) * row.from
       \/ type = "price_rise" /\ 100 * row.price >= (100 + Threshold) * row.from

\* decide_availability_trigger
AvailabilityTrigger(active, was) == active # was

\* Mutant: the watermark is dropped, the cooldown alone holds a rule back.
FiresAgain(l, r) ==
    LET rule == l.rules[r] IN
    /\ ~InCooldown(rule, l.now)
    /\ IF rule.type = "availability" THEN AvailabilityTrigger(l.active, l.was[r])
       ELSE PriceTrigger(rule.type, l.row)

\* A rule out of its cooldown fires; a price row only if it is newer than the last firing.
Fires(l, r) ==
    LET rule == l.rules[r] IN
    /\ ~InCooldown(rule, l.now)
    /\ IF rule.type = "availability" THEN AvailabilityTrigger(l.active, l.was[r])
       ELSE l.row.at > rule.triggered /\ PriceTrigger(rule.type, l.row)

\* The value an event carries says of the listing: only an availability event may say "gone".
Says(event) == event.new >= 1

\* _previous_availability_map: the last event of the rule, of any type; without one, available.
PreviousAvailability(r) ==
    LET mine == {n \in DOMAIN alert_events : alert_events[n].rule = r} IN
    \/ mine = {}
    \/ \E n \in mine : /\ \A m \in mine : alert_events[m].at <= alert_events[n].at
                       /\ Says(alert_events[n])

-----------------------------------------------------------------------------
(***************************************************************************)
(* An evaluation.                                                          *)
(***************************************************************************)

\* The next rule, or the end of the task.
Proceed(e, l) ==
    /\ epc' = [epc EXCEPT ![e] = IF l.todo = {} THEN "idle" ELSE "deciding"]
    /\ eval' = [eval EXCEPT ![e] = IF l.todo = {} THEN Off ELSE [l EXCEPT !.firing = {}]]

\* now is taken, then the active rules are read with their listing.
Begin(e) ==
    /\ epc[e] = "idle"
    /\ Stamp
    /\ epc' = [epc EXCEPT ![e] = "started"]
    /\ LET others == {f \in Evaluator \ {e} : epc[f] # "idle"}
       IN  eval' = [f \in Evaluator |->
                      IF f = e THEN [Off EXCEPT !.now = clock', !.rules = alerts, !.active = is_active,
                                                !.todo = Rule, !.alone = others = {}]
                      ELSE IF f \in others THEN [eval[f] EXCEPT !.alone = FALSE] ELSE eval[f]]
    /\ UNCHANGED <<ingestVars, is_active, alerts, alert_events, edits, flips>>

\* The two queries: the newest price row, if a price rule is to be evaluated,
\* and the last events of the availability rules.
ReadFacts(e) ==
    /\ epc[e] = "started"
    /\ epc' = [epc EXCEPT ![e] = "deciding"]
    /\ LET watch == {r \in Rule : eval[e].rules[r].type = "availability"}
       IN  eval' = [eval EXCEPT
                      ![e].row = IF watch = Rule \/ fact_price = {} THEN NoRow ELSE Newest(fact_price),
                      ![e].was = [r \in watch |-> PreviousAvailability(r)]]
    /\ UNCHANGED <<clock, ingestVars, is_active, alerts, alert_events, edits, flips>>

Skip(e) ==
    /\ epc[e] = "deciding"
    /\ \E r \in eval[e].todo :
          ~Fires(eval[e], r) /\ Proceed(e, [eval[e] EXCEPT !.todo = @ \ {r}])
    /\ UNCHANGED <<clock, ingestVars, is_active, alerts, alert_events, edits, flips>>

\* The messages go out, each channel on its own; what fails is not sent again.
Deliver(e) ==
    /\ epc[e] = "deciding"
    /\ \E r \in eval[e].todo :
          /\ Fires(eval[e], r)
          /\ eval' = [eval EXCEPT ![e].todo = @ \ {r}, ![e].firing = {r}]
    /\ epc' = [epc EXCEPT ![e] = "delivered"]
    /\ UNCHANGED <<clock, ingestVars, is_active, alerts, alert_events, edits, flips>>

\* event_create; refused, the rule is not marked either.
RecordEvent(e) ==
    /\ epc[e] = "delivered" /\ Len(alert_events) < MaxEvents
    /\ LET l == eval[e]
           event(r) == [rule |-> r, type |-> l.rules[r].type, at |-> l.now, alone |-> l.alone, marked |-> FALSE,
                        row |-> IF l.rules[r].type = "availability" THEN 0 ELSE l.row.at,
                        new |-> IF l.rules[r].type # "availability" THEN l.row.price
                                ELSE IF l.active THEN 1 ELSE 0]
       IN  \E r \in l.firing : alert_events' = Append(alert_events, event(r))
    /\ epc' = [epc EXCEPT ![e] = "recorded"]
    /\ UNCHANGED <<clock, ingestVars, is_active, alerts, eval, edits, flips>>

EventRefused(e) ==
    /\ epc[e] = "delivered"
    /\ Proceed(e, eval[e])
    /\ UNCHANGED <<clock, ingestVars, is_active, alerts, alert_events, edits, flips>>

\* rule_trigger: the watermark and the start of the cooldown are the time the evaluation began.
MarkRule(e) ==
    /\ epc[e] = "recorded"
    /\ \E r \in eval[e].firing :
          /\ alerts' = [alerts EXCEPT ![r].triggered = eval[e].now]
          /\ alert_events' = [n \in DOMAIN alert_events |->
                                IF alert_events[n].rule = r /\ alert_events[n].at = eval[e].now
                                THEN [alert_events[n] EXCEPT !.marked = TRUE] ELSE alert_events[n]]
    /\ Proceed(e, eval[e])
    /\ UNCHANGED <<clock, ingestVars, is_active, edits, flips>>

MarkRefused(e) ==
    /\ epc[e] = "recorded"
    /\ Proceed(e, eval[e])
    /\ UNCHANGED <<clock, ingestVars, is_active, alerts, alert_events, edits, flips>>

\* A query or a write raises, or the worker dies: the rules left are not evaluated.
Abort(e) ==
    /\ epc[e] # "idle"
    /\ epc' = [epc EXCEPT ![e] = "idle"] /\ eval' = [eval EXCEPT ![e] = Off]
    /\ UNCHANGED <<clock, ingestVars, is_active, alerts, alert_events, edits, flips>>

Evaluate ==
    \E e \in Evaluator :
        \/ Begin(e) \/ ReadFacts(e) \/ Skip(e) \/ Deliver(e)
        \/ RecordEvent(e) \/ EventRefused(e) \/ MarkRule(e) \/ MarkRefused(e) \/ Abort(e)

-----------------------------------------------------------------------------
(***************************************************************************)
(* What goes on around: scrapes switch the listing off and on, its owner   *)
(* edits a rule, time passes.                                              *)
(***************************************************************************)

ListingFlips ==
    /\ flips < MaxFlips /\ flips' = flips + 1
    /\ is_active' = ~is_active
    /\ UNCHANGED <<clock, ingestVars, alerts, alert_events, epc, eval, edits>>

\* rule_update of alert_type: the events of the rule stay.
UpdateRule ==
    /\ edits < MaxEdits /\ edits' = edits + 1
    /\ \E r \in Rule, type \in AlertTypes :
          type # alerts[r].type /\ alerts' = [alerts EXCEPT ![r].type = type]
    /\ UNCHANGED <<clock, ingestVars, is_active, alert_events, epc, eval, flips>>

Passes == Stamp /\ UNCHANGED <<ingestVars, alertVars>>

Next ==
    \/ Ingest /\ UNCHANGED alertVars
    \/ Evaluate
    \/ ListingFlips \/ UpdateRule \/ Passes

Spec == Init /\ [][Next]_vars

-----------------------------------------------------------------------------
TypeOK ==
    /\ IngestTypeOK
    /\ is_active \in BOOLEAN
    /\ alerts \in [Rule -> [type : AlertTypes, triggered : 0..MaxClock]]
    /\ Len(alert_events) <= MaxEvents
    /\ \A n \in DOMAIN alert_events :
          /\ alert_events[n].rule \in Rule /\ alert_events[n].type \in AlertTypes
          /\ alert_events[n].at \in 1..MaxClock /\ alert_events[n].row \in 0..MaxClock
          /\ {alert_events[n].alone, alert_events[n].marked} \subseteq BOOLEAN
    /\ epc \in [Evaluator -> {"idle", "started", "deciding", "delivered", "recorded"}]
    /\ \A e \in Evaluator : eval[e].now \in 0..MaxClock /\ {eval[e].todo, eval[e].firing} \subseteq SUBSET Rule
    /\ edits \in 0..MaxEdits /\ flips \in 0..MaxFlips

\* Pairs of events of one rule, the first recorded before the second, of
\* evaluations that ran beside no other.
Successive ==
    {p \in (DOMAIN alert_events) \X (DOMAIN alert_events) :
        /\ p[1] < p[2]
        /\ alert_events[p[1]].rule = alert_events[p[2]].rule
        /\ alert_events[p[1]].alone /\ alert_events[p[2]].alone}

\* A change of the price is reported once, however the ingests cross and
\* whatever the owner edits, unless the first report could not mark its rule,
\* or was of a row that was scraped after its evaluation began.
PriceReportedOnce ==
    \A p \in Successive :
        LET first == alert_events[p[1]] second == alert_events[p[2]] IN
        first.row # 0 /\ first.row = second.row => ~first.marked \/ first.row > first.at

\* Reports that a listing is gone and that it is back alternate, whatever
\* refused or lost write left the rule unmarked, as long as its owner did not
\* make it a price rule in between.
AvailabilityAlternates ==
    \A p \in Successive :
        LET first == alert_events[p[1]] second == alert_events[p[2]] IN
        /\ first.type = "availability" /\ second.type = "availability"
        /\ \A n \in (p[1] + 1)..(p[2] - 1) : alert_events[n].rule # first.rule
        => first.new # second.new

\* No alert says what the one before said: neither a price change nor a change
\* of availability is reported twice by evaluations that do not overlap.
NothingReportedTwice == PriceReportedOnce /\ AvailabilityAlternates
=============================================================================
