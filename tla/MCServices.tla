------------------------------- MODULE MCServices -------------------------------
(***************************************************************************)
(* The models of the path of a fetch, of the prices of a listing with the  *)
(* alerts on them, and of a write through the gate, checked in one run:    *)
(* the initial state chooses one of them (part), the others stand still.   *)
(***************************************************************************)
EXTENDS FetchPath, TLC

CONSTANTS
    Parts,
    CardScraper, ListHarvester, Price, DayLength, MaxStamp,
    Rule, AlertTypes, Threshold, Cooldown, Evaluator, MaxEvents, MaxEdits, MaxFlips,
    Secret, NoSecret, MaxDefects, GateFaults, MaxChanges

ASSUME ServicesAssumption ==
    /\ MaxStamp \in Nat \ {0}
    /\ {MaxEvents, MaxEdits, MaxFlips, GateFaults, MaxChanges} \subseteq Nat

VARIABLES
    part,
    stamp, listing, fact_price, ipc, ingest, crossed,
    is_active, alerts, alert_events, epc, eval, edits, flips,
    vault, setting, cached, wpc, req, rejects, alerted, stored, reason, answer, lost, gateFaults, changes

aVars == <<stamp, listing, fact_price, ipc, ingest, crossed,
           is_active, alerts, alert_events, epc, eval, edits, flips>>

gVars == <<vault, setting, cached, wpc, req, rejects, alerted, stored, reason, answer, lost, gateFaults, changes>>

A == INSTANCE AlertEngine WITH clock <- stamp, MaxClock <- MaxStamp
G == INSTANCE GateWrite WITH pc <- wpc, faults <- gateFaults, MaxFaults <- GateFaults

\* Fetches and evaluations are interchangeable, and have the same names.
Symmetry == Permutations(Fetcher)

AlertParts == {"ingests cross", "evaluations overlap"}

-----------------------------------------------------------------------------
\* The variables of a part that stands still hold nothing; those of FetchPath keep one initial state.
NoAlert ==
    /\ stamp = 0 /\ listing = 0 /\ fact_price = 0 /\ ipc = 0 /\ ingest = 0
    /\ crossed = 0 /\ is_active = 0 /\ alerts = 0 /\ alert_events = 0
    /\ epc = 0 /\ eval = 0 /\ edits = 0 /\ flips = 0

NoGate ==
    /\ vault = 0 /\ setting = 0 /\ cached = 0 /\ wpc = 0 /\ req = 0 /\ rejects = 0 /\ alerted = 0
    /\ stored = 0 /\ reason = 0 /\ answer = 0 /\ lost = 0 /\ gateFaults = 0 /\ changes = 0

MCInit ==
    /\ part \in Parts
    /\ Init /\ (part # "fetch" => mode = "direct" /\ configured)
    /\ IF part \in AlertParts THEN A!Init ELSE NoAlert
    /\ IF part = "gate" THEN G!Init ELSE NoGate

\* Two ingests may be under way, with one evaluation and rules nobody edits; or two evaluations.
Busy ==
    \/ part = "ingests cross" /\ edits + flips = 0 /\ Cardinality({e \in Evaluator : epc[e] # "idle"}) <= 1
    \/ part = "evaluations overlap" /\ \A h \in ListHarvester : ipc[h] = "idle"

MCNext ==
    \/ part = "fetch" /\ Next /\ UNCHANGED <<part, aVars, gVars>>
    \/ part \in AlertParts /\ A!Next /\ UNCHANGED <<part, vars, gVars>> /\ Busy'
    \/ part = "gate" /\ G!Next /\ UNCHANGED <<part, vars, aVars>>

MCSpec == MCInit /\ [][MCNext]_<<part, vars, aVars, gVars>>

-----------------------------------------------------------------------------
\* The type invariants.
TypesOK ==
    /\ part = "fetch" => TypeOK
    /\ part \in AlertParts => A!TypeOK
    /\ part = "gate" => G!TypeOK

\* FetchPath, ProxyLimiter: the paid usage exceeds its allowance by the requests under way
\* at most, and the token bucket holds its rate.
ProxyBounded == part = "fetch" => BudgetOvershootBounded /\ RateBounded

\* PriceIngest: the listing shows the newest row of its history.
ListingShowsNewest == part \in AlertParts => A!ListingShowsNewest

\* AlertEngine: no alert says what the one before said.
NothingReportedTwice == part \in AlertParts => A!NothingReportedTwice

\* FetchPath: a failure that counts against a listing, or makes a document missing, comes from a
\* layer that was asked; and a page leaves the cache once.
FetchHonest == part = "fetch" => FailureWasAsked /\ PageServedOnce

\* GateWrite: a row that was to be written is written, or has left a trace; and what a door signs,
\* persist and the gate write.
RefusalLeavesTrace == part = "gate" => G!RefusalLeavesTrace
SignedIsAccepted == part = "gate" => G!SignedIsAccepted

=============================================================================
