-------------------------------- MODULE MarketData --------------------------------
(***************************************************************************)
(* Market quotes (modules/market_data and modules/currency): an ingest     *)
(* asks the providers of each rail in turn (forex, crypto, commodities),   *)
(* and stores what they answer as the rows of the day; the display         *)
(* converter takes its rates from them.                                    *)
(*                                                                         *)
(* The ingest of the schedule, one an administrator asks for and the       *)
(* ingest of commodities may all run at once: nothing keeps them apart but *)
(* the unique keys of the tables.  A quote is told by its provider and by  *)
(* the time it was fetched.                                                *)
(***************************************************************************)
EXTENDS Naturals, Sequences, FiniteSets, SequencesExt

CONSTANTS
    Ingestor,      \* Celery processes that run ingests
    Instruments,   \* per rail, its instruments in the order of their symbols
    Metals,        \* METAL_SYMBOL_SET: the commodities that are not energy
    MaxFetches,    \* bound on the fetches of a rail
    MaxDay         \* bound on the calendar

Rails == <<"forex", "crypto", "commodities">>
Rail == ToSet(Rails)
USD == "USD"

\* The instruments of a rail are a list.
InstrumentsAssumption == \A rail \in Rail : DOMAIN Instruments[rail] = 1..Len(Instruments[rail])

\* The queues of providers (build_*_queue_providers), without the configured
\* one: it stands first and carries the name of one of the two.
Queue == [forex |-> <<"openexchangerates", "ecb">>,
          crypto |-> <<"binance", "coingecko">>,
          commodities |-> <<"goldapi", "alpha_vantage", "yahoo">>]
Source == UNION {ToSet(Queue[rail]) : rail \in Rail}

VARIABLES
    today,     \* the date of the clock
    fetches,   \* per rail, the fetches so far
    dim_date,  \* days that have a row, committed
    facts,     \* the committed rows of the three fact tables
    rotated,   \* the vault holds another secret than the processes have cached
    mpc, run,  \* where each ingest is, and its locals
    stored,    \* the last report of each key: the fetch whose quote a rail of an ingest counted
    met        \* rails of which two ingests have held quotes at once

dbVars == <<dim_date, facts>>
vars == <<today, fetches, dbVars, rotated, mpc, run, stored, met>>

\* quotes: the provider of each instrument still to be written.
Blank == [rail |-> "", only |-> FALSE, at |-> 0, day |-> 0, usd |-> FALSE, dated |-> FALSE,
          quotes |-> <<>>, written |-> {}]

Init ==
    /\ today = 1 /\ fetches = [rail \in Rail |-> 0]
    /\ dim_date \in {{}, {1}} /\ facts = {}
    /\ rotated = FALSE
    /\ mpc = [p \in Ingestor |-> "idle"] /\ run = [p \in Ingestor |-> Blank]
    /\ stored = {} /\ met = {}

Goto(p, pc, local) == mpc' = [mpc EXCEPT ![p] = pc] /\ run' = [run EXCEPT ![p] = local]

-----------------------------------------------------------------------------
(***************************************************************************)
(* The fetch: gap_fill_fetch over the queue of the rail.                   *)
(***************************************************************************)

\* fetch_instruments: what a provider has.
Catalog(rail, source) ==
    {i \in ToSet(Instruments[rail]) : (source = "goldapi" => i \in Metals) /\ (source = "alpha_vantage" => i \notin Metals)}

\* What each provider answers when it is asked; one that raises, after its
\* retries, answers nothing.
Answers(rail) ==
    {answers \in [ToSet(Queue[rail]) -> SUBSET ToSet(Instruments[rail])] :
        \A source \in ToSet(Queue[rail]) : answers[source] \subseteq Catalog(rail, source)}

\* Instruments outside requested are ignored, and the first provider that
\* supplies an instrument is the one that is asked for it no more.
GapFill(rail, requested, answers) ==
    LET supplies(i) == {n \in DOMAIN Queue[rail] : i \in answers[Queue[rail][n]]}
        found == {i \in requested : supplies(i) # {}}
    IN  [i \in found |-> Queue[rail][CHOOSE n \in supplies(i) : \A m \in supplies(i) : n <= m]]

\* What may be asked for: the forex allowlist, the catalog of commodities, the
\* coins of the first provider that answers with any.
FirstAnswer(rail, answers) ==
    LET some == {n \in DOMAIN Queue[rail] : answers[Queue[rail][n]] # {}}
    IN  IF some = {} THEN {} ELSE answers[Queue[rail][CHOOSE n \in some : \A m \in some : n <= m]]

Requests(rail) ==
    IF rail = "crypto" THEN {FirstAnswer(rail, ranked) : ranked \in Answers(rail)}
    ELSE {ToSet(Instruments[rail])}

\* Mutant: the quotes stay in the order of the answer, which is another every second time.
NextItemUnsorted(p) ==
    LET order == IF run[p].at % 2 = 0 THEN Instruments[run[p].rail] ELSE Reverse(Instruments[run[p].rail])
        left == {n \in DOMAIN order : order[n] \in DOMAIN run[p].quotes}
    IN  order[CHOOSE n \in left : \A m \in left : n <= m]

\* Every list of quotes is sorted by its symbols before it is stored.
NextItem(p) ==
    LET rail == run[p].rail
        order == Instruments[rail]
        left == {n \in DOMAIN order : order[n] \in DOMAIN run[p].quotes}
    IN  order[CHOOSE n \in left : \A m \in left : n <= m]

\* Which rail follows: ingest_commodities_only has the last alone.
After(rail) == CASE rail = "forex" -> "crypto" [] rail = "crypto" -> "commodities" [] OTHER -> "end"

NextRail(p, rail, only) ==
    LET next == IF rail = "" THEN (IF only THEN "commodities" ELSE "forex") ELSE After(rail)
    IN  IF next = "end" THEN Goto(p, "idle", Blank)
        ELSE Goto(p, "fetching", [Blank EXCEPT !.rail = next, !.only = only])

\* The task is delivered, by the schedule or by POST /markets/ingest.
Begin(p) ==
    /\ mpc[p] = "idle"
    /\ \E only \in BOOLEAN : NextRail(p, "", only)
    /\ UNCHANGED <<today, fetches, dbVars, rotated, stored, met>>

\* usd_per_eur is the USD quote of the same answer; without it the rows carry
\* their EUR rate twice.  Nothing fetched: nothing is stored and nothing logged.
Fetch(p) ==
    LET rail == run[p].rail IN
    /\ mpc[p] = "fetching" /\ fetches[rail] < MaxFetches
    /\ fetches' = [fetches EXCEPT ![rail] = @ + 1]
    /\ \E requested \in Requests(rail), answers \in Answers(rail) :
          LET quotes == GapFill(rail, requested, answers) IN
          IF DOMAIN quotes = {} THEN NextRail(p, rail, run[p].only) /\ UNCHANGED met
          ELSE /\ Goto(p, "dating", [run[p] EXCEPT !.quotes = quotes, !.at = fetches'[rail],
                                                   !.usd = USD \in DOMAIN quotes])
               /\ met' = IF \E q \in Ingestor \ {p} : run[q].rail = rail /\ mpc[q] # "fetching"
                         THEN met \cup {rail} ELSE met
    /\ UNCHANGED <<today, dbVars, rotated, stored>>

\* The locals of a rail whose transaction is rolled back.
Undone(p) == [Blank EXCEPT !.rail = run[p].rail, !.only = run[p].only]

\* The first provider of coins raises while the universe is looked for.
FetchRaises(p) ==
    /\ mpc[p] = "fetching" /\ run[p].rail = "crypto"
    /\ Goto(p, "raised", Undone(p))
    /\ UNCHANGED <<today, fetches, dbVars, rotated, stored, met>>

-----------------------------------------------------------------------------
(***************************************************************************)
(* The transaction of one rail.                                            *)
(***************************************************************************)

\* Keys whose rows a transaction has inserted and not committed.
Key(p, i, source) == <<run[p].rail, run[p].day, i, source>>
Held(p) == {Key(p, w[1], w[2]) : w \in run[p].written}
NextKey(p) == Key(p, NextItem(p), run[p].quotes[NextItem(p)])

\* An insert waits for another's uncommitted row of the same key.
Waits(p, q) ==
    /\ p # q /\ mpc[q] = "writing"
    /\ \/ mpc[p] = "dating" /\ today \notin dim_date /\ run[q].dated /\ run[q].day = today
       \/ mpc[p] = "writing" /\ DOMAIN run[p].quotes # {} /\ NextKey(p) \in Held(q)

Free(p) == \A q \in Ingestor : ~Waits(p, q)

\* _ensure_dim_date: the row of the day exists, or is inserted unless somebody
\* else's is committed meanwhile.  The day is the date of the clock now.
EnsureDimDate(p) ==
    /\ mpc[p] = "dating" /\ Free(p)
    /\ Goto(p, "writing", [run[p] EXCEPT !.day = today, !.dated = today \notin dim_date])
    /\ UNCHANGED <<today, fetches, dbVars, rotated, stored, met>>

\* evaluate_market signs, the gate replaces the row of the key.
WriteItem(p) ==
    /\ mpc[p] = "writing" /\ DOMAIN run[p].quotes # {} /\ Free(p) /\ ~rotated
    /\ LET i == NextItem(p)
           rest == DOMAIN run[p].quotes \ {i}
       IN  Goto(p, "writing", [run[p] EXCEPT !.written = @ \cup {<<i, run[p].quotes[i]>>},
                                             !.quotes = [j \in rest |-> @[j]]])
    /\ UNCHANGED <<today, fetches, dbVars, rotated, stored, met>>

\* The firewall refuses a quote: it is left out.
RefuseItem(p) ==
    /\ mpc[p] = "writing" /\ DOMAIN run[p].quotes # {}
    /\ LET rest == DOMAIN run[p].quotes \ {NextItem(p)}
       IN  Goto(p, "writing", [run[p] EXCEPT !.quotes = [j \in rest |-> @[j]]])
    /\ UNCHANGED <<today, fetches, dbVars, rotated, stored, met>>

\* A statement fails, or the gate refuses the signature, which spoils the
\* transaction for the statement that follows: one way or the other it raises,
\* and the first thing that is done about it is to roll back.
StatementRaises(p) ==
    /\ mpc[p] \in {"dating", "writing", "logging"}
    /\ Goto(p, "raised", Undone(p))
    /\ UNCHANGED <<today, fetches, dbVars, rotated, stored, met>>

Row(p, w) ==
    [rail |-> run[p].rail, day |-> run[p].day, item |-> w[1], source |-> w[2], at |-> run[p].at, usd |-> run[p].usd]

KeyOf(row) == <<row.rail, row.day, row.item, row.source>>

\* The rows replace those of their keys.  An insert that had begun to wait for
\* one of them finds it taken: its statement fails.
CommitRows(p) ==
    /\ facts' = {r \in facts : KeyOf(r) \notin Held(p)} \cup {Row(p, w) : w \in run[p].written}
    /\ dim_date' = IF run[p].dated THEN dim_date \cup {run[p].day} ELSE dim_date

Losers(p) == {q \in Ingestor : mpc[q] = "writing" /\ Waits(q, p)}

\* The rail is over; it reports the number of its rows, as of what the
\* transaction wrote.
Settle(p, losers, refused) ==
    LET rail == run[p].rail
        next == IF After(rail) = "end" THEN "idle" ELSE "fetching"
        local == IF After(rail) = "end" THEN Blank ELSE [Blank EXCEPT !.rail = After(rail), !.only = run[p].only]
    IN  /\ mpc' = [q \in Ingestor |-> IF q = p THEN next ELSE IF q \in losers THEN "raised" ELSE mpc[q]]
        /\ run' = [q \in Ingestor |-> IF q = p THEN local ELSE IF q \in losers THEN Undone(q) ELSE run[q]]
        /\ stored' = {s \in stored : s.key \notin Held(p)}
                     \cup {[key |-> k, at |-> run[p].at, refused |-> refused] : k \in Held(p)}

Written(p) == mpc[p] = "writing" /\ DOMAIN run[p].quotes = {}

\* persist_forex, persist_commodities: the log row is one more row of the
\* transaction.
CommitWithLog(p) ==
    /\ Written(p) /\ run[p].rail # "crypto" /\ ~rotated
    /\ CommitRows(p)
    /\ \E losers \in SUBSET Losers(p) : Settle(p, losers, FALSE)
    /\ UNCHANGED <<today, fetches, rotated, met>>

\* The gate does not know the signature of the log row any more:
\* persist_logs_batch rolls the caller's transaction back and returns, and the
\* rail reports the rows all the same.
LogRollsBack(p) ==
    /\ Written(p) /\ run[p].rail # "crypto" /\ rotated
    /\ Settle(p, {}, TRUE)
    /\ UNCHANGED <<today, fetches, dbVars, rotated, met>>

\* Mutant: the log row of the crypto rail goes before the commit as well.
CommitCryptoWithLog(p) ==
    /\ Written(p) /\ run[p].rail = "crypto"
    /\ IF rotated THEN UNCHANGED <<facts, dim_date>> ELSE CommitRows(p)
    /\ mpc' = [mpc EXCEPT ![p] = "logging"] /\ UNCHANGED run
    /\ UNCHANGED <<today, fetches, rotated, stored, met>>

\* persist_crypto commits its rows first.
CommitCrypto(p) ==
    /\ Written(p) /\ run[p].rail = "crypto"
    /\ CommitRows(p)
    /\ \E losers \in SUBSET Losers(p) :
          /\ mpc' = [q \in Ingestor |-> IF q = p THEN "logging" ELSE IF q \in losers THEN "raised" ELSE mpc[q]]
          /\ run' = [q \in Ingestor |-> IF q \in losers THEN Undone(q) ELSE run[q]]
    /\ UNCHANGED <<today, fetches, rotated, stored, met>>

LogCrypto(p) ==
    /\ mpc[p] = "logging"
    /\ Settle(p, {}, FALSE)
    /\ UNCHANGED <<today, fetches, dbVars, rotated, met>>

\* _log_ingestion_error: an error row is committed or refused, and the next
\* rail begins.
LogError(p) ==
    /\ mpc[p] = "raised"
    /\ NextRail(p, run[p].rail, run[p].only)
    /\ UNCHANGED <<today, fetches, dbVars, rotated, stored, met>>

\* The error row cannot be written either, or the worker dies: the task is over.
Abort(p) ==
    /\ mpc[p] # "idle"
    /\ Goto(p, "idle", Blank)
    /\ UNCHANGED <<today, fetches, dbVars, rotated, stored, met>>

Ingest ==
    \E p \in Ingestor :
        \/ Begin(p) \/ Fetch(p) \/ FetchRaises(p)
        \/ EnsureDimDate(p) \/ WriteItem(p) \/ RefuseItem(p) \/ StatementRaises(p)
        \/ CommitWithLog(p) \/ LogRollsBack(p) \/ CommitCrypto(p) \/ LogCrypto(p)
        \/ LogError(p) \/ Abort(p)

Midnight ==
    /\ today < MaxDay /\ today' = today + 1
    /\ UNCHANGED <<fetches, dbVars, rotated, mpc, run, stored, met>>

\* The secret in the vault is replaced while the processes run.
RotateSecret ==
    /\ ~rotated /\ rotated' = TRUE
    /\ UNCHANGED <<today, fetches, dbVars, mpc, run, stored, met>>

Next == Ingest \/ Midnight \/ RotateSecret

Spec == Init /\ [][Next]_vars

-----------------------------------------------------------------------------
(***************************************************************************)
(* The reader.                                                             *)
(***************************************************************************)

RowsOf(rail, day) == {r \in facts : r.rail = rail /\ r.day = day}

\* func.max(date_id) of the table; 0 when it is empty.
LatestDate(rail) ==
    LET days == {r.day : r \in {r \in facts : r.rail = rail}}
    IN  IF days = {} THEN 0 ELSE CHOOSE d \in days : \A e \in days : e <= d

\* What a converter knows of a currency: whether to_usd is a value in USD.
Rate(usd) == [usd |-> usd]

\* _load_from_db keeps whichever row of the newest day comes first.  (Before the
\* first ingest, _load_from_live does the same arithmetic on a live answer.)
LoadFromDb ==
    LET rows == RowsOf("forex", LatestDate("forex"))
        codes == {r.item : r \in rows}
    IN  {rates \in [codes -> {Rate(b) : b \in BOOLEAN}] :
            \A i \in codes : \E r \in rows : r.item = i /\ rates[i] = Rate(r.usd)}

\* convert(amount, currency, USD): nothing, or a value that is one in USD or not.
\* A price in EUR goes by the row of USD, or by any row.
ConvertToUsd(rates, currency) ==
    IF currency = USD THEN {"USD"}
    ELSE IF currency = "EUR" THEN
        IF USD \in DOMAIN rates THEN {"USD"}
        ELSE {IF rates[i].usd THEN "USD" ELSE "EUR" : i \in DOMAIN rates}
    ELSE IF currency \notin DOMAIN rates THEN {}
    ELSE {IF rates[currency].usd THEN "USD" ELSE "EUR"}

-----------------------------------------------------------------------------
TypeOK ==
    /\ today \in 1..MaxDay /\ fetches \in [Rail -> 0..MaxFetches]
    /\ dim_date \subseteq 1..MaxDay
    /\ facts \subseteq [rail : Rail, day : dim_date, item : UNION {ToSet(Instruments[r]) : r \in Rail},
                       source : Source, at : 1..MaxFetches, usd : BOOLEAN]
    /\ \A r, s \in facts : KeyOf(r) = KeyOf(s) => r = s
    /\ rotated \in BOOLEAN /\ met \subseteq Rail
    /\ mpc \in [Ingestor -> {"idle", "fetching", "dating", "writing", "logging", "raised"}]

\* What an ingest reports of a rail is there: for every quote counted the table holds that quote or,
\* if two ingests of the rail did not cross, one fetched later; only a log row
\* the gate refuses, after its secret was replaced, takes the rates of a rail
\* along unnoticed (logs_write.persist_logs_batch rolls the caller back), and
\* never coins.
ReportedIsStored ==
    \A s \in stored :
        \/ s.refused /\ s.key[1] # "crypto"
        \/ \E r \in facts : KeyOf(r) = s.key /\ (r.at >= s.at \/ s.key[1] \in met)

\* Two ingests that write the same rail never wait for each other: both go
\* through its instruments in one order.
NoEmbrace == ~\E p, q \in Ingestor : Waits(p, q) /\ Waits(q, p)

\* "No fallback/mock rates are produced - when a rate is missing the converter
\* returns None" (currency/display_converter.py:7): what is shown as a price in
\* USD was converted with a rate to USD.
NoFallbackRate ==
    \A rates \in LoadFromDb : \A c \in ToSet(Instruments["forex"]) \cup {"EUR"} :
        ConvertToUsd(rates, c) \subseteq {"USD"}
=============================================================================
