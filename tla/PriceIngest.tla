------------------------------- MODULE PriceIngest -------------------------------
(***************************************************************************)
(* How a price becomes history (modules/ingestion): the price seen on a    *)
(* card page, or on a page that lists many products, is compared with the  *)
(* listing as this process read it, and in one transaction the history     *)
(* (fact_price) gets a row and the listing (fact_listing) a copy of it.    *)
(*                                                                         *)
(* One listing.  A scrape child and the harvest of a list page may both    *)
(* hold a copy of its row while they wait for pages and for each other's   *)
(* commits; nothing locks the row between the read and the write.          *)
(***************************************************************************)
EXTENDS Naturals, FiniteSets

CONSTANTS
    CardScraper, ListHarvester,   \* processes that ingest from card pages and from list pages
    Price,                        \* prices a page can show, positive numbers
    DayLength,                    \* stamps in a day
    MaxClock                      \* bound on the stamps

Ingestor == CardScraper \cup ListHarvester
NoPrice == 0
SUSPICIOUS_PRICE_RATIO == 5

VARIABLES
    clock,       \* the last time stamp anybody took
    listing,     \* last_price and what last_price_change_pct is relative to
    fact_price,  \* the rows of the history
    ipc, ingest, \* where each process is, and what it holds
    crossed      \* two ingests of the listing were under way at once

ingestVars == <<listing, fact_price, ipc, ingest, crossed>>

Fresh == [copy |-> [price |-> NoPrice, from |-> NoPrice], seen |-> NoPrice, at |-> 0, replaces |-> {}]

\* The listing is new, or a price of it is known.
IngestInit ==
    /\ clock = 1
    /\ \/ listing = [price |-> NoPrice, from |-> NoPrice] /\ fact_price = {}
       \/ \E p \in Price : /\ listing = [price |-> p, from |-> NoPrice]
                          /\ fact_price = {[at |-> 1, price |-> p, from |-> NoPrice]}
    /\ ipc = [i \in Ingestor |-> "idle"] /\ ingest = [i \in Ingestor |-> Fresh]
    /\ crossed = FALSE

\* Every stamp is later than the one before.
Stamp == clock < MaxClock /\ clock' = clock + 1

Day(at) == at \div DayLength

\* The row the alerts and the lists of products read: the one scraped last.
Newest(rows) == CHOOSE r \in rows : \A s \in rows : s.at <= r.at

-----------------------------------------------------------------------------
(***************************************************************************)
(* An ingest: the listing is read, a page shows a price, the transaction   *)
(* writes.                                                                 *)
(***************************************************************************)

\* The listing is loaded, by a card scrape before its page is fetched.
Load(i) ==
    /\ ipc[i] = "idle"
    /\ ipc' = [ipc EXCEPT ![i] = "loaded"]
    /\ ingest' = [ingest EXCEPT ![i] = [Fresh EXCEPT !.copy = listing]]
    /\ crossed' = (crossed \/ \E j \in Ingestor \ {i} : ipc[j] # "idle")
    /\ UNCHANGED <<clock, listing, fact_price>>

\* A list page is trusted less: a price too far from the one known is held back.
PriceIsSuspicious(new, last) ==
    /\ last # NoPrice
    /\ \/ new > SUSPICIOUS_PRICE_RATIO * last
       \/ SUSPICIOUS_PRICE_RATIO * new < last

\* The page shows price p, which is stamped: scraped_at is taken before the transaction writes.
See(i, p) ==
    /\ ipc[i] = "loaded"
    /\ i \in ListHarvester => ~PriceIsSuspicious(p, ingest[i].copy.price)
    /\ Stamp
    /\ ipc' = [ipc EXCEPT ![i] = "seen"]
    /\ ingest' = [ingest EXCEPT ![i].seen = p, ![i].at = clock']
    /\ UNCHANGED <<listing, fact_price, crossed>>

\* No price, a suspicious one, or one the firewall refuses: nothing is written.
Reject(i) ==
    /\ ipc[i] = "loaded"
    /\ ipc' = [ipc EXCEPT ![i] = "idle"] /\ ingest' = [ingest EXCEPT ![i] = Fresh]
    /\ UNCHANGED <<clock, listing, fact_price, crossed>>

\* _should_skip_price_record: the price is that of the copy.
Unchanged(i) == ingest[i].seen = ingest[i].copy.price

\* The gate deletes the rows of the day, those committed so far, and inserts.
Insert(i) ==
    /\ ipc[i] = "seen" /\ ~Unchanged(i)
    /\ ipc' = [ipc EXCEPT ![i] = "inserted"]
    /\ ingest' = [ingest EXCEPT ![i].replaces = {r \in fact_price : Day(r.at) = Day(ingest[i].at)}]
    /\ UNCHANGED <<clock, listing, fact_price, crossed>>

\* Mutant: the change is measured again, although no row is written.
CommitNoChangeMeasured(i) ==
    /\ ipc[i] = "seen" /\ Unchanged(i)
    /\ listing' = [price |-> ingest[i].seen, from |-> ingest[i].copy.price]
    /\ ipc' = [ipc EXCEPT ![i] = "idle"] /\ ingest' = [ingest EXCEPT ![i] = Fresh]
    /\ UNCHANGED <<clock, fact_price, crossed>>

\* The price did not change: only the listing is touched, with the price it had in the copy.
CommitNoChange(i) ==
    /\ ipc[i] = "seen" /\ Unchanged(i)
    /\ listing' = [listing EXCEPT !.price = ingest[i].seen]
    /\ ipc' = [ipc EXCEPT ![i] = "idle"] /\ ingest' = [ingest EXCEPT ![i] = Fresh]
    /\ UNCHANGED <<clock, fact_price, crossed>>

\* The row and its copy on the listing become visible together.
CommitPrice(i) ==
    /\ ipc[i] = "inserted"
    /\ LET l == ingest[i]
       IN  /\ fact_price' = (fact_price \ l.replaces) \cup {[at |-> l.at, price |-> l.seen, from |-> l.copy.price]}
           /\ listing' = [price |-> l.seen, from |-> l.copy.price]
    /\ ipc' = [ipc EXCEPT ![i] = "idle"] /\ ingest' = [ingest EXCEPT ![i] = Fresh]
    /\ UNCHANGED <<clock, crossed>>

\* The gate or the commit fails: the transaction is rolled back.
Rollback(i) ==
    /\ ipc[i] \in {"seen", "inserted"}
    /\ ipc' = [ipc EXCEPT ![i] = "idle"] /\ ingest' = [ingest EXCEPT ![i] = Fresh]
    /\ UNCHANGED <<clock, listing, fact_price, crossed>>

Ingest ==
    \E i \in Ingestor :
        \/ Load(i) \/ Reject(i) \/ Insert(i) \/ CommitNoChange(i) \/ CommitPrice(i) \/ Rollback(i)
        \/ \E p \in Price : See(i, p)

-----------------------------------------------------------------------------
IngestTypeOK ==
    LET Known == Price \cup {NoPrice} IN
    /\ clock \in 1..MaxClock
    /\ listing \in [price : Known, from : Known]
    /\ fact_price \subseteq [at : 1..MaxClock, price : Price, from : Known]
    /\ ipc \in [Ingestor -> {"idle", "loaded", "seen", "inserted"}]
    /\ \A i \in Ingestor :
          /\ ingest[i].copy \in [price : Known, from : Known] /\ ingest[i].seen \in Known
          /\ ingest[i].at \in 0..MaxClock /\ ingest[i].replaces \subseteq fact_price \cup [at : 1..MaxClock, price : Price, from : Known]
    /\ crossed \in BOOLEAN

\* What the listing shows of its price is the newest row of its history: the
\* change the lists sort by is the change the alerts read, and the next change
\* is measured from the price recorded last (models/facts.py, "denormalized
\* copy of the latest fact_price"), whatever is refused, rolled back or
\* replaced within a day, as long as no two ingests of the listing cross.
ListingShowsNewest ==
    ~crossed => IF fact_price = {} THEN listing.price = NoPrice
                ELSE LET r == Newest(fact_price) IN listing = [price |-> r.price, from |-> r.from]
=============================================================================
