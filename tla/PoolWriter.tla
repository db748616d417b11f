------------------------------- MODULE PoolWriter -------------------------------
(***************************************************************************)
(* Writers that put discovered URLs into the pool, each a product and its  *)
(* listing, in one transaction per batch                                   *)
(* (modules/discovery/gate_persist.py through persist/writer.py,           *)
(* persist/gate_rpc.py and the gate.* functions of the database).          *)
(*                                                                         *)
(* Shards of one sitemap walk overlap, so writers meet on the same URL.    *)
(* url_hash is unique: an insert waits for the open transaction that has   *)
(* inserted the same URL, and fails once that one has committed.  Writers  *)
(* that wait for each other are a deadlock; the database fails one of the  *)
(* statements.                                                             *)
(***************************************************************************)
EXTENDS Naturals, Sequences, FiniteSets

CONSTANTS
    Writer,      \* batches being written
    Url,         \* product URLs
    Batches,     \* sequences of URLs, without repetition
    Refused,     \* URLs one of whose two records breaks its contract
    Chunk,       \* FAST_WRITE_CHUNK_PAIRS
    MaxFaults    \* bound: refusals by the gate, lost connections

ChunkAssumption == Chunk \in Nat \ {0}
BatchesAssumption == Batches \subseteq Seq(Url)

VARIABLES
    product, listing,        \* committed rows: <<writer, URL>>
    batch, pairs,            \* of a writer: its batch, the signed part of it
    pc, at, i,               \* where it is: its chunk, the pair in it
    inserts,                 \* rows of its transaction: [product, listing]
    save,                    \* the same at its savepoint
    inserted, rejected,      \* its counters
    faults,
    excused                  \* history: URLs the gate refused by a fault

vars == <<product, listing, batch, pairs, pc, at, i, inserts, save,
          inserted, rejected, faults, excused>>

Empty == [product |-> {}, listing |-> {}]

Init ==
    /\ product = {} /\ listing = {}
    /\ batch \in [Writer -> Batches]
    /\ pairs = [w \in Writer |-> <<>>]
    /\ pc = [w \in Writer |-> "evaluate"]
    /\ at = [w \in Writer |-> 1] /\ i = [w \in Writer |-> 1]
    /\ inserts = [w \in Writer |-> Empty] /\ save = [w \in Writer |-> Empty]
    /\ inserted = [w \in Writer |-> 0] /\ rejected = [w \in Writer |-> 0]
    /\ faults = 0 /\ excused = {}

Fault == faults < MaxFaults /\ faults' = faults + 1
Goto(w, to) == pc' = [pc EXCEPT ![w] = to]

-----------------------------------------------------------------------------
(***************************************************************************)
(* The firewall.  Both records of a pair are evaluated before anything is  *)
(* written.                                                                *)
(***************************************************************************)

\* evaluate_market of the product and of the listing.
Signed(u) == u \notin Refused

\* The signed ones of a batch, in their order.
Passed(b) ==
    LET ks == {k \in DOMAIN b : Signed(b[k])}
        orders == {place \in [1..Cardinality(ks) -> ks] :
                      /\ \A m, n \in DOMAIN place : m < n => place[m] < place[n]
                      /\ \A k \in ks : \E n \in DOMAIN place : place[n] = k}
    IN  {[n \in DOMAIN place |-> b[place[n]]] : place \in orders}

\* _evaluate_pairs; without a signing secret nothing passes.
Evaluate(w) ==
    /\ pc[w] = "evaluate"
    /\ \/ /\ \E passed \in Passed(batch[w]) : pairs' = [pairs EXCEPT ![w] = passed]
          /\ UNCHANGED <<faults, excused>>
       \/ /\ pairs' = [pairs EXCEPT ![w] = <<>>] /\ Fault
          /\ excused' = excused \cup {batch[w][k] : k \in DOMAIN batch[w]}
    /\ rejected' = [rejected EXCEPT ![w] = Len(batch[w]) - Len(pairs'[w])]
    /\ Goto(w, "chunk")
    /\ UNCHANGED <<product, listing, batch, at, i, inserts, save, inserted>>

-----------------------------------------------------------------------------
(***************************************************************************)
(* The unique index on url_hash.                                           *)
(***************************************************************************)
Inserting(w) == pc[w] \in {"listings", "slow listing"}
Wanted(w) == pairs[w][i[w]]

\* Some committed row has the URL, or one of the transaction itself.
Taken(w) == (\E v \in Writer : <<v, Wanted(w)>> \in listing) \/ Wanted(w) \in inserts[w].listing

\* Another open transaction has inserted it.
BlockedBy(w, v) == v # w /\ Inserting(w) /\ Wanted(w) \in inserts[v].listing
Free(w) == ~Taken(w) /\ \A v \in Writer : ~BlockedBy(w, v)

\* w waits for itself over one or two others.
Deadlocked(w) ==
    \E v \in Writer :
        /\ BlockedBy(w, v)
        /\ BlockedBy(v, w) \/ \E x \in Writer : BlockedBy(v, x) /\ BlockedBy(x, w)

\* What makes the insert of a listing fail: its URL, a deadlock, or the gate.
Fails(w) ==
    \/ (Taken(w) \/ Deadlocked(w)) /\ UNCHANGED <<faults, excused>>
    \/ Fault /\ excused' = IF pc[w] = "slow listing" THEN excused \cup {Wanted(w)} ELSE excused

-----------------------------------------------------------------------------
(***************************************************************************)
(* The fast path: the products of a chunk, then its listings.              *)
(***************************************************************************)
ChunkEnd(w) == IF at[w] + Chunk - 1 < Len(pairs[w]) THEN at[w] + Chunk - 1 ELSE Len(pairs[w])

ChunkUrls(w) == {pairs[w][k] : k \in at[w]..ChunkEnd(w)}

\* exec_write_rows of the products, behind a savepoint: their ids are new.
FastProducts(w) ==
    /\ pc[w] = "chunk" /\ at[w] <= Len(pairs[w])
    /\ save' = [save EXCEPT ![w] = inserts[w]]
    /\ inserts' = [inserts EXCEPT ![w].product = @ \cup ChunkUrls(w)]
    /\ i' = [i EXCEPT ![w] = at[w]]
    /\ Goto(w, "listings")
    /\ UNCHANGED <<product, listing, batch, pairs, at, inserted, rejected, faults, excused>>

\* One row of the INSERT of the listings; the savepoint is released after the last.
FastListing(w) ==
    /\ pc[w] = "listings" /\ Free(w)
    /\ inserts' = [inserts EXCEPT ![w].listing = @ \cup {Wanted(w)}]
    /\ IF i[w] = ChunkEnd(w)
       THEN /\ inserted' = [inserted EXCEPT ![w] = @ + ChunkEnd(w) - at[w] + 1]
            /\ at' = [at EXCEPT ![w] = ChunkEnd(w) + 1]
            /\ Goto(w, "chunk") /\ UNCHANGED i
       ELSE i' = [i EXCEPT ![w] = @ + 1] /\ UNCHANGED <<inserted, at, pc>>
    /\ UNCHANGED <<product, listing, batch, pairs, save, rejected, faults, excused>>

\* Mutant: only the listings of the failed chunk are taken back.
KeepProducts(w) == [inserts[w] EXCEPT !.listing = save[w].listing]

RollBack(w) == save[w]

\* Mutant: pair by pair from the pair that failed.
FastRefusedHere(w) ==
    /\ pc[w] = "listings" /\ Fails(w)
    /\ inserts' = [inserts EXCEPT ![w] = RollBack(w)]
    /\ Goto(w, "slow")
    /\ UNCHANGED <<product, listing, batch, pairs, at, i, save, inserted, rejected>>

\* The chunk is refused as a set: back to the savepoint, then pair by pair.
FastRefused(w) ==
    /\ pc[w] = "listings" /\ Fails(w)
    /\ inserts' = [inserts EXCEPT ![w] = RollBack(w)]
    /\ i' = [i EXCEPT ![w] = at[w]]
    /\ Goto(w, "slow")
    /\ UNCHANGED <<product, listing, batch, pairs, at, save, inserted, rejected>>

-----------------------------------------------------------------------------
(***************************************************************************)
(* The slow path: each pair of the chunk behind a savepoint of its own.    *)
(***************************************************************************)
SlowProduct(w) ==
    /\ pc[w] = "slow"
    /\ save' = [save EXCEPT ![w] = inserts[w]]
    /\ inserts' = [inserts EXCEPT ![w].product = @ \cup {Wanted(w)}]
    /\ Goto(w, "slow listing")
    /\ UNCHANGED <<product, listing, batch, pairs, at, i, inserted, rejected, faults, excused>>

\* The next pair, or the next chunk.
NextPair(w) ==
    IF i[w] = ChunkEnd(w)
    THEN at' = [at EXCEPT ![w] = ChunkEnd(w) + 1] /\ Goto(w, "chunk") /\ UNCHANGED i
    ELSE i' = [i EXCEPT ![w] = @ + 1] /\ Goto(w, "slow") /\ UNCHANGED at

SlowListing(w) ==
    /\ pc[w] = "slow listing" /\ Free(w)
    /\ inserts' = [inserts EXCEPT ![w].listing = @ \cup {Wanted(w)}]
    /\ inserted' = [inserted EXCEPT ![w] = @ + 1]
    /\ NextPair(w)
    /\ UNCHANGED <<product, listing, batch, pairs, save, rejected, faults, excused>>

\* A pair refused one by one is a rejected pair.
SlowRefused(w) ==
    /\ pc[w] = "slow listing" /\ Fails(w)
    /\ inserts' = [inserts EXCEPT ![w] = RollBack(w)]
    /\ rejected' = [rejected EXCEPT ![w] = @ + 1]
    /\ NextPair(w)
    /\ UNCHANGED <<product, listing, batch, pairs, save, inserted>>

-----------------------------------------------------------------------------
Rows(w, urls) == {<<w, u>> : u \in urls}

\* One commit for the batch.
Commit(w) ==
    /\ pc[w] = "chunk" /\ at[w] > Len(pairs[w])
    /\ product' = product \cup Rows(w, inserts[w].product)
    /\ listing' = listing \cup Rows(w, inserts[w].listing)
    /\ inserts' = [inserts EXCEPT ![w] = Empty]
    /\ save' = [save EXCEPT ![w] = Empty]
    /\ Goto(w, "committed")
    /\ UNCHANGED <<batch, pairs, at, i, inserted, rejected, faults, excused>>

\* Any other exception, a lost connection, a dead worker: nothing is kept.
Abort(w) ==
    /\ pc[w] \notin {"committed", "raised"} /\ Fault
    /\ inserts' = [inserts EXCEPT ![w] = Empty]
    /\ save' = [save EXCEPT ![w] = Empty]
    /\ Goto(w, "raised")
    /\ UNCHANGED <<product, listing, batch, pairs, at, i, inserted, rejected, excused>>

Step(w) ==
    \/ Evaluate(w)
    \/ FastProducts(w) \/ FastListing(w) \/ FastRefused(w)
    \/ SlowProduct(w) \/ SlowListing(w) \/ SlowRefused(w)
    \/ Commit(w) \/ Abort(w)

Next == \E w \in Writer : Step(w)

Spec == Init /\ [][Next]_vars

-----------------------------------------------------------------------------
PCs == {"evaluate", "chunk", "listings", "slow", "slow listing", "committed", "raised"}

TypeOK ==
    /\ product \subseteq Writer \X Url /\ listing \subseteq Writer \X Url
    /\ batch \in [Writer -> Seq(Url)] /\ pairs \in [Writer -> Seq(Url)]
    /\ pc \in [Writer -> PCs]
    /\ at \in [Writer -> Nat \ {0}] /\ i \in [Writer -> Nat \ {0}]
    /\ inserts \in [Writer -> [product : SUBSET Url, listing : SUBSET Url]]
    /\ save \in [Writer -> [product : SUBSET Url, listing : SUBSET Url]]
    /\ inserted \in [Writer -> Nat] /\ rejected \in [Writer -> Nat]
    /\ faults \in 0..MaxFaults /\ excused \subseteq Url

\* Every product has its listing, whatever chunk or pair was refused and
\* rolled back ("a rejected listing can never leave an orphan dim_product
\* behind", _evaluate_pairs; the savepoints of write_pool_dtos_sync).
NoOrphan == product = listing

\* What a batch reports is what it left in the database: rows inserted, and
\* every other pair of it rejected (PoolWriteResult).
CountsTrue ==
    \A w \in Writer : pc[w] = "committed" =>
        /\ inserted[w] = Cardinality({r \in listing : r[1] = w})
        /\ inserted[w] + rejected[w] = Len(batch[w])

\* Shards that overlap lose no URL between them: when the writers are
\* through, a valid URL of a committed batch is in the pool, though a
\* deadlock or a duplicate made its own writer reject it (_write_pair_slow).
NothingLost ==
    (\A v \in Writer : pc[v] = "committed") =>
        \A w \in Writer : \A k \in DOMAIN batch[w] :
            \/ ~Signed(batch[w][k])
            \/ batch[w][k] \in excused
            \/ \E v \in Writer : <<v, batch[w][k]>> \in listing
=============================================================================
