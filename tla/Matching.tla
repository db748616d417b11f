-------------------------------- MODULE Matching --------------------------------
(***************************************************************************)
(* The matching tick (workers/matching_tasks.py over                       *)
(* modules/matching/engine.py): products of all shops are put into groups, *)
(* by their global number (gtin), by the brand and code in their name, or  *)
(* by their English title.  What identifies a product arrives over time,   *)
(* written by scrapes and by the enrichment, so every tick sweeps for      *)
(* products that can be matched better, merges title groups that are       *)
(* nearly the same, and splits groups whose members carry different types. *)
(*                                                                         *)
(* Beat starts a tick every ten minutes and nothing keeps two of them      *)
(* apart: every pass reads in one transaction, computes, and writes in     *)
(* others, by id.  A step is one query, one committed chunk of writes, or  *)
(* one Redis command.                                                      *)
(*                                                                         *)
(* A group id is a hash of the text it is made from; here it is that text  *)
(* as a tuple, and Smaller is the order of the hashes.                     *)
(***************************************************************************)
EXTENDS Naturals, SequencesExt, FiniteSetsExt

CONSTANTS
    Product,             \* ids of the active products, numbers in the order of the ids
    Gtin, Code,          \* global number and signature of a product, Nothing if it has none
    Given,               \* what is known of a product from the start
    Title, Type,         \* English title and type, numbers in the order of the strings
    Alike,               \* pairs of titles that score TITLE_SIM_THRESHOLD or more
    Smaller(_, _),       \* the order of the group ids
    Ticker,              \* processes that run ticks
    Batch, SweepRows,    \* MATCH_BATCH_SIZE; rows of the sweeps
    Chunk,               \* WRITE_CHUNK_SIZE
    Window,              \* TITLE_MERGE_WINDOW
    MaxFaults            \* bound on failures

Nothing == 0
Facts == {"gtin", "name", "type"}      \* title and type arrive in one write

ASSUME MatchingAssumption ==
    /\ IsFiniteSet(Product) /\ Product \subseteq Nat \ {Nothing}
    /\ {Gtin, Code, Title, Type} \subseteq [Product -> Nat]
    /\ Given \in [Product -> SUBSET Facts]
    /\ \A p \in Product : Title[p] # Nothing => Type[p] # Nothing
    /\ IsFiniteSet(Ticker) /\ {Batch, SweepRows, Chunk, Window} \subseteq Nat \ {0} /\ MaxFaults \in Nat

VARIABLES
    known,          \* what has arrived of each product
    group, method,  \* match_group_id, match_method
    cursor,         \* match:resweep:cursor
    pc, loc,        \* where each tick is, and its locals
    faults          \* counter of a bound

verdicts == <<group, method>>
vars == <<known, verdicts, cursor, pc, loc, faults>>

Methods == {"none", "gtin", "brand_model", "title_exact", "title_sim", "unmatched"}
TitleMethods == {"title_exact", "title_sim"}
NoGroup == <<>>
Same == "same"       \* a column that is not in the payload
NoLocals == [payload |-> <<>>, todo |-> <<>>, page |-> Nothing, redis |-> FALSE, single |-> 0]

Init ==
    /\ known = Given
    /\ group = [p \in Product |-> NoGroup] /\ method = [p \in Product |-> "none"]
    /\ cursor = Nothing
    /\ pc = [t \in Ticker |-> "idle"] /\ loc = [t \in Ticker |-> NoLocals]
    /\ faults = 0

-----------------------------------------------------------------------------
(***************************************************************************)
(* What a query sees of a product, and what it becomes.                    *)
(***************************************************************************)

GtinOf(p) == IF "gtin" \in known[p] THEN Gtin[p] ELSE Nothing
CodeOf(p) == IF "name" \in known[p] THEN Code[p] ELSE Nothing
TypeOf(p) == IF "type" \in known[p] THEN Type[p] ELSE Nothing
TitleOf(p) == IF "type" \in known[p] THEN Title[p] ELSE Nothing

GtinFields(p) == [id |-> p, group |-> <<"gtin", GtinOf(p)>>, method |-> "gtin"]
TitleFields(p) == [id |-> p, group |-> <<"title", TypeOf(p), TitleOf(p)>>, method |-> "title_exact"]

\* build_match_fields: the best method for what is known.
MatchFields(p) ==
    CASE GtinOf(p) # Nothing -> GtinFields(p)
      [] GtinOf(p) = Nothing /\ CodeOf(p) # Nothing ->
            [id |-> p, group |-> <<"code", CodeOf(p)>>, method |-> "brand_model"]
      [] GtinOf(p) = Nothing /\ CodeOf(p) = Nothing /\ TitleOf(p) # Nothing -> TitleFields(p)
      [] OTHER -> [id |-> p, group |-> Same, method |-> "unmatched"]

\* The first n of the products of S, by id.
FirstOf(S, n) ==
    LET sorted == SetToSortSeq(S, <) IN SubSeq(sorted, 1, IF n < Len(sorted) THEN n ELSE Len(sorted))

Pending == FirstOf({p \in Product : method[p] = "none"}, Batch)

\* Mutant: the sweep takes the rows nothing matched only.
GtinSweepUnmatched ==
    FirstOf({p \in Product : GtinOf(p) # Nothing /\ method[p] = "unmatched"}, SweepRows)

\* fetch_gtin_sweep_sync
GtinSweep == FirstOf({p \in Product : GtinOf(p) # Nothing /\ method[p] # "gtin"}, SweepRows)

\* Mutant: the sweep takes merged rows too, to give them their exact group.
TitleSweepMerged ==
    FirstOf({p \in Product : TitleOf(p) # Nothing /\ method[p] \in {"unmatched", "title_sim"}}, SweepRows)

\* fetch_title_sweep_sync
TitleSweep == FirstOf({p \in Product : TitleOf(p) # Nothing /\ method[p] = "unmatched"}, SweepRows)

\* fetch_unmatched_after_sync, from the start again when nothing is left.
ResweepPage(after) == FirstOf({p \in Product : method[p] = "unmatched" /\ p > after}, SweepRows)

-----------------------------------------------------------------------------
(***************************************************************************)
(* Merging title groups: a sorted neighborhood within a type.              *)
(***************************************************************************)

TitleGroups ==
    {[gid |-> group[p], type |-> TypeOf(p),
      rep |-> Min({TitleOf(q) : q \in {r \in Product : /\ method[r] \in TitleMethods
                                                       /\ group[r] = group[p]
                                                       /\ TypeOf(r) = TypeOf(p)}})]
       : p \in {r \in Product : method[r] \in TitleMethods}}

Before(g, h) ==
    \/ g.type < h.type
    \/ g.type = h.type /\ g.rep < h.rep
    \/ g.type = h.type /\ g.rep = h.rep /\ Smaller(g.gid, h.gid)

AlikeTitles(k, l) == k = l \/ {k, l} \in Alike

\* The pairs the scan joins: alike, of one type, and at most Window apart.
Joined ==
    LET groups == TitleGroups
        between(g, h) == {k \in groups : Before(g, k) /\ Before(k, h)}
    IN  {<<g.gid, h.gid>> : <<g, h>> \in
            {<<k, l>> \in groups \X groups :
                /\ Before(k, l) /\ k.type = l.type /\ AlikeTitles(k.rep, l.rep)
                /\ Cardinality(between(k, l)) < Window}}

\* run_title_merge_pass: what is joined, over several pairs too, ends in the
\* smallest of its groups.
Ids(joined) == UNION {{pair[1], pair[2]} : pair \in joined}
Merged(joined, g) ==
    {h \in Ids(joined) : \A S \in SUBSET Ids(joined) :
        g \in S /\ (\A pair \in joined : pair[1] \in S <=> pair[2] \in S) => h \in S}
Winner(joined, g) ==
    CHOOSE h \in Merged(joined, g) : \A k \in Merged(joined, g) \ {h} : Smaller(h, k)

\* The groups that lose, whose members are still to be looked up.
Losers(joined) ==
    {[from |-> g, type |-> Nothing, to |-> Winner(joined, g), method |-> "title_sim"]
       : g \in {h \in Ids(joined) : h # Winner(joined, h)}}

-----------------------------------------------------------------------------
(***************************************************************************)
(* Splitting groups of mixed types.                                        *)
(***************************************************************************)

TypesIn(g) == {TypeOf(p) : p \in {q \in Product : group[q] = g}} \ {Nothing}
CountOf(g, type) == Cardinality({p \in Product : group[p] = g /\ TypeOf(p) = type})
Conflicted == {g \in {group[p] : p \in Product} \ {NoGroup} : Cardinality(TypesIn(g)) > 1}

Dominant(g) ==
    CHOOSE type \in TypesIn(g) : \A u \in TypesIn(g) \ {type} :
        \/ CountOf(g, type) > CountOf(g, u)
        \/ CountOf(g, type) = CountOf(g, u) /\ type < u

\* run_type_split_pass: everything but the dominant type leaves the group.
Minorities ==
    {[from |-> g, type |-> type, to |-> <<"split", g, type>>, method |-> Same]
       : <<g, type>> \in {<<h, u>> \in Conflicted \X Range(Type) : u \in TypesIn(h) \ {Dominant(h)}}}

\* fetch_group_member_ids_sync, _fetch_group_type_member_ids
Members(move) == {p \in Product : group[p] = move.from /\ move.type \in {Nothing, TypeOf(p)}}

-----------------------------------------------------------------------------
(***************************************************************************)
(* The steps of a tick.                                                    *)
(***************************************************************************)

Goto(t, place, l) == pc' = [pc EXCEPT ![t] = place] /\ loc' = [loc EXCEPT ![t] = l]
Queue(l, records) == [l EXCEPT !.payload = @ \o records]

\* Where a tick goes once the writes of a pass are done.
AfterWrites ==
    [write_matches |-> "merge", write_merged |-> "resweep", write_resweep |-> "save_cursor",
     write_split |-> "idle"]

\* write_match_results_sync is called with the payload of l, or has nothing to write.
Write(t, place, l) ==
    Goto(t, IF l.payload = <<>> THEN AfterWrites[place] ELSE place, l)

\* The members of the groups that lose are looked up, if there are any.
LookUp(t, place, otherwise, moves) ==
    IF moves = {} THEN Goto(t, otherwise, NoLocals)
    ELSE Goto(t, place, [NoLocals EXCEPT !.todo = SetToSeq(moves)])

\* run_match_tick begins: fetch_pending_products_sync.
Start(t) ==
    /\ pc[t] = "idle"
    /\ \E rows \in {Pending} :
          Goto(t, "gtin_sweep", Queue(NoLocals, [i \in DOMAIN rows |-> MatchFields(rows[i])]))
    /\ UNCHANGED <<known, verdicts, cursor, faults>>

ReadGtinSweep(t) ==
    /\ pc[t] = "gtin_sweep"
    /\ \E rows \in {GtinSweep} :
          Goto(t, "title_sweep", Queue(loc[t], [i \in DOMAIN rows |-> GtinFields(rows[i])]))
    /\ UNCHANGED <<known, verdicts, cursor, faults>>

ReadTitleSweep(t) ==
    /\ pc[t] = "title_sweep"
    /\ \E rows \in {TitleSweep} :
          Write(t, "write_matches", Queue(loc[t], [i \in DOMAIN rows |-> TitleFields(rows[i])]))
    /\ UNCHANGED <<known, verdicts, cursor, faults>>

ReadTitleGroups(t) ==
    /\ pc[t] = "merge"
    /\ \E joined \in {Joined} :
          LookUp(t, "merge_members", "resweep", Losers(joined))
    /\ UNCHANGED <<known, verdicts, cursor, faults>>

\* The wrapping cycle over unmatched rows: the cursor, a page of rows, the writes, the cursor.
ReadCursor(t) ==
    /\ pc[t] = "resweep"
    /\ \/ Goto(t, "resweep_page", [NoLocals EXCEPT !.page = cursor, !.redis = TRUE]) /\ UNCHANGED faults
       \/ faults < MaxFaults /\ faults' = faults + 1 /\ Goto(t, "resweep_page", NoLocals)
    /\ UNCHANGED <<known, verdicts, cursor>>

ReadPage(t) ==
    /\ pc[t] = "resweep_page"
    /\ LET rows == ResweepPage(loc[t].page)
           better == SelectSeq([i \in DOMAIN rows |-> MatchFields(rows[i])], LAMBDA r : r.method # "unmatched")
       IN  IF rows # <<>> THEN Write(t, "write_resweep", [Queue(loc[t], better) EXCEPT !.page = Last(rows)])
           ELSE IF loc[t].page # Nothing THEN Goto(t, "resweep_page", [loc[t] EXCEPT !.page = Nothing])
           ELSE Goto(t, "split", NoLocals)
    /\ UNCHANGED <<known, verdicts, cursor, faults>>

SaveCursor(t) ==
    /\ pc[t] = "save_cursor"
    /\ \/ cursor' = (IF loc[t].redis THEN loc[t].page ELSE cursor) /\ UNCHANGED faults
       \/ loc[t].redis /\ faults < MaxFaults /\ faults' = faults + 1 /\ UNCHANGED cursor
    /\ Goto(t, "split", NoLocals)
    /\ UNCHANGED <<known, verdicts>>

ReadTypes(t) ==
    /\ pc[t] = "split"
    /\ LookUp(t, "split_members", "idle", Minorities)
    /\ UNCHANGED <<known, verdicts, cursor, faults>>

\* One query per group that is to move; the writes follow the last of them.
ReadMembers(t) ==
    /\ pc[t] \in {"merge_members", "split_members"}
    /\ LET move == Head(loc[t].todo)
           rows == SetToSortSeq(Members(move), <)
           payload == [i \in DOMAIN rows |-> [id |-> rows[i], group |-> move.to, method |-> move.method]]
           l == [Queue(loc[t], payload) EXCEPT !.todo = Tail(@)]
       IN  IF l.todo # <<>> THEN Goto(t, pc[t], l)
           ELSE Write(t, IF pc[t] = "merge_members" THEN "write_merged" ELSE "write_split", l)
    /\ UNCHANGED <<known, verdicts, cursor, faults>>

\* exec_write_records: each record sets the columns it has.
Commit(records) ==
    LET set(v, r) == [group  |-> IF r.group = Same THEN v.group ELSE [v.group EXCEPT ![r.id] = r.group],
                      method |-> IF r.method = Same THEN v.method ELSE [v.method EXCEPT ![r.id] = r.method]]
        written == FoldLeft(set, [group |-> group, method |-> method], records)
    IN  group' = written.group /\ method' = written.method

\* write_match_results_sync: a chunk is one transaction; the records of a chunk
\* that failed are tried by themselves, and one that fails again is left out.
WriteChunk(t) ==
    /\ pc[t] \in DOMAIN AfterWrites
    /\ LET l == loc[t]
           n == IF l.single > 0 THEN 1 ELSE Min({Chunk, Len(l.payload)})
           rest == [l EXCEPT !.payload = SubSeq(@, n + 1, Len(@)), !.single = IF @ > 0 THEN @ - 1 ELSE 0]
           done == IF rest.payload = <<>> THEN Goto(t, AfterWrites[pc[t]], [rest EXCEPT !.single = 0])
                   ELSE Goto(t, pc[t], rest)
       IN  \/ Commit(SubSeq(l.payload, 1, n)) /\ done /\ UNCHANGED faults
           \/ /\ faults < MaxFaults /\ faults' = faults + 1 /\ UNCHANGED verdicts
              /\ IF l.single > 0 THEN done ELSE Goto(t, pc[t], [l EXCEPT !.single = n])
    /\ UNCHANGED <<known, cursor>>

\* An exception, or the end of the process: the message is delivered again or
\* beat sends the next one, and a tick starts over.
Die(t) ==
    /\ pc[t] # "idle" /\ faults < MaxFaults /\ faults' = faults + 1
    /\ Goto(t, "idle", NoLocals)
    /\ UNCHANGED <<known, verdicts, cursor>>

TickStep(t) ==
    \/ Start(t) \/ ReadGtinSweep(t) \/ ReadTitleSweep(t) \/ ReadTitleGroups(t)
    \/ ReadCursor(t) \/ ReadPage(t) \/ SaveCursor(t) \/ ReadTypes(t)
    \/ ReadMembers(t) \/ WriteChunk(t)

-----------------------------------------------------------------------------
(***************************************************************************)
(* What arrives, each at most once: a scrape fills an empty sku_universal  *)
(* (ingestion/service.py) and replaces a name made from the address, the   *)
(* enrichment types a product without a type (enrichment/taxonomy.py).     *)
(***************************************************************************)

ValueOf(fact) == CASE fact = "gtin" -> Gtin [] fact = "name" -> Code [] fact = "type" -> Type

Arrive(p, fact) ==
    /\ fact \notin known[p] /\ ValueOf(fact)[p] # Nothing
    /\ known' = [known EXCEPT ![p] = @ \cup {fact}]
    /\ UNCHANGED <<verdicts, cursor, pc, loc, faults>>

Next ==
    \/ \E t \in Ticker : TickStep(t) \/ Die(t)
    \/ \E p \in Product, fact \in Facts : Arrive(p, fact)

Spec == Init /\ [][Next]_vars

\* Beat goes on sending ticks, and a worker goes on with the one it has.
Fairness == \A t \in Ticker : WF_vars(TickStep(t))
FairSpec == Spec /\ Fairness

-----------------------------------------------------------------------------
(***************************************************************************)
(* Properties.                                                             *)
(***************************************************************************)

\* A gtin that arrives after the product was matched by something weaker, even
\* while ticks overlap and write verdicts they computed before, wins in the end
\* (fetch_gtin_sweep_sync: "A gtin group id always beats a brand_model/title/
\* unmatched verdict").
LateIdentityWins == \A p \in Product : <>[](GtinOf(p) # Nothing => method[p] = "gtin")

\* Once nothing new arrives, the ticks stop moving products, and no group is
\* left with two types (run_title_merge_pass, run_type_split_pass: "repeated
\* passes converge").
GroupsSettle == <>[][FALSE]_verdicts /\ <>[](Conflicted = {})

\* The promise of run_type_split_pass, "a future member of either type lands
\* consistently": in the end, products of one signature and one type are in one
\* group.
SplitConsistent ==
    \A p, q \in Product : <>[](
        /\ method[p] = "brand_model" /\ method[q] = "brand_model"
        /\ CodeOf(p) = CodeOf(q) /\ TypeOf(p) = TypeOf(q) /\ TypeOf(p) # Nothing
        => group[p] = group[q])
=============================================================================
